--------------------------- MODULE MCObjects ---------------------------
(* The parts of panvk_v9_entrypoints.c that share no state, each in behaviours of its     *)
(* own.  Set layouts: one with a variable binding at the end, one with it in front, as    *)
(* many descriptors as the tables have entries.  Images: mip levels and layers with rows  *)
(* that are padded, one that fills whole tiles, one of bytes with depth, one that is      *)
(* wider than 4096.                                                                       *)
EXTENDS CompilerGuard, Descriptors, ImageMemory, Swapchain, Watchdog

VARIABLE part  \* the part that moves

objects == <<guard, descriptors, memory, swapchain, watchdog, part>>

MCGraphics == {<<"vs", "fs">>, <<"fs", "vs">>}

Binding(n, t, c) == [number |-> n, type |-> t, count |-> c]
MCLayouts ==
  <<[bindings |-> <<Binding(0, "ubo", 1), Binding(1, "ubo", 1), Binding(2, "image", 3)>>,
     variable |-> 3],
    [bindings |-> <<Binding(1, "ubo", 2), Binding(0, "image", 2)>>, variable |-> 1],
    [bindings |-> <<Binding(0, "image", 1)>>, variable |-> 0]>>

Image(w, h, d, mips, layers, bpp, flat) ==
  [w |-> w, h |-> h, d |-> d, mips |-> mips, layers |-> layers, bpp |-> bpp, flat |-> flat]
MCImages ==
  {Image(20, 6, 1, 3, 2, 4, FALSE), Image(16, 16, 1, 1, 1, 4, FALSE),
   Image(8, 5, 4, 2, 1, 1, FALSE), Image(4100, 1, 1, 2, 2, 16, TRUE)}

Init ==
  /\ GuardInit /\ DescriptorInit /\ MemoryInit /\ SwapchainInit /\ WatchdogInit
  /\ part \in {"guard", "descriptors", "memory", "swapchain", "watchdog"}
  /\ required => part = "guard"

Next ==
  /\ UNCHANGED part
  /\ \/ /\ part = "guard" /\ GuardNext
        /\ UNCHANGED <<descriptors, memory, swapchain, watchdog>>
     \/ /\ part = "descriptors" /\ DescriptorNext
        /\ UNCHANGED <<guard, memory, swapchain, watchdog>>
     \/ /\ part = "memory" /\ MemoryNext
        /\ UNCHANGED <<guard, descriptors, swapchain, watchdog>>
     \/ /\ part = "swapchain" /\ SwapchainNext
        /\ UNCHANGED <<guard, descriptors, memory, watchdog>>
     \/ /\ part = "watchdog" /\ WatchdogNext
        /\ UNCHANGED <<guard, descriptors, memory, swapchain>>

Spec == Init /\ [][Next]_objects /\ GuardFairness

\* The variables of every part have their types.
ObjectsTypeOK ==
  /\ GuardTypeOK /\ DescriptorTypeOK /\ MemoryTypeOK /\ SwapchainTypeOK /\ WatchdogTypeOK

========================================================================
