--------------------------- MODULE Swapchain ---------------------------
(***************************************************************************)
(* The swapchain (panvk_v9_entrypoints.c): images are handed out in turn,  *)
(* without a look at which of them the application still holds, and        *)
(* presenting copies the image's pixels to the window at once.             *)
(***************************************************************************)
EXTENDS Naturals, Sequences, SequencesExt

CONSTANTS
  Counts,  \* how many images a swapchain may have
  Wrap,    \* next_image counts modulo this: 2^32
  Frames,  \* bound: frames that can be told apart
  MaxHeld  \* bound: images acquired at a time

ASSUME CountsAssumption == Counts \subseteq Nat \ {0}
ASSUME WrapAssumption == Wrap \in Nat \ {0} /\ Frames \in Nat \ {0} /\ MaxHeld \in Nat

VARIABLES
  count,    \* image_count, 0 without a swapchain
  next,     \* next_image
  pixels,   \* per image the frame that is in its BO
  held,     \* images acquired and not presented, in the order they were acquired:
            \* [image, frame], frame 0 until the application has rendered it; an image
            \* may be in it twice
  window,   \* the frame that is seen, the one its present was for, and regular then
  frame,    \* the frame rendered last
  regular   \* history: since none was held images were given back in the order in which
            \* they were acquired, none was acquired with all of them held, and next_image
            \* did not wrap round

swapchain == <<count, next, pixels, held, window, frame, regular>>

NoWindow == [seen |-> 0, presented |-> 0, regular |-> TRUE]

SwapchainInit ==
  /\ count = 0 /\ next = 0 /\ pixels = <<>> /\ held = <<>>
  /\ window = NoWindow /\ frame = 0 /\ regular = TRUE

\* vkCreateSwapchainKHR; a BO that cannot be had undoes it all.
CreateSwapchain ==
  /\ count = 0
  /\ \E n \in Counts, ok \in BOOLEAN :
       IF ok THEN count' = n /\ pixels' = [i \in 0..n - 1 |-> 0] ELSE UNCHANGED <<count, pixels>>
  /\ next' = 0 /\ held' = <<>> /\ regular' = TRUE /\ window' = NoWindow
  /\ UNCHANGED frame

\* vkDestroySwapchainKHR.
DestroySwapchain ==
  /\ count > 0 /\ count' = 0 /\ pixels' = <<>> /\ held' = <<>>
  /\ UNCHANGED <<next, window, frame, regular>>

\* Mutant of Acquire: the last image is left out.
AcquireOneLess ==
  /\ count > 0 /\ Len(held) < MaxHeld
  /\ held' = Append(held, [image |-> IF count = 1 THEN 0 ELSE next % (count - 1), frame |-> 0])
  /\ next' = (next + 1) % Wrap
  /\ regular' = ((held = <<>> \/ regular) /\ Len(held) < count /\ next' # 0)
  /\ UNCHANGED <<count, pixels, window, frame>>

\* vkAcquireNextImageKHR: the next image, whether or not it is held.
Acquire ==
  /\ count > 0 /\ Len(held) < MaxHeld
  /\ held' = Append(held, [image |-> next % count, frame |-> 0])
  /\ next' = (next + 1) % Wrap
  /\ regular' = ((held = <<>> \/ regular) /\ Len(held) < count /\ next' # 0)
  /\ UNCHANGED <<count, pixels, window, frame>>

\* A submit renders to a held image; it is done when the submit returns.
Render ==
  /\ frame' = (frame % Frames) + 1
  /\ \E k \in DOMAIN held :
       /\ held' = [held EXCEPT ![k].frame = frame']
       /\ pixels' = [pixels EXCEPT ![held[k].image] = frame']
  /\ UNCHANGED <<count, next, window, regular>>

\* vkQueuePresentKHR.
Present ==
  /\ \E k \in DOMAIN held :
       /\ held[k].frame # 0
       /\ window' = [seen |-> pixels[held[k].image], presented |-> held[k].frame,
                     regular |-> regular]
       /\ held' = RemoveAt(held, k)
       /\ regular' = (regular /\ k = 1)
  /\ UNCHANGED <<count, next, pixels, frame>>

\* vkReleaseSwapchainImagesEXT says yes and does nothing.
Release ==
  /\ \E k \in DOMAIN held : held' = RemoveAt(held, k) /\ regular' = (regular /\ k = 1)
  /\ UNCHANGED <<count, next, pixels, window, frame>>

SwapchainNext ==
  \/ CreateSwapchain \/ DestroySwapchain \/ Acquire \/ Render \/ Present \/ Release

------------------------------------------------------------------------
SwapchainTypeOK ==
  /\ count \in Counts \cup {0} /\ next \in 0..Wrap - 1
  /\ DOMAIN pixels = IF count = 0 THEN {} ELSE 0..count - 1
  /\ \A k \in DOMAIN held : held[k].image \in 0..count - 1 /\ held[k].frame \in 0..Frames
  /\ frame \in 0..Frames /\ regular \in BOOLEAN
  /\ window \in [seen : 0..Frames, presented : 0..Frames, regular : BOOLEAN]

\* "so every image is always free": the window shows the frame that was rendered for the
\* present, none that was drawn over it through another acquire, and no image is held
\* twice; that takes an application that, from holding none on, gives images back in the
\* order in which it acquired them and acquires none while it holds them all, and a
\* counter that does not wrap round meanwhile.
SeenIsPresented ==
  /\ window.regular => window.seen = window.presented
  /\ regular => \A j, k \in DOMAIN held : j # k => held[j].image # held[k].image

========================================================================
