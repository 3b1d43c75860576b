---------------------------- MODULE Recorder ----------------------------
(***************************************************************************)
(* Recording one VkCommandBuffer: the entry points of                      *)
(* panvk_v9_entrypoints.c that bind state and that record draws,           *)
(* dispatches and passes into its v9 command buffer (CmdBuffer).           *)
(*                                                                         *)
(* The application binds pipelines from small sets and, for each, the      *)
(* descriptors and vertex buffers it uses.  Vertex and index addresses,    *)
(* viewports, scissors and dynamic state reach no block of the job memory  *)
(* that something else shares, and are left out.                           *)
(***************************************************************************)
EXTENDS CmdBuffer

CONSTANTS
  Graphics,   \* graphics pipelines: [ubos, textures, vs, fs, push, discard]
  Compute,    \* compute pipelines: [ssbos, textures, cs, push]
  Passes,     \* render passes: [area, image], either of them None
  None,       \* NULL
  MaxWork,    \* draws and dispatches into one v9 command buffer
  MaxFaults   \* allocations that fail while it is recorded

ASSUME PipelinesAssumption ==
  /\ None \notin Graphics \cup Compute
  /\ \A p \in Graphics : {p.ubos, p.textures, p.vs, p.fs} \subseteq Nat
  /\ \A p \in Compute : {p.ssbos, p.textures, p.cs} \subseteq Nat

\* Vulkan's rules for a pass: its area is not empty and lies in its image.
Sizes == (Nat \ {0}) \X (Nat \ {0})
ASSUME PassesAssumption ==
  \A pass \in Passes :
    /\ pass.area # None => pass.area \in Sizes
    /\ pass.image # None => pass.image \in Sizes
    /\ pass.area # None /\ pass.image # None =>
         pass.area[1] <= pass.image[1] /\ pass.area[2] <= pass.image[2]

ASSUME BoundsAssumption == MaxWork \in Nat /\ MaxFaults \in Nat

VARIABLES
  gp,      \* commandBuffer->graphics_pipeline
  v9,      \* commandBuffer->v9_cmd
  work,    \* history: draws and dispatches into v9
  faults,  \* history: allocations that failed since v9 was created
  log      \* history: what the application recorded into v9

recording == <<gp, v9, work, faults, log>>

\* The last draw and the last dispatch, which of the two came last, whether all their
\* shaders were compiled and stored, and what created v9.
Log(creator) ==
  [draw |-> Zero, dispatch |-> Zero, latest |-> "none", whole |-> FALSE, creator |-> creator]

RecordInit ==
  /\ gp = None /\ v9 = None
  /\ work = 0 /\ faults = 0 /\ log = Log("nobody")

\* A v9 command buffer takes the place of the one there is, if c is not None.
Renew(c, creator) ==
  /\ v9' = c
  /\ log' = Log(IF c = None THEN "nobody" ELSE creator)
  /\ work' = 0 /\ faults' = 0

\* A pass that goes on with the command buffer of another starts without draws.
Reused == [log EXCEPT !.creator = IF @ = "pass" THEN "reused" ELSE @,
                      !.latest  = IF @ = "draw" THEN "none" ELSE @]

\* The outcome of an allocation for v9.
Allocated(ok) == (~ok => faults < MaxFaults) /\ faults' = faults + (IF ok THEN 0 ELSE 1)

------------------------------------------------------------------------
\* vkBeginCommandBuffer forgets what is bound, and keeps v9_cmd.
BeginCommandBuffer ==
  /\ gp' = None
  /\ UNCHANGED <<v9, work, faults, log>>

\* vkResetCommandBuffer, vkFreeCommandBuffers.
ResetCommandBuffer == gp' = None /\ Renew(None, "nobody")

\* vkCmdBindPipeline and vkCmdPushConstants are part of the draw or dispatch they are
\* for.  What is bound for graphics stays and is read by a later dispatch.
\* apply_textures and apply_samplers take the graphics pipeline's layout if one is
\* bound, also for a dispatch.
TextureLayout(g, p) == IF g # None THEN g ELSE p

ApplyTextures(c, n, p) == SetSamplers(SetTextures(c, n, p, p.textures), n, p, p.textures)

\* The shaders of the pipeline that were compiled; failing is the stage whose BO cannot
\* grow, or "none".
ApplyShaders(c, n, p, failing) ==
  LET withVs == IF p.vs # 0 THEN SetVertexShader(c, n, p, failing # "vs") ELSE c
  IN IF p.fs # 0 THEN SetFragmentShader(withVs, n, p, failing # "fs") ELSE withVs

\* Mutant of DrawInto: the attributes are applied before the uniform buffers, whose
\* table clears theirs.
DrawIntoReordered(c, n, p, failing) ==
  LET bound  == ApplyTextures(SetUbos(SetAttributes(c, n, p), n, p, p.ubos), n, p)
      shaded == ApplyShaders(bound, n, p, failing)
  IN DrawIndexed(IF p.push THEN SetPushConstants(shaded, n, p) ELSE shaded, By(n, p))

\* The body that vkCmdDraw, vkCmdDrawIndexed and the indirect draws share.
DrawInto(c, n, p, failing) ==
  LET bound  == SetAttributes(ApplyTextures(SetUbos(c, n, p, p.ubos), n, p), n, p)
      shaded == ApplyShaders(bound, n, p, failing)
  IN DrawIndexed(IF p.push THEN SetPushConstants(shaded, n, p) ELSE shaded, By(n, p))

\* A draw with its pipeline, and its push constants if the pipeline has some.
Draw ==
  /\ work < MaxWork /\ v9 # None
  /\ \E p \in Graphics, failing \in {"none", "vs", "fs"} :
       /\ ~p.discard
       /\ failing = "vs" => p.vs # 0 /\ Grows(v9.bo.vs, p.vs)
       /\ failing = "fs" => p.fs > v9.bo.fs
       /\ Allocated(failing = "none")
       /\ gp' = p
       /\ v9' = DrawInto(v9, work + 1, p, failing)
       /\ log' = [log EXCEPT !.draw = By(work + 1, p), !.latest = "draw",
                             !.whole = failing = "none" /\ p.vs # 0 /\ p.fs # 0]
  /\ work' = work + 1

\* The body of the dispatches; vkCmdDispatchBase leaves the textures alone.
DispatchInto(c, n, p, textured, ok) ==
  LET buffers == SetSsbos(c, n, p, p.ssbos)
      bound   == IF textured THEN ApplyTextures(buffers, n, TextureLayout(gp, p)) ELSE buffers
      shaded  == IF p.cs # 0 THEN SetComputeShader(bound, n, p, ok) ELSE bound
  IN Dispatch(shaded, By(n, p))

\* vkCmdDispatch, vkCmdDispatchIndirect and vkCmdDispatchBase make a 300x300 command
\* buffer if there is none; if that fails they do nothing.
DispatchWork ==
  /\ work < MaxWork
  /\ \E p \in Compute, textured, ok \in BOOLEAN :
       LET fresh == v9 = None
           c     == IF fresh THEN Begin(Create(<<300, 300>>)) ELSE v9
       IN /\ ~ok => Grows(c.bo.cs, p.cs)
          /\ Allocated(ok)
          /\ v9' = DispatchInto(c, work + 1, p, textured, ok)
          /\ log' = [(IF fresh THEN Log("dispatch") ELSE log) EXCEPT
                       !.dispatch = By(work + 1, p), !.latest = "dispatch",
                       !.whole = ok /\ p.cs # 0 /\ (textured \/ p.textures = 0)
                                 /\ TextureLayout(gp, p) = p]
  /\ work' = work + 1
  /\ UNCHANGED gp

\* Without an area the frame is as large as the image (the framebuffer).
Extent(pass) ==
  IF pass.area # None THEN pass.area
  ELSE IF pass.image # None THEN pass.image ELSE <<300, 300>>

Aimed(c, pass) == IF pass.image = None THEN c ELSE SetRenderTarget(c, pass.image)

\* Mutant of BeginRenderPass: the command buffer is kept if it has a draw.
BeginRenderPassKeeps ==
  \E pass \in Passes, created \in BOOLEAN :
    /\ IF v9 # None /\ (v9.compute \/ v9.draw)
       THEN /\ created
            /\ v9' = Aimed(UpdateConfig(v9, Extent(pass)), pass)
            /\ UNCHANGED <<work, faults, log>>
       ELSE Renew(IF created THEN Aimed(Begin(Create(Extent(pass))), pass) ELSE None, "pass")
    /\ UNCHANGED gp

\* vkCmdBeginRenderPass: a new command buffer, unless the old one has a dispatch.  The
\* old one is destroyed first, whether or not the new one can be created.
BeginRenderPass ==
  \E pass \in Passes, created \in BOOLEAN :
    /\ IF v9 # None /\ v9.compute
       THEN /\ created
            /\ v9' = Aimed(UpdateConfig(v9, Extent(pass)), pass)
            /\ log' = Reused
            /\ UNCHANGED <<work, faults>>
       ELSE Renew(IF created THEN Aimed(Begin(Create(Extent(pass))), pass) ELSE None, "pass")
    /\ UNCHANGED gp

\* vkCmdBeginRendering uses the command buffer it finds, at its old size, and does
\* nothing for a pass without a colour image.
BeginRendering ==
  \E pass \in Passes :
    /\ pass.image # None
    /\ IF v9 # None
       THEN /\ v9' = SetRenderTarget(v9, pass.image)
            /\ log' = Reused
            /\ UNCHANGED <<work, faults>>
       ELSE Renew(Aimed(Begin(Create(Extent(pass))), pass), "pass")
    /\ UNCHANGED gp

\* vkCmdEndRenderPass packs the fragment job, as every submit does again, and
\* vkCmdEndRendering changes nothing that is modelled.
Record ==
  \/ BeginCommandBuffer \/ ResetCommandBuffer
  \/ Draw \/ DispatchWork
  \/ BeginRenderPass \/ BeginRendering

==========================================================================
