--------------------------- MODULE CmdBuffer ---------------------------
(***************************************************************************)
(* struct v9_cmd_buffer and the functions of v9_cmd_stream.c that record   *)
(* into it, as operators from a command buffer to a command buffer.  The   *)
(* job memory of a slot holds, block by block, which operation wrote it.   *)
(* A command buffer has one tiler job, one fragment job and one compute    *)
(* job: a second draw or dispatch overwrites the first.                    *)
(*                                                                         *)
(* An operation is a number; a pipeline is a record of what the shaders    *)
(* use: ubos, ssbos, textures (each with its sampler), the sizes of the    *)
(* binaries vs, fs, cs (0: not compiled), and push (push constants).       *)
(***************************************************************************)
EXTENDS JobMemory

\* What a block holds: nothing, a descriptor that depends on nothing, one that depends
\* on the frame's size, a render target, or the data of operation n of a pipeline.
Zero         == <<>>
Static       == <<"static">>
Sized(size)  == <<"sized", size>>
Target(size) == <<"target", size>>
By(n, p)     == <<n, p>>

\* A shader BO: none, its size, or a pointer to one that was freed.
Absent   == 0
Dangling == -1

Put(c, blocks, x) ==
  [c EXCEPT !.mem[c.slot] = [b \in Blocks |-> IF b \in blocks THEN x ELSE @[b]]]

Wipe(c, bytes) == Put(c, Wiped(bytes), Zero)

\* v9_slot_repoint: the slot brings its own colour BO.
Repoint(c, slot) == [c EXCEPT !.slot = slot, !.target = "own"]

\* v9_slot_pack_static: all that does not depend on what is bound.
PackStatic(c) ==
  LET unsized == Put(c, {"blend", "tls", "depth", "sp", "heap", "sampleloc", "dcd", "flush", "idx"},
                     Static)
  IN Put(Put(unsized, {"ctx", "mfbd", "pos"}, Sized(c.config)), {"rt0"}, Target(c.config))

\* v9_cmd_buffer_create, when every allocation succeeds (else NULL, everything freed).
Create(size) ==
  PackStatic([config |-> size, own |-> size, target |-> "own", slot |-> 0, rendered |-> FALSE,
              draw |-> FALSE, compute |-> FALSE, vs |-> FALSE, cs |-> FALSE, push |-> {},
              bo |-> [vs |-> Absent, fs |-> 1, cs |-> Absent],
              mem |-> [s \in {0, 1} |-> [b \in Blocks |-> Zero]]])

\* v9_cmd_buffer_begin.
Begin(c) ==
  LET packed  == PackStatic(Repoint(c, IF c.rendered THEN 1 - c.slot ELSE c.slot))
      cleared == Put(Put(packed, {"tiler"}, Zero), {"flush"}, Static)
  IN Put(Wipe(cleared, BeginClear(c.config[1], c.config[2])), {"frag"}, Zero)

UpdateConfig(c, size) == [c EXCEPT !.config = size]

\* v9_cmd_buffer_set_render_target: an external image of that size.
SetRenderTarget(c, size) == Put([c EXCEPT !.target = size], {"rt0"}, Target(size))

------------------------------------------------------------------------
\* Every table has room for eight entries.  k is one more than the highest index at which
\* the application wrote a descriptor, of the eight it has written at most that an apply_
\* function collects.  With an index too high the function returns -E2BIG before it has
\* written anything, and its caller goes on: the table of an earlier draw stays.
Entries == 8

\* A table is cleared and k of its entries are written; the resource table gets an entry
\* when there is one.
SetTable(c, n, p, k, entry, tables) ==
  LET filled == Put(c, tables, IF k = 0 THEN Zero ELSE By(n, p))
  IN IF k = 0 THEN filled ELSE Put(filled, {entry}, By(n, p))

\* v9_cmd_buffer_set_ubos clears the whole resource table.
SetUbos(c, n, p, k) ==
  LET cleared == Put(c, {"ubo01", "ubo27", "res0", "res1", "res2", "res3", "res4"}, Zero)
      long    == Put(cleared, IF k > 2 THEN {"ubo27"} ELSE {}, By(n, p))
  IN IF k > Entries THEN c ELSE SetTable(long, n, p, k, "res0", {"ubo01"})

\* v9_cmd_buffer_set_ssbos: eight entries are cleared, the last two are the flush job.
SetSsbos(c, n, p, k) ==
  LET cleared == Put(c, {"ubo27", "flush"}, Zero)
      long    == Put(cleared, IF k > 6 THEN {"flush"} ELSE {}, By(n, p))
  IN IF k > Entries THEN c ELSE SetTable(long, n, p, k, "res1", {"ubo27"})

\* v9_cmd_buffer_set_textures and v9_cmd_buffer_set_samplers.
SetTextures(c, n, p, k) ==
  IF k > Entries THEN c ELSE SetTable(c, n, p, k, "res3", {"textures", "payload"})

SetSamplers(c, n, p, k) ==
  IF k > Entries THEN c ELSE SetTable(c, n, p, k, "res4", {"samplers"})

\* v9_cmd_buffer_set_attributes; its caller always passes at least one.
SetAttributes(c, n, p) == Put(c, {"attrs", "res1", "res2"}, By(n, p))

\* Growth of a BO that is freed before the new one is allocated (vertex and compute
\* shaders): ok is the outcome of the allocation, if there is one.
Grows(bo, size) == bo # Dangling /\ size > bo

GrowFreeFirst(bo, size, ok) ==
  IF ~Grows(bo, size) THEN bo ELSE IF ok THEN size ELSE IF bo = Absent THEN Absent ELSE Dangling

\* Mutant of GrowAllocFirst: as for the other stages.
GrowFreeFirstFs(bo, size, ok) == GrowFreeFirst(bo, size, ok)

\* The fragment shader's BO is freed once its successor exists.
GrowAllocFirst(bo, size, ok) == IF size > bo /\ ok THEN size ELSE bo

Pushes(c, stage, p) == [c EXCEPT !.push = IF p.push THEN @ \cup {stage} ELSE @ \ {stage}]

\* v9_cmd_buffer_set_vertex_shader; -ENOMEM leaves all but the BO as it was.
SetVertexShader(c, n, p, ok) ==
  LET grown == [c EXCEPT !.bo.vs = GrowFreeFirst(@, p.vs, ok)]
  IN IF Grows(c.bo.vs, p.vs) /\ ~ok THEN grown
     ELSE [Put(Pushes(grown, "vs", p), {"sp_vertex", "fau_vs"}, By(n, p)) EXCEPT !.vs = TRUE]

\* v9_cmd_buffer_set_fragment_shader.
SetFragmentShader(c, n, p, ok) ==
  LET grown == [c EXCEPT !.bo.fs = GrowAllocFirst(@, p.fs, ok)]
  IN IF p.fs > c.bo.fs /\ ~ok THEN grown
     ELSE Put(Pushes(grown, "fs", p), {"sp", "fau_fs"}, By(n, p))

\* v9_cmd_buffer_set_compute_shader.
SetComputeShader(c, n, p, ok) ==
  LET grown == [c EXCEPT !.bo.cs = GrowFreeFirst(@, p.cs, ok)]
  IN IF Grows(c.bo.cs, p.cs) /\ ~ok THEN grown
     ELSE [Put(Pushes(grown, "cs", p), {"sp_cs", "fau_cs"}, By(n, p)) EXCEPT !.cs = TRUE]

\* v9_cmd_buffer_set_push_constants writes to every stage that has a place for them.
SetPushConstants(c, n, p) ==
  Put(c, {[vs |-> "fau_vs", fs |-> "fau_fs", cs |-> "fau_cs"][s] : s \in c.push}, By(n, p))

\* v9_cmd_draw_indexed and v9_cmd_buffer_dispatch: the one tiler job, the one compute job.
DrawIndexed(c, x) == [Put(c, {"tiler"}, x) EXCEPT !.draw = TRUE]

Dispatch(c, x) == IF c.cs THEN [Put(c, {"compute"}, x) EXCEPT !.compute = TRUE] ELSE c

\* The CPU reads and writes width * height pixels of the colour BO, whose size was
\* fixed when it was created: aligned to tiles, or the rows of the external image.
PixelsRead(c) == c.config[1] * c.config[2]
ColorPixels(c) ==
  IF c.target # "own" THEN c.target[1] * c.target[2]
  ELSE ((c.own[1] + 15) \div 16) * ((c.own[2] + 15) \div 16) * 256

==========================================================================
