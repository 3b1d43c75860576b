---------------------- MODULE FrameSubmitProofs ----------------------
(***************************************************************************)
(* Theorems about FrameSubmit, for any set of pipelines, passes and        *)
(* bounds.  First, what the operators of CmdBuffer and Recorder, and       *)
(* Prepared of FrameSubmit, do to a command buffer: which blocks of the job*)
(* memory hold their data when they return, which others they write to, and*)
(* which fields they change.  Wrote(c, d, ...) says it of one operation and*)
(* ThenWrote of two in turn, so that what a draw with its tables and       *)
(* shaders leaves behind follows from its parts: where the tables lie over *)
(* one another, the later of two writes is the one that stays.  Then the   *)
(* order of the atoms (OrderInv), what a command buffer holds while it is  *)
(* recorded and submitted (Held, FrameInv), and what a submit reports      *)
(* (TruthInv).                                                             *)
(***************************************************************************)
EXTENDS FrameSubmit, TLAPS

Fields == {"config", "own", "target", "slot", "rendered", "draw", "compute", "vs", "cs",
           "push", "bo", "mem"}

\* A command buffer as its operations need it.
Shaped(c) ==
  /\ DOMAIN c = Fields
  /\ c.slot \in {0, 1} /\ DOMAIN c.mem = {0, 1} /\ DOMAIN c.mem[c.slot] = Blocks
  /\ c.push \subseteq {"vs", "fs", "cs"} /\ DOMAIN c.bo = {"vs", "fs", "cs"}

Here(c, b) == c.mem[c.slot][b]

\* d is c after an operation that stores x in the blocks of full, writes to no block
\* outside touched and changes no field outside changed.
Wrote(c, d, x, full, touched, changed) ==
  /\ Shaped(d)
  /\ \A f \in Fields \ changed : d[f] = c[f]
  /\ \A b \in full : Here(d, b) = x
  /\ \A b \in Blocks \ touched : Here(d, b) = Here(c, b)

\* The blocks by name.
LEMMA BlockNames ==
  Blocks = {"mfbd", "rt0", "sampleloc", "dcd", "sp", "sp_cs", "sp_vertex", "res0", "res1",
            "res2", "res3", "res4", "ubo01", "ubo27", "flush", "heap", "ctx", "attrs",
            "fau_cs", "fau_fs", "fau_vs", "pos", "blend", "depth", "idx", "tls", "tiler",
            "frag", "compute", "textures", "samplers", "payload"}
  BY DEF Blocks, Place

\* Put writes the blocks it is given.
LEMMA PutWrote ==
  ASSUME NEW c, Shaped(c), NEW blocks \in SUBSET Blocks, NEW x
  PROVE  Wrote(c, Put(c, blocks, x), x, blocks, blocks, {"mem"})
  BY DEF Put, Shaped, Here, Fields, Wrote

\* What an operation leaves is a command buffer.
LEMMA WroteShaped ==
  ASSUME NEW c, NEW d, NEW x, NEW full, NEW touched, NEW changed,
         Wrote(c, d, x, full, touched, changed)
  PROVE  Shaped(d)
  BY DEF Wrote

\* Two operations after one another.
LEMMA ThenWrote ==
  ASSUME NEW x, NEW c, NEW d, NEW e,
         NEW full1, NEW touched1, NEW changed1, NEW full2, NEW touched2, NEW changed2,
         Wrote(c, d, x, full1, touched1, changed1), Wrote(d, e, x, full2, touched2, changed2),
         NEW full, NEW touched, NEW changed, full1 \subseteq Blocks,
         full \subseteq full2 \cup (full1 \ touched2), touched1 \cup touched2 \subseteq touched,
         changed1 \cup changed2 \subseteq changed
  PROVE  Wrote(c, e, x, full, touched, changed)
  BY DEF Wrote

\* What is known of one operation is known of more blocks and fields as well.
LEMMA WroteLess ==
  ASSUME NEW x, NEW c, NEW d, NEW full, NEW touched, NEW changed,
         Wrote(c, d, x, full, touched, changed),
         NEW less \in SUBSET full, NEW more, touched \subseteq more,
         NEW wider, changed \subseteq wider
  PROVE  Wrote(c, d, x, less, more, wider)
  BY DEF Wrote

\* A clear, as an operation that stores y nowhere.
LEMMA Zeroed ==
  ASSUME NEW c, Shaped(c), NEW blocks \in SUBSET Blocks, NEW x, NEW y
  PROVE  Wrote(c, Put(c, blocks, x), y, {}, blocks, {"mem"})
  BY PutWrote DEF Wrote

\* A table with its entry in the resource table.
LEMMA TableWrote ==
  ASSUME NEW c, Shaped(c), NEW n, NEW p, NEW k, NEW entry \in Blocks, NEW tables \in SUBSET Blocks
  PROVE  Wrote(c, SetTable(c, n, p, k, entry, tables), By(n, p),
               IF k = 0 THEN {} ELSE tables \cup {entry}, tables \cup {entry}, {"mem"})
<1> DEFINE x == By(n, p)
           filled == Put(c, tables, IF k = 0 THEN Zero ELSE x)
           entered == Put(filled, {entry}, x)
<1> HIDE DEF x
<1>1. CASE k = 0
  <2>1. Wrote(c, Put(c, tables, Zero), x, {}, tables, {"mem"})
    BY Zeroed
  <2>2. SetTable(c, n, p, k, entry, tables) = Put(c, tables, Zero)
    BY <1>1 DEF SetTable
  <2> QED BY <1>1, <2>1, <2>2, WroteLess DEF x
<1>2. CASE k # 0
  <2>1. Wrote(c, Put(c, tables, x), x, tables, tables, {"mem"})
    BY PutWrote
  <2>2. Shaped(Put(c, tables, x))
    BY <2>1 DEF Wrote
  <2>3. Wrote(Put(c, tables, x), Put(Put(c, tables, x), {entry}, x), x, {entry}, {entry}, {"mem"})
    BY <2>2, PutWrote
  <2>4. SetTable(c, n, p, k, entry, tables) = Put(Put(c, tables, x), {entry}, x)
    BY <1>2 DEF SetTable, x
  <2>5. Wrote(c, Put(Put(c, tables, x), {entry}, x), x, tables \cup {entry}, tables \cup {entry}, {"mem"})
    BY <2>1, <2>3, ThenWrote
  <2> QED BY <1>2, <2>4, <2>5, WroteLess DEF x
<1> QED BY <1>1, <1>2

\* An operation that was refused.
LEMMA NothingWrote ==
  ASSUME NEW c, Shaped(c), NEW x, NEW touched, NEW changed
  PROVE  Wrote(c, c, x, {}, touched, changed)
  BY DEF Wrote

\* What the uniform buffers touch, and what they fill when there are k.
UboBlocks == {"ubo01", "ubo27", "res0", "res1", "res2", "res3", "res4"}
UboFull(k) ==
  IF k > Entries THEN {}
  ELSE (IF k = 0 THEN {} ELSE {"ubo01", "res0"}) \cup (IF k > 2 THEN {"ubo27"} ELSE {})

\* v9_cmd_buffer_set_ubos.
LEMMA UbosWrote ==
  ASSUME NEW c, Shaped(c), NEW n, NEW p, NEW k \in Nat
  PROVE  Wrote(c, SetUbos(c, n, p, k), By(n, p), UboFull(k), UboBlocks, {"mem"})
<1> DEFINE x == By(n, p)
           cleared == Put(c, UboBlocks, Zero)
           tail == IF k > 2 THEN {"ubo27"} ELSE {}
           long == Put(cleared, tail, x)
           d == SetTable(long, n, p, k, "res0", {"ubo01"})
           head == IF k = 0 THEN {} ELSE {"ubo01"} \cup {"res0"}
<1>0. CASE k > Entries
  <2>1. SetUbos(c, n, p, k) = c /\ UboFull(k) = {}
    BY <1>0 DEF SetUbos, UboFull
  <2> QED BY <2>1, NothingWrote
<1> SUFFICES ASSUME ~(k > Entries)
             PROVE  Wrote(c, SetUbos(c, n, p, k), By(n, p), UboFull(k), UboBlocks, {"mem"})
  BY <1>0
<1>1. SetUbos(c, n, p, k) = d
  BY DEF SetUbos, UboBlocks
<1> DEFINE both == {"ubo01"} \cup {"res0"}
<1>2. /\ UboBlocks \subseteq Blocks /\ tail \in SUBSET Blocks /\ tail \subseteq UboBlocks /\ both \subseteq UboBlocks
      /\ "res0" \in Blocks /\ {"ubo01"} \subseteq Blocks
  BY BlockNames DEF UboBlocks
<1>3. head \subseteq both /\ UboFull(k) = head \cup tail /\ tail \cap both = {}
  BY DEF UboFull
<1> HIDE DEF x, cleared, long, d, tail, head, both
<1>4. Wrote(c, cleared, x, {}, UboBlocks, {"mem"})
  BY <1>2, Zeroed DEF cleared
<1>5. Wrote(cleared, long, x, tail, tail, {"mem"})
  BY <1>2, <1>4, PutWrote, WroteShaped DEF long
<1>6. Wrote(long, d, x, head, both, {"mem"})
  BY <1>2, <1>5, TableWrote, WroteShaped DEF d, x, head, both
<1>7. Wrote(c, long, x, tail, UboBlocks, {"mem"})
  BY <1>2, <1>4, <1>5, ThenWrote, WroteLess
<1>8. Wrote(c, d, x, UboFull(k), UboBlocks, {"mem"})
  BY <1>2, <1>3, <1>6, <1>7, ThenWrote
<1> QED BY <1>1, <1>8 DEF x

\* The same of the storage buffers, over the tail of the UBO table and the flush job.
SsboBlocks == {"ubo27", "flush", "res1"}
SsboFull(k) ==
  IF k > Entries THEN {}
  ELSE (IF k = 0 THEN {} ELSE {"ubo27", "res1"}) \cup (IF k > 6 THEN {"flush"} ELSE {})

\* v9_cmd_buffer_set_ssbos.
LEMMA SsbosWrote ==
  ASSUME NEW c, Shaped(c), NEW n, NEW p, NEW k \in Nat
  PROVE  Wrote(c, SetSsbos(c, n, p, k), By(n, p), SsboFull(k), SsboBlocks, {"mem"})
<1> DEFINE x == By(n, p)
           both == {"ubo27"} \cup {"res1"}
           tail == IF k > 6 THEN {"flush"} ELSE {}
           head == IF k = 0 THEN {} ELSE both
           cleared == Put(c, {"ubo27", "flush"}, Zero)
           long == Put(cleared, tail, x)
           d == SetTable(long, n, p, k, "res1", {"ubo27"})
<1>0. CASE k > Entries
  <2>1. SetSsbos(c, n, p, k) = c /\ SsboFull(k) = {}
    BY <1>0 DEF SetSsbos, SsboFull
  <2> QED BY <2>1, NothingWrote
<1> SUFFICES ASSUME ~(k > Entries)
             PROVE  Wrote(c, SetSsbos(c, n, p, k), By(n, p), SsboFull(k), SsboBlocks, {"mem"})
  BY <1>0
<1>1. SetSsbos(c, n, p, k) = d
  BY DEF SetSsbos
<1>2. /\ {"ubo27", "flush"} \in SUBSET Blocks /\ tail \in SUBSET Blocks /\ tail \subseteq SsboBlocks
      /\ both \subseteq SsboBlocks /\ {"ubo27", "flush"} \subseteq SsboBlocks
      /\ "res1" \in Blocks /\ {"ubo27"} \in SUBSET Blocks
  BY BlockNames DEF SsboBlocks
<1>3. head \subseteq both /\ SsboFull(k) = head \cup tail /\ tail \cap both = {}
  BY DEF SsboFull
<1> HIDE DEF x, cleared, long, d, tail, head, both
<1>4. Wrote(c, cleared, x, {}, {"ubo27", "flush"}, {"mem"})
  BY <1>2, Zeroed DEF cleared
<1>5. Wrote(cleared, long, x, tail, tail, {"mem"})
  BY <1>2, <1>4, PutWrote, WroteShaped DEF long
<1>6. Wrote(long, d, x, head, both, {"mem"})
  BY <1>2, <1>5, TableWrote, WroteShaped DEF d, x, head, both
<1>7. Wrote(c, long, x, tail, SsboBlocks, {"mem"})
  BY <1>2, <1>4, <1>5, ThenWrote
<1>8. Wrote(c, d, x, SsboFull(k), SsboBlocks, {"mem"})
  BY <1>2, <1>3, <1>6, <1>7, ThenWrote
<1> QED BY <1>1, <1>8 DEF x

\* And of textures and samplers.
TextureBlocks == {"res3", "textures", "payload", "res4", "samplers"}
TextureFull(k) == IF k = 0 \/ k > Entries THEN {} ELSE TextureBlocks

\* apply_textures, apply_samplers.
LEMMA TexturesWrote ==
  ASSUME NEW c, Shaped(c), NEW n, NEW p
  PROVE  Wrote(c, ApplyTextures(c, n, p), By(n, p), TextureFull(p.textures), TextureBlocks, {"mem"})
<1> DEFINE x == By(n, p)
           k == p.textures
           first == {"textures", "payload"} \cup {"res3"}
           second == {"samplers"} \cup {"res4"}
           half == IF k = 0 THEN {} ELSE first
           rest == IF k = 0 THEN {} ELSE second
           d == SetTable(c, n, p, k, "res3", {"textures", "payload"})
           e == SetTable(d, n, p, k, "res4", {"samplers"})
<1>0. CASE k > Entries
  <2>1. ApplyTextures(c, n, p) = c /\ TextureFull(k) = {}
    BY <1>0 DEF ApplyTextures, SetTextures, SetSamplers, TextureFull
  <2> QED BY <2>1, NothingWrote
<1> SUFFICES ASSUME ~(k > Entries)
             PROVE  Wrote(c, ApplyTextures(c, n, p), By(n, p), TextureFull(p.textures), TextureBlocks, {"mem"})
  BY <1>0
<1>1. ApplyTextures(c, n, p) = e
  BY DEF ApplyTextures, SetTextures, SetSamplers
<1>2. /\ {"textures", "payload"} \in SUBSET Blocks /\ {"samplers"} \in SUBSET Blocks
      /\ "res3" \in Blocks /\ "res4" \in Blocks
      /\ first \cup second = TextureBlocks /\ first \subseteq Blocks /\ first \cap second = {}
  BY BlockNames DEF TextureBlocks
<1>3. TextureFull(k) = half \cup rest /\ half \subseteq first
  BY <1>2 DEF TextureFull
<1> HIDE DEF x, k, first, second, half, rest, d, e
<1>4. Wrote(c, d, x, half, first, {"mem"})
  BY <1>2, TableWrote DEF d, x, half, first
<1>5. Wrote(d, e, x, rest, second, {"mem"})
  BY <1>2, <1>4, TableWrote, WroteShaped DEF e, x, rest, second
<1>6. Wrote(c, e, x, TextureFull(k), TextureBlocks, {"mem"})
  BY <1>2, <1>3, <1>4, <1>5, ThenWrote
<1> QED BY <1>1, <1>6 DEF x, k

\* v9_cmd_buffer_set_attributes.
LEMMA AttributesWrote ==
  ASSUME NEW c, Shaped(c), NEW n, NEW p
  PROVE  Wrote(c, SetAttributes(c, n, p), By(n, p), {"attrs", "res1", "res2"},
               {"attrs", "res1", "res2"}, {"mem"})
<1>1. {"attrs", "res1", "res2"} \in SUBSET Blocks
  BY BlockNames
<1> QED BY <1>1, PutWrote DEF SetAttributes

PushBlocks == {"fau_vs", "fau_fs", "fau_cs"}

\* Push constants go where this stage's shader is, whose block they fill, or to blocks that
\* the operation has filled already.
LEMMA PushesWrote ==
  ASSUME NEW c, Shaped(c), NEW n, NEW p, NEW full, NEW touched, NEW changed, NEW d,
         Wrote(c, d, By(n, p), full, touched, changed), full \subseteq Blocks,
         PushBlocks \subseteq touched, "mem" \in changed
  PROVE  Wrote(c, SetPushConstants(d, n, p), By(n, p), full, touched, changed)
<1> DEFINE x == By(n, p)
           blocks == {[vs |-> "fau_vs", fs |-> "fau_fs", cs |-> "fau_cs"][s] : s \in d.push}
<1>1. Shaped(d)
  BY WroteShaped
<1>2. blocks \subseteq PushBlocks
  BY <1>1 DEF Shaped, PushBlocks
<1>3. PushBlocks \subseteq Blocks
  BY BlockNames DEF PushBlocks
<1>4. SetPushConstants(d, n, p) = Put(d, blocks, x)
  BY DEF SetPushConstants
<1> HIDE DEF x, blocks
<1>5. Wrote(d, Put(d, blocks, x), x, blocks, blocks, {"mem"})
  BY <1>1, <1>2, <1>3, PutWrote
<1>6. \A b \in full : Here(Put(d, blocks, x), b) = x
  BY <1>5 DEF Wrote, x
<1> QED BY <1>2, <1>4, <1>5, <1>6 DEF Wrote, x

\* A shader that is stored: the binary's BO grows if it must, and its stage's blocks are
\* written.
LEMMA VertexWrote ==
  ASSUME NEW c, Shaped(c), NEW n, NEW p, NEW ok
  PROVE  /\ Wrote(c, SetVertexShader(c, n, p, ok), By(n, p),
                  IF Grows(c.bo.vs, p.vs) /\ ~ok THEN {} ELSE {"sp_vertex", "fau_vs"},
                  {"sp_vertex", "fau_vs"}, {"mem", "push", "bo", "vs"})
         /\ SetVertexShader(c, n, p, ok).bo = [c.bo EXCEPT !.vs = GrowFreeFirst(@, p.vs, ok)]
<1> DEFINE x == By(n, p)
           blocks == {"sp_vertex", "fau_vs"}
           grown == [c EXCEPT !.bo.vs = GrowFreeFirst(@, p.vs, ok)]
           pushed == Pushes(grown, "vs", p)
           put == Put(pushed, blocks, x)
           stored == [put EXCEPT !.vs = TRUE]
           bo == [c.bo EXCEPT !.vs = GrowFreeFirst(@, p.vs, ok)]
<1>1. SetVertexShader(c, n, p, ok) = IF Grows(c.bo.vs, p.vs) /\ ~ok THEN grown ELSE stored
  BY DEF SetVertexShader
<1>2. blocks \in SUBSET Blocks
  BY BlockNames
<1>3. Wrote(c, grown, x, {}, {}, {"bo"}) /\ grown.bo = bo
  BY DEF Wrote, Shaped, Here, Fields
<1> HIDE DEF x, blocks, grown, pushed, put, stored, bo
<1>4. Wrote(grown, pushed, x, {}, {}, {"push"})
  BY <1>3 DEF Wrote, Shaped, Here, Fields, Pushes, pushed
<1>5. Wrote(pushed, put, x, blocks, blocks, {"mem"})
  BY <1>2, <1>4, PutWrote, WroteShaped DEF put
<1>6. Wrote(put, stored, x, {}, {}, {"vs"})
  BY <1>5 DEF Wrote, Shaped, Here, Fields, stored
<1>7. Wrote(c, pushed, x, {}, {}, {"push", "bo"})
  BY <1>3, <1>4, ThenWrote
<1>8. Wrote(c, put, x, blocks, blocks, {"mem", "push", "bo"})
  BY <1>2, <1>5, <1>7, ThenWrote
<1>9. Wrote(c, stored, x, blocks, blocks, {"mem", "push", "bo", "vs"})
  BY <1>2, <1>6, <1>8, ThenWrote
<1>10. stored.bo = bo
  <2>1. stored.bo = put.bo /\ put.bo = pushed.bo /\ pushed.bo = grown.bo
    BY <1>4, <1>5, <1>6 DEF Wrote, Fields
  <2> QED BY <2>1, <1>3
<1>11. Wrote(c, grown, x, {}, blocks, {"mem", "push", "bo", "vs"})
  BY <1>3, WroteLess
<1> QED BY <1>1, <1>3, <1>9, <1>10, <1>11 DEF x, blocks, bo

\* The fragment shader, whose BO is freed after its successor exists.
LEMMA FragmentWrote ==
  ASSUME NEW c, Shaped(c), NEW n, NEW p, NEW ok
  PROVE  /\ Wrote(c, SetFragmentShader(c, n, p, ok), By(n, p),
                  IF p.fs > c.bo.fs /\ ~ok THEN {} ELSE {"sp", "fau_fs"},
                  {"sp", "fau_fs"}, {"mem", "push", "bo"})
         /\ SetFragmentShader(c, n, p, ok).bo = [c.bo EXCEPT !.fs = GrowAllocFirst(@, p.fs, ok)]
<1> DEFINE x == By(n, p)
           blocks == {"sp", "fau_fs"}
           grown == [c EXCEPT !.bo.fs = GrowAllocFirst(@, p.fs, ok)]
           pushed == Pushes(grown, "fs", p)
           put == Put(pushed, blocks, x)
           bo == [c.bo EXCEPT !.fs = GrowAllocFirst(@, p.fs, ok)]
<1>1. SetFragmentShader(c, n, p, ok) = IF p.fs > c.bo.fs /\ ~ok THEN grown ELSE put
  BY DEF SetFragmentShader
<1>2. blocks \in SUBSET Blocks
  BY BlockNames
<1>3. Wrote(c, grown, x, {}, {}, {"bo"}) /\ grown.bo = bo
  BY DEF Wrote, Shaped, Here, Fields
<1> HIDE DEF x, blocks, grown, pushed, put, bo
<1>4. Wrote(grown, pushed, x, {}, {}, {"push"})
  BY <1>3 DEF Wrote, Shaped, Here, Fields, Pushes, pushed
<1>5. Wrote(pushed, put, x, blocks, blocks, {"mem"})
  BY <1>2, <1>4, PutWrote, WroteShaped DEF put
<1>6. Wrote(c, pushed, x, {}, {}, {"push", "bo"})
  BY <1>3, <1>4, ThenWrote
<1>7. Wrote(c, put, x, blocks, blocks, {"mem", "push", "bo"})
  BY <1>2, <1>5, <1>6, ThenWrote
<1>8. put.bo = bo
  <2>1. put.bo = pushed.bo /\ pushed.bo = grown.bo
    BY <1>4, <1>5 DEF Wrote, Fields
  <2> QED BY <2>1, <1>3
<1>9. Wrote(c, grown, x, {}, blocks, {"mem", "push", "bo"})
  BY <1>3, WroteLess
<1> QED BY <1>1, <1>3, <1>7, <1>8, <1>9 DEF x, blocks, bo

\* The compute shader.
LEMMA ComputeWrote ==
  ASSUME NEW c, Shaped(c), NEW n, NEW p, NEW ok
  PROVE  /\ Wrote(c, SetComputeShader(c, n, p, ok), By(n, p),
                  IF Grows(c.bo.cs, p.cs) /\ ~ok THEN {} ELSE {"sp_cs", "fau_cs"},
                  {"sp_cs", "fau_cs"}, {"mem", "push", "bo", "cs"})
         /\ SetComputeShader(c, n, p, ok).bo = [c.bo EXCEPT !.cs = GrowFreeFirst(@, p.cs, ok)]
         /\ ok => SetComputeShader(c, n, p, ok).cs
<1> DEFINE x == By(n, p)
           blocks == {"sp_cs", "fau_cs"}
           grown == [c EXCEPT !.bo.cs = GrowFreeFirst(@, p.cs, ok)]
           pushed == Pushes(grown, "cs", p)
           put == Put(pushed, blocks, x)
           stored == [put EXCEPT !.cs = TRUE]
           bo == [c.bo EXCEPT !.cs = GrowFreeFirst(@, p.cs, ok)]
<1>1. SetComputeShader(c, n, p, ok) = IF Grows(c.bo.cs, p.cs) /\ ~ok THEN grown ELSE stored
  BY DEF SetComputeShader
<1>2. blocks \in SUBSET Blocks
  BY BlockNames
<1>3. Wrote(c, grown, x, {}, {}, {"bo"}) /\ grown.bo = bo
  BY DEF Wrote, Shaped, Here, Fields
<1> HIDE DEF x, blocks, grown, pushed, put, stored, bo
<1>4. Wrote(grown, pushed, x, {}, {}, {"push"})
  BY <1>3 DEF Wrote, Shaped, Here, Fields, Pushes, pushed
<1>5. Wrote(pushed, put, x, blocks, blocks, {"mem"})
  BY <1>2, <1>4, PutWrote, WroteShaped DEF put
<1>6. Wrote(put, stored, x, {}, {}, {"cs"}) /\ stored.cs
  BY <1>5 DEF Wrote, Shaped, Here, Fields, stored
<1>7. Wrote(c, pushed, x, {}, {}, {"push", "bo"})
  BY <1>3, <1>4, ThenWrote
<1>8. Wrote(c, put, x, blocks, blocks, {"mem", "push", "bo"})
  BY <1>2, <1>5, <1>7, ThenWrote
<1>9. Wrote(c, stored, x, blocks, blocks, {"mem", "push", "bo", "cs"})
  BY <1>2, <1>6, <1>8, ThenWrote
<1>10. stored.bo = bo
  <2>1. stored.bo = put.bo /\ put.bo = pushed.bo /\ pushed.bo = grown.bo
    BY <1>4, <1>5, <1>6 DEF Wrote, Fields
  <2> QED BY <2>1, <1>3
<1>11. Wrote(c, grown, x, {}, blocks, {"mem", "push", "bo", "cs"})
  BY <1>3, WroteLess
<1> QED BY <1>1, <1>3, <1>6, <1>9, <1>10, <1>11 DEF x, blocks, bo

\* The shader BOs: the fragment stage has one; the others are Kept if none was freed and
\* not replaced.
Owned(bo) == bo \in [{"vs", "fs", "cs"} -> Int] /\ bo.fs >= 1
Kept(bo)  == bo.vs # Dangling /\ bo.cs # Dangling

\* What a draw, and below what a dispatch, may write to.
DrawBlocks ==
  UboBlocks \cup TextureBlocks \cup PushBlocks
    \cup {"attrs", "res1", "res2", "sp_vertex", "sp", "tiler"}

\* The blocks that surely hold what the draw wrote.
DrawFull(p, failing) ==
  IF failing = "none" /\ p.vs # 0 /\ p.fs # 0 THEN DrawNeeds(p) ELSE {"tiler"}

DrawFields == {"mem", "push", "bo", "vs", "draw"}

\* A draw with shaders that are there leaves every block it needs as it wrote it, and no
\* draw touches a descriptor that is not its own.
LEMMA DrawWrote ==
  ASSUME NEW c, Shaped(c), NEW n, NEW p \in Graphics, NEW failing \in {"none", "vs", "fs"},
         Owned(c.bo)
  PROVE  /\ Wrote(c, DrawInto(c, n, p, failing), By(n, p),
                  DrawFull(p, failing), DrawBlocks, DrawFields)
         /\ DrawInto(c, n, p, failing).draw = TRUE
         /\ Owned(DrawInto(c, n, p, failing).bo)
         /\ Kept(c.bo) /\ failing = "none" => Kept(DrawInto(c, n, p, failing).bo)
<1> DEFINE x == By(n, p)
           ubos == SetUbos(c, n, p, p.ubos)
           textured == ApplyTextures(ubos, n, p)
           bound == SetAttributes(textured, n, p)
           withVs == IF p.vs # 0 THEN SetVertexShader(bound, n, p, failing # "vs") ELSE bound
           shaded == IF p.fs # 0 THEN SetFragmentShader(withVs, n, p, failing # "fs") ELSE withVs
           pushed == IF p.push THEN SetPushConstants(shaded, n, p) ELSE shaded
           drawn == Put(pushed, {"tiler"}, x)
           d == [drawn EXCEPT !.draw = TRUE]
           buffers == {"res1", "res2", "attrs"}
           afterTextures == UboFull(p.ubos) \cup TextureFull(p.textures)
           afterAttributes == buffers \cup UboFull(p.ubos) \cup TextureFull(p.textures)
           vsFull == IF failing # "vs" /\ p.vs # 0 THEN {"sp_vertex", "fau_vs"} ELSE {}
           fsFull == IF failing # "fs" /\ p.fs # 0 THEN {"sp", "fau_fs"} ELSE {}
<1>1. DrawInto(c, n, p, failing) = d
  BY DEF DrawInto, ApplyShaders, DrawIndexed
<1>2. p.ubos \in Nat /\ p.textures \in Nat /\ p.vs \in Nat /\ p.fs \in Nat
  BY PipelinesAssumption
<1>3. /\ DrawBlocks \subseteq Blocks /\ UboBlocks \subseteq DrawBlocks /\ TextureBlocks \subseteq DrawBlocks
      /\ buffers \subseteq DrawBlocks /\ PushBlocks \subseteq DrawBlocks
      /\ {"sp_vertex", "fau_vs"} \subseteq DrawBlocks /\ {"sp", "fau_fs"} \subseteq DrawBlocks
      /\ {"tiler"} \in SUBSET Blocks /\ {"tiler"} \subseteq DrawBlocks
  BY BlockNames DEF DrawBlocks, UboBlocks, TextureBlocks, PushBlocks
<1>4. /\ UboFull(p.ubos) \subseteq UboBlocks /\ TextureFull(p.textures) \subseteq TextureBlocks
      /\ afterTextures \subseteq TextureFull(p.textures) \cup (UboFull(p.ubos) \ TextureBlocks)
      /\ afterAttributes \subseteq buffers \cup (afterTextures \ buffers)
      /\ vsFull \cup afterAttributes \subseteq vsFull \cup (afterAttributes \ {"sp_vertex", "fau_vs"})
      /\ fsFull \cup vsFull \cup afterAttributes
           \subseteq fsFull \cup ((vsFull \cup afterAttributes) \ {"sp", "fau_fs"})
  BY DEF UboFull, TextureFull, UboBlocks, TextureBlocks
<1>5. /\ vsFull \subseteq {"sp_vertex", "fau_vs"} /\ fsFull \subseteq {"sp", "fau_fs"}
      /\ afterTextures \subseteq DrawBlocks /\ afterAttributes \subseteq DrawBlocks
  BY <1>3, <1>4
<1> HIDE DEF x, ubos, textured, bound, withVs, shaded, pushed, drawn, d, buffers,
             afterTextures, afterAttributes, vsFull, fsFull
<1>6. Wrote(c, ubos, x, UboFull(p.ubos), UboBlocks, {"mem"})
  BY <1>2, UbosWrote DEF ubos, x
<1>7. Wrote(ubos, textured, x, TextureFull(p.textures), TextureBlocks, {"mem"})
  BY <1>6, TexturesWrote, WroteShaped DEF textured, x
<1>8. Wrote(textured, bound, x, buffers, buffers, {"mem"})
  BY <1>7, AttributesWrote, WroteShaped DEF bound, x, buffers
<1>9. Wrote(c, textured, x, afterTextures, DrawBlocks, {"mem"})
  BY <1>3, <1>4, <1>6, <1>7, ThenWrote
<1>10. Wrote(c, bound, x, afterAttributes, DrawBlocks, {"mem"})
  BY <1>3, <1>4, <1>5, <1>8, <1>9, ThenWrote
<1>11. Shaped(bound) /\ bound.bo = c.bo
  BY <1>10 DEF Wrote, Fields
<1>12. /\ Wrote(bound, withVs, x, vsFull, {"sp_vertex", "fau_vs"}, {"mem", "push", "bo", "vs"})
       /\ Owned(withVs.bo) /\ (Kept(c.bo) /\ failing = "none" => Kept(withVs.bo))
  <2>1. CASE p.vs = 0
    <3>1. withVs = bound /\ vsFull = {}
      BY <2>1 DEF withVs, vsFull
    <3>2. Wrote(bound, bound, x, {}, {"sp_vertex", "fau_vs"}, {"mem", "push", "bo", "vs"})
      BY <1>11 DEF Wrote
    <3> QED BY <3>1, <3>2, <1>11
  <2>2. CASE p.vs # 0
    <3> DEFINE ok == failing # "vs"
               e == SetVertexShader(bound, n, p, ok)
               stays == IF Grows(bound.bo.vs, p.vs) /\ ~ok THEN {} ELSE {"sp_vertex", "fau_vs"}
    <3>1. withVs = e /\ vsFull \subseteq stays /\ (failing = "none" => ok)
      BY <2>2 DEF withVs, vsFull
    <3> HIDE DEF ok, e, stays
    <3>2. /\ Wrote(bound, e, x, stays, {"sp_vertex", "fau_vs"}, {"mem", "push", "bo", "vs"})
          /\ e.bo = [bound.bo EXCEPT !.vs = GrowFreeFirst(@, p.vs, ok)]
      BY <1>11, VertexWrote DEF e, stays, x
    <3>3. Owned(e.bo) /\ (Kept(c.bo) /\ ok => Kept(e.bo))
      BY <1>2, <1>11, <3>2 DEF Owned, Kept, GrowFreeFirst, Grows, Dangling, Absent
    <3> QED BY <3>1, <3>2, <3>3, WroteLess
  <2> QED BY <2>1, <2>2
<1>13. Wrote(c, withVs, x, vsFull \cup afterAttributes, DrawBlocks, {"mem", "push", "bo", "vs"})
  BY <1>3, <1>4, <1>5, <1>10, <1>12, ThenWrote
<1>14. /\ Wrote(withVs, shaded, x, fsFull, {"sp", "fau_fs"}, {"mem", "push", "bo"})
       /\ Owned(shaded.bo) /\ (Kept(withVs.bo) => Kept(shaded.bo))
  <2>0. Shaped(withVs)
    BY <1>13, WroteShaped
  <2>1. CASE p.fs = 0
    <3>1. shaded = withVs /\ fsFull = {}
      BY <2>1 DEF shaded, fsFull
    <3>2. Wrote(withVs, withVs, x, {}, {"sp", "fau_fs"}, {"mem", "push", "bo"})
      BY <2>0 DEF Wrote
    <3> QED BY <3>1, <3>2, <1>12
  <2>2. CASE p.fs # 0
    <3> DEFINE ok == failing # "fs"
               e == SetFragmentShader(withVs, n, p, ok)
               stays == IF p.fs > withVs.bo.fs /\ ~ok THEN {} ELSE {"sp", "fau_fs"}
    <3>1. shaded = e /\ fsFull \subseteq stays
      BY <2>2 DEF shaded, fsFull
    <3> HIDE DEF ok, e, stays
    <3>2. /\ Wrote(withVs, e, x, stays, {"sp", "fau_fs"}, {"mem", "push", "bo"})
          /\ e.bo = [withVs.bo EXCEPT !.fs = GrowAllocFirst(@, p.fs, ok)]
      BY <2>0, FragmentWrote DEF e, stays, x
    <3>3. Owned(e.bo) /\ (Kept(withVs.bo) => Kept(e.bo))
      BY <1>2, <1>12, <3>2 DEF Owned, Kept, GrowAllocFirst
    <3> QED BY <3>1, <3>2, <3>3, WroteLess
  <2> QED BY <2>1, <2>2
<1> DEFINE full == fsFull \cup vsFull \cup afterAttributes
<1>15. full \subseteq Blocks
  BY <1>3, <1>5
<1>16. full \cup {"tiler"} \subseteq {"tiler"} \cup (full \ {"tiler"})
  OBVIOUS
<1>17. DrawFull(p, failing) \subseteq full \cup {"tiler"}
  BY <1>2 DEF DrawFull, DrawNeeds, fsFull, vsFull, afterAttributes, buffers, UboFull, TextureFull, TextureBlocks,
                Entries
<1> HIDE DEF full
<1>18. Wrote(c, shaded, x, full, DrawBlocks, {"mem", "push", "bo", "vs"})
  <2>1. /\ full \subseteq fsFull \cup ((vsFull \cup afterAttributes) \ {"sp", "fau_fs"})
        /\ vsFull \cup afterAttributes \subseteq Blocks
    BY <1>3, <1>4, <1>5 DEF full
  <2> QED BY <2>1, <1>3, <1>13, <1>14, ThenWrote
<1>19. Wrote(c, pushed, x, full, DrawBlocks, {"mem", "push", "bo", "vs"})
  BY <1>3, <1>15, <1>18, PushesWrote DEF pushed, x
<1>20. pushed.bo = shaded.bo
  BY <1>18 DEF pushed, SetPushConstants, Put, Wrote, Shaped, Fields
<1>21. Wrote(pushed, drawn, x, {"tiler"}, {"tiler"}, {"mem"})
  BY <1>3, <1>19, PutWrote, WroteShaped DEF drawn
<1>22. Wrote(c, drawn, x, full \cup {"tiler"}, DrawBlocks, {"mem", "push", "bo", "vs"})
  BY <1>3, <1>15, <1>16, <1>19, <1>21, ThenWrote
<1>23. Wrote(drawn, d, x, {}, {}, {"draw"}) /\ d.draw = TRUE
  BY <1>22 DEF Wrote, Shaped, Here, Fields, d
<1>24. Wrote(c, d, x, full \cup {"tiler"}, DrawBlocks, DrawFields)
  <2>1. full \cup {"tiler"} \subseteq Blocks
    BY <1>3, <1>15
  <2> QED BY <2>1, <1>22, <1>23, ThenWrote DEF DrawFields
<1>25. Wrote(c, d, x, DrawFull(p, failing), DrawBlocks, DrawFields)
  BY <1>17, <1>24, WroteLess
<1>26. Owned(d.bo) /\ (Kept(c.bo) /\ failing = "none" => Kept(d.bo))
  <2>1. d.bo = drawn.bo /\ drawn.bo = pushed.bo
    BY <1>21, <1>23 DEF Wrote, Fields
  <2> QED BY <2>1, <1>12, <1>14, <1>20
<1> QED BY <1>1, <1>23, <1>25, <1>26 DEF x

DispatchBlocks ==
  SsboBlocks \cup TextureBlocks \cup {"sp_cs", "fau_cs", "compute"}

\* The dispatch has its shader, and its textures by its own layout.
Complete(p, textured, ok) ==
  ok /\ p.cs # 0 /\ (textured \/ p.textures = 0) /\ TextureLayout(gp, p) = p

DispatchFull(p, textured, ok) == IF Complete(p, textured, ok) THEN DispatchNeeds(p) ELSE {}

DispatchFields == {"mem", "push", "bo", "cs", "compute"}

\* What one operation wrote for another pipeline counts as touched only.
LEMMA WroteOther ==
  ASSUME NEW c, NEW d, NEW x, NEW y, NEW full, NEW touched, NEW changed,
         Wrote(c, d, x, full, touched, changed)
  PROVE  Wrote(c, d, y, {}, touched, changed)
  BY DEF Wrote

\* The same for a dispatch whose shader is there, with its own layout's textures.
LEMMA DispatchWrote ==
  ASSUME NEW c, Shaped(c), NEW n, NEW p \in Compute, NEW textured \in BOOLEAN, NEW ok \in BOOLEAN,
         Owned(c.bo), ~ok => Grows(c.bo.cs, p.cs)
  PROVE  LET d == DispatchInto(c, n, p, textured, ok)
         IN /\ Wrote(c, d, By(n, p), DispatchFull(p, textured, ok), DispatchBlocks, DispatchFields)
            /\ Complete(p, textured, ok) => d.compute
            /\ Owned(d.bo)
            /\ Kept(c.bo) /\ ok => Kept(d.bo)
<1> DEFINE x == By(n, p)
           q == TextureLayout(gp, p)
           buffers == SetSsbos(c, n, p, p.ssbos)
           bound == IF textured THEN ApplyTextures(buffers, n, q) ELSE buffers
           shaded == IF p.cs # 0 THEN SetComputeShader(bound, n, p, ok) ELSE bound
           put == Put(shaded, {"compute"}, x)
           done == [put EXCEPT !.compute = TRUE]
           d == IF shaded.cs THEN done ELSE shaded
           ssboFull == SsboFull(p.ssbos)
           texFull == IF textured /\ q = p THEN TextureFull(p.textures) ELSE {}
           csFull == IF ok /\ p.cs # 0 THEN {"sp_cs", "fau_cs"} ELSE {}
           boundFull == ssboFull \cup texFull
           full == csFull \cup boundFull
<1>1. DispatchInto(c, n, p, textured, ok) = d
  BY DEF DispatchInto, Dispatch
<1>2. p.ssbos \in Nat /\ p.textures \in Nat /\ p.cs \in Nat
  BY PipelinesAssumption
<1>3. /\ DispatchBlocks \subseteq Blocks /\ SsboBlocks \subseteq DispatchBlocks
      /\ TextureBlocks \subseteq DispatchBlocks /\ {"sp_cs", "fau_cs"} \subseteq DispatchBlocks
      /\ {"compute"} \in SUBSET Blocks /\ {"compute"} \subseteq DispatchBlocks
  BY BlockNames DEF DispatchBlocks, SsboBlocks, TextureBlocks
<1>4. /\ ssboFull \subseteq SsboBlocks /\ texFull \subseteq TextureBlocks
      /\ boundFull \subseteq texFull \cup (ssboFull \ TextureBlocks)
      /\ full \subseteq csFull \cup (boundFull \ {"sp_cs", "fau_cs"})
      /\ csFull \subseteq {"sp_cs", "fau_cs"}
  BY DEF SsboFull, TextureFull, SsboBlocks, TextureBlocks
<1>5. ssboFull \subseteq Blocks /\ boundFull \subseteq Blocks /\ full \subseteq Blocks
  BY <1>3, <1>4
<1>6. /\ DispatchFull(p, textured, ok) \subseteq full \cup {"compute"}
      /\ ~(ok /\ p.cs # 0) => DispatchFull(p, textured, ok) = {}
      /\ Complete(p, textured, ok) => ok /\ p.cs # 0
  BY <1>2 DEF DispatchFull, Complete, DispatchNeeds, SsboFull, TextureFull, TextureBlocks, Entries
<1>7. full \cup {"compute"} \subseteq {"compute"} \cup (full \ {"compute"})
  OBVIOUS
<1> HIDE DEF x, q, buffers, bound, shaded, put, done, d, ssboFull, texFull, csFull, boundFull, full
<1>8. Wrote(c, buffers, x, ssboFull, SsboBlocks, {"mem"})
  BY <1>2, SsbosWrote DEF buffers, x, ssboFull
<1>9. Wrote(buffers, bound, x, texFull, TextureBlocks, {"mem"})
  <2>1. Shaped(buffers)
    BY <1>8, WroteShaped
  <2>2. CASE ~textured
    <3>1. Wrote(buffers, buffers, x, {}, TextureBlocks, {"mem"})
      BY <2>1 DEF Wrote
    <3> QED BY <2>2, <3>1 DEF bound, texFull
  <2>3. CASE textured
    <3>1. Wrote(buffers, bound, By(n, q), TextureFull(q.textures), TextureBlocks, {"mem"})
      BY <2>1, <2>3, TexturesWrote DEF bound
    <3>2. CASE q = p
      BY <2>3, <3>1, <3>2 DEF texFull, x
    <3>3. CASE q # p
      <4>1. Wrote(buffers, bound, x, {}, TextureBlocks, {"mem"})
        BY <3>1, WroteOther
      <4> QED BY <3>3, <4>1 DEF texFull
    <3> QED BY <3>2, <3>3
  <2> QED BY <2>2, <2>3
<1>10. Wrote(c, bound, x, boundFull, DispatchBlocks, {"mem"})
  <2>1. SsboBlocks \cup TextureBlocks \subseteq DispatchBlocks
    BY <1>3
  <2>2. boundFull \subseteq texFull \cup (ssboFull \ TextureBlocks)
    BY <1>4
  <2> QED BY <2>1, <2>2, <1>5, <1>8, <1>9, ThenWrote
<1>11. Shaped(bound) /\ bound.bo = c.bo
  BY <1>10 DEF Wrote, Fields
<1>12. /\ Wrote(bound, shaded, x, csFull, {"sp_cs", "fau_cs"}, {"mem", "push", "bo", "cs"})
       /\ Owned(shaded.bo) /\ (Kept(c.bo) /\ ok => Kept(shaded.bo))
       /\ ok /\ p.cs # 0 => shaded.cs
  <2>1. CASE p.cs = 0
    <3>1. shaded = bound /\ csFull = {}
      BY <2>1 DEF shaded, csFull
    <3>2. Wrote(bound, bound, x, {}, {"sp_cs", "fau_cs"}, {"mem", "push", "bo", "cs"})
      BY <1>11 DEF Wrote
    <3> QED BY <2>1, <3>1, <3>2, <1>11
  <2>2. CASE p.cs # 0
    <3> DEFINE e == SetComputeShader(bound, n, p, ok)
               stays == IF Grows(bound.bo.cs, p.cs) /\ ~ok THEN {} ELSE {"sp_cs", "fau_cs"}
    <3>1. shaded = e /\ csFull \subseteq stays
      BY <2>2 DEF shaded, csFull
    <3> HIDE DEF e, stays
    <3>2. /\ Wrote(bound, e, x, stays, {"sp_cs", "fau_cs"}, {"mem", "push", "bo", "cs"})
          /\ e.bo = [bound.bo EXCEPT !.cs = GrowFreeFirst(@, p.cs, ok)]
          /\ ok => e.cs
      BY <1>11, ComputeWrote DEF e, stays, x
    <3>3. Owned(e.bo) /\ (Kept(c.bo) /\ ok => Kept(e.bo))
      BY <1>2, <1>11, <3>2 DEF Owned, Kept, GrowFreeFirst, Grows, Dangling, Absent
    <3> QED BY <3>1, <3>2, <3>3, WroteLess
  <2> QED BY <2>1, <2>2
<1>13. Wrote(c, shaded, x, full, DispatchBlocks, {"mem", "push", "bo", "cs"})
  <2>1. /\ {"mem"} \cup {"mem", "push", "bo", "cs"} \subseteq {"mem", "push", "bo", "cs"}
        /\ DispatchBlocks \cup {"sp_cs", "fau_cs"} \subseteq DispatchBlocks
        /\ full \subseteq csFull \cup (boundFull \ {"sp_cs", "fau_cs"})
    BY <1>3, <1>4
  <2> QED BY <2>1, <1>5, <1>10, <1>12, ThenWrote
<1>14. Wrote(shaded, put, x, {"compute"}, {"compute"}, {"mem"})
  BY <1>3, <1>13, PutWrote, WroteShaped DEF put
<1>15. Wrote(put, done, x, {}, {}, {"compute"}) /\ done.compute
  BY <1>14 DEF Wrote, Shaped, Here, Fields, done
<1>16. Wrote(c, put, x, full \cup {"compute"}, DispatchBlocks, {"mem", "push", "bo", "cs"})
  BY <1>3, <1>5, <1>7, <1>13, <1>14, ThenWrote
<1>17. Wrote(c, done, x, full \cup {"compute"}, DispatchBlocks, DispatchFields)
  <2>1. full \cup {"compute"} \subseteq Blocks
    BY <1>3, <1>5
  <2> QED BY <2>1, <1>15, <1>16, ThenWrote DEF DispatchFields
<1>18. CASE shaded.cs
  <2>1. d = done
    BY <1>18 DEF d
  <2>2. Wrote(c, d, x, DispatchFull(p, textured, ok), DispatchBlocks, DispatchFields)
    BY <1>6, <1>17, <2>1, WroteLess
  <2>3. d.bo = shaded.bo
    BY <1>14, <1>15, <2>1 DEF Wrote, Fields
  <2> QED BY <1>1, <1>12, <1>15, <2>1, <2>2, <2>3 DEF x
<1>19. CASE ~shaded.cs
  <2>1. d = shaded /\ ~(ok /\ p.cs # 0)
    BY <1>12, <1>19 DEF d
  <2>2. Wrote(c, d, x, {}, DispatchBlocks, DispatchFields)
    BY <1>13, <2>1, WroteLess DEF DispatchFields
  <2> QED BY <1>1, <1>6, <1>12, <2>1, <2>2 DEF x
<1> QED BY <1>18, <1>19

------------------------------------------------------------------------
\* The sizes of frames: of a pass, or that of a command buffer made by a dispatch.
Configs == {Extent(pass) : pass \in Passes} \cup {<<300, 300>>}

\* A frame is not empty.
LEMMA ConfigSizes == Configs \subseteq Sizes
<1>1. \A pass \in Passes : Extent(pass) \in Sizes
  BY PassesAssumption DEF Extent, Sizes
<1>2. <<300, 300>> \in Sizes
  BY DEF Sizes
<1> QED BY <1>1, <1>2 DEF Configs

\* Offsets are numbers.
LEMMA PlaceType == \A b \in Blocks : Place[b][1] \in Nat
  BY BlockNames DEF Place

\* The clear at the beginning of a frame is never longer than that of its submit.
LEMMA ClearType ==
  ASSUME NEW size \in Sizes
  PROVE  /\ SubmitClear(size[1], size[2]) \in Int
         /\ BeginClear(size[1], size[2]) \in Int
         /\ BeginClear(size[1], size[2]) <= SubmitClear(size[1], size[2])
<1> DEFINE w == (size[1] + 15) \div 16
           h == (size[2] + 15) \div 16
<1>1. w \in Int /\ h \in Int
  BY DEF Sizes
<1>2. PolyBytes(size[1], size[2]) = IF w * h * 8 < 4096 THEN 4096 ELSE w * h * 8
  BY DEF PolyBytes
<1> HIDE DEF w, h
<1>3. w * h \in Int
  BY <1>1
<1>4. PolyBytes(size[1], size[2]) \in Int
  BY <1>2, <1>3
<1> QED BY <1>4 DEF SubmitClear, BeginClear, HeapStart, PolyList

\* The clear of a frame's polygon list when it begins stays within that of its submit.
LEMMA WipedLess ==
  ASSUME NEW size \in Sizes
  PROVE  Wiped(BeginClear(size[1], size[2])) \subseteq Wiped(SubmitClear(size[1], size[2]))
  BY ClearType, PlaceType DEF Wiped, PolyList

\* v9_slot_pack_static, whatever the slot held.
LEMMA PackWrote ==
  ASSUME NEW c, DOMAIN c = Fields, c.slot \in {0, 1}, DOMAIN c.mem = {0, 1},
         c.push \subseteq {"vs", "fs", "cs"}, DOMAIN c.bo = {"vs", "fs", "cs"}
  PROVE  LET d == PackStatic(c)
         IN /\ Shaped(d)
            /\ \A f \in Fields \ {"mem"} : d[f] = c[f]
            /\ \A b \in {"mfbd", "ctx"} : Here(d, b) = Sized(c.config)
            /\ \A b \in {"depth", "blend", "tls", "dcd", "sampleloc", "flush"} : Here(d, b) = Static
<1> DEFINE statics == {"blend", "tls", "depth", "sp", "heap", "sampleloc", "dcd", "flush", "idx"}
           unsized == Put(c, statics, Static)
           sized == Put(unsized, {"ctx", "mfbd", "pos"}, Sized(c.config))
           d == Put(sized, {"rt0"}, Target(c.config))
<1>1. PackStatic(c) = d
  BY DEF PackStatic
<1>2. statics \subseteq Blocks /\ {"ctx", "mfbd", "pos"} \in SUBSET Blocks /\ {"rt0"} \in SUBSET Blocks
  BY BlockNames
<1> HIDE DEF unsized, sized, d
<1>3. /\ Shaped(unsized) /\ \A f \in Fields \ {"mem"} : unsized[f] = c[f]
      /\ \A b \in statics : Here(unsized, b) = Static
  BY <1>2 DEF unsized, Put, Shaped, Here, Fields
<1>4. Wrote(unsized, sized, Sized(c.config), {"ctx", "mfbd", "pos"}, {"ctx", "mfbd", "pos"}, {"mem"})
  BY <1>2, <1>3, PutWrote DEF sized
<1>5. Wrote(sized, d, Target(c.config), {"rt0"}, {"rt0"}, {"mem"})
  BY <1>2, <1>4, PutWrote, WroteShaped DEF d
<1>6. /\ Shaped(d) /\ \A f \in Fields \ {"mem"} : d[f] = c[f]
  BY <1>3, <1>4, <1>5 DEF Wrote, Fields
<1>7. \A b \in {"mfbd", "ctx"} : Here(d, b) = Sized(c.config)
  <2>1. \A b \in {"mfbd", "ctx"} : b \in Blocks \ {"rt0"} /\ b \in {"ctx", "mfbd", "pos"}
    BY <1>2
  <2> QED BY <2>1, <1>4, <1>5 DEF Wrote
<1>8. \A b \in {"depth", "blend", "tls", "dcd", "sampleloc", "flush"} : Here(d, b) = Static
  <2>1. \A b \in {"depth", "blend", "tls", "dcd", "sampleloc", "flush"} :
           b \in Blocks \ {"rt0"} /\ b \in Blocks \ {"ctx", "mfbd", "pos"} /\ b \in statics
    BY <1>2
  <2> QED BY <2>1, <1>3, <1>4, <1>5 DEF Wrote
<1> QED BY <1>1, <1>6, <1>7, <1>8

\* Descriptors that the size decides, and that nothing decides.
SizedBlocks == {"mfbd", "ctx"}
FixedBlocks == {"depth", "blend", "tls", "dcd", "sampleloc", "flush"}

\* A new command buffer: nothing recorded, its own colour buffer, the descriptors that a
\* frame's size decides and those that nothing decides in their places.
LEMMA FreshWrote ==
  ASSUME NEW size \in Sizes
  PROVE  LET d == Begin(Create(size))
         IN /\ Shaped(d) /\ Owned(d.bo) /\ Kept(d.bo)
            /\ d.rendered = FALSE /\ d.draw = FALSE /\ d.compute = FALSE
            /\ d.config = size /\ d.own = size /\ d.target = "own"
            /\ \A b \in SizedBlocks \ Wiped(SubmitClear(size[1], size[2])) : Here(d, b) = Sized(size)
            /\ \A b \in FixedBlocks \ Wiped(SubmitClear(size[1], size[2])) : Here(d, b) = Static
<1> DEFINE new == [config |-> size, own |-> size, target |-> "own", slot |-> 0, rendered |-> FALSE,
                   draw |-> FALSE, compute |-> FALSE, vs |-> FALSE, cs |-> FALSE, push |-> {},
                   bo |-> [vs |-> Absent, fs |-> 1, cs |-> Absent],
                   mem |-> [s \in {0, 1} |-> [b \in Blocks |-> Zero]]]
           made == PackStatic(new)
           aimed == Repoint(made, 0)
           packed == PackStatic(aimed)
           noTiler == Put(packed, {"tiler"}, Zero)
           flushed == Put(noTiler, {"flush"}, Static)
           gone == Wiped(BeginClear(size[1], size[2]))
           wiped == Put(flushed, gone, Zero)
           d == Put(wiped, {"frag"}, Zero)
<1>1. /\ DOMAIN new = Fields /\ new.slot \in {0, 1} /\ DOMAIN new.mem = {0, 1}
      /\ new.push \subseteq {"vs", "fs", "cs"} /\ DOMAIN new.bo = {"vs", "fs", "cs"}
  BY DEF Fields
<1>2. /\ new.config = size /\ new.own = size /\ new.target = "own" /\ new.slot = 0
      /\ new.rendered = FALSE /\ new.draw = FALSE /\ new.compute = FALSE
      /\ Owned(new.bo) /\ Kept(new.bo)
  BY DEF Owned, Kept, Absent, Dangling
<1>3. Create(size) = made
  BY DEF Create
<1> HIDE DEF new
<1>4. Shaped(made) /\ \A f \in Fields \ {"mem"} : made[f] = new[f]
  BY <1>1, PackWrote
<1> HIDE DEF made
<1>5. Begin(made) = d
  <2>1. made.rendered = FALSE /\ made.slot = 0 /\ made.config = size
    BY <1>2, <1>4 DEF Fields
  <2> QED BY <2>1 DEF Begin, Wipe
<1>6. /\ DOMAIN aimed = Fields /\ aimed.slot = 0 /\ aimed.target = "own"
      /\ \A f \in Fields \ {"slot", "target"} : aimed[f] = made[f]
  BY <1>4 DEF Repoint, Shaped, Fields
<1> HIDE DEF aimed
<1>7. /\ DOMAIN aimed.mem = {0, 1} /\ aimed.push \subseteq {"vs", "fs", "cs"}
      /\ DOMAIN aimed.bo = {"vs", "fs", "cs"} /\ aimed.config = size
  BY <1>2, <1>4, <1>6 DEF Shaped, Fields
<1>8. /\ Shaped(packed) /\ \A f \in Fields \ {"mem"} : packed[f] = aimed[f]
      /\ \A b \in SizedBlocks : Here(packed, b) = Sized(size)
      /\ \A b \in FixedBlocks : Here(packed, b) = Static
  BY <1>6, <1>7, PackWrote DEF SizedBlocks, FixedBlocks
<1>9. /\ {"tiler"} \in SUBSET Blocks /\ {"flush"} \in SUBSET Blocks /\ gone \in SUBSET Blocks
      /\ {"frag"} \in SUBSET Blocks /\ SizedBlocks \subseteq Blocks \ {"tiler", "flush", "frag"}
      /\ FixedBlocks \subseteq Blocks \ {"tiler", "frag"}
  BY BlockNames DEF Wiped, SizedBlocks, FixedBlocks
<1> HIDE DEF packed, noTiler, flushed, wiped, d, gone
<1>10. Wrote(packed, noTiler, Zero, {"tiler"}, {"tiler"}, {"mem"})
  BY <1>8, <1>9, PutWrote DEF noTiler
<1>11. Wrote(noTiler, flushed, Static, {"flush"}, {"flush"}, {"mem"})
  BY <1>9, <1>10, PutWrote, WroteShaped DEF flushed
<1>12. Wrote(flushed, wiped, Zero, gone, gone, {"mem"})
  BY <1>9, <1>11, PutWrote, WroteShaped DEF wiped
<1>13. Wrote(wiped, d, Zero, {"frag"}, {"frag"}, {"mem"})
  BY <1>9, <1>12, PutWrote, WroteShaped DEF d
<1>14. Shaped(d) /\ \A f \in Fields \ {"mem"} : d[f] = packed[f]
  BY <1>10, <1>11, <1>12, <1>13 DEF Wrote
<1>15. \A f \in Fields \ {"mem", "slot", "target"} : d[f] = new[f]
  BY <1>4, <1>6, <1>8, <1>14
<1>16. d.target = "own"
  BY <1>6, <1>8, <1>14 DEF Fields
<1>17. \A b \in SizedBlocks \ gone : Here(d, b) = Sized(size)
  <2> TAKE b \in SizedBlocks \ gone
  <2>1. b \in Blocks \ {"tiler", "flush", "frag"} /\ b \notin gone
    BY <1>9
  <2> QED BY <2>1, <1>8, <1>10, <1>11, <1>12, <1>13 DEF Wrote
<1>18. \A b \in FixedBlocks \ gone : Here(d, b) = Static
  <2> TAKE b \in FixedBlocks \ gone
  <2>1. b \in Blocks \ {"tiler", "frag"} /\ b \notin gone
    BY <1>9
  <2>2. Here(noTiler, b) = Static
    BY <2>1, <1>8, <1>10 DEF Wrote
  <2>3. Here(flushed, b) = Static
    BY <2>1, <2>2, <1>11 DEF Wrote
  <2> QED BY <2>1, <2>3, <1>12, <1>13 DEF Wrote
<1>19. gone \subseteq Wiped(SubmitClear(size[1], size[2]))
  BY WipedLess DEF gone
<1>20. /\ d.rendered = FALSE /\ d.draw = FALSE /\ d.compute = FALSE
       /\ d.config = size /\ d.own = size /\ Owned(d.bo) /\ Kept(d.bo)
  <2>1. /\ d.rendered = new.rendered /\ d.draw = new.draw /\ d.compute = new.compute
        /\ d.config = new.config /\ d.own = new.own /\ d.bo = new.bo
    BY <1>15 DEF Fields
  <2> QED BY <2>1, <1>2
<1> QED BY <1>3, <1>5, <1>14, <1>16, <1>17, <1>18, <1>19, <1>20

\* The fragment job, the polygon list and, without a draw, a triangle.
LEMMA PreparedWrote ==
  ASSUME NEW c, Shaped(c)
  PROVE  LET d == Prepared(c)
         IN /\ Wrote(c, d, Zero, {},
                     Wiped(SubmitClear(c.config[1], c.config[2])) \cup {"frag"}
                       \cup (IF c.draw THEN {} ELSE {"tiler"}),
                     {"mem", "draw", "rendered"})
            /\ d.rendered = TRUE
            /\ d.draw = IF c.draw THEN c.draw ELSE TRUE
<1> DEFINE gone == Wiped(SubmitClear(c.config[1], c.config[2]))
           frame0 == Wipe(c, SubmitClear(c.config[1], c.config[2]))
           wiped == Put(frame0, {"frag"}, Sized(c.config))
           put == Put(wiped, {"tiler"}, Triangle)
           triangle == [put EXCEPT !.draw = TRUE]
           drawn == IF wiped.draw THEN wiped ELSE triangle
           d == [drawn EXCEPT !.rendered = TRUE]
           touched == gone \cup {"frag"} \cup (IF c.draw THEN {} ELSE {"tiler"})
<1>1. Prepared(c) = d
  BY DEF Prepared, DrawIndexed
<1>2. /\ gone \in SUBSET Blocks /\ {"frag"} \in SUBSET Blocks /\ {"tiler"} \in SUBSET Blocks
      /\ gone \cup {"frag"} \subseteq touched /\ (~c.draw => {"tiler"} \subseteq touched)
  BY BlockNames DEF Wiped
<1> HIDE DEF gone, frame0, wiped, put, triangle, drawn, d, touched
<1>3. Wrote(c, frame0, Zero, {}, gone, {"mem"})
  BY <1>2, Zeroed DEF frame0, Wipe, gone
<1>4. Wrote(frame0, wiped, Zero, {}, {"frag"}, {"mem"})
  BY <1>2, <1>3, Zeroed, WroteShaped DEF wiped
<1>5. Wrote(c, wiped, Zero, {}, gone \cup {"frag"}, {"mem"})
  BY <1>3, <1>4, ThenWrote
<1>6. wiped.draw = c.draw
  BY <1>5 DEF Wrote, Fields
<1>7. /\ Wrote(c, drawn, Zero, {}, touched, {"mem", "draw"})
      /\ drawn.draw = IF c.draw THEN c.draw ELSE TRUE
  <2>1. CASE c.draw
    <3>1. drawn = wiped
      BY <1>6, <2>1 DEF drawn
    <3>2. Wrote(c, wiped, Zero, {}, touched, {"mem", "draw"})
      BY <1>2, <1>5, WroteLess
    <3> QED BY <1>6, <2>1, <3>1, <3>2
  <2>2. CASE ~c.draw
    <3>1. drawn = triangle
      BY <1>6, <2>2 DEF drawn
    <3>2. Wrote(wiped, put, Zero, {}, {"tiler"}, {"mem"})
      BY <1>2, <1>5, Zeroed, WroteShaped DEF put
    <3>3. Wrote(put, triangle, Zero, {}, {}, {"draw"}) /\ triangle.draw = TRUE
      BY <3>2 DEF Wrote, Shaped, Here, Fields, triangle
    <3>4. Wrote(c, put, Zero, {}, touched, {"mem"})
      BY <1>2, <1>5, <2>2, <3>2, ThenWrote
    <3>5. Wrote(c, triangle, Zero, {}, touched, {"mem", "draw"})
      BY <3>3, <3>4, ThenWrote
    <3> QED BY <2>2, <3>1, <3>3, <3>5
  <2> QED BY <2>1, <2>2
<1>8. Wrote(drawn, d, Zero, {}, {}, {"rendered"}) /\ d.rendered = TRUE /\ d.draw = drawn.draw
  BY <1>7 DEF Wrote, Shaped, Here, Fields, d
<1>9. Wrote(c, d, Zero, {}, touched, {"mem", "draw", "rendered"})
  BY <1>7, <1>8, ThenWrote
<1> QED BY <1>1, <1>7, <1>8, <1>9 DEF touched, gone

\* The target of a pass.
LEMMA AimedWrote ==
  ASSUME NEW c, Shaped(c), NEW pass
  PROVE  /\ Wrote(c, Aimed(c, pass), Zero, {}, {"rt0"}, {"mem", "target"})
         /\ Aimed(c, pass).target = IF pass.image = None THEN c.target ELSE pass.image
<1>1. {"rt0"} \in SUBSET Blocks
  BY BlockNames
<1>2. CASE pass.image = None
  <2>1. Wrote(c, c, Zero, {}, {"rt0"}, {"mem", "target"})
    BY DEF Wrote
  <2> QED BY <1>2, <2>1 DEF Aimed
<1>3. CASE pass.image # None
  <2> DEFINE aimed == [c EXCEPT !.target = pass.image]
             d == Put(aimed, {"rt0"}, Target(pass.image))
  <2>1. Aimed(c, pass) = d
    BY <1>3 DEF Aimed, SetRenderTarget
  <2>2. Wrote(c, aimed, Zero, {}, {}, {"target"}) /\ aimed.target = pass.image
    BY DEF Wrote, Shaped, Here, Fields
  <2> HIDE DEF aimed, d
  <2>3. Wrote(aimed, d, Zero, {}, {"rt0"}, {"mem"})
    BY <1>1, <2>2, Zeroed, WroteShaped DEF d
  <2>4. d.target = aimed.target
    BY <2>3 DEF Wrote, Fields
  <2>5. Wrote(c, d, Zero, {}, {"rt0"}, {"mem", "target"})
    BY <2>2, <2>3, ThenWrote
  <2> QED BY <1>3, <2>1, <2>2, <2>4, <2>5
<1> QED BY <1>2, <1>3

------------------------------------------------------------------------

\* Why a stale event code does no harm: only a call that is refused for want of a context
\* leaves event_code as it was, and during a frame a context that is gone does not come
\* back.  Past the tiler the frame's tiler job has run, or there is no context to send more to.
TilerFirst == pc \in {"flush", "fragment"} => "tiler" \in ran \/ health = "closed"

\* The fragment, and a batch, are the last calls of a submit.
FragmentLast == pc # "done" => "fragment" \notin sent

OrderInv == TilerFirst /\ FragmentLast

FragmentStep == pc = "fragment" /\ "fragment" \in sent' => "tiler" \in ran

LEMMA OrderStart == Init => OrderInv
  BY DEF Init, OrderInv, TilerFirst, FragmentLast

\* A call for an atom other than the fragment: a context that is closed stays closed, and
\* no fragment is sent; a result that is not a timeout and an event code that says "ran"
\* mean that it ran, or that there is no context.
LEMMA AtomKeeps ==
  ASSUME NEW atom \in {"compute", "tiler", "flush"},
         NEW r \in {"OK", "EINVAL", "EIO", "ETIMEDOUT"}, NEW e \in Events \cup {"NONE"},
         AtomOutcome(atom, r, e)
  PROVE  /\ health = "closed" => health' = "closed"
         /\ "fragment" \notin sent => "fragment" \notin sent'
         /\ \A a : a \in ran => a \in ran'
         /\ r # "ETIMEDOUT" /\ e = "RAN" => atom \in ran' \/ health' = "closed"
  BY DEF AtomOutcome, Events, device

LEMMA OrderStep == OrderInv /\ [Next]_vars => OrderInv' /\ [FragmentStep]_vars
<1> SUFFICES ASSUME OrderInv, [Next]_vars PROVE OrderInv' /\ [FragmentStep]_vars
  OBVIOUS
<1> USE DEF OrderInv, TilerFirst, FragmentLast, FragmentStep
<1>1. CASE RecordStep
  BY <1>1 DEF RecordStep, frame, device
<1>2. CASE Submit
  BY <1>2 DEF Submit, Goto, GoOn
<1>3. CASE SubmitCompute
  <2>1. PICK r \in {"OK", "EINVAL", "EIO", "ETIMEDOUT"}, e \in Events \cup {"NONE"} :
          AtomOutcome("compute", r, e) /\ AfterCompute(r, e)
    BY <1>3 DEF SubmitCompute, Atom
  <2>2. pc = "compute" /\ pc' \in {"done", "tiler", "batch"}
    BY <1>3, <2>1 DEF SubmitCompute, AfterCompute, Finish, GoOn, Goto
  <2> QED BY <2>1, <2>2, AtomKeeps
<1>4. CASE SubmitTiler
  <2>1. PICK r \in {"OK", "EINVAL", "EIO", "ETIMEDOUT"}, e \in Events \cup {"NONE"} :
          AtomOutcome("tiler", r, e) /\ AfterTiler(r, e)
    BY <1>4 DEF SubmitTiler, Atom
  <2>2. /\ pc = "tiler" /\ pc' \in {"done", "retry", "heal", "flush"}
        /\ pc' = "flush" => r # "ETIMEDOUT" /\ e = "RAN"
    BY <1>4, <2>1 DEF SubmitTiler, AfterTiler, Finish, Goto
  <2> QED BY <2>1, <2>2, AtomKeeps
<1>5. CASE SubmitFlush
  <2>1. PICK r \in {"OK", "EINVAL", "EIO", "ETIMEDOUT"}, e \in Events \cup {"NONE"} :
          AtomOutcome("flush", r, e) /\ AfterFlush(r, e)
    BY <1>5 DEF SubmitFlush, Atom
  <2>2. pc = "flush" /\ pc' \in {"done", "fragment"}
    BY <1>5, <2>1 DEF SubmitFlush, AfterFlush, Finish, Goto
  <2> QED BY <2>1, <2>2, AtomKeeps
<1>6. CASE TilerRetry
  BY <1>6 DEF TilerRetry, Goto, Finish
<1>7. CASE SubmitFragment
  BY <1>7 DEF SubmitFragment, Finish
<1>8. CASE SubmitBatch
  BY <1>8 DEF SubmitBatch, Finish
<1>9. CASE Return
  BY <1>9 DEF Return
<1>10. CASE Others
  BY <1>10 DEF Others, Replace
<1>11. CASE UNCHANGED vars
  BY <1>11 DEF vars, frame, device
<1> QED BY <1>1, <1>2, <1>3, <1>4, <1>5, <1>6, <1>7, <1>8, <1>9, <1>10, <1>11 DEF Next

\* No fragment job reaches the GPU before the tiler job of its frame has run, whatever the
\* other threads do to the device between the calls.
THEOREM TilerBeforeFragment == Spec => FragmentAfterTiler
<1>1. OrderInv /\ [Next]_vars => [FragmentStep]_vars
  BY OrderStep
<1>2. OrderInv /\ [Next]_vars => OrderInv'
  BY OrderStep
<1> QED BY OrderStart, <1>1, <1>2, PTL DEF Spec, FragmentAfterTiler, FragmentStep

------------------------------------------------------------------------
(***************************************************************************)
(* What a command buffer c holds with l recorded into it.  DrawIntact and  *)
(* DispatchIntact speak of a frame that is rendered; what makes them true  *)
(* is that the last draw's blocks stay its own through every operation     *)
(* that may follow it without being one, passes and submits included.  A   *)
(* dispatch's stay only until the first submit, whose flush job lies over  *)
(* the last SSBOs.                                                         *)
(***************************************************************************)
LogFields == {"draw", "dispatch", "latest", "whole", "creator"}

\* What the clear of a submit runs over.
Gone(c) == Wiped(SubmitClear(c.config[1], c.config[2]))

DrawHeld(c, l) ==
  l.latest = "draw" =>
    /\ c.draw
    /\ l.whole => \A b \in DrawNeeds(l.draw[2]) \ Gone(c) : Here(c, b) = l.draw

DispatchHeld(c, l) ==
  l.latest = "dispatch" /\ l.whole =>
    /\ c.compute
    /\ ~c.rendered => \A b \in DispatchNeeds(l.dispatch[2]) : Here(c, b) = l.dispatch

NoDraw(c, l) == l.draw = Zero /\ ~c.rendered => ~c.draw

\* The static descriptors: the flush job is one until SSBOs have been written.
Steady(l) == (FixedBlocks \ {"flush"}) \cup (IF l.dispatch = Zero THEN {"flush"} ELSE {})

PassFits(c, l) ==
  l.creator = "pass" =>
    /\ c.own = c.config
    /\ c.target = "own" \/ /\ c.target \in Sizes
                           /\ c.config[1] <= c.target[1] /\ c.config[2] <= c.target[2]
    /\ \A b \in SizedBlocks \ Gone(c) : Here(c, b) = Sized(c.config)
    /\ \A b \in Steady(l) \ Gone(c) : Here(c, b) = Static

\* f is the number of failed allocations.
Typed(c, f) ==
  /\ Shaped(c) /\ c.rendered \in BOOLEAN /\ c.draw \in BOOLEAN /\ c.config \in Configs
  /\ Owned(c.bo) /\ (f = 0 => Kept(c.bo))

Held(c, l, f) ==
  Typed(c, f) /\ DrawHeld(c, l) /\ DispatchHeld(c, l) /\ NoDraw(c, l) /\ PassFits(c, l)

\* No draw and no dispatch needs a render target, or the heap descriptor.
LEMMA NeedsBlocks ==
  ASSUME NEW p
  PROVE  /\ DrawNeeds(p) \subseteq Blocks \ {"rt0", "heap", "flush", "frag"}
         /\ DispatchNeeds(p) \subseteq Blocks \ {"rt0", "heap", "frag", "tiler"}
  BY BlockNames DEF DrawNeeds, DispatchNeeds

\* No draw and no dispatch writes to a static descriptor, the flush job apart.
LEMMA FixedInPlace ==
  /\ SizedBlocks \subseteq Blocks \ (DrawBlocks \cup DispatchBlocks \cup {"rt0", "heap", "flush", "frag", "tiler"})
  /\ FixedBlocks \ {"flush"}
       \subseteq Blocks \ (DrawBlocks \cup DispatchBlocks \cup {"rt0", "heap", "flush", "frag", "tiler"})
  /\ "flush" \in Blocks \ (DrawBlocks \cup {"rt0", "heap", "frag", "tiler"})
  BY BlockNames DEF SizedBlocks, FixedBlocks, DrawBlocks, DispatchBlocks, UboBlocks, SsboBlocks,
                    TextureBlocks, PushBlocks

\* A command buffer that is new holds what it must, also aimed at the image of its pass.
LEMMA FreshHeld ==
  ASSUME NEW size \in Configs, NEW l, l.latest = "none", l.draw = Zero, NEW f
  PROVE  /\ \A pass \in Passes : (l.creator = "pass" => size = Extent(pass))
              => Held(Aimed(Begin(Create(size)), pass), l, f)
         /\ l.creator # "pass" => Held(Begin(Create(size)), l, f)
<1> DEFINE c == Begin(Create(size))
<1>0. size \in Sizes
  BY ConfigSizes
<1> HIDE DEF c
<1>1. /\ Shaped(c) /\ Owned(c.bo) /\ Kept(c.bo)
      /\ c.rendered = FALSE /\ c.draw = FALSE /\ c.compute = FALSE
      /\ c.config = size /\ c.own = size /\ c.target = "own"
      /\ \A b \in SizedBlocks \ Wiped(SubmitClear(size[1], size[2])) : Here(c, b) = Sized(size)
      /\ \A b \in FixedBlocks \ Wiped(SubmitClear(size[1], size[2])) : Here(c, b) = Static
  BY <1>0, FreshWrote DEF c
<1>2. Typed(c, f)
  BY <1>1 DEF Typed
<1>3. l.creator # "pass" => Held(c, l, f)
  BY <1>1, <1>2 DEF Held, DrawHeld, DispatchHeld, NoDraw, PassFits
<1>4. ASSUME NEW pass \in Passes, l.creator = "pass" => size = Extent(pass)
      PROVE  Held(Aimed(c, pass), l, f)
  <2> DEFINE d == Aimed(c, pass)
  <2>1. /\ Wrote(c, d, Zero, {}, {"rt0"}, {"mem", "target"})
        /\ d.target = IF pass.image = None THEN c.target ELSE pass.image
    BY <1>1, AimedWrote
  <2> HIDE DEF d
  <2>2. /\ Shaped(d) /\ d.bo = c.bo /\ d.rendered = FALSE /\ d.draw = FALSE
        /\ d.config = size /\ d.own = size
        /\ \A b \in Blocks \ {"rt0"} : Here(d, b) = Here(c, b)
    BY <1>1, <2>1 DEF Wrote, Fields
  <2>3. Typed(d, f)
    BY <1>1, <2>2 DEF Typed
  <2>4. /\ \A b \in SizedBlocks \ Gone(d) : Here(d, b) = Sized(size)
        /\ \A b \in Steady(l) \ Gone(d) : Here(d, b) = Static
    <3>1. Gone(d) = Wiped(SubmitClear(size[1], size[2]))
      BY <2>2 DEF Gone
    <3>2. Steady(l) \subseteq FixedBlocks
      BY DEF Steady, FixedBlocks
    <3> QED BY <3>1, <3>2, <1>1, <2>2, FixedInPlace
  <2>5. ASSUME l.creator = "pass"
        PROVE  d.target = "own" \/ /\ d.target \in Sizes
                                   /\ d.config[1] <= d.target[1] /\ d.config[2] <= d.target[2]
    <3>1. CASE pass.image = None
      BY <1>1, <2>1, <3>1
    <3>2. CASE pass.image # None
      <4>1. d.target = pass.image /\ pass.image \in Sizes /\ d.config = Extent(pass)
        BY <1>4, <2>1, <2>2, <2>5, <3>2, PassesAssumption
      <4>2. Extent(pass)[1] <= pass.image[1] /\ Extent(pass)[2] <= pass.image[2]
        BY <3>2, PassesAssumption DEF Extent, Sizes
      <4> QED BY <4>1, <4>2
    <3> QED BY <3>1, <3>2
  <2>6. PassFits(d, l)
    BY <2>2, <2>4, <2>5 DEF PassFits
  <2> QED BY <2>2, <2>3, <2>6 DEF Held, DrawHeld, DispatchHeld, NoDraw, d
<1> QED BY <1>3, <1>4 DEF c

\* A draw.
LEMMA DrawStays ==
  ASSUME NEW c, NEW l, NEW f, NEW f2 \in Nat, NEW n, NEW p \in Graphics,
         NEW failing \in {"none", "vs", "fs"}, Held(c, l, f),
         f2 = 0 => f = 0 /\ failing = "none",
         NEW m, m.draw = By(n, p), m.latest = "draw", m.dispatch = l.dispatch, m.creator = l.creator,
         m.whole => failing = "none" /\ p.vs # 0 /\ p.fs # 0
  PROVE  Held(DrawInto(c, n, p, failing), m, f2)
<1> DEFINE x == By(n, p)
           d == DrawInto(c, n, p, failing)
           full == DrawFull(p, failing)
<1>1. /\ Shaped(c) /\ Owned(c.bo) /\ c.rendered \in BOOLEAN /\ c.config \in Configs
      /\ f = 0 => Kept(c.bo)
  BY DEF Held, Typed
<1>2. m.draw = x
  OBVIOUS
<1>3. x[2] = p /\ x # Zero
  BY DEF By, Zero
<1> HIDE DEF d, x
<1>4. Wrote(c, d, x, full, DrawBlocks, DrawFields) /\ d.draw = TRUE /\ Owned(d.bo)
      /\ (Kept(c.bo) /\ failing = "none" => Kept(d.bo))
  <2>1. Shaped(c) /\ Owned(c.bo)
    BY <1>1
  <2> QED BY <2>1, DrawWrote DEF d, x
<1> HIDE DEF full
<1>5. /\ Shaped(d) /\ d.rendered = c.rendered /\ d.config = c.config /\ d.own = c.own
      /\ d.target = c.target /\ \A b \in Blocks \ DrawBlocks : Here(d, b) = Here(c, b)
      /\ \A b \in full : Here(d, b) = x
  BY <1>4 DEF Wrote, Fields, DrawFields
<1>6. PassFits(d, m)
  <2>1. Steady(m) = Steady(l) /\ Gone(d) = Gone(c)
    BY <1>2, <1>5 DEF Steady, Gone
  <2>2. Steady(m) \subseteq Blocks \ DrawBlocks /\ SizedBlocks \subseteq Blocks \ DrawBlocks
    BY FixedInPlace DEF Steady
  <2> QED BY <2>1, <2>2, <1>2, <1>5 DEF PassFits, Held
<1>7. DrawHeld(d, m)
  BY <1>2, <1>3, <1>4, <1>5 DEF DrawHeld, full, DrawFull
<1>8. DispatchHeld(d, m) /\ NoDraw(d, m)
  BY <1>2, <1>3 DEF DispatchHeld, NoDraw
<1>9. Typed(d, f2)
  BY <1>1, <1>4, <1>5 DEF Typed
<1> QED BY <1>6, <1>7, <1>8, <1>9 DEF Held, d

\* A dispatch.
LEMMA DispatchStays ==
  ASSUME NEW c, NEW l, NEW f, NEW f2 \in Nat, NEW n, NEW p \in Compute,
         NEW textured \in BOOLEAN, NEW ok \in BOOLEAN, Held(c, l, f),
         ~ok => Grows(c.bo.cs, p.cs), f2 = 0 => f = 0 /\ ok,
         NEW m, m.dispatch = By(n, p), m.latest = "dispatch", m.draw = l.draw, m.creator = l.creator,
         m.whole => Complete(p, textured, ok)
  PROVE  Held(DispatchInto(c, n, p, textured, ok), m, f2)
<1> DEFINE x == By(n, p)
           d == DispatchInto(c, n, p, textured, ok)
           full == DispatchFull(p, textured, ok)
<1>1. /\ Shaped(c) /\ Owned(c.bo) /\ c.rendered \in BOOLEAN /\ c.draw \in BOOLEAN
      /\ c.config \in Configs /\ (f = 0 => Kept(c.bo))
  BY DEF Held, Typed
<1>2. m.dispatch = x /\ (m.whole => Complete(p, textured, ok))
  OBVIOUS
<1>3. x[2] = p /\ x # Zero
  BY DEF By, Zero
<1> HIDE DEF d, x
<1>4. /\ Wrote(c, d, x, full, DispatchBlocks, DispatchFields)
      /\ (Complete(p, textured, ok) => d.compute) /\ Owned(d.bo) /\ (Kept(c.bo) /\ ok => Kept(d.bo))
  BY <1>1, DispatchWrote DEF d, x
<1> HIDE DEF full
<1>5. /\ Shaped(d) /\ d.rendered = c.rendered /\ d.config = c.config /\ d.own = c.own
      /\ d.target = c.target /\ d.draw = c.draw
      /\ \A b \in Blocks \ DispatchBlocks : Here(d, b) = Here(c, b)
      /\ \A b \in full : Here(d, b) = x
  BY <1>4 DEF Wrote, Fields, DispatchFields
<1>6. PassFits(d, m)
  <2>1. Steady(m) = FixedBlocks \ {"flush"} /\ Gone(d) = Gone(c) /\ Steady(m) \subseteq Steady(l)
    BY <1>2, <1>3, <1>5 DEF Steady, Gone
  <2>2. Steady(m) \subseteq Blocks \ DispatchBlocks /\ SizedBlocks \subseteq Blocks \ DispatchBlocks
    BY <2>1, FixedInPlace
  <2> QED BY <2>1, <2>2, <1>2, <1>5 DEF PassFits, Held
<1>7. DispatchHeld(d, m)
  BY <1>2, <1>3, <1>4, <1>5 DEF DispatchHeld, full, DispatchFull
<1>8. DrawHeld(d, m) /\ NoDraw(d, m)
  BY <1>2, <1>5 DEF DrawHeld, NoDraw, Held
<1>9. Typed(d, f2)
  BY <1>1, <1>4, <1>5 DEF Typed
<1> QED BY <1>6, <1>7, <1>8, <1>9 DEF Held, d

\* A pass that goes on with a command buffer.
LEMMA AimStays ==
  ASSUME NEW c, NEW l, NEW f, NEW pass, NEW d, NEW m, Held(c, l, f), DOMAIN l = LogFields,
         d = Aimed(c, pass) \/ \E size \in Configs : d = Aimed(UpdateConfig(c, size), pass),
         m = [l EXCEPT !.creator = IF @ = "pass" THEN "reused" ELSE @,
                       !.latest  = IF @ = "draw" THEN "none" ELSE @]
  PROVE  Held(d, m, f)
<1>1. /\ m.creator # "pass" /\ m.latest # "draw" /\ (m.latest = "dispatch" => l.latest = "dispatch")
      /\ m.whole = l.whole /\ m.draw = l.draw /\ m.dispatch = l.dispatch
  BY DEF LogFields
<1>2. Typed(c, f) /\ Shaped(c)
  BY DEF Held, Typed
<1>3. /\ Wrote(c, d, Zero, {}, {"rt0"}, {"mem", "target", "config"})
      /\ d.config \in Configs
  <2>1. CASE d = Aimed(c, pass)
    <3>1. Wrote(c, d, Zero, {}, {"rt0"}, {"mem", "target"})
      BY <1>2, <2>1, AimedWrote
    <3> QED BY <1>2, <3>1 DEF Wrote, Fields, Typed
  <2>2. CASE \E size \in Configs : d = Aimed(UpdateConfig(c, size), pass)
    <3>1. PICK size \in Configs : d = Aimed(UpdateConfig(c, size), pass)
      BY <2>2
    <3> DEFINE u == UpdateConfig(c, size)
    <3>2. Wrote(c, u, Zero, {}, {}, {"config"}) /\ u.config = size
      BY <1>2 DEF UpdateConfig, Wrote, Shaped, Here, Fields
    <3> HIDE DEF u
    <3>3. Wrote(u, d, Zero, {}, {"rt0"}, {"mem", "target"})
      BY <3>1, <3>2, AimedWrote, WroteShaped DEF u
    <3>4. d.config = size
      BY <3>2, <3>3 DEF Wrote, Fields
    <3> QED BY <3>2, <3>3, <3>4, ThenWrote
  <2> QED BY <2>1, <2>2
<1>4. /\ Shaped(d) /\ d.rendered = c.rendered /\ d.draw = c.draw /\ d.bo = c.bo /\ d.compute = c.compute
      /\ \A b \in Blocks \ {"rt0"} : Here(d, b) = Here(c, b)
  BY <1>3 DEF Wrote, Fields
<1>5. Typed(d, f)
  BY <1>2, <1>3, <1>4 DEF Typed
<1>6. DrawHeld(d, m) /\ NoDraw(d, m) /\ PassFits(d, m)
  BY <1>1, <1>4 DEF DrawHeld, NoDraw, PassFits, Held
<1>7. DispatchHeld(d, m)
  BY <1>1, <1>4, NeedsBlocks DEF DispatchHeld, Held
<1> QED BY <1>5, <1>6, <1>7 DEF Held

\* A submit begins: what is held stays so except where the polygon list is too long.
LEMMA PreparedStays ==
  ASSUME NEW c, NEW l, NEW f, Held(c, l, f)
  PROVE  /\ Held(Prepared(c), l, f)
         /\ Prepared(c).compute = c.compute /\ Prepared(c).rendered = TRUE
         /\ ~c.rendered /\ l.latest = "dispatch" /\ l.whole =>
              \A b \in DispatchNeeds(l.dispatch[2]) \ Gone(Prepared(c)) : Here(Prepared(c), b) = l.dispatch
<1> DEFINE d == Prepared(c)
           touched == Gone(c) \cup {"frag"} \cup (IF c.draw THEN {} ELSE {"tiler"})
<1>1. Typed(c, f) /\ Shaped(c)
  BY DEF Held, Typed
<1>2. /\ Wrote(c, d, Zero, {}, touched, {"mem", "draw", "rendered"})
      /\ d.rendered = TRUE /\ d.draw = IF c.draw THEN c.draw ELSE TRUE
  BY <1>1, PreparedWrote DEF Gone
<1> HIDE DEF d
<1>3. /\ Shaped(d) /\ d.bo = c.bo /\ d.compute = c.compute /\ d.config = c.config
      /\ d.own = c.own /\ d.target = c.target
      /\ \A b \in Blocks \ touched : Here(d, b) = Here(c, b)
  BY <1>2 DEF Wrote, Fields
<1>4. Gone(d) = Gone(c)
  BY <1>3 DEF Gone
<1>5. Typed(d, f)
  BY <1>1, <1>2, <1>3 DEF Typed
<1>6. DrawHeld(d, l)
  <2> SUFFICES ASSUME l.latest = "draw"
               PROVE  d.draw /\ (l.whole => \A b \in DrawNeeds(l.draw[2]) \ Gone(d) : Here(d, b) = l.draw)
    BY DEF DrawHeld
  <2>1. c.draw /\ (l.whole => \A b \in DrawNeeds(l.draw[2]) \ Gone(c) : Here(c, b) = l.draw)
    BY DEF Held, DrawHeld
  <2>2. touched \cap DrawNeeds(l.draw[2]) \subseteq Gone(c)
    BY <2>1, NeedsBlocks
  <2> QED BY <1>2, <1>3, <1>4, <2>1, <2>2, NeedsBlocks
<1>7. DispatchHeld(d, l) /\ NoDraw(d, l)
  BY <1>2, <1>3 DEF DispatchHeld, NoDraw, Held
<1>8. PassFits(d, l)
  <2>1. Steady(l) \subseteq Blocks \ {"frag", "tiler"} /\ SizedBlocks \subseteq Blocks \ {"frag", "tiler"}
    BY FixedInPlace DEF Steady
  <2> QED BY <2>1, <1>3, <1>4 DEF PassFits, Held
<1>9. ASSUME ~c.rendered, l.latest = "dispatch", l.whole
      PROVE  \A b \in DispatchNeeds(l.dispatch[2]) \ Gone(d) : Here(d, b) = l.dispatch
  <2>1. \A b \in DispatchNeeds(l.dispatch[2]) : Here(c, b) = l.dispatch
    BY <1>9 DEF Held, DispatchHeld
  <2>2. DispatchNeeds(l.dispatch[2]) \ Gone(d) \subseteq Blocks \ touched
    BY <1>4, NeedsBlocks
  <2> QED BY <2>1, <2>2, <1>3
<1> QED BY <1>2, <1>3, <1>5, <1>6, <1>7, <1>8, <1>9 DEF Held, d

\* The calls that pack the heap descriptor or the flush job again.
LEMMA PackedStays ==
  ASSUME NEW c, NEW l, NEW f, Held(c, l, f), NEW block \in {"heap", "flush"},
         block = "flush" => c.rendered
  PROVE  /\ Held(Put(c, {block}, Static), l, f)
         /\ Put(c, {block}, Static).compute = c.compute
         /\ Put(c, {block}, Static).rendered = c.rendered
<1> DEFINE d == Put(c, {block}, Static)
<1>1. Typed(c, f) /\ Shaped(c)
  BY DEF Held, Typed
<1>2. {block} \in SUBSET Blocks
  BY BlockNames
<1>3. Wrote(c, d, Static, {block}, {block}, {"mem"})
  BY <1>1, <1>2, PutWrote
<1> HIDE DEF d
<1>4. /\ Shaped(d) /\ \A g \in Fields \ {"mem"} : d[g] = c[g]
      /\ \A b \in Blocks \ {block} : Here(d, b) = Here(c, b)
      /\ Here(d, block) = Static
  BY <1>3 DEF Wrote
<1>5. /\ d.bo = c.bo /\ d.compute = c.compute /\ d.config = c.config /\ d.rendered = c.rendered
      /\ d.draw = c.draw /\ d.own = c.own /\ d.target = c.target
  BY <1>4 DEF Fields
<1>6. Gone(d) = Gone(c)
  BY <1>5 DEF Gone
<1>7. Typed(d, f) /\ NoDraw(d, l)
  BY <1>1, <1>4, <1>5 DEF Typed, NoDraw, Held
<1>8. DrawHeld(d, l)
  <2>1. DrawNeeds(l.draw[2]) \subseteq Blocks \ {block}
    BY NeedsBlocks
  <2> QED BY <2>1, <1>4, <1>5, <1>6 DEF DrawHeld, Held
<1>9. DispatchHeld(d, l)
  <2>1. ~c.rendered => DispatchNeeds(l.dispatch[2]) \subseteq Blocks \ {block}
    BY NeedsBlocks
  <2> QED BY <2>1, <1>4, <1>5 DEF DispatchHeld, Held
<1>10. PassFits(d, l)
  <2>1. SizedBlocks \subseteq Blocks \ {block} /\ Steady(l) \subseteq Blocks /\ "heap" \notin Steady(l)
    BY FixedInPlace DEF Steady
  <2>2. \A b \in Steady(l) : Here(d, b) = Here(c, b) \/ Here(d, b) = Static
    BY <2>1, <1>4
  <2> QED BY <2>1, <2>2, <1>4, <1>5, <1>6 DEF PassFits, Held
<1> QED BY <1>5, <1>7, <1>8, <1>9, <1>10 DEF Held, d

------------------------------------------------------------------------
\* A command buffer is being recorded or submitted.
Live == v9 # None \/ pc # "idle"

\* While it is submitted, a command buffer is marked as rendered.
RecordInv ==
  /\ DOMAIN log = LogFields
  /\ gp \in Graphics \cup {None} /\ work \in 0..MaxWork /\ faults \in 0..MaxFaults
  /\ Live => Held(v9, log, faults)
  /\ pc # "idle" => v9.rendered = TRUE

\* A frame whose last operation is a dispatch, and which no draw is part of, ends with the
\* compute atom.
ComputePath ==
  /\ pc = "idle" => sent = {}
  /\ pc # "idle" /\ log.latest = "dispatch" /\ log.whole /\ log.draw = Zero /\ ~again =>
       pc \in {"compute", "done"} /\ ~hadDraw /\ sent \subseteq {"compute"}

\* The types that do not depend on the command buffer.
FrameTypes ==
  /\ pc \in {"idle", "compute", "tiler", "retry", "heal", "flush", "fragment", "batch", "done"}
  /\ ret \in {"OK", "EINVAL", "EIO", "EAGAIN", "ENODEV", "ETIMEDOUT"}
  /\ event \in Events \cup {"NONE"}
  /\ sent \subseteq {"compute", "tiler", "flush", "fragment"} /\ ran \subseteq sent /\ fate \in Fates
  /\ health \in Health /\ {marked, waiting, lost, hadDraw, again} \subseteq BOOLEAN

\* The inductive invariant.
FrameInv == RecordInv /\ DispatchIntact /\ ComputePath /\ FrameTypes

LEMMA FrameStart == Init => FrameInv
<1> SUFFICES ASSUME Init PROVE FrameInv
  OBVIOUS
<1> USE DEF Init, RecordInit, DeviceInit
<1>1. RecordInv
  BY BoundsAssumption DEF RecordInv, Live, Log, LogFields
<1>2. DispatchIntact /\ ComputePath
  BY DEF DispatchIntact, ComputePath
<1>3. FrameTypes
  BY DEF FrameTypes, Health, Fates
<1> QED BY <1>1, <1>2, <1>3 DEF FrameInv

\* What stands in for a command buffer that was not there.
LEMMA RenewHeld ==
  ASSUME NEW size \in Configs, NEW pass \in Passes, size = Extent(pass), NEW c,
         c = Aimed(Begin(Create(size)), pass) \/ c = None, Renew(c, "pass"), MaxFaults \in Nat, MaxWork \in Nat
  PROVE  /\ DOMAIN log' = LogFields /\ work' \in 0..MaxWork /\ faults' \in 0..MaxFaults
         /\ v9' # None => Held(v9', log', faults')
<1>1. /\ v9' = c /\ log' = Log(IF c = None THEN "nobody" ELSE "pass") /\ work' = 0 /\ faults' = 0
  BY DEF Renew
<1>2. DOMAIN log' = LogFields /\ log'.latest = "none" /\ log'.draw = Zero
  BY <1>1 DEF Log, LogFields
<1>3. c # None => Held(Aimed(Begin(Create(size)), pass), log', faults')
  BY <1>2, FreshHeld
<1> QED BY <1>1, <1>2, <1>3

\* Recording keeps what is held.
LEMMA RecordStays ==
  ASSUME DOMAIN log = LogFields, gp \in Graphics \cup {None}, work \in 0..MaxWork, faults \in 0..MaxFaults,
         v9 # None => Held(v9, log, faults), Record
  PROVE  /\ DOMAIN log' = LogFields /\ gp' \in Graphics \cup {None}
         /\ work' \in 0..MaxWork /\ faults' \in 0..MaxFaults
         /\ v9' # None => Held(v9', log', faults')
<1> USE BoundsAssumption
<1>1. CASE BeginCommandBuffer
  BY <1>1 DEF BeginCommandBuffer
<1>2. CASE ResetCommandBuffer
  BY <1>2 DEF ResetCommandBuffer, Renew, Log, LogFields
<1>3. CASE Draw
  <2>1. PICK p \in Graphics, failing \in {"none", "vs", "fs"} :
          /\ Allocated(failing = "none") /\ gp' = p
          /\ v9' = DrawInto(v9, work + 1, p, failing)
          /\ log' = [log EXCEPT !.draw = By(work + 1, p), !.latest = "draw",
                                !.whole = failing = "none" /\ p.vs # 0 /\ p.fs # 0]
    BY <1>3 DEF Draw
  <2>2. faults' \in 0..MaxFaults /\ (faults' = 0 => faults = 0 /\ failing = "none")
    BY <2>1 DEF Allocated
  <2>3. Held(v9, log, faults) /\ work' \in 0..MaxWork
    BY <1>3 DEF Draw
  <2>4. /\ DOMAIN log' = LogFields /\ log'.draw = By(work + 1, p) /\ log'.latest = "draw"
        /\ log'.dispatch = log.dispatch /\ log'.creator = log.creator
        /\ log'.whole => failing = "none" /\ p.vs # 0 /\ p.fs # 0
    BY <2>1 DEF LogFields
  <2>5. Held(DrawInto(v9, work + 1, p, failing), log', faults')
    BY <2>2, <2>3, <2>4, DrawStays
  <2> QED BY <2>1, <2>2, <2>3, <2>4, <2>5
<1>4. CASE DispatchWork
  <2>1. PICK p \in Compute, textured, ok \in BOOLEAN :
          LET fresh == v9 = None
              c     == IF fresh THEN Begin(Create(<<300, 300>>)) ELSE v9
          IN /\ ~ok => Grows(c.bo.cs, p.cs)
             /\ Allocated(ok)
             /\ v9' = DispatchInto(c, work + 1, p, textured, ok)
             /\ log' = [(IF fresh THEN Log("dispatch") ELSE log) EXCEPT
                          !.dispatch = By(work + 1, p), !.latest = "dispatch",
                          !.whole = ok /\ p.cs # 0 /\ (textured \/ p.textures = 0)
                                    /\ TextureLayout(gp, p) = p]
    BY <1>4 DEF DispatchWork
  <2> DEFINE c == IF v9 = None THEN Begin(Create(<<300, 300>>)) ELSE v9
             l == IF v9 = None THEN Log("dispatch") ELSE log
  <2>2. faults' \in 0..MaxFaults /\ (faults' = 0 => faults = 0 /\ ok)
    BY <2>1 DEF Allocated
  <2>3. Held(c, l, faults) /\ DOMAIN l = LogFields
    <3>1. CASE v9 = None
      <4>1. Held(Begin(Create(<<300, 300>>)), Log("dispatch"), faults)
        BY FreshHeld DEF Log, Configs
      <4> QED BY <3>1, <4>1 DEF Log, LogFields
    <3>2. CASE v9 # None
      BY <3>2
    <3> QED BY <3>1, <3>2
  <2>4. /\ ~ok => Grows(c.bo.cs, p.cs)
        /\ v9' = DispatchInto(c, work + 1, p, textured, ok)
        /\ log' = [l EXCEPT !.dispatch = By(work + 1, p), !.latest = "dispatch",
                            !.whole = ok /\ p.cs # 0 /\ (textured \/ p.textures = 0)
                                      /\ TextureLayout(gp, p) = p]
    BY <2>1
  <2> HIDE DEF c, l
  <2>5. /\ DOMAIN log' = LogFields /\ log'.dispatch = By(work + 1, p) /\ log'.latest = "dispatch"
        /\ log'.draw = l.draw /\ log'.creator = l.creator
        /\ log'.whole => Complete(p, textured, ok)
    BY <2>3, <2>4 DEF LogFields, Complete
  <2>6. Held(DispatchInto(c, work + 1, p, textured, ok), log', faults')
    <3>1. p \in Compute /\ textured \in BOOLEAN /\ ok \in BOOLEAN /\ faults' \in Nat
      BY <2>2
    <3>2. faults' = 0 => faults = 0 /\ ok
      BY <2>2
    <3>3. ~ok => Grows(c.bo.cs, p.cs)
      BY <2>4
    <3>4. Held(c, l, faults)
      BY <2>3
    <3> QED BY <3>1, <3>2, <3>3, <3>4, <2>5, DispatchStays
  <2> QED BY <1>4, <2>2, <2>4, <2>5, <2>6 DEF DispatchWork
<1>5. ASSUME NEW pass \in Passes
      PROVE  Extent(pass) \in Configs
  BY DEF Configs
<1>6. CASE BeginRenderPass
  <2>1. PICK pass \in Passes, created \in BOOLEAN :
          IF v9 # None /\ v9.compute
          THEN /\ created
               /\ v9' = Aimed(UpdateConfig(v9, Extent(pass)), pass)
               /\ log' = Reused
               /\ UNCHANGED <<work, faults>>
          ELSE Renew(IF created THEN Aimed(Begin(Create(Extent(pass))), pass) ELSE None, "pass")
    BY <1>6 DEF BeginRenderPass
  <2>2. gp' = gp
    BY <1>6 DEF BeginRenderPass
  <2>3. CASE v9 # None /\ v9.compute
    <3>1. Held(v9', log', faults)
      BY <1>5, <2>1, <2>3, AimStays DEF Reused
    <3> QED BY <2>1, <2>2, <2>3, <3>1 DEF Reused, LogFields
  <2>4. CASE ~(v9 # None /\ v9.compute)
    BY <1>5, <2>1, <2>2, <2>4, RenewHeld
  <2> QED BY <2>3, <2>4
<1>7. CASE BeginRendering
  <2>1. PICK pass \in Passes :
          /\ pass.image # None
          /\ IF v9 # None
             THEN /\ v9' = SetRenderTarget(v9, pass.image)
                  /\ log' = Reused
                  /\ UNCHANGED <<work, faults>>
             ELSE Renew(Aimed(Begin(Create(Extent(pass))), pass), "pass")
    BY <1>7 DEF BeginRendering
  <2>2. gp' = gp
    BY <1>7 DEF BeginRendering
  <2>3. CASE v9 # None
    <3>1. Held(v9', log', faults)
      BY <2>1, <2>3, AimStays DEF Reused, Aimed
    <3> QED BY <2>1, <2>2, <2>3, <3>1 DEF Reused, LogFields
  <2>4. CASE v9 = None
    BY <1>5, <2>1, <2>2, <2>4, RenewHeld
  <2> QED BY <2>3, <2>4
<1> QED BY <1>1, <1>2, <1>3, <1>4, <1>6, <1>7 DEF Record

\* What a call for an atom changes besides the command buffer.
LEMMA AtomTypes ==
  ASSUME NEW atom \in {"compute", "tiler", "flush"}, FrameTypes,
         NEW r \in {"OK", "EINVAL", "EIO", "ETIMEDOUT"}, NEW e \in Events \cup {"NONE"},
         AtomOutcome(atom, r, e), event' = e
  PROVE  /\ event' \in Events \cup {"NONE"}
         /\ sent' \subseteq sent \cup {atom} /\ ran' \subseteq sent'
         /\ health' \in Health /\ {marked', waiting', lost'} \subseteq BOOLEAN
  BY DEF AtomOutcome, FrameTypes, Events, Health, device

LEMMA FrameStep == FrameInv /\ [Next]_vars => FrameInv'
<1> SUFFICES ASSUME FrameInv, [Next]_vars PROVE FrameInv'
  OBVIOUS
<1>0. RecordInv /\ DispatchIntact /\ ComputePath /\ FrameTypes
  BY DEF FrameInv
<1>1. CASE RecordStep
  <2>1. pc = "idle" /\ UNCHANGED <<device, frame>> /\ Record
    BY <1>1 DEF RecordStep
  <2>2. /\ DOMAIN log' = LogFields /\ gp' \in Graphics \cup {None}
        /\ work' \in 0..MaxWork /\ faults' \in 0..MaxFaults
        /\ v9' # None => Held(v9', log', faults')
    BY <1>0, <2>1, RecordStays DEF RecordInv, Live
  <2>3. RecordInv'
    BY <2>1, <2>2 DEF RecordInv, Live, frame
  <2>4. DispatchIntact' /\ ComputePath' /\ FrameTypes'
    BY <1>0, <2>1 DEF DispatchIntact, ComputePath, FrameTypes, frame, device
  <2> QED BY <2>3, <2>4 DEF FrameInv
<1>2. CASE Submit
  <2>1. /\ pc = "idle" /\ v9 # None /\ v9' = Prepared(v9) /\ hadDraw' = v9.draw /\ again' = v9.rendered
        /\ IF v9.compute THEN Goto("compute") ELSE GoOn
        /\ UNCHANGED <<gp, work, faults, log, device, event, sent, ran, fate, lost>>
    BY <1>2 DEF Submit
  <2>2. Held(v9, log, faults)
    BY <1>0, <2>1 DEF RecordInv, Live
  <2>3. /\ Held(v9', log, faults) /\ v9'.rendered = TRUE
        /\ ~v9.rendered /\ log.latest = "dispatch" /\ log.whole =>
             \A b \in DispatchNeeds(log.dispatch[2]) \ Gone(v9') : Here(v9', b) = log.dispatch
    BY <2>1, <2>2, PreparedStays
  <2>4. /\ ret' = "OK" /\ pc' \in {"compute", "tiler", "batch"}
        /\ v9.compute => pc' = "compute"
    BY <2>1 DEF Goto, GoOn
  <2>5. RecordInv'
    BY <1>0, <2>1, <2>3, <2>4 DEF RecordInv
  <2>6. DispatchIntact'
    BY <2>1, <2>3 DEF DispatchIntact, Spared, Slot, Gone, Here
  <2>7. ComputePath'
    BY <1>0, <2>1, <2>2, <2>4 DEF ComputePath, Held, DispatchHeld, NoDraw
  <2>8. FrameTypes'
    BY <1>0, <2>1, <2>2, <2>4 DEF FrameTypes, Held, Typed, device
  <2> QED BY <2>5, <2>6, <2>7, <2>8 DEF FrameInv
<1>3. CASE SubmitCompute
  <2>1. PICK r \in {"OK", "EINVAL", "EIO", "ETIMEDOUT"}, e \in Events \cup {"NONE"} :
          AtomOutcome("compute", r, e) /\ event' = e /\ AfterCompute(r, e)
    BY <1>3 DEF SubmitCompute, Atom
  <2>2. pc = "compute" /\ UNCHANGED <<v9, gp, work, faults, log, hadDraw, again, fate>>
    BY <1>3 DEF SubmitCompute, Atom
  <2>3. /\ pc' \in {"done", "tiler", "batch"} /\ (~hadDraw => pc' = "done")
        /\ ret' \in {"OK", "EIO"}
    BY <2>1 DEF AfterCompute, Finish, GoOn, Goto
  <2>4. /\ event' \in Events \cup {"NONE"}
        /\ sent' \subseteq sent \cup {"compute"} /\ ran' \subseteq sent'
        /\ health' \in Health /\ {marked', waiting', lost'} \subseteq BOOLEAN
    BY <1>0, <2>1, AtomTypes
  <2>5. RecordInv' /\ DispatchIntact'
    BY <1>0, <2>2, <2>3 DEF RecordInv, Live, DispatchIntact
  <2>6. ComputePath'
    BY <1>0, <2>2, <2>3, <2>4 DEF ComputePath
  <2>7. FrameTypes'
    BY <1>0, <2>2, <2>3, <2>4 DEF FrameTypes
  <2> QED BY <2>5, <2>6, <2>7 DEF FrameInv
<1>4. CASE SubmitTiler
  <2>1. PICK r \in {"OK", "EINVAL", "EIO", "ETIMEDOUT"}, e \in Events \cup {"NONE"} :
          AtomOutcome("tiler", r, e) /\ event' = e /\ AfterTiler(r, e)
    BY <1>4 DEF SubmitTiler, Atom
  <2>2. /\ pc = "tiler" /\ v9' = Put(v9, {"heap"}, Static)
        /\ UNCHANGED <<gp, work, faults, log, hadDraw, again, fate>>
    BY <1>4 DEF SubmitTiler, Atom
  <2>3. pc' \in {"done", "retry", "heal", "flush"} /\ ret' \in {"OK", "EIO"}
    BY <2>1 DEF AfterTiler, Finish, Goto
  <2>4. /\ event' \in Events \cup {"NONE"}
        /\ sent' \subseteq sent \cup {"tiler"} /\ ran' \subseteq sent'
        /\ health' \in Health /\ {marked', waiting', lost'} \subseteq BOOLEAN
    BY <1>0, <2>1, AtomTypes
  <2>5. Held(v9', log, faults) /\ v9'.rendered = TRUE
    BY <1>0, <2>2, PackedStays DEF RecordInv, Live
  <2>6. RecordInv' /\ DispatchIntact'
    BY <1>0, <2>2, <2>3, <2>5 DEF RecordInv, Live, DispatchIntact
  <2>7. ComputePath'
    BY <1>0, <2>2, <2>3 DEF ComputePath
  <2>8. FrameTypes'
    BY <1>0, <2>2, <2>3, <2>4 DEF FrameTypes
  <2> QED BY <2>6, <2>7, <2>8 DEF FrameInv
<1>5. CASE SubmitFlush
  <2>1. PICK r \in {"OK", "EINVAL", "EIO", "ETIMEDOUT"}, e \in Events \cup {"NONE"} :
          AtomOutcome("flush", r, e) /\ event' = e /\ AfterFlush(r, e)
    BY <1>5 DEF SubmitFlush, Atom
  <2>2. /\ pc = "flush" /\ v9' = Put(v9, {"flush"}, Static)
        /\ UNCHANGED <<gp, work, faults, log, hadDraw, again, fate>>
    BY <1>5 DEF SubmitFlush, Atom
  <2>3. pc' \in {"done", "fragment"} /\ ret' \in {"OK", "EIO"}
    BY <2>1 DEF AfterFlush, Finish, Goto
  <2>4. /\ event' \in Events \cup {"NONE"}
        /\ sent' \subseteq sent \cup {"flush"} /\ ran' \subseteq sent'
        /\ health' \in Health /\ {marked', waiting', lost'} \subseteq BOOLEAN
    BY <1>0, <2>1, AtomTypes
  <2>5. Held(v9', log, faults) /\ v9'.rendered = TRUE
    BY <1>0, <2>2, PackedStays DEF RecordInv, Live
  <2>6. RecordInv' /\ DispatchIntact'
    BY <1>0, <2>2, <2>3, <2>5 DEF RecordInv, Live, DispatchIntact
  <2>7. ComputePath'
    BY <1>0, <2>2, <2>3 DEF ComputePath
  <2>8. FrameTypes'
    BY <1>0, <2>2, <2>3, <2>4 DEF FrameTypes
  <2> QED BY <2>6, <2>7, <2>8 DEF FrameInv
<1>6. ASSUME pc \in {"retry", "heal", "fragment", "batch"}, UNCHANGED <<recording, hadDraw, again>>,
             pc' \in {"retry", "heal", "flush", "done"}
      PROVE  RecordInv' /\ DispatchIntact' /\ ComputePath'
  BY <1>0, <1>6 DEF RecordInv, Live, DispatchIntact, ComputePath, recording
<1>7. CASE TilerRetry
  <2>1. FrameTypes'
    BY <1>0, <1>7 DEF TilerRetry, FrameTypes, Goto, Finish, device, Fates
  <2>2. /\ pc \in {"retry", "heal"} /\ pc' \in {"flush", "heal", "done"}
        /\ UNCHANGED <<recording, hadDraw, again>>
    BY <1>7 DEF TilerRetry, Goto, Finish
  <2> QED BY <1>6, <2>1, <2>2 DEF FrameInv
<1>8. CASE SubmitFragment
  <2>1. FrameTypes'
    BY <1>0, <1>8 DEF SubmitFragment, FrameTypes, Finish, Recovered, Health, device, Fates
  <2>2. pc = "fragment" /\ pc' = "done" /\ UNCHANGED <<recording, hadDraw, again>>
    BY <1>8 DEF SubmitFragment, Finish
  <2> QED BY <1>6, <2>1, <2>2 DEF FrameInv
<1>9. CASE SubmitBatch
  <2>1. FrameTypes'
    BY <1>0, <1>9 DEF SubmitBatch, FrameTypes, Finish, device, Fates
  <2>2. pc = "batch" /\ pc' = "done" /\ UNCHANGED <<recording, hadDraw, again>>
    BY <1>9 DEF SubmitBatch, Finish
  <2> QED BY <1>6, <2>1, <2>2 DEF FrameInv
<1>10. CASE Return
  <2>1. FrameTypes'
    BY <1>0, <1>10 DEF Return, FrameTypes, device, Fates
  <2>2. RecordInv' /\ DispatchIntact' /\ ComputePath'
    BY <1>0, <1>10 DEF Return, RecordInv, Live, DispatchIntact, ComputePath, recording
  <2> QED BY <2>1, <2>2 DEF FrameInv
<1>11. CASE Others
  <2>1. FrameTypes'
    BY <1>0, <1>11 DEF Others, Replace, FrameTypes, Health
  <2>2. RecordInv' /\ DispatchIntact' /\ ComputePath'
    BY <1>0, <1>11 DEF Others, RecordInv, Live, DispatchIntact, ComputePath, recording,
                       Spared, Slot
  <2> QED BY <2>1, <2>2 DEF FrameInv
<1>12. CASE UNCHANGED vars
  <2>1. FrameTypes'
    BY <1>0, <1>12 DEF vars, frame, device, FrameTypes
  <2>2. RecordInv' /\ DispatchIntact' /\ ComputePath'
    BY <1>0, <1>12 DEF vars, frame, RecordInv, Live, DispatchIntact, ComputePath, recording,
                       Spared, Slot
  <2> QED BY <2>1, <2>2 DEF FrameInv
<1> QED BY <1>1, <1>2, <1>3, <1>4, <1>5, <1>7, <1>8, <1>9, <1>10, <1>11, <1>12 DEF Next

------------------------------------------------------------------------
\* Products grow with their factors.
LEMMA ProductGrows ==
  ASSUME NEW a \in Nat, NEW b \in Nat, NEW c \in Nat, NEW d \in Nat, a <= c, b <= d
  PROVE  a * b <= c * d
<1>1. a * b <= c * b
  BY SMT
<1>2. c * b <= c * d
  BY SMT
<1>3. a * b \in Int /\ c * b \in Int /\ c * d \in Int
  BY SMT
<1> QED BY <1>1, <1>2, <1>3

\* The pixels of a frame fit into a colour buffer that is aligned to tiles.
LEMMA AlignedPixels ==
  ASSUME NEW size \in Sizes
  PROVE  size[1] * size[2] <= ((size[1] + 15) \div 16) * ((size[2] + 15) \div 16) * 256
<1> DEFINE w == size[1]
           h == size[2]
           u == (w + 15) \div 16
           v == (h + 15) \div 16
<1>1. w \in Nat /\ h \in Nat
  BY DEF Sizes
<1>2. u \in Nat /\ v \in Nat /\ w <= 16 * u /\ h <= 16 * v
  BY <1>1
<1> HIDE DEF w, h, u, v
<1>3. w * h <= (16 * u) * (16 * v)
  BY <1>1, <1>2, ProductGrows
<1>4. (16 * u) * (16 * v) = u * v * 256
  BY <1>2
<1> QED BY <1>3, <1>4 DEF w, h, u, v

\* The scan of a frame that a pass made stays in its colour buffer.
LEMMA FitsPixels ==
  ASSUME NEW c, NEW l, NEW f, Held(c, l, f), l.creator = "pass"
  PROVE  PixelsRead(c) <= ColorPixels(c)
<1>1. c.config \in Sizes /\ c.own = c.config
  BY ConfigSizes DEF Held, Typed, PassFits
<1>2. CASE c.target = "own"
  BY <1>1, <1>2, AlignedPixels DEF PixelsRead, ColorPixels
<1>3. CASE c.target # "own"
  <2>1. c.target \in Sizes /\ c.config[1] <= c.target[1] /\ c.config[2] <= c.target[2]
    BY <1>3 DEF Held, PassFits
  <2>2. c.config[1] * c.config[2] <= c.target[1] * c.target[2]
    BY <1>1, <2>1, ProductGrows DEF Sizes
  <2> QED BY <1>3, <2>2 DEF PixelsRead, ColorPixels
<1> QED BY <1>2, <1>3

\* What the invariant says of the state.
LEMMA FrameHolds ==
  FrameInv => /\ TypeOK /\ DrawIntact /\ DispatchIntact /\ FrameFits /\ ShaderBosOwned /\ ComputeOnly
<1> SUFFICES ASSUME FrameInv
             PROVE  /\ TypeOK /\ DrawIntact /\ DispatchIntact /\ FrameFits /\ ShaderBosOwned
                    /\ ComputeOnly
  OBVIOUS
<1>1. RecordInv /\ DispatchIntact /\ ComputePath /\ FrameTypes
  BY DEF FrameInv
<1>2. TypeOK
  <2>1. v9 # None => /\ v9.slot \in {0, 1} /\ v9.push \subseteq {"vs", "fs", "cs"}
                     /\ DOMAIN v9.mem[v9.slot] = Blocks
                     /\ v9.config \in {Extent(pass) : pass \in Passes} \cup {<<300, 300>>}
    BY <1>1 DEF RecordInv, Live, Held, Typed, Shaped, Configs
  <2> QED BY <1>1, <2>1 DEF TypeOK, FrameTypes, RecordInv
<1>3. Rendering => Held(v9, log, faults)
  BY <1>1 DEF RecordInv, Live, Rendering
<1>4. DrawIntact
  BY <1>3 DEF DrawIntact, Spared, Slot, Held, DrawHeld, Gone, Here
<1>5. FrameFits
  <2> SUFFICES ASSUME Rendering, log.creator = "pass"
               PROVE  /\ \A b \in Spared({"mfbd", "ctx"}) : Slot[b] = Sized(v9.config)
                      /\ \A b \in Spared({"depth", "blend", "tls", "dcd", "sampleloc"}
                                          \cup IF log.dispatch = Zero THEN {"flush"} ELSE {}) : Slot[b] = Static
                      /\ PixelsRead(v9) <= ColorPixels(v9)
    BY DEF FrameFits
  <2>1. Held(v9, log, faults)
    BY <1>3
  <2>2. PassFits(v9, log)
    BY <2>1 DEF Held
  <2>3. PixelsRead(v9) <= ColorPixels(v9)
    BY <2>1, FitsPixels
  <2>4. \A b \in Spared({"mfbd", "ctx"}) : Slot[b] = Sized(v9.config)
    BY <2>2 DEF PassFits, SizedBlocks, Gone, Spared, Slot, Here
  <2>5. \A b \in Spared({"depth", "blend", "tls", "dcd", "sampleloc"}
                         \cup IF log.dispatch = Zero THEN {"flush"} ELSE {}) : Slot[b] = Static
    <3>1. {"depth", "blend", "tls", "dcd", "sampleloc"}
             \cup (IF log.dispatch = Zero THEN {"flush"} ELSE {}) \subseteq Steady(log)
      BY DEF Steady, FixedBlocks
    <3> QED BY <2>2, <3>1 DEF PassFits, Gone, Spared, Slot, Here
  <2> QED BY <2>3, <2>4, <2>5
<1>6. ShaderBosOwned
  BY <1>1 DEF ShaderBosOwned, RecordInv, Live, Held, Typed, Owned, Kept, Absent, Dangling
<1>7. ComputeOnly
  BY <1>1 DEF ComputeOnly, ComputePath
<1> QED BY <1>1, <1>2, <1>4, <1>5, <1>6, <1>7

LEMMA FrameInvariant == Spec => []FrameInv
BY FrameStart, FrameStep, PTL DEF Spec

\* Every variable has its type: a command buffer that is submitted is a whole one, and the
\* call's program counter, results and events are those of the code.
THEOREM FrameTypeOK == Spec => []TypeOK
BY FrameInvariant, FrameHolds, PTL

\* When a frame whose last operation is a draw is rendered, every descriptor it needs is the
\* one that this draw wrote, whatever else was recorded or submitted before, but for a table
\* that was refused (an index of 8 or more) and for what too long a polygon list runs over.
THEOREM DrawsIntact == Spec => []DrawIntact
BY FrameInvariant, FrameHolds, PTL

\* The same of a dispatch, the first time it is submitted.
THEOREM DispatchesIntact == Spec => []DispatchIntact
BY FrameInvariant, FrameHolds, PTL

\* A command buffer made for a pass renders at that pass's size, and what reads its pixels
\* stays in its colour buffer.
THEOREM FramesFit == Spec => []FrameFits
BY FrameInvariant, FrameHolds, PTL

\* No command buffer keeps a shader BO that was freed, unless an allocation has failed, and
\* the fragment stage always has one.
THEOREM ShaderBosAreOwned == Spec => []ShaderBosOwned
BY FrameInvariant, FrameHolds, PTL

\* A frame of dispatches sends no graphics atom the first time it is submitted.
THEOREM ComputeAlone == Spec => []ComputeOnly
BY FrameInvariant, FrameHolds, PTL

------------------------------------------------------------------------
(***************************************************************************)
(* What a submit reports.  The compute flag is read when a submit begins;  *)
(* TruthInv needs that nothing after that changes it, and that neither the *)
(* fate of a frame is decided nor its fragment job sent before the last    *)
(* call.                                                                   *)
(***************************************************************************)
ComputeFirst ==
  /\ pc = "compute" => v9.compute
  /\ pc \in {"tiler", "retry", "heal", "flush", "fragment", "batch"} =>
       (v9.compute => "compute" \in ran)

FateLast == pc # "done" => fate = "due" /\ "fragment" \notin sent

TruthInv == ComputeFirst /\ FateLast /\ FrameTruth

\* What an atom adds to the history.
LEMMA AtomRan ==
  ASSUME NEW atom \in {"compute", "tiler", "flush"}, ran \subseteq sent,
         NEW r \in {"OK", "EINVAL", "EIO", "ETIMEDOUT"}, NEW e \in Events \cup {"NONE"},
         AtomOutcome(atom, r, e)
  PROVE  /\ ran' \subseteq sent' /\ ran \subseteq ran' /\ ran' \subseteq ran \cup {atom}
         /\ r = "OK" => atom \in ran'
<1>1. \/ UNCHANGED <<sent, ran>> /\ r # "OK"
      \/ /\ sent' = sent \cup {atom} /\ r = "OK" /\ ran' = ran \cup {atom}
      \/ /\ sent' = sent \cup {atom} /\ r # "OK" /\ ran' = ran
  BY DEF AtomOutcome, Events
<1> QED BY <1>1

LEMMA TruthStart == Init => TruthInv
  BY DEF Init, RecordInit, TruthInv, ComputeFirst, FateLast, FrameTruth

LEMMA TruthStep == FrameInv /\ TruthInv /\ [Next]_vars => TruthInv'
<1> SUFFICES ASSUME FrameInv, TruthInv, [Next]_vars PROVE TruthInv'
  OBVIOUS
<1>0. /\ Live => Held(v9, log, faults) /\ (pc # "idle" => v9.rendered)
      /\ ran \subseteq sent
  BY DEF FrameInv, RecordInv, FrameTypes
<1> USE DEF TruthInv, ComputeFirst, FateLast, FrameTruth
<1>1. CASE RecordStep
  <2>1. pc = "idle" /\ UNCHANGED frame
    BY <1>1 DEF RecordStep
  <2> QED BY <2>1 DEF frame
<1>2. CASE Submit
  <2>1. Live /\ v9' = Prepared(v9) /\ pc = "idle" /\ UNCHANGED <<sent, ran, fate>>
    BY <1>2 DEF Submit, Live
  <2>2. v9'.compute = v9.compute
    BY <1>0, <2>1, PreparedStays
  <2>3. \/ v9.compute /\ pc' = "compute"
        \/ ~v9.compute /\ pc' \in {"tiler", "batch"}
    BY <1>2 DEF Submit, Goto, GoOn
  <2> QED BY <2>1, <2>2, <2>3
<1>3. CASE SubmitCompute
  <2>1. PICK r \in {"OK", "EINVAL", "EIO", "ETIMEDOUT"}, e \in Events \cup {"NONE"} :
          AtomOutcome("compute", r, e) /\ AfterCompute(r, e)
    BY <1>3 DEF SubmitCompute, Atom
  <2>2. /\ pc = "compute" /\ v9' = v9 /\ pc' \in {"done", "tiler", "batch"}
        /\ pc' # "done" \/ ret' = "OK" => r = "OK"
        /\ pc' = "done" /\ ret' = "OK" => ~hadDraw
        /\ UNCHANGED <<hadDraw, fate>>
    BY <1>3, <2>1 DEF SubmitCompute, Atom, AfterCompute, Finish, GoOn, Goto
  <2>3. r = "OK" => "compute" \in ran'
    BY <1>0, <2>1, AtomRan
  <2>4. "fragment" \notin sent'
    BY <2>1, <2>2, AtomKeeps
  <2> QED BY <2>2, <2>3, <2>4
<1>4. CASE SubmitTiler
  <2>1. PICK r \in {"OK", "EINVAL", "EIO", "ETIMEDOUT"}, e \in Events \cup {"NONE"} :
          AtomOutcome("tiler", r, e) /\ AfterTiler(r, e)
    BY <1>4 DEF SubmitTiler, Atom
  <2>2. /\ pc = "tiler" /\ pc' \in {"done", "retry", "heal", "flush"}
        /\ pc' = "done" => ret' # "OK"
        /\ UNCHANGED fate
    BY <1>4, <2>1 DEF SubmitTiler, Atom, AfterTiler, Finish, Goto
  <2>3. ran \subseteq ran' /\ "fragment" \notin sent'
    BY <1>0, <2>1, <2>2, AtomRan, AtomKeeps
  <2>4. v9' = Put(v9, {"heap"}, Static) /\ Live
    BY <1>4, <2>2 DEF SubmitTiler, Live
  <2>5. v9'.compute = v9.compute
    BY <1>0, <2>2, <2>4, PackedStays
  <2> QED BY <2>2, <2>3, <2>5
<1>5. CASE SubmitFlush
  <2>1. PICK r \in {"OK", "EINVAL", "EIO", "ETIMEDOUT"}, e \in Events \cup {"NONE"} :
          AtomOutcome("flush", r, e) /\ AfterFlush(r, e)
    BY <1>5 DEF SubmitFlush, Atom
  <2>2. /\ pc = "flush" /\ pc' \in {"done", "fragment"}
        /\ pc' = "done" => ret' # "OK"
        /\ UNCHANGED fate
    BY <1>5, <2>1 DEF SubmitFlush, Atom, AfterFlush, Finish, Goto
  <2>3. ran \subseteq ran' /\ "fragment" \notin sent'
    BY <1>0, <2>1, <2>2, AtomRan, AtomKeeps
  <2>4. v9' = Put(v9, {"flush"}, Static) /\ Live
    BY <1>5, <2>2 DEF SubmitFlush, Live
  <2>5. v9'.compute = v9.compute
    BY <1>0, <2>2, <2>4, PackedStays
  <2> QED BY <2>2, <2>3, <2>5
<1>6. CASE TilerRetry
  <2>1. /\ pc \in {"retry", "heal"} /\ v9' = v9 /\ ran \subseteq ran' /\ sent' \subseteq sent \cup {"tiler"}
        /\ \/ pc' \in {"flush", "heal"} /\ fate' = fate
           \/ pc' = "done" /\ fate' = "dropped"
    BY <1>6 DEF TilerRetry, Goto, Finish, recording
  <2> QED BY <2>1
<1>7. CASE SubmitFragment
  <2>1. /\ pc = "fragment" /\ v9' = v9 /\ pc' = "done"
        /\ ran \subseteq ran' /\ fate' \in {fate, "kept"}
        /\ fate' = "kept" => "fragment" \in sent'
        /\ ret' = "OK" => fate' = "kept" \/ "fragment" \in ran'
    BY <1>7 DEF SubmitFragment, Finish, recording
  <2> QED BY <2>1
<1>8. CASE SubmitBatch
  <2>1. pc = "batch" /\ v9' = v9 /\ pc' = "done"
    BY <1>8 DEF SubmitBatch, Finish, recording
  <2>2. /\ ran \subseteq ran' /\ fate' \in {fate, "kept"}
        /\ fate' = "kept" => "fragment" \in sent'
        /\ ret' = "OK" => fate' = "kept" \/ "fragment" \in ran'
    BY <1>0, <1>8, <2>1 DEF SubmitBatch, Finish
  <2> QED BY <2>1, <2>2
<1>9. CASE Return
  BY <1>9 DEF Return, recording
<1>10. CASE Others
  BY <1>10 DEF Others, recording
<1>11. CASE UNCHANGED vars
  BY <1>11 DEF vars, frame, recording
<1> QED BY <1>1, <1>2, <1>3, <1>4, <1>5, <1>6, <1>7, <1>8, <1>9, <1>10, <1>11 DEF Next

\* A submit that reports success has run its dispatch and, of a frame that it neither drops,
\* its tiler having failed, nor keeps without an event, the fragment; a dropped frame has
\* sent no fragment job and one that is kept has.
THEOREM SubmitTruth == Spec => []FrameTruth
BY FrameInvariant, TruthStart, TruthStep, PTL DEF Spec, TruthInv

========================================================================
