-------------------------- MODULE ImageMemory --------------------------
(***************************************************************************)
(* Linear images and buffers side by side in device memory: the layout of  *)
(* mip levels and layers, and the bytes that the copies, clears, blits and *)
(* render targets of panvk_v9_entrypoints.c write.  These run on the CPU   *)
(* while a command buffer is recorded.  The application binds and names    *)
(* only what Vulkan allows; sizes are bytes.                               *)
(***************************************************************************)
EXTENDS Integers, Sequences, RunningSum

CONSTANTS
  Images,    \* what an image may be: [w, h, d, mips, layers, bpp, flat], flat: 1D
  Buffers,   \* sizes of buffers
  MaxBound   \* bound: images and buffers in the memory

Extents == Nat \ {0}

ASSUME ImagesAssumption ==
  Images \subseteq [w : Extents, h : Extents, d : Extents, mips : Extents, layers : Extents,
                    bpp : Extents, flat : BOOLEAN]
ASSUME BuffersAssumption == Buffers \subseteq Nat \ {0} /\ MaxBound \in Nat

VARIABLES
  things,  \* what is bound to the memory: [image, size, at], image <<>> for a buffer
  write   \* the last write: [by, to, level, layer, lo, hi, from], bytes lo to hi - 1 of
          \* the memory, of the thing numbered to, from another one

memory == <<things, write>>

Align(v, a) == ((v + a - 1) \div a) * a

\* v >> level, and at least 1.
Mip(v, level) ==
  LET shifted[l \in Nat] == IF l = 0 THEN v ELSE shifted[l - 1] \div 2
  IN IF shifted[level] < 1 THEN 1 ELSE shifted[level]

\* panvk_v9_image_layout_init.
Depth(i, level) == IF i.flat THEN 1 ELSE Mip(i.d, level)
RowPitch(i, level) == Align(Mip(i.w, level) * i.bpp, 64)
SlicePitch(i, level) == Align(Mip(i.h, level) * RowPitch(i, level), 64)

\* Mutant of LevelSize: the layers are forgotten.
LevelSizeOneLayer(i, level) == SlicePitch(i, level) * Depth(i, level)

LevelSize(i, level) == SlicePitch(i, level) * Depth(i, level) * i.layers

LevelSizes(i) == [l \in 1..i.mips |-> LevelSize(i, l - 1)]
MipOffset(i, level) == SumTo(LevelSizes(i), level)

\* panvk_v9_image_get_offset; the layer after the last ends the level.
SubOffset(i, level, layer) == MipOffset(i, level) + layer * SlicePitch(i, level) * Depth(i, level)

NoWrite == [by |-> "none", to |-> 0, level |-> 0, layer |-> 0, lo |-> 0, hi |-> 0, from |-> 0]

MemoryInit == things = <<>> /\ write = NoWrite

End == IF things = <<>> THEN 0 ELSE things[Len(things)].at + things[Len(things)].size

\* vkCreateImage, vkGetImageMemoryRequirements, vkBindImageMemory, and for buffers: the
\* next one goes right behind the last.
Bind ==
  /\ Len(things) < MaxBound
  /\ \/ \E i \in Images :
          things' = Append(things, [image |-> <<i>>, size |-> MipOffset(i, i.mips),
                                  at |-> Align(End, 4096)])
     \/ \E n \in Buffers :
          things' = Append(things, [image |-> <<>>, size |-> n, at |-> Align(End, 64)])
  /\ write' = NoWrite

Numbers(kind) == {n \in 1..Len(things) : kind = IF things[n].image = <<>> THEN "buffer" ELSE "image"}
Shape(n) == things[n].image[1]

\* A region of one layer of a level: all of it or its last quarter.
Regions(i, level) ==
  {[x |-> x, y |-> y, w |-> Mip(i.w, level) - x, h |-> Mip(i.h, level) - y, d |-> Depth(i, level)] :
     x \in {0, Mip(i.w, level) \div 2}, y \in {0, Mip(i.h, level) \div 2}}

\* The write of d slices of h rows of n bytes each, from start on.
Span(by, to, level, layer, from, start, row, slice, h, d, n) ==
  write' = [by |-> by, to |-> to, level |-> level, layer |-> layer, from |-> from,
            lo |-> start, hi |-> start + (d - 1) * slice + (h - 1) * row + n]

Base(n, level, layer) == things[n].at + SubOffset(Shape(n), level, layer)

\* A write to a level and layer of an image.
ToImage(by, n, level, layer, from, x, y, h, d, bytes) ==
  Span(by, n, level, layer, from,
       Base(n, level, layer) + y * RowPitch(Shape(n), level) + x,
       RowPitch(Shape(n), level), SlicePitch(Shape(n), level), h, d, bytes)

\* vkCmdCopyBufferToImage: the region's x and y are ignored.
CopyBufferToImage(n, level, layer, r) ==
  ToImage("upload", n, level, layer, 0, 0, 0, r.h, r.d, r.w * Shape(n).bpp)

\* vkCmdCopyImageToBuffer: rows are as long as bufferRowLength says, or as in the image.
CopyImageToBuffer(n, level, r) ==
  \E b \in Numbers("buffer"), tight \in BOOLEAN :
    LET bytes == r.w * Shape(n).bpp
        row == IF tight THEN bytes ELSE RowPitch(Shape(n), level)
    IN /\ bytes * r.h * r.d <= things[b].size
       /\ Span(IF tight \/ row = bytes THEN "download" ELSE "loose", b, level, 0, n,
               things[b].at, row, r.h * row, r.h, r.d, bytes)

Least(v, w) == IF v < w THEN v ELSE w
Most(v, w) == IF v < w THEN w ELSE v

\* vkCmdCopyImage: the smaller of the pixels' sizes.
CopyImage(n, level, layer, r) ==
  \E s \in Numbers("image") \ {n} :
    LET bpp == Shape(n).bpp IN
      ToImage("copy", n, level, layer, s, r.x * bpp, r.y, r.h, r.d,
              r.w * Least(Shape(s).bpp, bpp))

\* Mutant of BlitImage: as high as level 0.
BlitImageBaseSize(n, level, layer, r) ==
  \E s \in Numbers("image") \ {n} :
    LET bpp == Most(Shape(s).bpp, Shape(n).bpp) IN
      ToImage("blit", n, level, layer, s, r.x * bpp, r.y, Shape(n).h - r.y, 1,
              (r.w - 1) * bpp + Shape(s).bpp)

\* vkCmdBlitImage: one slice, in pixels of the larger size.
BlitImage(n, level, layer, r) ==
  \E s \in Numbers("image") \ {n} :
    LET bpp == Most(Shape(s).bpp, Shape(n).bpp) IN
      ToImage("blit", n, level, layer, s, r.x * bpp, r.y, r.h, 1,
              (r.w - 1) * bpp + Shape(s).bpp)

\* vkCmdClearColorImage: the whole level and layer, at most 4096 pixels of a row.
ClearColorImage(n, level, layer) ==
  LET i == Shape(n) IN
    ToImage("clear", n, level, layer, 0, 0, 0, Mip(i.h, level), Depth(i, level),
            Least(Mip(i.w, level), 4096) * i.bpp)

\* v9_cmd_buffer_set_render_target clears whole tiles of 32-bit pixels from the start of
\* the memory object, wherever in it the image is.
SetRenderTarget(n) ==
  LET i == Shape(n) IN
    Span("target", n, 0, 0, 0, 0, 0, 0, 1, 1, Align(i.w, 16) * Align(i.h, 16) * 4)

\* A command that writes is recorded.
Write ==
  /\ \E n \in Numbers("image") : \E level \in 0..Shape(n).mips - 1 :
       \E layer \in 0..Shape(n).layers - 1, r \in Regions(Shape(n), level) :
         \/ CopyBufferToImage(n, level, layer, r)
         \/ CopyImageToBuffer(n, level, r)
         \/ CopyImage(n, level, layer, r)
         \/ BlitImage(n, level, layer, r)
         \/ ClearColorImage(n, level, layer)
         \/ SetRenderTarget(n)
  /\ UNCHANGED things

\* A part of a buffer, up to its end, which may be meant by a size.
Part(b, by, bytes) ==
  \E first \in {0, things[b].size - 1} :
    Span(by, b, 0, 0, 0, things[b].at + first, 0, 0, 1, 1, bytes - first)

\* vkCmdCopyBuffer, vkCmdUpdateBuffer: the size is given.
WriteBuffer ==
  /\ \E b \in Numbers("buffer") : Part(b, "buffer", things[b].size)
  /\ UNCHANGED things

\* vkCmdFillBuffer.  VK_WHOLE_SIZE is taken for a number of bytes: the fill runs over the
\* end of the buffer and on, until a page fault ends the process.
FillBuffer ==
  /\ \E b \in Numbers("buffer") :
       Part(b, "fill", things[b].size) \/ Part(b, "endless", things[b].size + 1)
  /\ UNCHANGED things

Faulted == write.by = "endless"

MemoryNext ==
  \/ ~Faulted /\ (Bind \/ Write \/ WriteBuffer \/ FillBuffer)
  \/ Faulted /\ UNCHANGED memory

------------------------------------------------------------------------
MemoryTypeOK ==
  /\ Len(things) <= MaxBound
  /\ \A n \in 1..Len(things) : things[n].size > 0 /\ things[n].at % 64 = 0
  /\ write.to \in 0..Len(things) /\ write.lo <= write.hi

\* No two levels and layers of an image share a byte, and all are in the size it reports.
SubresourcesDisjoint ==
  \A n \in Numbers("image") :
    LET i == Shape(n)
        subs == (0..i.mips - 1) \X (0..i.layers - 1)
        lo(s) == SubOffset(i, s[1], s[2])
        hi(s) == SubOffset(i, s[1], s[2]) + SlicePitch(i, s[1]) * Depth(i, s[1])
    IN \A s, t \in subs : /\ hi(s) <= things[n].size
                          /\ s # t => hi(s) <= lo(t) \/ hi(t) <= lo(s)

\* Where a write belongs: its buffer, or its level and layer.
Home ==
  LET n == write.to IN
    IF n \in Numbers("buffer") THEN [lo |-> things[n].at, hi |-> things[n].at + things[n].size]
    ELSE [lo |-> Base(n, write.level, write.layer), hi |-> Base(n, write.level, write.layer + 1)]

\* How far a write may get: past its home go a blit from larger pixels, by their difference
\* over one row, a render target, by the rows of its last tiles, and a download whose rows
\* are as far apart as in the image, up to the size of the level it reads.
Limit ==
  LET i == Shape(write.to)
      s == Shape(write.from)
  IN CASE write.by = "loose" ->
            Most(Home.hi, Home.lo + SlicePitch(s, write.level) * Depth(s, write.level))
       [] write.by = "blit" ->
            Home.hi + Mip(i.w, write.level) * (Most(s.bpp, i.bpp) - i.bpp)
       [] write.by = "target" -> Home.hi + (Align(i.h, 16) - i.h) * RowPitch(i, 0)
       [] OTHER -> Home.hi

\* Writes that may go anywhere: a render target whose image is not at the start of its
\* memory or has smaller pixels than four bytes, and a fill of VK_WHOLE_SIZE.
Astray ==
  \/ write.by = "target" /\ (things[write.to].at # 0 \/ Shape(write.to).bpp < 4)
  \/ write.by = "endless"

\* Every command that writes starts in the level and layer it is for, or in its buffer, and
\* ends there, or where Limit says: uploads, image copies, clears, buffer copies and
\* updates, fills of a given size, packed downloads and blits between pixels of one size
\* change no neighbour in the memory, and the others no more than that.
NoSpill == write.by # "none" /\ ~Astray => Home.lo <= write.lo /\ write.hi <= Limit

========================================================================
