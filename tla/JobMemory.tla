--------------------------- MODULE JobMemory ---------------------------
(***************************************************************************)
(* The job memory of one slot of a v9 command buffer: where v9_slot_repoint*)
(* puts every descriptor, how many bytes the packers of v9_pack.h write,   *)
(* and which descriptors the hardware reaches from a job.                  *)
(*                                                                         *)
(* A block is a range of bytes that every write of the driver covers as a  *)
(* whole or leaves alone, except for the clear of the polygon list, whose  *)
(* length follows the frame.  Tables that the code lays over one another   *)
(* therefore share blocks: entries 2..7 of the UBO table are entries 0..5  *)
(* of the SSBO table, and entries 6 and 7 of the SSBO table are the first  *)
(* 64 bytes of the flush job.                                              *)
(***************************************************************************)
EXTENDS Integers

\* <<offset in the slot's memory, bytes>>.  0x6000 = 24576, 0x7000 = 28672,
\* 0xB100 = 45312, 0xC100 = 49408, 0xCC00 = 52224, 0xD200 = 53760, 0xE000 = 57344.
Place ==
  [mfbd      |-> <<24576, 128>>,   \* MFBD, 32 words
   rt0       |-> <<24704, 64>>,    \* render target 0
   sampleloc |-> <<45312, 192>>,
   dcd       |-> <<49408, 384>>,
   sp        |-> <<52224, 16>>,    \* fragment, compute and position shader programs
   sp_cs     |-> <<52352, 16>>,
   sp_vertex |-> <<52480, 16>>,
   res0      |-> <<53760, 16>>,    \* resource table: UBOs
   res1      |-> <<53776, 16>>,    \* SSBOs, or attribute buffers
   res2      |-> <<53792, 16>>,    \* attributes
   res3      |-> <<53808, 16>>,    \* textures
   res4      |-> <<53824, 16>>,    \* samplers
   ubo01     |-> <<54016, 64>>,    \* UBO entries 0 and 1
   ubo27     |-> <<54080, 192>>,   \* UBO entries 2..7, and SSBO entries 0..5
   flush     |-> <<54272, 64>>,    \* the flush job, and SSBO entries 6 and 7
   heap      |-> <<54528, 32>>,
   ctx       |-> <<54784, 192>>,
   attrs     |-> <<55040, 768>>,   \* attribute buffers (0xD700) and attributes (0xD900)
   fau_cs    |-> <<56576, 128>>,
   fau_fs    |-> <<56704, 128>>,
   fau_vs    |-> <<56832, 128>>,
   pos       |-> <<57344, 48>>,
   blend     |-> <<57408, 32>>,
   depth     |-> <<57440, 32>>,
   idx       |-> <<57536, 6>>,
   tls       |-> <<57600, 32>>,
   tiler     |-> <<57856, 384>>,
   frag      |-> <<58240, 128>>,
   compute   |-> <<58880, 128>>,
   textures  |-> <<59392, 256>>,
   samplers  |-> <<59904, 256>>,
   payload   |-> <<60160, 256>>]

Blocks == DOMAIN Place

PolyList     == 28672                     \* 0x7000
PolyReserved == 45312 - 28672             \* up to the sample locations: 0x4100
HeapStart    == 262144                    \* 0x40000

\* 16x16 bins of a frame, eight bytes of header each, at least a page.
PolyBytes(w, h) ==
  LET bytes == ((w + 15) \div 16) * ((h + 15) \div 16) * 8
  IN IF bytes < 4096 THEN 4096 ELSE bytes

\* The clear of v9_cmd_buffer_begin stops at the tiler heap, that of submit does not.
BeginClear(w, h) ==
  IF PolyBytes(w, h) > HeapStart - PolyList THEN HeapStart - PolyList ELSE PolyBytes(w, h)

SubmitClear(w, h) == PolyBytes(w, h)

\* Blocks of which a clear of the polygon list zeroes a part.
Wiped(bytes) == {b \in Blocks : PolyList <= Place[b][1] /\ Place[b][1] < PolyList + bytes}

\* What the hardware reaches from a job: the shader environments and the pointers the
\* packers write.  vs: the tiler job has a position shader.
TilerReads(vs) ==
  {"tiler", "ctx", "heap", "depth", "blend", "tls", "sp", "fau_fs",
   "res0", "res1", "res2", "res3", "res4",
   "ubo01", "ubo27", "attrs", "textures", "payload", "samplers"}
  \cup IF vs THEN {"sp_vertex", "fau_vs"} ELSE {}

FragmentReads == {"frag", "mfbd", "rt0", "sampleloc", "dcd", "ctx", "heap", "depth", "blend", "sp", "tls"}

ComputeReads ==
  {"compute", "sp_cs", "tls", "fau_cs", "res1", "ubo27", "flush",
   "res3", "textures", "payload", "res4", "samplers"}

\* Written by v9_slot_pack_static and by nobody else, apart from clears and repairs.
StaticBlocks ==
  {"mfbd", "sampleloc", "dcd", "heap", "ctx", "pos", "blend", "depth", "idx", "tls"}

==========================================================================
