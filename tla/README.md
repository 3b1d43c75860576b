# A TLA+ model of the PanVK v9 driver

The repository is a Vulkan driver for Mali Valhall (v9) GPUs on the MTK r49 kbase kernel
driver.  Its difficulty is not in any one function.  It is in keeping a GPU whose kernel
driver loses completion events, re-delivers stale ones and can hang the phone on one wrong
submit usable by a multi-threaded Vulkan application, with timeouts, retries, context
reopens and marker files.  These modules model that behaviour.  Paths below are relative to
the repository's `src/` directory.

## The system

| Part | State | Operations | Talks to |
|---|---|---|---|
| Kernel interface: `kbase_winsys.c`, `kbase_slot_unwedge.c` | fd, `atom_counter`, `poisoned`, `submit_lock`; the marker file | open, close, submit job or batch, wait for an event, drain, null flush, mark, check | the kernel (ioctl, poll, read), files |
| Device layer: `pan_kmod_kbase.c` | `kdev`, `consecutive_failures`, `rot_atom`, `dev_lock`; the wedge file | create, destroy, reopen, submit atom / tiler retry / fragment / batch, wait, BO allocation | kernel interface |
| Frame submission: `v9_cmd_buffer_submit_impl` in `v9_cmd_stream.c` | the command buffer's job memory, slot in flight | compute, then batch or tiler, pre-flush, fragment | device layer |
| Recording: the rest of `v9_cmd_stream.c` | two slots of job memory, sticky draw and compute flags, shader BOs, reference count | create, begin, set state, draw, dispatch, end, ref, destroy | device layer (BOs) |
| Queue, fences, semaphores, command buffers: `panvk_v9_entrypoints.c` | `last_v9_cmd`, `submit_mutex`, fence and semaphore values, `v9_cmd` pointers | submit, submit2, reset, free, begin render pass, dispatch, wait | recording, frame submission |
| Pipelines and compiler guard (same file) | compile jobs, a thread with a timeout | create pipelines | compiler |
| Swapchain (same file, `panvk_v9_x11.c`) | images, `next_image` | create, acquire, present | queue, X11 or Wine |
| Instances, devices, destroy watchdog (same file) | device objects, the watchdog's two flags | create, destroy, arm | device layer |
| Memory, images, descriptors (same file) | BOs, layouts, descriptor sets | allocate, bind, update | device layer |
| Compiler: `panvk_v9_compiler_mesa.c`; packing: `v9_pack.h` | none that outlives a call | NIR passes, packing of descriptors | |
| Stubs and scripts | none | | |

Application threads call the entry points.  `vkQueueSubmit*` holds `submit_mutex` of its
VkDevice and calls frame submission, which makes two to four device-layer calls, each under
`dev_lock`.  One `pan_kmod_dev` is shared by all VkDevices of a physical device, so threads
of several VkDevices, and BO allocations of any thread, meet at `dev_lock`.

What is hard, and what makes each part correct:

* **Interleaving around the locks.**  Checks are made before `dev_lock` is taken and
  accounts are kept after it is released, so a call runs on a device that has changed since
  its check.  Right means: nobody works on a closed or poisoned context, and limits that
  are reached stay reached.
* **An unreliable kernel.**  Events are lost, late, out of order, or of a closed context.
  Right means: a wait never takes another atom's event for its own.
* **Recovery that must not go on for ever.**  Reopen after a timeout is bounded, poison
  and the limit are final, and the files carry this to other processes and nowhere else.
* **Files shared by processes that die.**  Right means: a marker of this boot refuses, one
  of an earlier boot does not.
* **Objects shared by threads.**  Reference counts are plain integers, a fence must tell
  the truth about the work, a device may be destroyed.
* **Recorded state that outlives its recording**: sticky flags, swapped slots.

`PROJECT.json` lists the hazards line by line, with the properties that cover each one.

## Modules

### GpuDevice: what the device layer promises

The device as its callers may rely on it, in three variables: `health` (the context is open,
poisoned or closed), `marked` (the marker of this boot is on file) and `waiting` (somebody
waits for an atom).  A poisoned context is only ever closed, a closed one stays closed while
anybody uses the device object, and no context is replaced under a waiting caller.  PanKmod
is shown to implement it (`KeepsPromise`: `Device == INSTANCE GpuDevice WITH ...`, whose
mapping reads the three from PanKmod's contexts, marker and program counters), and
FrameSubmit runs over it.

### PanKmod: the device layer

One module for `pan_kmod_kbase.c` together with the ends of the kernel-interface calls it
makes.  A call is a walk of one thread through labels, and a step ends where another thread
may run:

| Actions | Code |
|---|---|
| `Enter`, `Refuse` | the checks before the lock (`!dev->kdev`, the failure limit) |
| `Lock` | `pthread_mutex_lock(&dev->dev_lock)` |
| `Submit`, `Ioctl`, `Wait` | poison test of `kbase_submit_job`, the ioctl, `kbase_wait_event_timeout` |
| `Unwedge` | `kbase_slot_unwedge` |
| `Poison`, `Mark` | `kbase_dev_set_poisoned`, `kbase_wedge_mark` |
| `Count`, `Reopen`, `Limit` | a fragment timeout: the count, then a new context or the wedge file |
| `Release`, `Reset`, `Clear`, `Bump` | the unlock and the accounting done after it |
| `Dropped` | the marker written by frame submission for a frame it gives up |
| `AllocBegin`, `AllocEnd` | `pan_kmod_bo_alloc`, which takes no lock |
| `Recreate` | destroy and create |

`NextStep` and `ReturnValue` are the two tables of what follows from how a submit or wait
ended.  The kernel is free: any event, error or timeout.  `batched` is `V9_BATCH_SUBMIT`, an
environment variable that never changes.  `FragThreads` are the threads that submit frames.
With one VkDevice `submit_mutex` makes that one at a time, so a single frame thread beside
others that submit compute or allocate is that case, and several frame threads are several
VkDevices on one physical device.  `CallAllowed` keeps the order of calls of
`v9_cmd_buffer_submit_impl`.

Left out: `pan_kmod_submit_flush_timeout` and `pan_kmod_wait_event` (no caller in `src/`), the
dry run, properties, sizes.  `ReopenBudget` counts contexts with a history variable,
`reopens`.

### KbaseAtoms: atom numbers and events

The same calls seen through the numbers: `NextNr` is `next_atom_id`, `SubmitJob`,
`SubmitBatch` and `SlotUnwedge` give out numbers and dependencies, `Read` is one turn of the
poll loop with its filter `Accepts`, `Reopen` and `Recreate` replace the context through
`Replace`, in which every unread event of the old context is lost, arrives before the
drain or arrives after it.  A submit whose ioctl fails has used its numbers up and issues no
atom (`Issue`); the retry's flush then depends on a number that no atom has.  `jobs` is the
history of all numbers given out, which lets a property say which atom an event belongs to
where the code sees only a number.  The kernel completes atoms in any order (`Complete`, which
may lose the event) and delivers late events (`Deliver`).  When to reopen or retry is
PanKmod's; here the holder of the lock may do either whenever a wait has ended.

The numbers come round, so it matters how long the kernel may still have an atom, or an event
of it, unreported.  `Patience` is that time, counted in numbers given out: `Issue` waits until
no older one is outstanding.  It is between 3 and `Modulus - SafeZone`, which for 254 and
200 is 54 numbers, or 18 frames.  It is an assumption about the kernel, which stops jobs that
hang (the soft-stops of `pan_kmod_kbase.c:285` and `466`) and delivers an event of a closed
context within about 50 ms (line 157), of which the reopen itself sleeps ten.  A frame that
loses an event holds `dev_lock` for a wait of 400 ms or more, and what hangs outside a batch
has its context replaced or poisoned.

### WedgeMarker: the marker file between processes

`kbase_wedge_mark` and `kbase_wedge_check` step by step over inodes: `fopen("w")` truncates
(`MarkBegin`) before `fclose` writes (`MarkEnd`); a check opens, reads and compares
(`CheckBegin`, `CheckRead`) before it unlinks by name (`CheckUnlink`).  Processes crash
anywhere; a reboot keeps the file and changes the boot id, which may or may not be readable
in a boot.  `owed`, `marked` and `disturbed` are history.

### VkQueue: submission and the life of v9 command buffers

`vkQueueSubmit`, `vkQueueSubmit2`, `vkCmdDispatch`, `vkCmdBeginRenderPass`,
`vkResetCommandBuffer` / `vkFreeCommandBuffers` and `vkResetFences`.
`v9_cmd_buffer_ref` and `v9_cmd_buffer_destroy` are a load and a store, because the count is
a plain `unsigned` and recording threads drop references without `submit_mutex`.  `last` is
`queue->last_v9_cmd`.  The application keeps Vulkan's rules (`Unused`): a command buffer or
a fence is used by one call at a time, and nothing is reused before the call that submits
it has returned.  A list flattens the VkSubmitInfos of one call.

### JobMemory, CmdBuffer, Recorder: what is recorded

`JobMemory` is the layout of a slot's job memory: the place of every descriptor and table,
which of them a clear of the polygon list reaches and what each job reads.  Tables that the
code lays over one another share blocks: SSBO entries 0..5 are UBO entries 2..7, SSBO entries
6 and 7 are the flush job.  `CmdBuffer` has every function of `v9_cmd_stream.c` that writes
job memory, as an operator from a command buffer to a command buffer; a block holds the
number of the operation that wrote it, not its bits.  A table with an index of 8 or more
(`Entries`) is refused with -E2BIG before anything is written, and no caller looks: the last
one stays.  `Recorder` is the entry points: begin,
reset, draws, dispatches, render passes and dynamic rendering, in the order in which the code
applies buffers, textures, attributes and shaders, with allocations that may fail.  `log` is
history: the last draw and dispatch, which came last, whether everything they needed was
compiled and stored (`whole`), and what created the command buffer.

### FrameSubmit: one frame, atom by atom

`v9_cmd_buffer_submit_impl` over Recorder and GpuDevice.  A call into the device layer is one
step, as `dev_lock` is held throughout; `Others` is what other threads may do to the device
between two calls.

| Actions | Code |
|---|---|
| `Submit` | clears, fragment job, the triangle of a frame without draws |
| `SubmitCompute`, `SubmitTiler`, `SubmitFlush` | `pan_kmod_submit_atom`, and the tests of result and `event_code` after it |
| `TilerRetry` | `pan_kmod_submit_tiler_retry`, to save the frame or to heal the slot |
| `SubmitFragment` | `pan_kmod_submit_fragment_timeout`, and the scan for green pixels after a timeout |
| `SubmitBatch` | `pan_kmod_submit_frame_batch` and its wait |

`event` keeps the value of the call before when a call does not write it, as the code's
variable does.  `fate` is history: a frame that was given up after its tiler failed is
"dropped", one that was kept without an event of its fragment job is "kept".  What keeps a
frame is a scan of the colour buffer for a pixel `0xFF00FF00`, which an earlier frame or a
clear may have left there, so in the model it may answer either way whether or not the
fragment job ran.

### CompilerGuard: pipelines and the compile threads

`vkCreateGraphicsPipelines`, `vkCreateComputePipelines`, `panvk_compile_guarded`, the fallback
shaders, `pipeline_cleanup`.  A compile may end, fail or never return; the caller's join
has a timeout (`Timeout`) and an abandoned thread may still write (`LateEnd`).  `late` is
history: the pipelines such a thread wrote into.

### Descriptors, ImageMemory, Swapchain, Watchdog: objects of the entry points

* **Descriptors**: `binding_offsets`, the resource index of a pipeline layout, allocation with
  a variable count, writes, copies, binding, and the table a draw collects.  The array of a
  set has only the slots it was allocated with, while a draw and a copy read up to the
  declared number of descriptors: what lies beyond the array is anything (`Contents`).
* **ImageMemory**: `panvk_v9_image_layout_init` and the byte range of every command that
  writes to memory on the CPU: copies, blits, clears, fills and render targets.  A fill of
  `VK_WHOLE_SIZE` runs on until the process faults (`Faulted`).
* **Swapchain**: create, destroy, acquire, render, present, release.  `Acquire` hands out the
  next image whether or not it is held.
* **Watchdog**: instances, devices and `pvk_arm_watchdog`.  The two globals are written one at a
  time by the threads of several instances, which may all find the watchdog unarmed, and
  by the watchdogs they start.

`RunningSum` is what a loop has added up before one of its rounds: the offset of a binding, of a
mip level, the resource index of a set.

`MCObjects` puts these four and CompilerGuard in one run.  They share no state, so a behaviour
moves one of them, chosen by `part`, and their product is never built.

### How they fit

GpuDevice is the seam.  Below it PanKmod decides, and KbaseAtoms and WedgeMarker refine two
of its assumptions (that a wait ends with its own atom's event; that the marker is one bit).
Above it FrameSubmit composes recording with the device.  VkQueue stands on top, with
`v9_cmd_buffer_submit` as one step that succeeds or fails, and is about what several
application threads do to the objects.  They are separate modules because their product
would be out of TLC's reach and because each abstracts what the others are about.

## What is checked

| Run | Shows | Bounds |
|---|---|---|
| `pankmod` | lock, poison, limit and files are right with one frame thread and one other; every lock is given back; GpuDevice is implemented | 2 threads, 3 contexts (installed, held, new), limit 3 as in the code |
| `pankmod_limit` | finding: with two frame threads the limit is undone | the same, both submit frames |
| `pankmod_null_flush` | finding: the null flush goes to a poisoned context | the same as `pankmod` |
| `pankmod_alloc` | finding: BO allocation uses a closed context | the same as `pankmod` |
| `atoms` | a wait takes only its own event, live numbers differ, dependencies name the right atom | 2 threads, 8 numbers given out of a rotation of 5 with a safe zone of 2 and the longest patience, 3; 2 reopens, 1 re-create |
| `atoms_reopened` | finding: a second reopen reuses the first's numbers | the code's 254, 200 and so 54; 4 numbers, 2 reopens |
| `atoms_wrap` | finding: a null flush numbered 1 depends on one above the rotation, which no atom has | rotation of 5, 6 numbers |
| `marker` | no refusal without a marker of this boot; a complete marker is lost only in named ways | 2 processes, 3 inodes, 3 boots (old, current and newer marker contents) |
| `queue` | no use after free, one renderer, fence truth of `vkQueueSubmit` | 2 threads, 2 command buffers, 3 addresses (two owned, one kept by the queue), 1 fence, lists up to 2 |
| `queue_fence` | finding: `vkQueueSubmit2` signals the fence of a failed submit | the same, lists of 1 |
| `frame` | what the GPU finds in the job memory is what the last draw or dispatch wrote; a submit reports what was run; no fragment without its tiler | 2 draws or dispatches per command buffer, 1 failed allocation, 3 graphics and 3 compute pipelines, passes below and above 300x300; any number of submits |
| `objects` | no orphaned compile thread, no half pipeline, every creation returns; descriptor tables, image layouts and writes are right; the window shows what was presented; the watchdog's verdict is true | 2 pipelines, 2 compile threads; 2 sets of 3 layouts, 2 places for them and tables of 4 instead of 8 and 8, 2 writes; 4 shapes of image, 2 of buffer, 2 of them bound; 1 or 2 swapchain images, 3 held, counter modulo 5; 2 instances, 2 watchdogs |

The hazards of the concurrent modules involve two actors each, and two suffice to interleave
a check, a step of the other and the use.  `MCKbaseAtoms` and `MCVkQueue` add symmetry over
threads, command buffers and addresses; nothing in those modules orders them, and their
properties are safety properties.

In `atoms`, the rotation is short so that the numbers come round: eight of them pass every
number and begin the second turn, with batches and single atoms, failed ioctls and both kinds
of new context in between, and all proportions the code's constants have (`SafeZone +
Patience = Modulus`).  `MCKbaseAtoms` gives TLC a view without the history of atoms that no
step reads any more.

In `frame`, two operations are one before and one that may overwrite it, and `BeginRenderPass`
starts over with two more.  The pipelines are chosen for what they disturb: `Full` fills every
table, `Wide` has a uniform buffer, `Short` a texture and `Broad` a storage buffer whose index is
refused, `Stub` has no compiled shader, `Long` has SSBOs that reach into the flush job.  The
`Large` pass has a polygon list longer than its reserve. Deadlock is not checked in this run:
nothing is recorded for a device that was lost, so there the behaviour ends.

### What the properties leave out

A property that would hold only with an exception names the exception, because the code
does go wrong there:

* `crossed` (NoStaleMatch): a new context was to give out, among its first `Patience` numbers,
  the number of an event that came after its drain.  As `atoms_reopened` shows, the wait then
  takes it.  `SafeZoneTrue` says when it cannot happen.  The other case, a batch nobody waited
  for until its number came round, would need 254 numbers given out by other threads in between.
* `jobs[j].nr = 1` (DependenciesRight): the flush with number 1 depends on no atom, as
  `atoms_wrap` shows, so it does not wait for the fragment.
* `Spared` (DrawIntact, DispatchIntact, FrameFits): the clear of the polygon list in submit
  (`v9_cmd_stream.c:869`) is not bounded and runs over descriptors of large frames.  The clear
  at begin is bounded.
* `1..Entries` (DrawIntact, DispatchIntact): a table with an index of 8 or more is refused and an
  older one stays, which the GPU then uses.
* `whole`, `latest`, `again` (DrawIntact, DispatchIntact, ComputeOnly): a draw whose shader was not compiled
  or not stored uses an older one; a dispatch before a draw loses its buffers, as `set_ubos`
  clears the whole resource table, although the comment at `panvk_v9_entrypoints.c:4783-4787`
  keeps the command buffer for it; a second submit finds the last SSBOs under the flush job.
* `creator` (FrameFits): a command buffer that a dispatch made is 300x300, and a pass that
  goes on with it writes the new size into no descriptor.
* `fate` (FrameTruth): a submit returns 0 for a frame it dropped, as the comment there intends,
  and for one it kept on the word of the green pixels or, in a batch, on nobody's.  Whether a
  kept frame was rendered the code does not know, and the property does not claim it; it says
  that the fragment job of a kept frame was sent, and that of a dropped one was not.
* `Void`, `VariableLast` (TableFaithful, WritesInBounds): a write that goes on into the next
  binding is dropped; in a set with fewer descriptors a binding of variable count must be the
  last listed, or the arrays of the bindings behind it are cut.  A table with a number beyond
  its size is refused as a whole; the property says that this does not happen to a class that
  fits.
* `Limit`, `Astray` (NoSpill): three commands may write beyond the level they are for, and the
  property says by how much: a blit from larger pixels, a render target by the rows of its
  last tiles, an image-to-buffer copy with the image's rows.  Of a render target whose
  image is not at the start of its memory, or has pixels below four bytes, and of a fill of
  `VK_WHOLE_SIZE`, nothing can be said.
* `regular` (SeenIsPresented): an application that acquires an image with all of them held, or
  gives them back out of order, gets one it holds already; so does one whose counter wraps
  when the number of images does not divide 2^32.  Once nothing is held, all is well again.
* `lost` (VerdictTrue): the flag is reset after an instance was destroyed, by the round's own
  `vkDestroyDevice` (`panvk_v9_entrypoints.c:682-684`) or by a second one that found the watchdog
  unarmed too.  The watchdog then says that the instance was not destroyed, and is wrong.
* `late` (WholeOrNone): an abandoned compile thread writes into a pipeline that is finished
  or reused.

### Fairness

`LockReleased` (PanKmod) uses weak fairness of each thread's steps inside a call.  The code
justifies it since every wait has a timeout (`kbase_wait_event_timeout`) and no call waits for
another thread while it holds `dev_lock`.  Fairness of entering a call or of the lock is not
assumed.

`CreateReturns` (CompilerGuard) uses weak fairness of `Spawn` and `Timeout`: the caller goes
on by itself and `pthread_timedjoin_np` returns.  No fairness of the compile threads is assumed.
The Android build has no timed join, so the property is about the others; the mutant of
`Timeout` is that build.

Each violated property quotes a comment of the code; the findings in `PROJECT.json` give the
lines and the scenario.

## What is proved

The theorems hold for every set of threads, contexts, processes, files, pipelines, layouts and
images and for every limit.  Each safety property of a passing run has one; where it needs
more than the constants' types, the assumption is named here.

**PanKmodProofs.**  `TypeCorrect`: the types, with `Rounds` (a tiler retry makes at most two
rounds), which the types of the labels need.

`LockDiscipline`: `ContextHeld` and `NoAtomOnPoisoned`, for any number of frame threads.  The
invariant adds `Exclusion`: whoever is at a label of a critical section owns the lock.
`ContextHeld` is not inductive without it, since another thread at `Reopen` would close
the context.

`PoisonFinal`, assuming `MarkerWritable`: the invariant is that a poisoned context has its
marker on file or its thread, holding the lock, is about to write it; opening a context
reads the marker.  Without a writable marker the claim is false, as the code says.

`FailureAccounting` and `LimitFinal`, assuming `SingleFragThread`: the invariant ties
`consecutive_failures`, the number of reopens and the value a thread has read and not written
back, and says where the wedge file may lag behind.  The assumption is needed: `pankmod_limit`
is the counterexample without it.

`DeviceRefinement`, assuming `MarkerWritable`: PanKmod's specification implies GpuDevice's
under the refinement mapping.  Every action is a step of the abstract device or a stutter.
It rests on the invariants of `LockDiscipline` and `PoisonFinal` and on `HeldOpen`: a thread
about to wait, or recovering from a fragment's timeout, has an open context before it.  A
reopen therefore happens while nobody waits, and a poisoned context only gives way to none.

**KbaseAtomsProofs.**  `AtomsTold`: types, `NoStaleMatch`, `NoLiveCollision` and
`DependenciesRight`, for any number of threads, atoms, reopens and re-creates, and however often
the numbers come round.  It assumes `PatienceAssumption`, what is said of the kernel above.  In
`AtomInv`, `Numbering` says that the k-th number of a context is k after the counter it began
with, so that two numbers less than a turn apart differ (`RemaindersApart`); `Events`, that
what the kernel may still report is among the last `Patience` numbers, and that an event of an
older context has, unless contexts have crossed, no number of the open one's first zone;
`Depends`, that a dependency means the number just before; `Owners`, that whoever holds the
lock has the newest atom.  An event then matches a wait only if it is the atom's own, or the
wait is a whole turn late.

`SafeZoneTrue`: contexts cross only when a device object has been created anew or a number
above 200 has been used.  So the first reopen of a device is safe as long as its
context has not used 200 numbers, and that is all of the comment at `pan_kmod_kbase.c:169-174`
that is true.

**WedgeMarkerProofs.**  `MarkerTypes`, and `MarkerCorrect`: `RefusalsTrue` and `WedgedRefused`.
The invariant `Quiet` says what holds while nobody has overlapped a check with a mark: every
mark works on the named file, a complete marker's name stays, its file holds this boot's id
or is being rewritten, and nobody is about to unlink it.

**VkQueueProofs.**  `QueueTypes`, `UseAfterFree`, `OneRenderer` and `SubmitFences`, for any
number of threads, command buffers, addresses and fences.  A v9 command buffer has at most two
holders, its owner and the queue.  The invariant says that its count is at least the number of
holders, and that the count a thread has loaded is at least 2 while the other holder is still
there; so the lost updates of the unsynchronised count only leave it too high, and memory
may leak but is not used after it was freed.

**FrameSubmitProofs.**  For any pipelines, passes and bounds, assuming of a pipeline that its
counts are natural numbers (`PipelinesAssumption`) and of a pass what Vulkan demands, an area
that is not empty and lies in its image (`PassesAssumption`).

`TilerBeforeFragment`: `OrderInv` says that past the tiler its job has run or the context is
closed, and a closed one does not come back during a frame, so an `event_code` left by an
earlier call lets no fragment through.

`FrameTypeOK`, `DrawsIntact`, `DispatchesIntact`, `FramesFit`, `ShaderBosAreOwned` and
`ComputeAlone` follow from one invariant, `FrameInv`.  What the GPU finds when a frame is
rendered was recorded many operations before, so the properties, which speak of the moment
of rendering, are not inductive.  `Held` says the same of the command buffer at any time:
the blocks of a draw that came last hold its number, but for those the clear of a submit
would reach (`DrawHeld`); those of a dispatch that came last do so until the first submit
(`DispatchHeld`); the sized and the static descriptors are there (`PassFits`); and without a
recorded draw the draw flag is down (`NoDraw`).  That each operation keeps it is put
together from the functions of CmdBuffer: `Wrote(c, d, x, full, touched, changed)` says that
d is c with the blocks `full` written by operation x, no blocks but `touched` changed and no
fields but `changed`; each function has a lemma of this form, and `ThenWrote` joins two
calls.  Where tables lie over one another, the later of two writes stays, so the order of
the calls in the code is what the proof is about.

`SubmitTruth`: `TruthInv` adds that no graphics label is reached before the dispatch has run
(`ComputeFirst`), and that nothing is decided of a frame, and no fragment job sent, before the
submit is done (`FateLast`).

**ObjectsProofs.**  The parts of the entry points that share no state, over MCObjects' `Spec`,
for any values of its constants.  `ObjectsInv` is the conjunction of one invariant per part;
a step moves one part and leaves the variables of the others (`EachItsOwn`).

* `ThreadsAwaited`, `PipelinesWhole` (`GuardInv`): a thread that was not abandoned exists only
  while its caller is in the join; a pipeline under construction has the binaries of exactly
  the stages before the current one (`Collected`).  The stage lists are assumed to be those
  `pipeline_parse_shader_stages` accepts.
* `TablesFaithful`, `WritesStay` (`DescriptorInv`, in DescriptorsProofs).  What the application
  wrote is in the set's array, at the offset of the binding, wherever the array has that slot; a
  write or copy keeps it because the slots of two bindings do not overlap (`SlotsApart`).  The
  slots that are read beyond the array may hold anything, so the rest is proved for every such
  content.  A descriptor's resource index grows with its place in the loops of
  `command_buffer_apply_ubos` (`Numbering`), so no two descriptors have one index, and no
  more come before one than its index says (`FewBefore`): one whose index is in the table is
  collected before the table is full.  A class that fits has no other index, so its table is
  not refused (`NotRefused`).  Assumed: a layout has descriptors of the modelled classes, and a
  variable binding that it has (`LayoutsAssumption`).
* `ImagesApart`, `CommandsStay` (`MemoryInv`, in ImageMemoryProofs).  The size of an image is
  the end of its last level, each level and each layer begins where the one before it
  ends (`Levels`, `Layers`, `Pitches`); a region of rows lies in its level
  (`Placed`, `RegionFits`), or goes on beyond it by what its last row has too much, and the whole
  tiles of a render target are compared with its rows (`TilesFit`).  Each command has a lemma that
  its bytes end at `Limit`.  Assumed: extents and texel sizes are positive
  (`ImagesAssumption`), buffers are not empty (`BuffersAssumption`).
* `PresentedIsSeen` (`SwapchainInv`): as long as `regular` holds, the images held are the last
  ones handed out (`InTurn`), at most as many as there are, hence different
  (`RemaindersDiffer`), so a frame is not rendered over one that waits for its present
  (`Undisturbed`).
* `WatchdogTrue` (`WatchInv`): from the moment a round resets the flag, the flag says what the
  round's history says (`Tellable`), whatever other rounds do: another reset marks the round
  as lost.
* `ObjectsTyped`: the types of all five.

The loops that add up offsets and indices are recursive functions (RunningSum), whose values
are defined by CHOOSE.  ImageMemoryProofs proves once that such a function exists and what one
step of it does (`Recursion`, `SumStep`, `SumsGrow`), by an induction over a set of numbers
(`Induction`), which needs no operator as a parameter.

Only model-checked: liveness, `LockReleased` and `CreateReturns`, as fairness is out of the
prover's reach.  The properties of the runs that find a violation are false and have no theorem.

## Not modelled, and why

The shader compiler transforms programs and keeps no state; its callers see a call that
succeeds, fails or never returns.  Of the packing functions the models have how much they
write and which descriptors point where; the bits are the hardware's.  X11, Wine and guest
memory are input and output.  Feature queries return constants; the stubs, `vkCmdExecuteCommands`,
query pools and pipeline caches are empty or keep nothing.  Memory
mapping is the kernel's.

The optional device cycle (`V9_FORCE_CYCLE_DEV`) and the second post-flush
(`V9_FORCE_POST_FLUSH`) are off by default and left out; with the first on, every other
command buffer holds a freed device after one cycle.  Viewports, scissors, vertex and index
addresses and dynamic state reach no memory that something else shares.  Semaphores and
events take their values inside a submit that has finished when it returns.

## Plan

1. Semaphores and `vkWaitForFences` in VkQueue, with threads that wait while another is
   inside a submit, and the destruction of a device with work in the queue; their invariants
   extend those of VkQueueProofs.
2. VkQueue over FrameSubmit: the submit of a command buffer, now one step, as the abstraction
   of a frame, by a refinement like that of GpuDevice.
3. `LimitFinal` for several frame threads with one VkDevice, which `submit_mutex` keeps apart.
