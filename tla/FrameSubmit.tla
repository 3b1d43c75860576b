-------------------------- MODULE FrameSubmit --------------------------
(***************************************************************************)
(* v9_cmd_buffer_submit_impl: one queue submits what a command buffer has  *)
(* recorded (Recorder), atom by atom, to a device that other threads use   *)
(* too (GpuDevice; that pan_kmod_kbase.c implements it is shown with       *)
(* PanKmod).  A call into the device layer is one step: dev_lock is held   *)
(* from its submit to its last recovery, and others act in between calls.  *)
(* The event code a call does not write keeps the value of the call before.*)
(***************************************************************************)
EXTENDS Recorder, GpuDevice

VARIABLES
  pc,       \* the next call, "idle" while recording, "done" when submit returns
  ret,      \* what the last call, in the end the submit, returned
  event,    \* event_code
  hadDraw,  \* had_draw_before_submit
  again,    \* history: v9 was submitted before
  sent,     \* history: the atoms of this submit that reached the GPU
  ran,      \* history: those that completed
  fate,     \* history: what was decided of the frame
  lost      \* history: a non-fragment atom of some thread has hung the GPU

frame == <<pc, ret, event, hadDraw, again, sent, ran, fate, lost>>
vars  == <<recording, device, frame>>

\* Event codes by what the submit does with them: 0x1, 0x4 and 0x4002 mean the atom ran,
\* 0x42 and 0x58 that the slot is wedged.
Events == {"RAN", "WEDGED", "OTHER"}

\* A frame is to be rendered; kept, though nothing said that its fragment job was done;
\* or dropped, its tiler job having failed.
Fates == {"due", "kept", "dropped"}

Init ==
  /\ RecordInit /\ DeviceInit
  /\ pc = "idle" /\ ret = "OK" /\ event = "NONE"
  /\ hadDraw = FALSE /\ again = FALSE /\ sent = {} /\ ran = {}
  /\ fate = "due" /\ lost = FALSE

\* Mutant of Finish: the event code takes the place of the result.
FinishRaw(result) == pc' = "done" /\ ret' = IF result = "OK" THEN result ELSE event

Finish(result) == pc' = "done" /\ ret' = result

\* The tiler job of a command buffer without draws.
Triangle == <<"triangle">>

\* Mutant of Prepared: the flush job is packed together with the fragment job.
PreparedFlush(c) ==
  LET wiped == Put(Wipe(c, SubmitClear(c.config[1], c.config[2])), {"frag"}, Sized(c.config))
      drawn == IF wiped.draw THEN wiped ELSE DrawIndexed(wiped, Triangle)
  IN [Put(drawn, {"flush"}, Static) EXCEPT !.rendered = TRUE]

\* Job headers, the polygon list, the fragment job, a triangle if nothing was drawn.
Prepared(c) ==
  LET wiped == Put(Wipe(c, SubmitClear(c.config[1], c.config[2])), {"frag"}, Sized(c.config))
      drawn == IF wiped.draw THEN wiped ELSE DrawIndexed(wiped, Triangle)
  IN [drawn EXCEPT !.rendered = TRUE]

Goto(label) == pc' = label /\ ret' = "OK"

\* V9_BATCH_SUBMIT is read from the environment at every submit.
GoOn == Goto("tiler") \/ Goto("batch")

\* Mutant of Submit: the draw flag is read after the triangle was drawn.
SubmitLateFlag ==
  /\ pc = "idle" /\ v9 # None
  /\ v9' = Prepared(v9)
  /\ hadDraw' = Prepared(v9).draw /\ again' = v9.rendered
  /\ IF v9.compute THEN Goto("compute") ELSE GoOn
  /\ UNCHANGED <<gp, work, faults, log, device, event, sent, ran, fate, lost>>

Submit ==
  /\ pc = "idle" /\ v9 # None
  /\ v9' = Prepared(v9)
  /\ hadDraw' = v9.draw /\ again' = v9.rendered
  /\ IF v9.compute THEN Goto("compute") ELSE GoOn
  /\ UNCHANGED <<gp, work, faults, log, device, event, sent, ran, fate, lost>>

------------------------------------------------------------------------
\* pan_kmod_submit_atom as its caller sees it: result r, event code e.
AtomOutcome(atom, r, e) ==
  \/ /\ health = "closed"                             \* no context: refused at once, or later
     /\ \/ r = "EINVAL" /\ e = event
        \/ r = "EIO" /\ e = "NONE"
     /\ UNCHANGED <<device, sent, ran, lost>>
  \/ /\ health = "poisoned" /\ r = "ETIMEDOUT" /\ e = "NONE"
     /\ marked' = TRUE
     /\ UNCHANGED <<health, waiting, sent, ran, lost>>
  \/ /\ health = "open" /\ r = "EIO" /\ e = "NONE"     \* the submit or the wait failed
     /\ UNCHANGED <<device, sent, ran, lost>>
  \/ /\ health = "open" /\ e \in Events
     /\ r = IF e = "RAN" THEN "OK" ELSE "EIO"
     /\ sent' = sent \cup {atom}
     /\ ran' = IF e = "RAN" THEN ran \cup {atom} ELSE ran
     /\ UNCHANGED <<device, lost>>
  \/ /\ health = "open" /\ r = "ETIMEDOUT" /\ e = "NONE"
     /\ sent' = sent \cup {atom}
     /\ health' = "poisoned" /\ marked' = TRUE /\ lost' = TRUE
     /\ UNCHANGED <<waiting, ran>>

\* A call whose result decides where the submit goes on: Continue(r, e).
Atom(atom, Continue(_, _)) ==
  \E r \in {"OK", "EINVAL", "EIO", "ETIMEDOUT"}, e \in Events \cup {"NONE"} :
    /\ AtomOutcome(atom, r, e)
    /\ event' = e
    /\ Continue(r, e)
    /\ UNCHANGED <<gp, work, faults, log, hadDraw, again, fate>>

\* Mutant of AfterCompute: a compute failure does not stop the frame.
AfterComputeGoesOn(r, e) == IF ~hadDraw THEN Finish("OK") ELSE GoOn

AfterCompute(r, e) ==
  IF r # "OK" \/ e # "RAN" THEN Finish("EIO")
  ELSE IF ~hadDraw THEN Finish("OK")
  ELSE GoOn

\* Mutant of AfterTiler: the timeout is not told from the other failures.
AfterTilerGoesOn(r, e) == IF e \in {"WEDGED", "NONE"} THEN Goto("retry") ELSE Goto("flush")

AfterTiler(r, e) ==
  IF r # "ETIMEDOUT" /\ e = "RAN" THEN Goto("flush")
  ELSE IF e = "WEDGED" THEN Goto("retry")
  ELSE IF r = "ETIMEDOUT" THEN Finish("EIO")
  ELSE Goto("heal")

AfterFlush(r, e) == IF r = "ETIMEDOUT" THEN Finish("EIO") ELSE Goto("fragment")

\* The heap descriptor and the flush job are packed again for every frame, the latter
\* over the last SSBOs.
SubmitCompute == pc = "compute" /\ Atom("compute", AfterCompute) /\ v9' = v9
SubmitTiler   == pc = "tiler" /\ Atom("tiler", AfterTiler) /\ v9' = Put(v9, {"heap"}, Static)
SubmitFlush   == pc = "flush" /\ Atom("flush", AfterFlush) /\ v9' = Put(v9, {"flush"}, Static)

\* pan_kmod_submit_tiler_retry, to save the frame ("retry") and, when it is given up, to
\* heal the slot for the next one ("heal").  A retry that times out poisons nothing.  The
\* submit of a frame that is given up succeeds.
TilerRetry ==
  /\ pc \in {"retry", "heal"}
  /\ \E ok \in BOOLEAN :
       /\ ok => health = "open"
       /\ IF ok /\ pc = "retry" THEN Goto("flush")
          ELSE IF pc = "retry" THEN Goto("heal")
          ELSE Finish("OK")
       /\ sent' = IF health = "open" THEN sent \cup {"tiler"} ELSE sent
       /\ ran' = IF ok THEN ran \cup {"tiler"} ELSE ran
  /\ fate' = IF pc = "heal" THEN "dropped" ELSE fate
  /\ UNCHANGED <<recording, device, event, hadDraw, again, lost>>

\* pan_kmod_submit_fragment_timeout when the event does not come: the context is
\* replaced, or, at the failure limit, kept.
Recovered ==
  \/ UNCHANGED device
  \/ health' = "closed" /\ UNCHANGED <<marked, waiting>>

\* The fragment job.  When it times out the colour buffer is scanned for a pixel of the
\* colour of the first green triangle: if there is one the frame is kept, if not the marker
\* is written.  The scan does not tell this frame's pixels from those of an earlier frame
\* or of a clear, nor a frame without that colour from one that never ran, so either answer
\* may come whether or not the job has run.
SubmitFragment ==
  /\ pc = "fragment"
  /\ \/ /\ health # "open"                             \* EINVAL or ENODEV; poisoned: EAGAIN
        /\ Finish(IF health = "closed" THEN "EINVAL" ELSE "EAGAIN")
        /\ UNCHANGED <<device, sent, ran, fate>>
     \/ /\ health = "open" /\ \E r \in {"ENODEV", "EIO"} : Finish(r)
        /\ UNCHANGED <<device, sent, ran, fate>>
     \/ /\ health = "open" /\ sent' = sent \cup {"fragment"}
        /\ \/ Finish("OK") /\ ran' = ran \cup {"fragment"} /\ UNCHANGED <<device, fate>>
           \/ Finish("EIO") /\ UNCHANGED <<device, ran, fate>>
           \/ /\ ran' \in {ran, ran \cup {"fragment"}}
              /\ \/ Finish("OK") /\ fate' = "kept" /\ Recovered
                 \/ /\ Finish("ETIMEDOUT") /\ UNCHANGED <<waiting, fate>>
                    /\ marked' = TRUE /\ health' \in {"open", "closed"}
  /\ UNCHANGED <<recording, event, hadDraw, again, lost>>

\* V9_BATCH_SUBMIT: three atoms in one ioctl, each depending on the one before, and a wait
\* for the last; however the wait ends, the submit succeeds.
SubmitBatch ==
  /\ pc = "batch"
  /\ \/ /\ health # "open" /\ Finish(IF health = "closed" THEN "EINVAL" ELSE "EAGAIN")
        /\ UNCHANGED <<sent, ran, fate>>
     \/ /\ health = "open" /\ \E r \in {"EAGAIN", "EIO"} : Finish(r)
        /\ UNCHANGED <<sent, ran, fate>>
     \/ /\ health = "open" /\ Finish("OK")
        /\ sent' = sent \cup {"tiler", "flush", "fragment"}
        /\ \/ ran' = sent' /\ fate' = fate
           \/ /\ fate' = "kept"
              /\ \E done \in {{}, {"tiler"}, {"tiler", "flush"}, {"tiler", "flush", "fragment"}} :
                   ran' = ran \cup done
  /\ UNCHANGED <<recording, device, event, hadDraw, again, lost>>

Return ==
  /\ pc = "done" /\ pc' = "idle" /\ ret' = "OK" /\ event' = "NONE"
  /\ hadDraw' = FALSE /\ again' = FALSE /\ sent' = {} /\ ran' = {} /\ fate' = "due"
  /\ UNCHANGED <<recording, device, lost>>

\* Between two calls of the frame other threads may hang the GPU, or lose a fragment and
\* have the context replaced.  (Restart is for the idle: nobody submits meanwhile.)
Others ==
  /\ pc \notin {"idle", "done"}
  /\ \/ /\ health = "open" /\ health' = "poisoned" /\ marked' = TRUE /\ lost' = TRUE
        /\ UNCHANGED waiting
     \/ health' = "closed" /\ Replace /\ UNCHANGED lost
  /\ UNCHANGED <<recording, pc, ret, event, hadDraw, again, sent, ran, fate>>

\* What is recorded for a device that was lost would go nowhere, and is left out.
RecordStep ==
  /\ pc = "idle" /\ health = "open" /\ ~marked
  /\ Record
  /\ UNCHANGED <<device, frame>>

Next ==
  \/ RecordStep \/ Submit
  \/ SubmitCompute \/ SubmitTiler \/ SubmitFlush \/ TilerRetry
  \/ SubmitFragment \/ SubmitBatch \/ Return \/ Others

Spec == Init /\ [][Next]_vars

------------------------------------------------------------------------
\* Types: labels, results, events, atoms; every atom that ran was sent; shader BOs and
\* sizes are those of the instance.
TypeOK ==
  /\ pc \in {"idle", "compute", "tiler", "retry", "heal", "flush", "fragment", "batch", "done"}
  /\ ret \in {"OK", "EINVAL", "EIO", "EAGAIN", "ENODEV", "ETIMEDOUT"}
  /\ event \in Events \cup {"NONE"}
  /\ sent \subseteq {"compute", "tiler", "flush", "fragment"} /\ ran \subseteq sent
  /\ fate \in Fates
  /\ health \in Health /\ {marked, waiting, lost, hadDraw, again} \subseteq BOOLEAN
  /\ gp \in Graphics \cup {None} /\ work \in 0..MaxWork /\ faults \in 0..MaxFaults
  /\ v9 # None =>
       /\ v9.slot \in {0, 1} /\ v9.push \subseteq {"vs", "fs", "cs"}
       /\ DOMAIN v9.mem[v9.slot] = Blocks
       /\ v9.config \in {Extent(pass) : pass \in Passes} \cup {<<300, 300>>}

Slot == v9.mem[v9.slot]

\* What a clear of the polygon list that runs into the descriptors leaves alone: all of
\* them up to 2080 bins.
Spared(blocks) == blocks \ Wiped(SubmitClear(v9.config[1], v9.config[2]))

Rendering == pc \in {"tiler", "retry", "heal", "flush", "fragment", "batch"}

\* The blocks that hold what a draw with p, or a dispatch with p, gives the GPU.  A table
\* that was refused is not among them: what the GPU gets in its place is the last one.
DrawNeeds(p) ==
  {"tiler", "sp", "fau_fs", "sp_vertex", "fau_vs", "res1", "res2", "attrs"}
    \cup (IF p.ubos \in 1..Entries THEN {"res0", "ubo01"} ELSE {})
    \cup (IF p.ubos \in 3..Entries THEN {"ubo27"} ELSE {})
    \cup (IF p.textures \in 1..Entries THEN {"res3", "textures", "payload", "res4", "samplers"} ELSE {})

DispatchNeeds(p) ==
  {"compute", "sp_cs", "fau_cs"}
    \cup (IF p.ssbos \in 1..Entries THEN {"res1", "ubo27"} ELSE {})
    \cup (IF p.ssbos \in 7..Entries THEN {"flush"} ELSE {})
    \cup (IF p.textures \in 1..Entries THEN {"res3", "textures", "payload", "res4", "samplers"} ELSE {})

\* When a frame whose last operation is a draw is rendered, every descriptor the draw
\* needs is the one that this draw wrote: no table, clear or repair in between has run
\* over another (v9_slot_repoint's layout, the order of the apply_ functions).  (Not so of a
\* table with an index that does not fit, which nobody notices was refused.)
DrawIntact ==
  Rendering /\ log.latest = "draw" /\ log.whole =>
    \A b \in Spared(DrawNeeds(log.draw[2])) : Slot[b] = log.draw

\* The same for the compute job when a dispatch came last, on the first submit.  (After a
\* draw, or after the flush of an earlier submit, its buffers are gone.)
DispatchIntact ==
  pc = "compute" /\ ~again /\ log.latest = "dispatch" /\ log.whole =>
    \A b \in Spared(DispatchNeeds(log.dispatch[2])) : Slot[b] = log.dispatch

\* A command buffer made for a pass renders at that pass's size: framebuffer and tiler
\* descriptors agree with the frame, the static ones are there (the flush job, which a batch
\* sends as it finds it, unless the SSBOs of a dispatch lie over it), and the scan for
\* rendered pixels stays in the colour buffer.  (Not so when it was made by a dispatch, or
\* is used for a second pass.)
FrameFits ==
  Rendering /\ log.creator = "pass" =>
    /\ \A b \in Spared({"mfbd", "ctx"}) : Slot[b] = Sized(v9.config)
    /\ \A b \in Spared({"depth", "blend", "tls", "dcd", "sampleloc"}
                        \cup IF log.dispatch = Zero THEN {"flush"} ELSE {}) : Slot[b] = Static
    /\ PixelsRead(v9) <= ColorPixels(v9)

\* A shader BO that could not grow is still there for the fragment stage, and for no
\* stage is a freed one kept unless an allocation failed.
ShaderBosOwned ==
  v9 # None =>
    /\ v9.bo.fs \notin {Absent, Dangling}
    /\ faults = 0 => \A stage \in {"vs", "cs"} : v9.bo[stage] # Dangling

\* The fragment job reaches the GPU only if the tiler job of the same frame has run,
\* although the pre-flush cannot tell its own event code from the tiler's when it is
\* refused: a context that is closed stays closed.
FragmentAfterTiler ==
  [][pc = "fragment" /\ "fragment" \in sent' => "tiler" \in ran]_vars

\* A command buffer with dispatches and no draw sends no graphics atom, the triangle of
\* empty command buffers included, the first time it is submitted.
ComputeOnly ==
  log.latest = "dispatch" /\ log.whole /\ log.draw = Zero /\ ~again => sent \subseteq {"compute"}

\* A submit that reports success has run its dispatch, and of a frame its fragment job, if
\* it did not drop the frame, its tiler having failed, or keep it without an event of the
\* fragment.  A frame that is dropped sends no fragment job, one that is kept has sent it.
\* (Of the frames that are kept some were never rendered.)
FrameTruth ==
  pc = "done" /\ ret = "OK" =>
    /\ v9.compute => "compute" \in ran
    /\ hadDraw \/ ~v9.compute => fate # "due" \/ "fragment" \in ran
    /\ fate = "kept" => "fragment" \in sent
    /\ fate = "dropped" => "fragment" \notin sent

==========================================================================
