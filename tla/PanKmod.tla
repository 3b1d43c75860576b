---------------------------- MODULE PanKmod ----------------------------
(***************************************************************************)
(* The device layer of the driver (pan_kmod_kbase.c): one pan_kmod_dev     *)
(* shared by every VkDevice of a physical device, and the calls that       *)
(* threads make on it.  A call checks the device outside dev_lock, takes   *)
(* the (recursive) lock, submits one atom to the kbase context and waits   *)
(* for its event, recovers, unlocks, and, for a fragment, accounts for the *)
(* result after the unlock.  Each of these is a step, so that threads      *)
(* interleave exactly where the lock lets them.                            *)
(*                                                                         *)
(* The kernel is external: an ioctl may be accepted or fail, a wait ends   *)
(* with any event, an error or the timeout.  One process in one boot; the  *)
(* files outlive the device object (Recreate).  Which atom number carries  *)
(* which event is the subject of KbaseAtoms, what the marker file goes     *)
(* through between processes that of WedgeMarker.                          *)
(***************************************************************************)
EXTENDS Naturals, FiniteSets

CONSTANTS
  Threads,         \* application threads that call into the device
  FragThreads,     \* those that submit whole frames (a queue with draws)
  Contexts,        \* identities of open kbase contexts (struct kbase_dev)
  None,            \* NULL: no context, no lock owner
  MaxFailures,     \* PAN_KMOD_MAX_CONSECUTIVE_FAILURES
  MarkerWritable,  \* boot_id is readable and the marker path can be written
  WedgeWritable    \* PAN_KMOD_WEDGE_FILE can be created

ASSUME ThreadsAssumption == FragThreads \subseteq Threads /\ None \notin Threads
ASSUME ContextsAssumption == None \notin Contexts
ASSUME LimitAssumption == MaxFailures \in Nat \ {0}
ASSUME FilesAssumption == MarkerWritable \in BOOLEAN /\ WedgeWritable \in BOOLEAN

VARIABLES
  kdev,      \* dev->kdev: the installed context, or None
  poisoned,  \* kdev->poisoned
  failures,  \* dev->consecutive_failures
  marker,    \* the reboot-aware marker names this boot
  wedged,    \* PAN_KMOD_WEDGE_FILE exists
  batched,   \* V9_BATCH_SUBMIT=1: a frame is one batch, not three atoms (never changes)
  lock,      \* owner of dev->dev_lock, or None
  reopens,   \* history: contexts opened by reopen since the last rendered frame
  pc,        \* where each thread is
  op,        \* the call each thread is in, or made last
  ret,       \* what that call returns
  ev,        \* rx_code or error: how its last submit or wait ended
  held,      \* the context that submit or wait works on
  reg,       \* the value `failures++` has read and not yet written back
  attempt    \* the round of submit_tiler_retry

files  == <<marker, wedged>>
shared == <<kdev, poisoned, failures, files, reopens, batched>>
locals == <<ev, held, reg, attempt>>   \* they die when the call returns
vars   == <<shared, lock, pc, op, ret, locals>>

Ops == {"atom", "retry", "fragment", "batch", "wait", "alloc"}

\* Event codes by what the layer does with them.
Ran      == {"DONE", "TERMINATED"}         \* 0x1; 0x4 and 0x4002
Rendered == Ran \cup {"EXCEPTION"}         \* and 0x59
Events   == Rendered \cup {"READ_FAULT", "OTHER"}  \* and 0x42; 0x58 and the rest

SubmitErrors == {"EINVAL", "EAGAIN", "EIO"}  \* no context, refused or busy, ioctl error
WaitEnds     == Events \cup {"TIMEOUT", "ERROR"}
Returns      == {"OK", "EINVAL", "EAGAIN", "EIO", "ENODEV", "ETIMEDOUT"}

Pcs == {"idle", "enter", "submit", "ioctl", "wait", "unwedge", "poison", "mark",
        "count", "bump", "limit", "release", "reset", "clear", "dropped", "alloc"}

Init ==
  /\ kdev \in Contexts
  /\ poisoned = FALSE /\ failures = 0 /\ reopens = 0
  /\ marker = FALSE /\ wedged = FALSE /\ batched \in BOOLEAN
  /\ lock = None
  /\ pc = [t \in Threads |-> "idle"]
  /\ op = [t \in Threads |-> "alloc"]
  /\ ret = [t \in Threads |-> "OK"]
  /\ ev = [t \in Threads |-> "NONE"]
  /\ held = [t \in Threads |-> None]
  /\ reg = [t \in Threads |-> 0]
  /\ attempt = [t \in Threads |-> 0]

------------------------------------------------------------------------
Goto(t, label) == pc' = [pc EXCEPT ![t] = label]

Return(t) ==
  /\ Goto(t, "idle")
  /\ ev' = [ev EXCEPT ![t] = "NONE"]
  /\ held' = [held EXCEPT ![t] = None]
  /\ reg' = [reg EXCEPT ![t] = 0]
  /\ attempt' = [attempt EXCEPT ![t] = 0]

\* The order in which v9_cmd_buffer_submit_impl makes its calls: the tiler retry
\* follows a tiler atom (or a retry) that failed without a timeout, the fragment
\* follows a pre-flush atom that did not time out, the batch wait its batch.  Tiler,
\* pre-flush and compute atoms are not told apart.
CallAllowed(t, o) ==
  CASE o = "retry"    -> ~batched /\ op[t] \in {"atom", "retry"} /\ ret[t] \in {"EIO", "EINVAL"}
    [] o = "fragment" -> ~batched /\ t \in FragThreads /\ op[t] = "atom" /\ ret[t] # "ETIMEDOUT"
    [] o = "batch"    -> batched /\ t \in FragThreads
    [] o = "wait"     -> op[t] = "batch" /\ ret[t] = "OK"
    [] OTHER          -> TRUE

\* Mutant of Refusal: the failure limit is not looked at.
RefusalWithoutLimit(o) == IF kdev = None THEN "EINVAL" ELSE "none"

\* The checks every call makes before it takes dev_lock.
Refusal(o) ==
  IF kdev = None THEN "EINVAL"
  ELSE IF o = "fragment" /\ failures >= MaxFailures THEN "ENODEV"
  ELSE "none"

Refuse(t, o) ==
  /\ pc[t] = "idle" /\ CallAllowed(t, o) /\ Refusal(o) # "none"
  /\ op' = [op EXCEPT ![t] = o]
  /\ ret' = [ret EXCEPT ![t] = Refusal(o)]
  /\ UNCHANGED <<shared, lock, pc, locals>>

Enter(t, o) ==
  /\ pc[t] = "idle" /\ CallAllowed(t, o) /\ Refusal(o) = "none" /\ o # "alloc"
  /\ op' = [op EXCEPT ![t] = o]
  /\ attempt' = [attempt EXCEPT ![t] = 1]
  /\ Goto(t, "enter")
  /\ UNCHANGED <<shared, lock, ret, ev, held, reg>>

\* Mutant of Lock: the mutex does not exclude anybody.
LockShared(t) ==
  /\ pc[t] = "enter"
  /\ lock' = t
  /\ held' = [held EXCEPT ![t] = IF op[t] = "wait" THEN kdev ELSE None]
  /\ Goto(t, CASE op[t] = "retry" -> "unwedge" [] op[t] = "wait" -> "wait" [] OTHER -> "submit")
  /\ UNCHANGED <<shared, op, ret, ev, reg, attempt>>

\* pthread_mutex_lock(&dev->dev_lock).
Lock(t) ==
  /\ pc[t] = "enter" /\ lock = None
  /\ lock' = t
  /\ held' = [held EXCEPT ![t] = IF op[t] = "wait" THEN kdev ELSE None]
  /\ Goto(t, CASE op[t] = "retry" -> "unwedge" [] op[t] = "wait" -> "wait" [] OTHER -> "submit")
  /\ UNCHANGED <<shared, op, ret, ev, reg, attempt>>

\* Mutant of NextStep: a fragment whose submit failed returns without unlocking.
NextStepLeak(o, a, x) ==
  CASE o = "fragment" /\ x \in SubmitErrors -> "idle"
    [] o = "fragment" /\ x = "TIMEOUT" -> "count"
    [] OTHER -> "release"

\* Where a call goes when its submit or its wait ended with x, in its a-th round.
NextStep(o, a, x) ==
  CASE o = "atom" /\ x \in {"TIMEOUT", "EAGAIN"} -> "poison"
    [] o = "retry" /\ x \notin Ran /\ a < 2 -> "unwedge"
    [] o = "fragment" /\ x = "TIMEOUT" -> "count"
    [] o = "fragment" /\ x \in {"READ_FAULT", "TERMINATED", "EXCEPTION"} -> "unwedge"
    [] OTHER -> "release"

\* What the call returns if it ends there.
ReturnValue(o, x) ==
  CASE o = "atom"     -> IF x \in {"TIMEOUT", "EAGAIN"} THEN "ETIMEDOUT"
                         ELSE IF x \in Ran THEN "OK" ELSE "EIO"
    [] o = "retry"    -> IF x \in Ran THEN "OK" ELSE "EIO"
    [] o = "fragment" -> IF x \in SubmitErrors THEN x
                         ELSE IF x = "TIMEOUT" THEN "ETIMEDOUT"
                         ELSE IF x \in Rendered \cup {"READ_FAULT"} THEN "OK" ELSE "EIO"
    [] o = "wait"     -> IF x = "TIMEOUT" THEN "EAGAIN" ELSE IF x \in Events THEN "OK"
                         ELSE IF x = "EINVAL" THEN x ELSE "EIO"
    [] o = "batch"    -> IF x \in SubmitErrors THEN x ELSE "OK"
    [] OTHER          -> "OK"

Finish(t, x) ==
  /\ ev' = [ev EXCEPT ![t] = x]
  /\ ret' = [ret EXCEPT ![t] = ReturnValue(op[t], x)]
  /\ attempt' = [attempt EXCEPT ![t] = IF op[t] = "retry" THEN @ + 1 ELSE @]
  /\ Goto(t, NextStep(op[t], attempt[t], x))
  /\ UNCHANGED <<shared, lock, op, reg>>

\* Mutant of Submit: the poison check is dropped.
SubmitUnchecked(t) ==
  /\ pc[t] = "submit" /\ kdev # None
  /\ held' = [held EXCEPT ![t] = kdev]
  /\ Goto(t, "ioctl")
  /\ UNCHANGED <<shared, lock, op, ret, ev, reg, attempt>>

\* kbase_submit_job / kbase_submit_batch up to the ioctl: the NULL and poison checks.
Submit(t) ==
  /\ pc[t] = "submit"
  /\ \/ /\ kdev # None /\ ~poisoned
        /\ held' = [held EXCEPT ![t] = kdev]
        /\ Goto(t, "ioctl")
        /\ UNCHANGED <<shared, lock, op, ret, ev, reg, attempt>>
     \/ /\ kdev # None /\ poisoned
        /\ Finish(t, "EAGAIN")
        /\ UNCHANGED held
     \/ /\ kdev = None
        /\ Finish(t, "EINVAL")
        /\ UNCHANGED held

\* KBASE_IOCTL_JOB_SUBMIT: accepted, or refused with some errno.
Ioctl(t) ==
  /\ pc[t] = "ioctl"
  /\ UNCHANGED held
  /\ \/ /\ op[t] # "batch"
        /\ Goto(t, "wait")
        /\ UNCHANGED <<shared, lock, op, ret, ev, reg, attempt>>
     \/ op[t] = "batch" /\ Finish(t, "DONE")
     \/ \E e \in {"EAGAIN", "EIO"} : Finish(t, e)

\* kbase_wait_event_timeout ends.
Wait(t) ==
  /\ pc[t] = "wait"
  /\ \/ kdev # None /\ \E x \in WaitEnds : Finish(t, x)
     \/ kdev = None /\ Finish(t, "EINVAL")
  /\ UNCHANGED held

\* kbase_slot_unwedge: a null flush goes straight to the ioctl, whatever kdev->poisoned
\* says, and every caller ignores how it ends.
Unwedge(t) ==
  /\ pc[t] = "unwedge"
  /\ Goto(t, IF op[t] = "retry" THEN "submit" ELSE "release")
  /\ UNCHANGED <<shared, lock, op, ret, locals>>

------------------------------------------------------------------------
\* A non-fragment atom timed out: poison the context, then write the marker.
Poison(t) ==
  /\ pc[t] = "poison"
  /\ poisoned' = TRUE
  /\ Goto(t, "mark")
  /\ UNCHANGED <<kdev, failures, files, reopens, batched, lock, op, ret, locals>>

Mark(t) ==
  /\ pc[t] = "mark"
  /\ marker' = (marker \/ MarkerWritable)
  /\ Goto(t, "release")
  /\ UNCHANGED <<kdev, poisoned, failures, wedged, reopens, batched, lock, op, ret, locals>>

\* `dev->consecutive_failures++`, a read and a write: under the lock after a fragment
\* timeout, after the unlock on any other fragment failure.
Count(t) ==
  /\ pc[t] = "count"
  /\ reg' = [reg EXCEPT ![t] = failures]
  /\ Goto(t, "bump")
  /\ UNCHANGED <<shared, lock, op, ret, ev, held, attempt>>

\* Mutant of Bump: the counter goes the wrong way.
BumpDown(t) ==
  /\ pc[t] = "bump"
  /\ failures' = reg[t] - 1
  /\ reg' = [reg EXCEPT ![t] = 0]
  /\ Goto(t, "limit")
  /\ UNCHANGED <<kdev, poisoned, files, reopens, batched, lock, op, ret, ev, held, attempt>>

Bump(t) ==
  /\ pc[t] = "bump"
  /\ failures' = reg[t] + 1
  /\ reg' = [reg EXCEPT ![t] = 0]
  /\ Goto(t, "limit")
  /\ UNCHANGED <<kdev, poisoned, files, reopens, batched, lock, op, ret, ev, held, attempt>>

InUse == {kdev} \cup {held[t] : t \in Threads}

\* Mutant of Open: the marker is not checked.
OpenUnmarked(opened) ==
  /\ poisoned' = FALSE
  /\ \/ /\ opened /\ Contexts \ InUse # {}
        /\ kdev' = CHOOSE c \in Contexts \ InUse : TRUE
     \/ ~opened /\ kdev' = None

\* kbase_dev_open: refused by the marker, or the kernel gives a new, unpoisoned context
\* or fails.  An identity returns only when nobody holds it any more,
\* so equal identities are the same struct kbase_dev.
Open(opened) ==
  /\ poisoned' = FALSE
  /\ \/ ~marker /\ opened /\ kdev' \in Contexts \ InUse
     \/ ~opened /\ kdev' = None

\* pan_kmod_dev_reopen, inside the caller's critical section.
Reopen ==
  \E opened \in BOOLEAN :
    /\ Open(opened)
    /\ reopens' = IF opened /\ reopens < MaxFailures THEN reopens + 1 ELSE reopens

\* Mutant of Limit: the limit is one too high.
LimitOffByOne(t) ==
  /\ pc[t] = "limit"
  /\ \/ /\ failures > MaxFailures
        /\ wedged' = (wedged \/ WedgeWritable)
        /\ UNCHANGED <<kdev, poisoned, reopens>>
     \/ /\ failures <= MaxFailures /\ ev[t] = "TIMEOUT"
        /\ Reopen
        /\ UNCHANGED wedged
     \/ /\ failures <= MaxFailures /\ ev[t] # "TIMEOUT"
        /\ UNCHANGED <<kdev, poisoned, reopens, wedged>>
  /\ IF ev[t] = "TIMEOUT" THEN Goto(t, "release") /\ UNCHANGED locals ELSE Return(t)
  /\ UNCHANGED <<failures, marker, batched, lock, op, ret>>

\* Mutant of Limit: only the timeout path leaves the file behind.
LimitForgetsFile(t) ==
  /\ pc[t] = "limit"
  /\ \/ /\ failures >= MaxFailures
        /\ wedged' = (wedged \/ (WedgeWritable /\ ev[t] = "TIMEOUT"))
        /\ UNCHANGED <<kdev, poisoned, reopens>>
     \/ /\ failures < MaxFailures /\ ev[t] = "TIMEOUT"
        /\ Reopen
        /\ UNCHANGED wedged
     \/ /\ failures < MaxFailures /\ ev[t] # "TIMEOUT"
        /\ UNCHANGED <<kdev, poisoned, reopens, wedged>>
  /\ IF ev[t] = "TIMEOUT" THEN Goto(t, "release") /\ UNCHANGED locals ELSE Return(t)
  /\ UNCHANGED <<failures, marker, batched, lock, op, ret>>

\* The test that follows the increment.
Limit(t) ==
  /\ pc[t] = "limit"
  /\ \/ /\ failures >= MaxFailures
        /\ wedged' = (wedged \/ WedgeWritable)
        /\ UNCHANGED <<kdev, poisoned, reopens>>
     \/ /\ failures < MaxFailures /\ ev[t] = "TIMEOUT"
        /\ Reopen
        /\ UNCHANGED wedged
     \/ /\ failures < MaxFailures /\ ev[t] # "TIMEOUT"
        /\ UNCHANGED <<kdev, poisoned, reopens, wedged>>
  /\ IF ev[t] = "TIMEOUT" THEN Goto(t, "release") /\ UNCHANGED locals ELSE Return(t)
  /\ UNCHANGED <<failures, marker, batched, lock, op, ret>>

\* pthread_mutex_unlock; a fragment goes on to account for its result without the lock.
AfterUnlock(t) ==
  CASE op[t] = "fragment" /\ ev[t] \in Rendered -> "reset"
    [] op[t] = "fragment" /\ ev[t] \in {"OTHER", "ERROR"} -> "count"
    [] op[t] = "fragment" /\ ev[t] = "TIMEOUT" -> "dropped"
    [] OTHER -> "idle"

Release(t) ==
  /\ pc[t] = "release"
  /\ lock' = None
  /\ IF AfterUnlock(t) = "idle" THEN Return(t)
     ELSE /\ Goto(t, AfterUnlock(t))
          /\ held' = [held EXCEPT ![t] = None]
          /\ UNCHANGED <<ev, reg, attempt>>
  /\ UNCHANGED <<shared, op, ret>>

Reset(t) ==
  /\ pc[t] = "reset"
  /\ failures' = 0 /\ reopens' = 0
  /\ Goto(t, "clear")
  /\ UNCHANGED <<kdev, poisoned, files, batched, lock, op, ret, locals>>

Clear(t) ==
  /\ pc[t] = "clear"
  /\ wedged' = FALSE
  /\ Return(t)
  /\ UNCHANGED <<kdev, poisoned, failures, marker, reopens, batched, lock, op, ret>>

------------------------------------------------------------------------
\* v9_cmd_buffer_submit_impl after a fragment timeout: if no pixel was rendered the
\* caller writes the marker, without dev_lock.
Dropped(t) ==
  /\ pc[t] = "dropped"
  /\ \E rendered \in BOOLEAN : marker' = (marker \/ (MarkerWritable /\ ~rendered))
  /\ Return(t)
  /\ UNCHANGED <<kdev, poisoned, failures, wedged, reopens, batched, lock, op, ret>>

\* pan_kmod_bo_alloc: dev->kdev is read and used without dev_lock.
AllocBegin(t) ==
  /\ pc[t] = "idle" /\ kdev # None
  /\ op' = [op EXCEPT ![t] = "alloc"]
  /\ held' = [held EXCEPT ![t] = kdev]
  /\ Goto(t, "alloc")
  /\ UNCHANGED <<shared, lock, ret, ev, reg, attempt>>

AllocEnd(t) ==
  /\ pc[t] = "alloc"
  /\ ret' = [ret EXCEPT ![t] = "OK"]
  /\ Return(t)
  /\ UNCHANGED <<shared, lock, op>>

\* pan_kmod_dev_destroy then pan_kmod_dev_create (vkDestroyInstance, vkCreateInstance):
\* the wedge file refuses the new device before kbase_dev_open is tried.  Having no
\* device and having a device without context refuse the same calls.
Recreate ==
  /\ \A t \in Threads : pc[t] = "idle"
  /\ failures' = 0 /\ reopens' = 0
  /\ \E opened \in BOOLEAN : (wedged => ~opened) /\ Open(opened)
  /\ UNCHANGED <<files, batched, lock, pc, op, ret, locals>>

\* What a thread does on its own once a call has begun.
Step(t) ==
  \/ Lock(t) \/ Submit(t) \/ Ioctl(t) \/ Wait(t) \/ Unwedge(t)
  \/ Poison(t) \/ Mark(t) \/ Count(t) \/ Bump(t) \/ Limit(t)
  \/ Release(t) \/ Reset(t) \/ Clear(t) \/ Dropped(t) \/ AllocEnd(t)

Call(t) ==
  \/ \E o \in Ops : Refuse(t, o) \/ Enter(t, o)
  \/ AllocBegin(t)

Next ==
  \/ \E t \in Threads : Step(t) \/ Call(t)
  \/ Recreate

Spec == Init /\ [][Next]_vars

\* Threads are never stopped inside a call, and every wait has a timeout.
FairSpec == Spec /\ \A t \in Threads : WF_vars(Step(t))

\* One thread submits frames: what the failure accounting relies on.
SingleFragThread == \A t, u \in FragThreads : t = u

------------------------------------------------------------------------
\* The device as its callers see it.
SeenHealth  == IF kdev = None THEN "closed" ELSE IF poisoned THEN "poisoned" ELSE "open"
SeenWaiting == \E t \in Threads : pc[t] = "wait" /\ op[t] # "wait"

Device == INSTANCE GpuDevice WITH health <- SeenHealth, marked <- marker, waiting <- SeenWaiting

\* Every variable has its type.
TypeOK ==
  /\ kdev \in Contexts \cup {None} /\ lock \in Threads \cup {None}
  /\ poisoned \in BOOLEAN /\ marker \in BOOLEAN /\ wedged \in BOOLEAN /\ batched \in BOOLEAN
  /\ failures \in Nat /\ reopens \in 0..MaxFailures
  /\ pc \in [Threads -> Pcs] /\ op \in [Threads -> Ops]
  /\ ret \in [Threads -> Returns]
  /\ ev \in [Threads -> WaitEnds \cup SubmitErrors \cup {"NONE"}]
  /\ held \in [Threads -> Contexts \cup {None}]
  /\ reg \in [Threads -> Nat] /\ attempt \in [Threads -> 0..3]

\* A thread submits to and waits on the context that is installed: nobody closes it,
\* whether by reopen, by a failed reopen or by the other threads' recovery, before the
\* wait is over (the use-after-free the comment of dev_lock speaks of).
InFlight(t) == pc[t] \in {"ioctl", "wait"}
ContextHeld == \A t \in Threads : InFlight(t) => held[t] = kdev

\* Between the poison check of kbase_submit_job and the end of its wait nobody poisons
\* the context: no atom is issued to, or waited for on, a context known to hang.
NoAtomOnPoisoned ==
  \A t \in Threads : InFlight(t) /\ op[t] # "wait" => ~poisoned

\* A poisoned context is never replaced by a usable one while its boot lasts, whatever
\* reopens and re-creations follow: the marker is on file before the lock is free.
PoisonIsFinal == [][poisoned => poisoned' \/ kdev' = None]_vars

\* The layer implements the abstract device: the steps its threads take, with the lock
\* and without it, are steps of one context that at most one caller waits on and that
\* never comes back from a hang.
KeepsPromise == Device!DeviceSpec

\* Without a rendered frame in between, the driver opens fewer than MaxFailures new
\* contexts (pan_kmod_kbase.c: too many rapid reopens exhaust the kernel).
ReopenBudget == reopens < MaxFailures

\* Once the failure limit is reached it holds for the life of the device object
\* ("permanently poisoned: no more reopens are attempted").
LimitIsPermanent ==
  [][failures >= MaxFailures => failures' >= MaxFailures \/ Recreate]_vars

\* The refusal outlives the process exactly when it should: with no accounting under way
\* the file exists if the limit is reached, and only if it is or the device is gone.
Accounting(t) == pc[t] \in {"count", "bump", "limit", "reset", "clear"}
WedgeFileTellsTruth ==
  (\A t \in Threads : ~Accounting(t)) =>
    /\ failures >= MaxFailures /\ WedgeWritable => wedged
    /\ wedged => failures >= MaxFailures \/ kdev = None

\* Whoever takes dev_lock gives it back, on every error path.
LockReleased == \A t \in Threads : lock = t ~> lock # t

\* No atom of any kind is sent to a poisoned context (kbase_winsys.c: "No further
\* /dev/mali0 submits in this process"): a thread about to send the null flush of
\* kbase_slot_unwedge finds the context sound.
NoNullFlushOnPoisoned == \A t \in Threads : pc[t] = "unwedge" => ~poisoned

\* A context that pan_kmod_bo_alloc works on is still installed ("Serialises every access
\* to dev->kdev").
AllocOnOpenContext == \A t \in Threads : pc[t] = "alloc" => held[t] = kdev

========================================================================
