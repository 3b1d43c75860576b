------------------------- MODULE PanKmodProofs -------------------------
(***************************************************************************)
(* Theorems about PanKmod, for every set of threads and contexts and every *)
(* failure limit.  TypeInv makes the type invariant inductive; LockInv is  *)
(* the lock discipline; PoisonInv ties the poison flag to the marker file; *)
(* FailInv is what one frame-submitting thread at a time guarantees.  The  *)
(* last part is the refinement of GpuDevice.                               *)
(***************************************************************************)
EXTENDS PanKmod, TLAPS

\* The rounds of submit_tiler_retry: TypeOK alone does not bound attempt.
Rounds ==
  \A t \in Threads :
    op[t] = "retry" /\ pc[t] \in {"enter", "unwedge", "submit", "ioctl", "wait"}
      => attempt[t] \in 1..2

TypeInv == TypeOK /\ Rounds

\* Wherever a call ends, it goes on to a label of the module.
LEMMA NextStepType == \A o, a, x : NextStep(o, a, x) \in Pcs
  BY DEF NextStep, Pcs

\* Whatever a submit or a wait ends with, the call returns a code of the layer.
LEMMA ReturnValueType ==
  \A o : \A x \in WaitEnds \cup SubmitErrors : ReturnValue(o, x) \in Returns
  BY DEF ReturnValue, Returns, WaitEnds, SubmitErrors, Events, Rendered, Ran

\* Ending a submit or a wait keeps the types and the bound on the rounds.
LEMMA FinishType ==
  ASSUME TypeInv, NEW t \in Threads, NEW x \in WaitEnds \cup SubmitErrors, Finish(t, x),
         pc[t] \in {"submit", "ioctl", "wait"},
         held' \in [Threads -> Contexts \cup {None}]
  PROVE  TypeInv'
<1> USE DEF TypeInv, TypeOK
<1>1. pc' \in [Threads -> Pcs]
  BY NextStepType DEF Finish, Goto
<1>2. ret' \in [Threads -> Returns]
  BY ReturnValueType DEF Finish
<1>3. ev' \in [Threads -> WaitEnds \cup SubmitErrors \cup {"NONE"}]
  BY DEF Finish
<1>4. attempt' \in [Threads -> 0..3]
  BY DEF Finish, Rounds
<1>5. Rounds'
  <2> SUFFICES ASSUME NEW u \in Threads, op'[u] = "retry",
                      pc'[u] \in {"enter", "unwedge", "submit", "ioctl", "wait"}
               PROVE  attempt'[u] \in 1..2
    BY DEF Rounds
  <2>1. CASE u = t
    <3>1. pc'[t] = NextStep("retry", attempt[t], x) /\ attempt'[t] = attempt[t] + 1
      BY <2>1 DEF Finish, Goto
    <3>2. attempt[t] \in 1..2 /\ attempt[t] < 2
      BY <2>1, <3>1 DEF NextStep, Finish, Rounds
    <3> QED BY <2>1, <3>1, <3>2
  <2>2. CASE u # t
    BY <2>2 DEF Finish, Goto, Rounds
  <2> QED BY <2>1, <2>2
<1> QED BY <1>1, <1>2, <1>3, <1>4, <1>5 DEF Finish, shared, files

\* Opening a context, or failing to, keeps the types.
LEMMA ReopenType ==
  ASSUME TypeOK, NEW opened, Open(opened)
  PROVE  kdev' \in Contexts \cup {None} /\ poisoned' \in BOOLEAN
  BY DEF Open, TypeOK

LEMMA InitType == Init => TypeInv
<1> HAVE Init
<1>1. TypeOK
  <2>1. poisoned \in BOOLEAN /\ marker \in BOOLEAN /\ wedged \in BOOLEAN
    BY Zenon DEF Init
  <2> QED BY <2>1, LimitAssumption
          DEF LimitAssumption, Init, TypeOK, Pcs, Ops, Returns, WaitEnds, SubmitErrors
<1>2. Rounds
  BY DEF Init, Rounds
<1> QED BY <1>1, <1>2 DEF TypeInv

LEMMA StepType == TypeInv /\ [Next]_vars => TypeInv'
<1> SUFFICES ASSUME TypeInv, [Next]_vars PROVE TypeInv'
  OBVIOUS
<1> USE LimitAssumption DEF LimitAssumption, TypeInv, TypeOK, Rounds, shared, files, locals, Goto
<1>1. ASSUME NEW t \in Threads, Step(t) PROVE TypeInv'
  <2>1. CASE Lock(t)
    <3>1. pc' \in [Threads -> Pcs]
      BY <2>1 DEF Lock, Pcs
    <3> QED BY <2>1, <3>1 DEF Lock
  <2>2. CASE Submit(t)
    <3>1. CASE kdev # None /\ ~poisoned
      BY <2>2, <3>1 DEF Submit, Pcs, Finish
    <3>2. CASE kdev # None /\ poisoned
      BY <2>2, <3>2, FinishType DEF Submit, SubmitErrors
    <3>3. CASE kdev = None
      BY <2>2, <3>3, FinishType DEF Submit, SubmitErrors
    <3> QED BY <3>1, <3>2, <3>3
  <2>3. CASE Ioctl(t)
    <3>1. CASE Goto(t, "wait") /\ UNCHANGED <<shared, lock, op, ret, ev, reg, attempt>>
      BY <2>3, <3>1 DEF Ioctl, Pcs
    <3>2. CASE \E x \in WaitEnds \cup SubmitErrors : Finish(t, x)
      BY <2>3, <3>2, FinishType DEF Ioctl
    <3> QED BY <2>3, <3>1, <3>2
         DEF Ioctl, WaitEnds, Events, Rendered, Ran, SubmitErrors
  <2>4. CASE Wait(t)
    <3>1. PICK x \in WaitEnds \cup SubmitErrors : Finish(t, x)
      BY <2>4 DEF Wait, SubmitErrors
    <3> QED BY <2>4, <3>1, FinishType DEF Wait
  <2>5. CASE Unwedge(t)
    BY <2>5 DEF Unwedge, Pcs
  <2>6. CASE Poison(t)
    BY <2>6 DEF Poison, Pcs
  <2>7. CASE Mark(t)
    BY <2>7, FilesAssumption DEF FilesAssumption, Mark, Pcs
  <2>8. CASE Count(t)
    BY <2>8 DEF Count, Pcs
  <2>9. CASE Bump(t)
    BY <2>9 DEF Bump, Pcs
  <2>10. CASE Limit(t)
    <3>1. kdev' \in Contexts \cup {None} /\ poisoned' \in BOOLEAN /\ reopens' \in 0..MaxFailures
      <4>1. CASE Reopen
        BY <4>1, ReopenType DEF Reopen
      <4> QED BY <2>10, <4>1 DEF Limit
    <3>2. wedged' \in BOOLEAN
      BY <2>10, FilesAssumption DEF FilesAssumption, Limit
    <3>3. CASE ev[t] = "TIMEOUT"
      BY <2>10, <3>1, <3>2, <3>3 DEF Limit, Pcs
    <3>4. CASE ev[t] # "TIMEOUT"
      BY <2>10, <3>1, <3>2, <3>4 DEF Limit, Return, Pcs
    <3> QED BY <3>3, <3>4
  <2>11. CASE Release(t)
    <3>1. CASE AfterUnlock(t) = "idle"
      BY <2>11, <3>1 DEF Release, Return, Pcs
    <3>2. CASE AfterUnlock(t) # "idle"
      <4>1. AfterUnlock(t) \in {"reset", "count", "dropped"}
        BY <3>2 DEF AfterUnlock
      <4> QED BY <2>11, <3>2, <4>1 DEF Release, Pcs
    <3> QED BY <3>1, <3>2
  <2>12. CASE Reset(t)
    BY <2>12 DEF Reset, Pcs
  <2>13. CASE Clear(t)
    <3>1. wedged' \in BOOLEAN
      BY <2>13, Zenon DEF Clear
    <3> QED BY <2>13, <3>1 DEF Clear, Return, Pcs
  <2>14. CASE Dropped(t)
    BY <2>14, FilesAssumption DEF FilesAssumption, Dropped, Return, Pcs
  <2>15. CASE AllocEnd(t)
    BY <2>15 DEF AllocEnd, Return, Pcs, Returns
  <2> QED BY <1>1, <2>1, <2>2, <2>3, <2>4, <2>5, <2>6, <2>7, <2>8, <2>9, <2>10, <2>11,
             <2>12, <2>13, <2>14, <2>15 DEF Step
<1>2. ASSUME NEW t \in Threads, Call(t) PROVE TypeInv'
  <2>1. ASSUME NEW o \in Ops, Refuse(t, o) PROVE TypeInv'
    BY <2>1 DEF Refuse, Refusal, Returns
  <2>2. ASSUME NEW o \in Ops, Enter(t, o) PROVE TypeInv'
    BY <2>2 DEF Enter, Pcs
  <2>3. CASE AllocBegin(t)
    BY <2>3 DEF AllocBegin, Pcs, Ops
  <2> QED BY <1>2, <2>1, <2>2, <2>3 DEF Call
<1>3. CASE Recreate
  BY <1>3, ReopenType DEF Recreate
<1>4. CASE UNCHANGED vars
  BY <1>4 DEF vars
<1> QED BY <1>1, <1>2, <1>3, <1>4 DEF Next

\* Every variable keeps its type, and no call makes a third retry round.
THEOREM TypeCorrect == Spec => [](TypeOK /\ Rounds)
<1>1. Spec => []TypeInv
  BY InitType, StepType, PTL DEF Spec
<1> QED BY <1>1, PTL DEF TypeInv

------------------------------------------------------------------------
(***************************************************************************)
(* The lock discipline.  A thread is critical where the code holds         *)
(* dev_lock; accounting is critical on the timeout path only.              *)
(***************************************************************************)
Critical(t) ==
  \/ pc[t] \in {"submit", "ioctl", "wait", "unwedge", "poison", "mark", "release"}
  \/ pc[t] \in {"count", "bump", "limit"} /\ ev[t] = "TIMEOUT"

Exclusion == \A t \in Threads : Critical(t) => lock = t

LockInv == Exclusion /\ ContextHeld /\ NoAtomOnPoisoned

\* Two threads are never critical together.
LEMMA OneCritical ==
  ASSUME Exclusion, NEW t \in Threads, NEW u \in Threads, Critical(t), Critical(u)
  PROVE  t = u
  BY DEF Exclusion

\* Where a call goes when its submit or wait has ended: it stays critical.
LEMMA NextStepCritical ==
  \A o, a, x : /\ NextStep(o, a, x) \in {"poison", "unwedge", "count", "release"}
               /\ NextStep(o, a, x) = "count" => x = "TIMEOUT"
  BY DEF NextStep

LEMMA FinishLock ==
  ASSUME TypeInv, LockInv, NEW t \in Threads, NEW x, Finish(t, x),
         pc[t] \in {"submit", "ioctl", "wait"}, UNCHANGED held
  PROVE  LockInv'
<1> USE DEF TypeInv, TypeOK
<1>1. lock = t
  BY DEF LockInv, Exclusion, Critical
<1>2. pc'[t] \in {"poison", "unwedge", "count", "release"} /\ (pc'[t] = "count" => ev'[t] = "TIMEOUT")
  BY NextStepCritical DEF Finish, Goto
<1>3. \A u \in Threads : u # t => pc'[u] = pc[u] /\ ev'[u] = ev[u] /\ op'[u] = op[u]
  BY DEF Finish, Goto
<1>4. UNCHANGED <<kdev, poisoned, lock>>
  BY DEF Finish, shared
<1> QED BY <1>1, <1>2, <1>3, <1>4
     DEF LockInv, Exclusion, Critical, ContextHeld, NoAtomOnPoisoned, InFlight

\* A step of t that leaves the context and the lock alone and takes no other thread
\* anywhere: LockInv holds after it if t is where its lock allows.
LEMMA QuietLock ==
  ASSUME TypeInv, LockInv, NEW t \in Threads,
         UNCHANGED <<kdev, poisoned, lock>>,
         \A u \in Threads : u # t => UNCHANGED <<pc[u], ev[u], op[u], held[u]>>,
         Critical(t)' => lock = t,
         ~InFlight(t)'
  PROVE  LockInv'
  BY DEF LockInv, Exclusion, Critical, ContextHeld, NoAtomOnPoisoned, InFlight

LEMMA InitLock == Init => LockInv
  BY DEF Init, LockInv, Exclusion, Critical, ContextHeld, NoAtomOnPoisoned, InFlight

LEMMA StepLock == TypeInv /\ LockInv /\ [Next]_vars => LockInv'
<1> SUFFICES ASSUME TypeInv, LockInv, [Next]_vars PROVE LockInv'
  OBVIOUS
<1> USE DEF TypeInv, TypeOK, shared, locals, Goto
<1> USE DEF LockInv, Exclusion, Critical, ContextHeld, NoAtomOnPoisoned, InFlight
<1>1. ASSUME NEW t \in Threads, Step(t) PROVE LockInv'
  <2>1. CASE Lock(t)
    <3>1. lock = None /\ \A u \in Threads : ~Critical(u)
      BY <2>1, ThreadsAssumption DEF ThreadsAssumption, Lock
    <3>2. pc'[t] \in {"unwedge", "wait", "submit"} /\ (pc'[t] = "wait" <=> op[t] = "wait")
      BY <2>1 DEF Lock
    <3>3. pc'[t] = "wait" => held'[t] = kdev
      BY <2>1, <3>2 DEF Lock
    <3> QED BY <2>1, <3>1, <3>2, <3>3 DEF Lock
  <2>2. CASE Submit(t)
    <3>1. CASE kdev # None /\ ~poisoned
      BY <2>2, <3>1 DEF Submit, Finish
    <3>2. CASE kdev = None \/ poisoned
      <4>1. \E x : Finish(t, x) /\ UNCHANGED held
        BY <2>2, <3>2 DEF Submit
      <4> QED BY <2>2, <4>1, FinishLock DEF Submit
    <3> QED BY <3>1, <3>2
  <2>3. CASE Ioctl(t)
    <3>1. CASE Goto(t, "wait") /\ UNCHANGED <<shared, lock, op, ret, ev, reg, attempt>>
      BY <2>3, <3>1 DEF Ioctl
    <3>2. CASE \E x : Finish(t, x)
      BY <2>3, <3>2, FinishLock DEF Ioctl
    <3> QED BY <2>3, <3>1, <3>2 DEF Ioctl
  <2>4. CASE Wait(t)
    BY <2>4, FinishLock DEF Wait
  <2>5. CASE Unwedge(t)
    BY <2>5 DEF Unwedge
  <2>6. CASE Poison(t)
    <3>1. lock = t /\ \A u \in Threads : Critical(u) => u = t
      BY <2>6 DEF Poison
    <3> QED BY <2>6, <3>1 DEF Poison
  <2>7. CASE Mark(t)
    BY <2>7, QuietLock DEF Mark
  <2>8. CASE Count(t)
    BY <2>8, QuietLock DEF Count
  <2>9. CASE Bump(t)
    BY <2>9, QuietLock DEF Bump
  <2>10. CASE Limit(t)
    <3>1. CASE ev[t] = "TIMEOUT"
      <4>1. lock = t /\ (\A u \in Threads : Critical(u) => u = t)
        BY <2>10, <3>1 DEF Limit
      <4>2. pc' = [pc EXCEPT ![t] = "release"] /\ UNCHANGED <<lock, op, ev, held>>
        BY <2>10, <3>1 DEF Limit
      <4> QED BY <4>1, <4>2
    <3>2. CASE ev[t] # "TIMEOUT"
      <4>1. UNCHANGED <<kdev, poisoned, lock, op>> /\ Return(t)
        BY <2>10, <3>2 DEF Limit
      <4> QED BY <4>1, QuietLock DEF Return
    <3> QED BY <3>1, <3>2
  <2>11. CASE Release(t)
    <3>1. lock = t /\ lock' = None /\ (\A u \in Threads : Critical(u) => u = t)
      BY <2>11 DEF Release
    <3>2. ~Critical(t)' /\ ~InFlight(t)'
      <4>1. CASE AfterUnlock(t) = "idle"
        BY <2>11, <4>1 DEF Release, Return
      <4>2. CASE AfterUnlock(t) # "idle"
        BY <2>11, <4>2 DEF Release, AfterUnlock, Rendered, Ran
      <4> QED BY <4>1, <4>2
    <3>3. \A u \in Threads : u # t => UNCHANGED <<pc[u], ev[u], op[u]>>
      BY <2>11 DEF Release, Return
    <3> QED BY <3>1, <3>2, <3>3
  <2>12. CASE Reset(t)
    BY <2>12, QuietLock DEF Reset
  <2>13. CASE Clear(t)
    BY <2>13, QuietLock DEF Clear, Return
  <2>14. CASE Dropped(t)
    BY <2>14, QuietLock DEF Dropped, Return
  <2>15. CASE AllocEnd(t)
    BY <2>15, QuietLock DEF AllocEnd, Return
  <2> QED BY <1>1, <2>1, <2>2, <2>3, <2>4, <2>5, <2>6, <2>7, <2>8, <2>9, <2>10, <2>11,
             <2>12, <2>13, <2>14, <2>15 DEF Step
<1>2. ASSUME NEW t \in Threads, Call(t) PROVE LockInv'
  <2>1. ASSUME NEW o \in Ops, Refuse(t, o) PROVE LockInv'
    BY <2>1, QuietLock DEF Refuse
  <2>2. ASSUME NEW o \in Ops, Enter(t, o) PROVE LockInv'
    BY <2>2, QuietLock DEF Enter
  <2>3. CASE AllocBegin(t)
    BY <2>3, QuietLock DEF AllocBegin
  <2> QED BY <1>2, <2>1, <2>2, <2>3 DEF Call
<1>3. CASE Recreate
  BY <1>3 DEF Recreate
<1>4. CASE UNCHANGED vars
  BY <1>4 DEF vars
<1> QED BY <1>1, <1>2, <1>3, <1>4 DEF Next

\* For any number of threads: the context a thread works on is never closed under it,
\* and is not poisoned while its atom is on the way or awaited.
THEOREM LockDiscipline == Spec => [](ContextHeld /\ NoAtomOnPoisoned)
<1>1. Init => TypeInv /\ LockInv
  BY InitType, InitLock
<1>2. TypeInv /\ LockInv /\ [Next]_vars => (TypeInv /\ LockInv)'
  BY StepType, StepLock
<1>3. Spec => [](TypeInv /\ LockInv)
  BY <1>1, <1>2, PTL DEF Spec
<1>4. LockInv => ContextHeld /\ NoAtomOnPoisoned
  BY DEF LockInv
<1> QED BY <1>3, <1>4, PTL

------------------------------------------------------------------------
(***************************************************************************)
(* The poison flag and the marker: a poisoned context without a marker is  *)
(* one whose poisoner still holds the lock and is about to write it.       *)
(***************************************************************************)
PoisonInv == poisoned => marker \/ \E t \in Threads : pc[t] = "mark"

\* Who is about to write the marker is alone in the critical section.
LEMMA MarkAlone ==
  ASSUME Exclusion, NEW t \in Threads, Critical(t), pc[t] # "mark", poisoned, PoisonInv
  PROVE  marker
  BY OneCritical DEF PoisonInv, Critical

LEMMA StepPoison ==
  ASSUME MarkerWritable, TypeInv, LockInv, PoisonInv, [Next]_vars
  PROVE  PoisonInv' /\ (poisoned => poisoned' \/ kdev' = None)
<1> USE DEF TypeInv, TypeOK, shared, files, locals, Goto
<1>1. ASSUME NEW t \in Threads, Step(t)
      PROVE  PoisonInv' /\ (poisoned => poisoned' \/ kdev' = None)
  <2>1. ASSUME UNCHANGED <<poisoned, marker>>, pc[t] # "mark",
               \A u \in Threads : u # t => pc'[u] = pc[u]
        PROVE  PoisonInv' /\ (poisoned => poisoned' \/ kdev' = None)
    BY <2>1 DEF PoisonInv
  <2>2. CASE Lock(t)
    BY <2>1, <2>2 DEF Lock
  <2>3. CASE Submit(t)
    BY <2>1, <2>3 DEF Submit, Finish
  <2>4. CASE Ioctl(t)
    BY <2>1, <2>4 DEF Ioctl, Finish
  <2>5. CASE Wait(t)
    BY <2>1, <2>5 DEF Wait, Finish
  <2>6. CASE Unwedge(t)
    BY <2>1, <2>6 DEF Unwedge
  <2>7. CASE Poison(t)
    BY <2>7 DEF Poison, PoisonInv
  <2>8. CASE Mark(t)
    BY <2>8 DEF Mark, PoisonInv
  <2>9. CASE Count(t)
    BY <2>1, <2>9 DEF Count
  <2>10. CASE Bump(t)
    BY <2>1, <2>10 DEF Bump
  <2>11. CASE Limit(t)
    <3>1. CASE UNCHANGED poisoned
      BY <2>1, <2>11, <3>1 DEF Limit, Return
    <3>2. CASE ev[t] = "TIMEOUT" /\ Reopen
      <4>1. poisoned => marker
        BY <2>11, <3>2, MarkAlone DEF Limit, Critical, LockInv
      <4> QED BY <3>2, <4>1 DEF Reopen, Open, PoisonInv
    <3> QED BY <2>11, <3>1, <3>2 DEF Limit
  <2>12. CASE Release(t)
    BY <2>1, <2>12 DEF Release, Return
  <2>13. CASE Reset(t)
    BY <2>1, <2>13 DEF Reset
  <2>14. CASE Clear(t)
    BY <2>1, <2>14 DEF Clear, Return
  <2>15. CASE Dropped(t)
    <3>1. UNCHANGED poisoned /\ (marker => marker')
      BY <2>15 DEF Dropped
    <3>2. \A u \in Threads : pc[u] = "mark" => pc'[u] = "mark"
      BY <2>15 DEF Dropped, Return
    <3> QED BY <3>1, <3>2 DEF PoisonInv
  <2>16. CASE AllocEnd(t)
    BY <2>1, <2>16 DEF AllocEnd, Return
  <2> QED BY <1>1, <2>2, <2>3, <2>4, <2>5, <2>6, <2>7, <2>8, <2>9, <2>10, <2>11,
             <2>12, <2>13, <2>14, <2>15, <2>16 DEF Step
<1>2. CASE \E t \in Threads : Call(t)
  BY <1>2 DEF Call, Refuse, Enter, AllocBegin, PoisonInv
<1>3. CASE Recreate
  BY <1>3 DEF Recreate, Open, PoisonInv
<1>4. CASE UNCHANGED vars
  BY <1>4 DEF vars, PoisonInv
<1> QED BY <1>1, <1>2, <1>3, <1>4 DEF Next

\* If the marker can be written, no reopen and no new device object gives the process a
\* usable context once a timeout has poisoned one.
THEOREM PoisonFinal == ASSUME MarkerWritable PROVE Spec => PoisonIsFinal
<1>1. Init => TypeInv /\ LockInv /\ PoisonInv
  BY InitType, InitLock DEF Init, PoisonInv
<1>2. TypeInv /\ LockInv /\ PoisonInv /\ [Next]_vars
        => (TypeInv /\ LockInv /\ PoisonInv)' /\ [poisoned => poisoned' \/ kdev' = None]_vars
  BY StepType, StepLock, StepPoison
<1> QED BY <1>1, <1>2, PTL DEF Spec, PoisonIsFinal

------------------------------------------------------------------------
(***************************************************************************)
(* The failure accounting, outside the lock except after a timeout.  It is *)
(* right as long as one thread submits fragments: then no other fragment   *)
(* is between its limit check and its accounting.                          *)
(***************************************************************************)
Fragment(t) == pc[t] # "idle" /\ op[t] = "fragment"

\* A fragment call that passed the limit check and has not counted its result yet.
Counting(t) ==
  /\ Fragment(t)
  /\ \/ pc[t] \in {"enter", "submit", "ioctl", "wait", "unwedge",
                   "count", "bump", "reset", "clear"}
     \/ pc[t] = "release" /\ ev[t] # "TIMEOUT"

AtLimit == \E t \in Threads : pc[t] = "limit"

FailInv ==
  /\ \A t \in Threads : Fragment(t) => t \in FragThreads
  /\ \A t \in Threads : Accounting(t) => op[t] = "fragment"
  /\ \A t \in Threads : pc[t] \in {"poison", "mark"} => op[t] # "fragment"
  /\ \A t \in Threads : Counting(t) => failures < MaxFailures
  /\ \A t \in Threads : pc[t] = "bump" => reg[t] = failures
  /\ reopens <= failures /\ reopens < MaxFailures
  /\ AtLimit => reopens < failures

WedgeInv ==
  /\ failures >= MaxFailures /\ WedgeWritable => wedged \/ AtLimit
  /\ wedged => failures >= MaxFailures \/ (kdev = None /\ \A t \in Threads : pc[t] = "idle")

Limited == failures >= MaxFailures => failures' >= MaxFailures \/ Recreate

\* What a step of t must show when it leaves the counters and the wedge file alone.
LEMMA QuietFail ==
  ASSUME TypeInv, FailInv, WedgeInv, NEW t \in Threads, pc[t] # "idle", pc[t] # "limit",
         UNCHANGED <<failures, reopens, wedged>>,
         \A u \in Threads : u # t => UNCHANGED <<pc[u], ev[u], op[u], reg[u]>>,
         op'[t] = op[t], pc'[t] # "limit",
         Accounting(t)' => op[t] = "fragment",
         pc'[t] \in {"poison", "mark"} => op[t] # "fragment",
         Counting(t)' => Counting(t),
         pc'[t] = "bump" => reg'[t] = failures
  PROVE  FailInv' /\ WedgeInv' /\ Limited
<1>1. AtLimit' <=> AtLimit
  BY DEF AtLimit
<1> QED BY <1>1 DEF FailInv, WedgeInv, Limited, Fragment, Counting, Accounting, AtLimit

LEMMA FinishFail ==
  ASSUME TypeInv, FailInv, WedgeInv, NEW t \in Threads, NEW x, Finish(t, x),
         pc[t] \in {"submit", "ioctl", "wait"}
  PROVE  FailInv' /\ WedgeInv' /\ Limited
<1> USE DEF TypeInv, TypeOK
<1>1. pc'[t] \in {"poison", "unwedge", "count", "release"}
  BY NextStepCritical DEF Finish, Goto
<1>2. (pc'[t] = "count" => op[t] = "fragment") /\ (pc'[t] = "poison" => op[t] # "fragment")
  BY DEF Finish, Goto, NextStep
<1>3. Counting(t)' => Counting(t)
  BY DEF Finish, Goto, Counting, Fragment, shared
<1>4. UNCHANGED <<failures, reopens, wedged>> /\ op'[t] = op[t]
  BY DEF Finish, shared, files
<1>5. \A u \in Threads : u # t => UNCHANGED <<pc[u], ev[u], op[u], reg[u]>>
  BY DEF Finish, Goto
<1> QED BY <1>1, <1>2, <1>3, <1>4, <1>5, QuietFail DEF Accounting

\* A thread that accounts for a fragment is the only one that does.
LEMMA OneFragment ==
  ASSUME SingleFragThread, FailInv, NEW t \in Threads, NEW u \in Threads,
         Fragment(t), Fragment(u)
  PROVE  t = u
  BY DEF SingleFragThread, FailInv

LEMMA StepFail ==
  ASSUME SingleFragThread, TypeInv, FailInv, WedgeInv, [Next]_vars
  PROVE  FailInv' /\ WedgeInv' /\ [Limited]_vars
<1> USE DEF TypeInv, TypeOK, shared, files, locals, Goto
<1>1. ASSUME NEW t \in Threads, Step(t) PROVE FailInv' /\ WedgeInv' /\ Limited
  <2>1. CASE Lock(t)
    BY <2>1, QuietFail DEF Lock, Counting, Fragment, Accounting
  <2>2. CASE Submit(t)
    <3>1. CASE \E x : Finish(t, x)
      BY <2>2, <3>1, FinishFail DEF Submit
    <3>2. CASE ~ \E x : Finish(t, x)
      BY <2>2, <3>2, QuietFail DEF Submit, Counting, Fragment, Accounting
    <3> QED BY <3>1, <3>2
  <2>3. CASE Ioctl(t)
    <3>1. CASE \E x : Finish(t, x)
      BY <2>3, <3>1, FinishFail DEF Ioctl
    <3>2. CASE ~ \E x : Finish(t, x)
      BY <2>3, <3>2, QuietFail DEF Ioctl, Counting, Fragment, Accounting
    <3> QED BY <3>1, <3>2
  <2>4. CASE Wait(t)
    BY <2>4, FinishFail DEF Wait
  <2>5. CASE Unwedge(t)
    BY <2>5, QuietFail DEF Unwedge, Counting, Fragment, Accounting
  <2>6. CASE Poison(t)
    BY <2>6, QuietFail DEF Poison, FailInv, Counting, Fragment, Accounting
  <2>7. CASE Mark(t)
    <3>1. ~Counting(t)'
      BY <2>7 DEF Mark, Counting, Fragment, FailInv
    <3> QED BY <2>7, <3>1, QuietFail DEF Mark, Accounting
  <2>8. CASE Count(t)
    BY <2>8, QuietFail DEF Count, Counting, Fragment, FailInv, Accounting
  <2>9. CASE Bump(t)
    <3>1. failures' = failures + 1 /\ failures < MaxFailures /\ Fragment(t)
      BY <2>9 DEF Bump, FailInv, Counting, Fragment, Accounting
    <3>2. \A u \in Threads : u # t => ~Fragment(u) /\ ~Accounting(u)
      BY <3>1, OneFragment DEF Accounting, FailInv, Fragment
    <3>3. pc' = [pc EXCEPT ![t] = "limit"] /\ UNCHANGED <<kdev, reopens, wedged, op, ev>>
      BY <2>9 DEF Bump
    <3>4. FailInv'
      BY <3>1, <3>2, <3>3 DEF FailInv, Fragment, Counting, Accounting, AtLimit
    <3>5. AtLimit'
      BY <3>3 DEF AtLimit
    <3>6. WedgeInv'
      BY <3>1, <3>3, <3>5, LimitAssumption DEF LimitAssumption, WedgeInv, Fragment
    <3> QED BY <3>1, <3>4, <3>6, LimitAssumption DEF LimitAssumption, Limited
  <2>10. CASE Limit(t)
    <3>1. Fragment(t) /\ UNCHANGED <<failures, op>> /\ reopens < failures
      BY <2>10 DEF Limit, FailInv, Accounting, AtLimit, Fragment
    <3>2. \A u \in Threads : u # t => ~Fragment(u) /\ ~Accounting(u)
      BY <3>1, OneFragment DEF Accounting, FailInv, Fragment
    <3>3. /\ pc'[t] \in {"idle", "release"} /\ (pc'[t] = "release" => ev'[t] = "TIMEOUT")
          /\ \A u \in Threads : u # t => UNCHANGED <<pc[u], ev[u], reg[u]>>
      BY <2>10 DEF Limit, Return
    <3>4. ~AtLimit'
      BY <3>2, <3>3 DEF AtLimit, Accounting
    <3>5. CASE failures >= MaxFailures
      <4>1. reopens' = reopens /\ wedged' = (wedged \/ WedgeWritable)
        BY <2>10, <3>5, LimitAssumption DEF LimitAssumption, Limit
      <4>2. FailInv'
        BY <3>1, <3>2, <3>3, <3>4, <4>1 DEF FailInv, Fragment, Counting, Accounting
      <4>3. WedgeInv'
        BY <3>1, <3>5, <4>1 DEF WedgeInv
      <4> QED BY <3>1, <4>2, <4>3 DEF Limited
    <3>6. CASE failures < MaxFailures
      <4>1. reopens' \in {reopens, reopens + 1} /\ wedged' = wedged
        BY <2>10, <3>6, LimitAssumption DEF LimitAssumption, Limit, Reopen
      <4>2. FailInv'
        BY <3>1, <3>2, <3>3, <3>4, <3>6, <4>1, LimitAssumption
           DEF LimitAssumption, FailInv, Fragment, Counting, Accounting
      <4>3. ~wedged
        BY <3>1, <3>6, LimitAssumption DEF LimitAssumption, WedgeInv, Fragment
      <4>4. WedgeInv'
        BY <3>1, <3>6, <4>1, <4>3, LimitAssumption DEF LimitAssumption, WedgeInv
      <4> QED BY <3>1, <4>2, <4>4 DEF Limited
    <3> QED BY <3>5, <3>6, LimitAssumption DEF LimitAssumption
  <2>11. CASE Release(t)
    <3>1. pc'[t] = AfterUnlock(t) /\ (pc'[t] # "idle" => ev'[t] = ev[t])
      BY <2>11 DEF Release, Return
    <3>2. pc'[t] \in {"reset", "count", "dropped", "idle"}
      BY <3>1 DEF AfterUnlock
    <3>3. pc'[t] \in {"reset", "count"} => op[t] = "fragment" /\ ev[t] # "TIMEOUT"
      BY <3>1 DEF AfterUnlock, Rendered, Ran
    <3> QED BY <2>11, <3>2, <3>3, QuietFail
         DEF Release, Return, Counting, Fragment, Accounting
  <2>12. CASE Reset(t)
    <3>1. Fragment(t) /\ failures < MaxFailures
      BY <2>12 DEF Reset, FailInv, Counting, Fragment, Accounting
    <3>2. \A u \in Threads : u # t => ~Fragment(u) /\ ~Accounting(u)
      BY <3>1, OneFragment DEF Accounting, FailInv, Fragment
    <3>3. /\ failures' = 0 /\ reopens' = 0
          /\ pc' = [pc EXCEPT ![t] = "clear"] /\ UNCHANGED <<kdev, op, ev, reg, wedged>>
      BY <2>12 DEF Reset
    <3>4. ~AtLimit'
      BY <3>2, <3>3 DEF AtLimit, Accounting
    <3>5. FailInv'
      BY <3>1, <3>2, <3>3, <3>4, LimitAssumption
         DEF LimitAssumption, FailInv, Fragment, Counting, Accounting
    <3>6. ~wedged
      BY <3>1, LimitAssumption DEF LimitAssumption, WedgeInv, Fragment
    <3>7. WedgeInv'
      BY <3>3, <3>6, LimitAssumption DEF LimitAssumption, WedgeInv
    <3> QED BY <3>1, <3>5, <3>7, LimitAssumption DEF LimitAssumption, Limited
  <2>13. CASE Clear(t)
    <3>1. Fragment(t) /\ failures < MaxFailures
      BY <2>13 DEF Clear, FailInv, Counting, Fragment, Accounting
    <3>2. \A u \in Threads : u # t => ~Fragment(u) /\ ~Accounting(u)
      BY <3>1, OneFragment DEF Accounting, FailInv, Fragment
    <3>3. /\ UNCHANGED <<kdev, failures, reopens, op>> /\ pc'[t] = "idle" /\ ~wedged'
          /\ \A u \in Threads : u # t => UNCHANGED <<pc[u], ev[u], reg[u]>>
      BY <2>13 DEF Clear, Return
    <3>4. ~AtLimit'
      BY <3>2, <3>3 DEF AtLimit, Accounting
    <3>5. FailInv'
      BY <3>2, <3>3, <3>4 DEF FailInv, Fragment, Counting, Accounting
    <3> QED BY <3>1, <3>3, <3>5, LimitAssumption DEF LimitAssumption, Limited, WedgeInv
  <2>14. CASE Dropped(t)
    BY <2>14, QuietFail DEF Dropped, Return, Counting, Fragment, Accounting
  <2>15. CASE AllocEnd(t)
    BY <2>15, QuietFail DEF AllocEnd, Return, Counting, Fragment, Accounting
  <2> QED BY <1>1, <2>1, <2>2, <2>3, <2>4, <2>5, <2>6, <2>7, <2>8, <2>9, <2>10, <2>11,
             <2>12, <2>13, <2>14, <2>15 DEF Step
<1>2. ASSUME NEW t \in Threads, Call(t) PROVE FailInv' /\ WedgeInv' /\ Limited
  <2>1. UNCHANGED <<failures, reopens, wedged, kdev, reg, ev>> /\ pc[t] = "idle"
    BY <1>2 DEF Call, Refuse, Enter, AllocBegin
  <2>2. /\ pc'[t] \in {"idle", "enter", "alloc"}
        /\ \A u \in Threads : u # t => UNCHANGED <<pc[u], op[u]>>
    BY <1>2 DEF Call, Refuse, Enter, AllocBegin
  <2>3. Fragment(t)' => t \in FragThreads /\ failures < MaxFailures
    BY <1>2, LimitAssumption
       DEF LimitAssumption, Call, Refuse, Enter, AllocBegin, Fragment, CallAllowed, Refusal
  <2>4. pc'[t] # "idle" => kdev # None
    BY <1>2 DEF Call, Refuse, Enter, AllocBegin, Refusal
  <2>5. AtLimit' <=> AtLimit
    BY <2>1, <2>2 DEF AtLimit
  <2>6. FailInv'
    BY <2>1, <2>2, <2>3, <2>5 DEF FailInv, Fragment, Counting, Accounting
  <2>7. WedgeInv'
    BY <2>1, <2>2, <2>4, <2>5 DEF WedgeInv
  <2> QED BY <2>1, <2>6, <2>7 DEF Limited
<1>3. CASE Recreate
  <2>1. ~AtLimit' /\ failures' = 0 /\ reopens' = 0 /\ (wedged => kdev' = None)
    BY <1>3 DEF Recreate, AtLimit, Open
  <2> QED BY <1>3, <2>1, LimitAssumption
       DEF LimitAssumption, Recreate, FailInv, WedgeInv, Limited, Fragment, Counting, Accounting
<1>4. CASE UNCHANGED vars
  BY <1>4 DEF vars, FailInv, WedgeInv, Fragment, Counting, Accounting, AtLimit
<1> QED BY <1>1, <1>2, <1>3, <1>4 DEF Next

LEMMA InitFail == Init => FailInv /\ WedgeInv
<1> HAVE Init
<1>1. ~AtLimit /\ ~wedged /\ failures = 0 /\ reopens = 0
  BY DEF Init, AtLimit
<1>2. \A t \in Threads : ~Fragment(t) /\ ~Counting(t) /\ ~Accounting(t) /\ pc[t] = "idle"
  BY DEF Init, Fragment, Counting, Accounting
<1> QED BY <1>1, <1>2, LimitAssumption DEF LimitAssumption, FailInv, WedgeInv

\* With one thread that submits frames, for every failure limit: fewer contexts than the
\* limit are opened between two rendered frames, and the wedge file tells the truth.
THEOREM FailureAccounting ==
  ASSUME SingleFragThread PROVE Spec => [](ReopenBudget /\ WedgeFileTellsTruth)
<1>1. Init => TypeInv /\ FailInv /\ WedgeInv
  BY InitType, InitFail
<1>2. TypeInv /\ FailInv /\ WedgeInv /\ [Next]_vars => (TypeInv /\ FailInv /\ WedgeInv)'
  BY StepType, StepFail
<1>3. Spec => [](FailInv /\ WedgeInv)
  BY <1>1, <1>2, PTL DEF Spec
<1>4. FailInv /\ WedgeInv => ReopenBudget /\ WedgeFileTellsTruth
  BY DEF FailInv, WedgeInv, ReopenBudget, WedgeFileTellsTruth, AtLimit, Accounting
<1> QED BY <1>3, <1>4, PTL

\* With one thread that submits frames the failure limit is final for the device object.
THEOREM LimitFinal == ASSUME SingleFragThread PROVE Spec => LimitIsPermanent
<1>1. Init => TypeInv /\ FailInv /\ WedgeInv
  BY InitType, InitFail
<1>2. TypeInv /\ FailInv /\ WedgeInv /\ [Next]_vars
        => (TypeInv /\ FailInv /\ WedgeInv)' /\ [Limited]_vars
  BY StepType, StepFail
<1>3. Spec => [][Limited]_vars
  BY <1>1, <1>2, PTL DEF Spec
<1> QED BY <1>3, PTL DEF LimitIsPermanent, Limited

------------------------------------------------------------------------
(***************************************************************************)
(* PanKmod implements GpuDevice, if the marker can be written.  The        *)
(* refinement rests on the lock discipline, on the poison invariant and on *)
(* HeldOpen: a thread that is about to wait, or that recovers from a       *)
(* fragment's timeout, has an open context before it.                      *)
(***************************************************************************)
Recovering(t) == pc[t] \in {"count", "bump", "limit"} /\ ev[t] = "TIMEOUT"

HeldOpen ==
  \A t \in Threads :
    /\ pc[t] = "ioctl" => kdev # None
    /\ Recovering(t) => kdev # None /\ ~poisoned

DevInv == TypeInv /\ LockInv /\ PoisonInv /\ HeldOpen

AwaitsAtom(t) == pc[t] = "wait" /\ op[t] # "wait"

Implements == [Device!DeviceNext]_(Device!device)

------------------------------------------------------------------------
\* Nobody else awaits an atom while a thread is critical.
LEMMA NobodyElseWaits ==
  ASSUME LockInv, NEW t \in Threads, Critical(t), ~AwaitsAtom(t)
  PROVE  ~SeenWaiting
  BY OneCritical DEF LockInv, SeenWaiting, AwaitsAtom, Critical

\* A step of t that neither starts nor ends a wait.
LEMMA WaitingKept ==
  ASSUME NEW t \in Threads, ~AwaitsAtom(t), ~AwaitsAtom(t)',
         \A u \in Threads : u # t => UNCHANGED <<pc[u], op[u]>>
  PROVE  SeenWaiting' = SeenWaiting
<1>1. \A u \in Threads : AwaitsAtom(u)' <=> AwaitsAtom(u)
  BY DEF AwaitsAtom
<1>2. SeenWaiting' <=> SeenWaiting
  BY <1>1 DEF SeenWaiting, AwaitsAtom
<1> QED BY <1>2 DEF SeenWaiting

\* A step of t that leaves the context alone, and HeldOpen.
LEMMA HeldKept ==
  ASSUME HeldOpen, NEW t \in Threads, UNCHANGED <<kdev, poisoned>>,
         \A u \in Threads : u # t => UNCHANGED <<pc[u], ev[u]>>,
         pc'[t] = "ioctl" => kdev # None,
         Recovering(t)' => kdev # None /\ ~poisoned
  PROVE  HeldOpen'
  BY DEF HeldOpen, Recovering

\* A step that callers do not see: the context, the marker and the wait stay.
LEMMA Quiet ==
  ASSUME HeldOpen, NEW t \in Threads, UNCHANGED <<kdev, poisoned, marker>>,
         ~AwaitsAtom(t), ~AwaitsAtom(t)',
         \A u \in Threads : u # t => UNCHANGED <<pc[u], op[u], ev[u]>>,
         pc'[t] = "ioctl" => kdev # None,
         Recovering(t)' => kdev # None /\ ~poisoned
  PROVE  HeldOpen' /\ Implements
<1>1. SeenWaiting' = SeenWaiting /\ SeenHealth' = SeenHealth
  BY WaitingKept DEF SeenHealth
<1> QED BY <1>1, HeldKept DEF Implements, Device!device

\* Where a call goes when its submit or wait has ended: never into a wait, and into the
\* recovery only when a fragment timed out.
LEMMA FinishQuiet ==
  ASSUME TypeInv, NEW t \in Threads, NEW x, Finish(t, x)
  PROVE  /\ pc'[t] \in {"poison", "unwedge", "count", "release"}
         /\ Recovering(t)' => x = "TIMEOUT" /\ op[t] = "fragment"
         /\ \A u \in Threads : u # t => UNCHANGED <<pc[u], op[u], ev[u]>>
         /\ UNCHANGED <<kdev, poisoned, marker, op>>
<1> USE DEF TypeInv, TypeOK
<1>1. pc'[t] = NextStep(op[t], attempt[t], x) /\ ev'[t] = x
  BY DEF Finish, Goto
<1>2. pc'[t] \in {"poison", "unwedge", "count", "release"}
  BY <1>1, NextStepCritical
<1>3. pc'[t] = "count" => op[t] = "fragment"
  BY <1>1 DEF NextStep
<1> QED BY <1>1, <1>2, <1>3 DEF Finish, Goto, Recovering, shared, files

------------------------------------------------------------------------
LEMMA StepDevice ==
  ASSUME MarkerWritable, DevInv, NEW t \in Threads, Step(t)
  PROVE  HeldOpen' /\ Implements
<1> USE DEF DevInv, TypeInv, TypeOK, shared, files, locals, Goto
<1>1. CASE Lock(t)
  <2>1. pc[t] = "enter" /\ pc'[t] \in {"unwedge", "wait", "submit"} /\ (pc'[t] = "wait" => op[t] = "wait")
    BY <1>1 DEF Lock
  <2> QED BY <1>1, <2>1, Quiet DEF Lock, AwaitsAtom, Recovering
<1>2. CASE Submit(t)
  <2>1. CASE kdev # None /\ ~poisoned
    BY <1>2, <2>1, Quiet DEF Submit, AwaitsAtom, Recovering, Finish
  <2>2. CASE kdev = None \/ poisoned
    <3>1. PICK x \in {"EAGAIN", "EINVAL"} : Finish(t, x)
      BY <1>2, <2>2 DEF Submit
    <3> HIDE DEF TypeInv, TypeOK
    <3>2. ~Recovering(t)' /\ pc'[t] \in {"poison", "unwedge", "count", "release"}
      BY <3>1, FinishQuiet
    <3>3. ~AwaitsAtom(t) /\ ~AwaitsAtom(t)'
      BY <1>2, <3>2 DEF Submit, AwaitsAtom
    <3> QED BY <3>1, <3>2, <3>3, FinishQuiet, Quiet
  <2> QED BY <2>1, <2>2
<1>3. CASE Ioctl(t)
  <2>1. CASE Goto(t, "wait") /\ UNCHANGED <<shared, lock, op, ret, ev, reg, attempt>>
    <3>1. CASE op[t] = "wait"
      BY <1>3, <2>1, <3>1, Quiet DEF Ioctl, AwaitsAtom, Recovering
    <3>2. CASE op[t] # "wait"
      <4>1. kdev # None /\ ~poisoned
        BY <1>3, <3>2 DEF Ioctl, HeldOpen, LockInv, NoAtomOnPoisoned, InFlight
      <4>2. ~SeenWaiting
        BY <1>3, NobodyElseWaits DEF Ioctl, AwaitsAtom, Critical
      <4>3. SeenWaiting' = TRUE
        BY <2>1, <3>2 DEF SeenWaiting
      <4>4. SeenHealth = "open" /\ SeenHealth' = "open" /\ marker' = marker
        BY <2>1, <4>1 DEF SeenHealth
      <4>5. Device!Start
        BY <4>2, <4>3, <4>4 DEF Device!Start
      <4>6. HeldOpen'
        BY <2>1, HeldKept DEF Recovering
      <4> QED BY <4>5, <4>6 DEF Implements, Device!DeviceNext
    <3> QED BY <3>1, <3>2
  <2>2. CASE \E x \in {"DONE", "EAGAIN", "EIO"} : Finish(t, x)
    <3>1. PICK x \in {"DONE", "EAGAIN", "EIO"} : Finish(t, x)
      BY <2>2
    <3> HIDE DEF TypeInv, TypeOK
    <3>2. ~Recovering(t)' /\ pc'[t] \in {"poison", "unwedge", "count", "release"}
      BY <3>1, FinishQuiet
    <3>3. ~AwaitsAtom(t) /\ ~AwaitsAtom(t)'
      BY <1>3, <3>2 DEF Ioctl, AwaitsAtom
    <3> QED BY <3>1, <3>2, <3>3, FinishQuiet, Quiet
  <2> QED BY <1>3, <2>1, <2>2 DEF Ioctl
<1>4. CASE Wait(t)
  <2>1. PICK x \in WaitEnds \cup {"EINVAL"} : Finish(t, x) /\ (kdev = None => x = "EINVAL")
    BY <1>4 DEF Wait
  <2>2. pc[t] = "wait"
    BY <1>4 DEF Wait
  <2> HIDE DEF TypeInv, TypeOK
  <2>3. /\ pc'[t] \in {"poison", "unwedge", "count", "release"}
        /\ Recovering(t)' => x = "TIMEOUT" /\ op[t] = "fragment"
        /\ \A u \in Threads : u # t => UNCHANGED <<pc[u], op[u], ev[u]>>
        /\ UNCHANGED <<kdev, poisoned, marker>>
    BY <2>1, FinishQuiet
  <2>4. Recovering(t)' => kdev # None /\ ~poisoned
    BY <2>1, <2>2, <2>3 DEF LockInv, NoAtomOnPoisoned, InFlight
  <2>5. HeldOpen'
    BY <2>3, <2>4, HeldKept
  <2>6. CASE op[t] = "wait"
    BY <2>2, <2>3, <2>4, <2>6, Quiet DEF AwaitsAtom
  <2>7. CASE op[t] # "wait"
    <3>1. \A u \in Threads : AwaitsAtom(u) => u = t
      BY <2>2, OneCritical DEF LockInv, AwaitsAtom, Critical
    <3>2. SeenWaiting
      BY <2>2, <2>7 DEF SeenWaiting
    <3>3. ~SeenWaiting'
      BY <2>3, <3>1 DEF SeenWaiting, AwaitsAtom
    <3>4. SeenHealth' = SeenHealth /\ marker' = marker
      BY <2>3 DEF SeenHealth
    <3>5. SeenWaiting' = FALSE
      BY <3>3 DEF SeenWaiting
    <3>6. Device!End
      BY <3>2, <3>4, <3>5 DEF Device!End
    <3> QED BY <2>5, <3>6 DEF Implements, Device!DeviceNext
  <2> QED BY <2>6, <2>7
<1>5. CASE Unwedge(t)
  BY <1>5, Quiet DEF Unwedge, AwaitsAtom, Recovering
<1>6. CASE Poison(t)
  <2>1. pc[t] = "poison" /\ pc'[t] = "mark" /\ \A u \in Threads : u # t => UNCHANGED <<pc[u], op[u], ev[u]>>
    BY <1>6 DEF Poison
  <2>2. ~SeenWaiting /\ SeenWaiting' = SeenWaiting
    BY <2>1, NobodyElseWaits, WaitingKept DEF AwaitsAtom, Critical
  <2>3. \A u \in Threads : ~Recovering(u) /\ ~Recovering(u)'
    BY <2>1, OneCritical DEF LockInv, Recovering, Critical
  <2>4. HeldOpen'
    BY <1>6, <2>1, <2>3 DEF HeldOpen, Poison
  <2>5. CASE kdev = None
    BY <1>6, <2>2, <2>4, <2>5 DEF Poison, SeenHealth, Implements, Device!device
  <2>6. CASE kdev # None
    <3>1. SeenHealth # "closed" /\ SeenHealth' = "poisoned" /\ marker' = marker
      BY <1>6, <2>6 DEF Poison, SeenHealth
    <3>2. Device!Poison
      BY <2>2, <3>1 DEF Device!Poison
    <3> QED BY <2>4, <3>2 DEF Implements, Device!DeviceNext
  <2> QED BY <2>5, <2>6
<1>7. CASE Mark(t)
  <2>1. SeenWaiting' = SeenWaiting /\ SeenHealth' = SeenHealth
    BY <1>7, WaitingKept DEF Mark, AwaitsAtom, SeenHealth
  <2>2. marker' = TRUE
    BY <1>7 DEF Mark
  <2>3. HeldOpen'
    BY <1>7, HeldKept DEF Mark, Recovering
  <2> QED BY <2>1, <2>2, <2>3 DEF Implements, Device!DeviceNext, Device!Mark
<1>8. CASE Count(t)
  BY <1>8, Quiet DEF Count, AwaitsAtom, Recovering, HeldOpen
<1>9. CASE Bump(t)
  BY <1>9, Quiet DEF Bump, AwaitsAtom, Recovering, HeldOpen
<1>10. CASE Limit(t)
  <2>1. pc[t] = "limit" /\ pc'[t] \in {"release", "idle"} /\ marker' = marker
    BY <1>10 DEF Limit, Return
  <2>2. \A u \in Threads : u # t => UNCHANGED <<pc[u], op[u], ev[u]>>
    BY <1>10 DEF Limit, Return
  <2>3. CASE UNCHANGED <<kdev, poisoned>>
    BY <2>1, <2>2, <2>3, Quiet DEF AwaitsAtom, Recovering
  <2>4. CASE ev[t] = "TIMEOUT" /\ Reopen
    <3>1. kdev # None /\ ~poisoned
      BY <2>1, <2>4 DEF HeldOpen, Recovering
    <3>2. Critical(t)
      BY <2>1, <2>4 DEF Critical
    <3>3. ~SeenWaiting /\ SeenWaiting' = SeenWaiting
      BY <2>1, <2>2, <3>2, NobodyElseWaits, WaitingKept DEF AwaitsAtom
    <3>4. \A u \in Threads : Critical(u) => u = t
      BY <3>2, OneCritical DEF LockInv
    <3>5. HeldOpen'
      BY <2>1, <2>2, <3>4 DEF HeldOpen, Recovering, Critical
    <3>6. SeenHealth = "open" /\ (SeenHealth' = "closed" \/ (~marker /\ SeenHealth' = "open"))
      BY <2>4, <3>1, ContextsAssumption DEF Reopen, Open, SeenHealth, ContextsAssumption
    <3>7. Device!Replace
      BY <2>1, <3>3, <3>6 DEF Device!Replace
    <3> QED BY <3>5, <3>7 DEF Implements, Device!DeviceNext
  <2> QED BY <1>10, <2>3, <2>4 DEF Limit
<1>11. CASE Release(t)
  <2>1. pc[t] = "release" /\ pc'[t] \in {"idle", "reset", "count", "dropped"}
    BY <1>11 DEF Release, Return, AfterUnlock
  <2>2. pc'[t] = "count" => ev'[t] # "TIMEOUT"
    BY <1>11 DEF Release, Return, AfterUnlock
  <2>3. /\ \A u \in Threads : u # t => UNCHANGED <<pc[u], op[u], ev[u]>>
        /\ UNCHANGED <<kdev, poisoned, marker>>
    BY <1>11 DEF Release, Return
  <2> QED BY <2>1, <2>2, <2>3, Quiet DEF AwaitsAtom, Recovering
<1>12. CASE Reset(t)
  BY <1>12, Quiet DEF Reset, AwaitsAtom, Recovering
<1>13. CASE Clear(t)
  BY <1>13, Quiet DEF Clear, Return, AwaitsAtom, Recovering
<1>14. CASE Dropped(t)
  <2>1. SeenWaiting' = SeenWaiting /\ SeenHealth' = SeenHealth
    BY <1>14, WaitingKept DEF Dropped, Return, AwaitsAtom, SeenHealth
  <2>2. marker' = TRUE \/ marker' = marker
    BY <1>14 DEF Dropped
  <2>3. HeldOpen'
    BY <1>14, HeldKept DEF Dropped, Return, Recovering
  <2> QED BY <2>1, <2>2, <2>3 DEF Implements, Device!DeviceNext, Device!Mark, Device!device
<1>15. CASE AllocEnd(t)
  BY <1>15, Quiet DEF AllocEnd, Return, AwaitsAtom, Recovering
<1> QED BY <1>1, <1>2, <1>3, <1>4, <1>5, <1>6, <1>7, <1>8, <1>9, <1>10, <1>11, <1>12,
           <1>13, <1>14, <1>15 DEF Step

LEMMA NextDevice ==
  ASSUME MarkerWritable, DevInv, [Next]_vars
  PROVE  HeldOpen' /\ Implements
<1> USE DEF DevInv, TypeInv, TypeOK, shared, files, locals, Goto
<1>1. CASE \E t \in Threads : Step(t)
  BY <1>1, StepDevice
<1>2. ASSUME NEW t \in Threads, Call(t) PROVE HeldOpen' /\ Implements
  <2>1. ASSUME NEW o \in Ops, Refuse(t, o) PROVE HeldOpen' /\ Implements
    BY <2>1, Quiet DEF Refuse, AwaitsAtom, Recovering
  <2>2. ASSUME NEW o \in Ops, Enter(t, o) PROVE HeldOpen' /\ Implements
    BY <2>2, Quiet DEF Enter, AwaitsAtom, Recovering
  <2>3. CASE AllocBegin(t)
    BY <2>3, Quiet DEF AllocBegin, AwaitsAtom, Recovering
  <2> QED BY <1>2, <2>1, <2>2, <2>3 DEF Call
<1>3. CASE Recreate
  <2>1. \A t \in Threads : pc[t] = "idle" /\ pc'[t] = "idle"
    BY <1>3 DEF Recreate
  <2>2. SeenWaiting = FALSE /\ SeenWaiting' = FALSE
    BY <2>1 DEF SeenWaiting
  <2>3. HeldOpen'
    BY <2>1 DEF HeldOpen, Recovering
  <2>4. marker' = marker /\ (poisoned => marker)
    BY <1>3, <2>1 DEF Recreate, PoisonInv
  <2>5. SeenHealth' = "closed" \/ (~marker /\ SeenHealth # "poisoned" /\ SeenHealth' = "open")
    BY <1>3, <2>4, ContextsAssumption DEF Recreate, Open, SeenHealth, ContextsAssumption
  <2> QED BY <2>2, <2>3, <2>4, <2>5 DEF Implements, Device!DeviceNext, Device!Restart
<1>4. CASE UNCHANGED vars
  BY <1>4 DEF vars, HeldOpen, Recovering, Implements, Device!device, SeenHealth, SeenWaiting
<1> QED BY <1>1, <1>2, <1>3, <1>4 DEF Next

\* The device layer implements the abstract device that the frame submission is written
\* against.
THEOREM DeviceRefinement == ASSUME MarkerWritable PROVE Spec => KeepsPromise
<1>1. Init => DevInv
  BY InitType, InitLock DEF Init, DevInv, PoisonInv, HeldOpen, Recovering
<1>2. DevInv /\ [Next]_vars => DevInv' /\ Implements
  BY StepType, StepLock, StepPoison, NextDevice DEF DevInv
<1>3. Init => Device!DeviceInit
  BY ContextsAssumption DEF Init, Device!DeviceInit, SeenHealth, SeenWaiting, ContextsAssumption
<1> QED BY <1>1, <1>2, <1>3, PTL DEF Spec, KeepsPromise, Device!DeviceSpec, Implements

========================================================================
