--------------------------- MODULE KbaseAtoms ---------------------------
(***************************************************************************)
(* Atom numbers and completion events (kbase_winsys.c, kbase_slot_unwedge, *)
(* and the openings of pan_kmod_kbase.c).  A submit takes the next         *)
(* rotating number of the context and issues an atom under it, or fails    *)
(* and issues none; the wait that follows reads events from the fd and     *)
(* keeps only one that carries its number.  The kernel is external: it     *)
(* completes atoms in any order, may lose an event, and may hand the       *)
(* unread events of a closed context to the next one, before its drain or  *)
(* after it.  It is assumed to be done with an atom before Patience        *)
(* further numbers are given out.                                          *)
(*                                                                         *)
(* A thread holds dev_lock around a submit and its wait, and makes further *)
(* ones under the same lock (tiler retry, unwedge); only a batch is        *)
(* submitted in one critical section and awaited in another.  When to      *)
(* retry or reopen is decided in PanKmod; here a holder whose wait ended   *)
(* may do either or leave.                                                 *)
(***************************************************************************)
EXTENDS Naturals, Sequences, FiniteSets

CONSTANTS
  Threads,        \* threads that submit
  None,           \* no lock owner
  Modulus,        \* 254: numbers rotate through 1..Modulus
  SafeZone,       \* 200: what reopen sets the counter to
  Patience,       \* an atom and its event are gone before so many later numbers are used
  MaxJobs,        \* bound: numbers given out in all
  MaxReopens,     \* bound: reopens in all
  MaxCreates      \* bound: further device objects in all

ASSUME NumbersAssumption == Modulus \in Nat /\ SafeZone \in Nat \ {0}
ASSUME PatienceAssumption == Patience \in 3..(Modulus - SafeZone)
ASSUME AtomThreadsAssumption == None \notin Threads
ASSUME BoundsAssumption == MaxJobs \in Nat /\ MaxReopens \in Nat /\ MaxCreates \in Nat

VARIABLES
  batched,  \* V9_BATCH_SUBMIT: frames go as batches, never changes
  opened,   \* how often the context was replaced: [reopens, creates]
  counter,  \* kdev->atom_counter
  context,  \* history: jobs before the open context, and the counter it began with
  crossed,  \* history: a context was to give out the number of an event still to come
  jobs,     \* history: every number given out; a job is its index
  running,  \* issued jobs of the open context that have produced no event
  unread,   \* jobs whose events can be read from the fd, in any order
  late,     \* unread events of closed contexts that the kernel still holds
  lock,     \* owner of dev_lock, or None
  pc,       \* where each thread is
  mine,     \* the job each thread took last, or waits for; 0 = none
  got,      \* the job whose event ended its last wait; 0 = none
  batch     \* the fragment atom of a batch it has not waited for yet; 0 = none

kernel == <<running, unread, late>>
epoch  == <<opened, context, crossed>>
local  == <<mine, got, batch>>
vars   == <<batched, epoch, counter, jobs, kernel, lock, pc, local>>

Jobs == 1..Len(jobs)
Last == Len(jobs)

\* The atoms the kernel may still report.
Outstanding == running \cup unread \cup late

\* nr: the atom number; dep: the number in pre_dep[0], 0 = none; follows: the job that
\* dependency is meant for, 0 = none; issued: whether the ioctl took the atom.
Atom(n, d, f, ok) == [nr |-> n, dep |-> d, follows |-> f, issued |-> ok]

Init ==
  /\ batched \in BOOLEAN
  /\ opened = [reopens |-> 0, creates |-> 0]
  /\ context = [first |-> 0, start |-> 0]
  /\ crossed = FALSE
  /\ counter = 0
  /\ jobs = <<>> /\ running = {} /\ unread = {} /\ late = {}
  /\ lock = None
  /\ pc = [t \in Threads |-> "idle"]
  /\ mine = [t \in Threads |-> 0]
  /\ got = [t \in Threads |-> 0]
  /\ batch = [t \in Threads |-> 0]

Goto(t, label) == pc' = [pc EXCEPT ![t] = label]

------------------------------------------------------------------------
(* Submitting *)

\* Mutants of NextNr: the number is used before it is advanced; it is not advanced.
NextNrPost(c) == c
NextNrStuck(c) == 1

\* next_atom_id.
NextNr(c) == (c % Modulus) + 1

\* What the counter is after k more numbers.
Ahead(c, k) == IF k = 0 THEN c ELSE ((c + k - 1) % Modulus) + 1

Acquire(t) ==
  /\ pc[t] = "idle" /\ lock = None
  /\ lock' = t
  /\ Goto(t, "locked")
  /\ UNCHANGED <<batched, epoch, counter, jobs, kernel, local>>

\* The lock is released; the numbers were local to the critical section.
Release(t) ==
  /\ lock' = None
  /\ mine' = [mine EXCEPT ![t] = 0]
  /\ got' = [got EXCEPT ![t] = 0]
  /\ Goto(t, IF batch[t] = 0 THEN "idle" ELSE "batched")

Unlock(t) ==
  /\ pc[t] = "locked"
  /\ Release(t)
  /\ UNCHANGED <<batched, epoch, counter, jobs, kernel, batch>>

\* These atoms have been given the next numbers; the JOB_SUBMIT ioctl takes them, or
\* fails and takes none of them.
Issue(atoms, ok) ==
  /\ Last + Len(atoms) <= MaxJobs
  /\ \A j \in Outstanding : j > (Last + Len(atoms)) - Patience
  /\ jobs' = jobs \o atoms
  /\ running' = IF ok THEN running \cup {Last + i : i \in 1..Len(atoms)} ELSE running
  /\ UNCHANGED <<unread, late>>

\* A number was taken: the thread waits for its atom, or has the ioctl's error.
Await(t, job, ok) ==
  /\ mine' = [mine EXCEPT ![t] = job]
  /\ got' = [got EXCEPT ![t] = 0]
  /\ Goto(t, IF ok THEN "wait" ELSE "locked")

\* kbase_submit_job; the wait is on the number it was given.
SubmitJob(t) ==
  /\ pc[t] = "locked" /\ batch[t] = 0
  /\ counter' = NextNr(counter)
  /\ \E ok \in BOOLEAN : /\ Issue(<<Atom(NextNr(counter), 0, 0, ok)>>, ok)
                        /\ Await(t, Last + 1, ok)
  /\ UNCHANGED <<batched, epoch, lock, batch>>

\* kbase_slot_unwedge: the atom before this one, "wrapping correctly within 1-255".
FlushDep(nr) == IF nr > 1 THEN nr - 1 ELSE Modulus + 1

\* kbase_slot_unwedge: a null flush that is to follow the atom whose number the thread
\* took before it, issued or not.  The tiler retry begins with one, when the thread has
\* taken none under this lock yet.
SlotUnwedge(t) ==
  /\ pc[t] = "locked" /\ ~batched
  /\ counter' = NextNr(counter)
  /\ \E ok \in BOOLEAN :
       /\ Issue(<<Atom(NextNr(counter), FlushDep(NextNr(counter)), mine[t], ok)>>, ok)
       /\ Await(t, Last + 1, ok)
  /\ UNCHANGED <<batched, epoch, lock, batch>>

\* Mutant of Remap: the batch-local number of the atom before is kept.
RemapNothing(i) == i - 2

\* kbase_submit_batch replaces the local number i - 2 of atom i's dependency by the
\* number that atom has been given.
Remap(i) == Ahead(counter, i - 1)

\* kbase_submit_batch with the three atoms of a frame: tiler, flush, fragment.  Each
\* depends on the one before; the caller keeps the fragment's number if the ioctl went well.
SubmitBatch(t) ==
  /\ batched /\ pc[t] = "locked" /\ mine[t] = 0 /\ batch[t] = 0
  /\ counter' = Ahead(counter, 3)
  /\ \E ok \in BOOLEAN :
       /\ Issue([i \in 1..3 |-> IF i = 1 THEN Atom(Ahead(counter, 1), 0, 0, ok)
                                ELSE Atom(Ahead(counter, i), Remap(i), (Last + i) - 1, ok)], ok)
       /\ batch' = [batch EXCEPT ![t] = IF ok THEN Last + 3 ELSE 0]
  /\ UNCHANGED <<batched, epoch, lock, pc, mine, got>>

\* pan_kmod_wait_event_timeout for the fragment of that batch.
WaitBatch(t) ==
  /\ pc[t] = "batched" /\ lock = None
  /\ lock' = t
  /\ Await(t, batch[t], TRUE)
  /\ batch' = [batch EXCEPT ![t] = 0]
  /\ UNCHANGED <<batched, epoch, counter, jobs, kernel>>

------------------------------------------------------------------------
(* Waiting *)

\* kbase_wait_event_timeout: an event of another atom is discarded.
Accepts(nr, expected) == nr = expected

\* One turn of the poll and read loop.
Read(t) ==
  /\ pc[t] = "wait"
  /\ \E e \in unread :
       /\ unread' = unread \ {e}
       /\ IF Accepts(jobs[e].nr, jobs[mine[t]].nr)
          THEN got' = [got EXCEPT ![t] = e] /\ Goto(t, "locked")
          ELSE UNCHANGED <<got, pc>>
  /\ UNCHANGED <<batched, epoch, counter, jobs, running, late, lock, mine, batch>>

\* The budget is spent, or poll or read failed.
Timeout(t) ==
  /\ pc[t] = "wait"
  /\ Goto(t, "locked")
  /\ UNCHANGED <<batched, epoch, counter, jobs, kernel, lock, local>>

------------------------------------------------------------------------
(* Replacing the context *)

\* Mutant of Drain: events that are already there are left to the first wait.
DrainNothing(events) == events

\* kbase_drain_events reads all that is there.
Drain(events) == {}

\* The numbers a context that begins at this counter gives out first.
Zone(start) == {Ahead(start, k) : k \in 1..Patience}

\* The context is closed, its atoms are terminated, and a new one is opened and
\* drained.  Any of the events nobody read may reach the new fd before the drain or
\* after it; the others are lost.
Replace(start) ==
  \E before, after \in SUBSET Outstanding :
    /\ before \cap after = {}
    /\ running' = {}
    /\ unread' = Drain(before)
    /\ late' = after
    /\ context' = [first |-> Last, start |-> start]
    /\ crossed' = (crossed \/ \E j \in after : jobs[j].nr \in Zone(start))

\* Mutant of ReopenCounter: the numbers start again.
ReopenCounterZero(c) == 0

\* pan_kmod_dev_reopen sets the counter of the new context.
ReopenCounter(c) == SafeZone

\* pan_kmod_dev_reopen, for a fragment whose wait timed out; then the lock is released.
Reopen(t) ==
  /\ pc[t] = "locked" /\ ~batched /\ mine[t] # 0 /\ jobs[mine[t]].issued /\ got[t] = 0
  /\ opened.reopens < MaxReopens
  /\ opened' = [opened EXCEPT !.reopens = @ + 1]
  /\ Replace(SafeZone)
  /\ counter' = ReopenCounter(counter)
  /\ Release(t)
  /\ UNCHANGED <<batched, jobs, batch>>

\* pan_kmod_dev_destroy and pan_kmod_dev_create, when no call is in progress.
Recreate ==
  /\ \A t \in Threads : pc[t] = "idle"
  /\ opened.creates < MaxCreates
  /\ opened' = [opened EXCEPT !.creates = @ + 1]
  /\ Replace(0)
  /\ counter' = 0
  /\ UNCHANGED <<batched, jobs, lock, pc, local>>

------------------------------------------------------------------------
(* The kernel *)

\* An atom ends: its event can be read, or is lost.
Complete(j) ==
  /\ j \in running
  /\ running' = running \ {j}
  /\ unread' \in {unread, unread \cup {j}}
  /\ UNCHANGED <<batched, epoch, counter, jobs, late, lock, pc, local>>

\* An event of a closed context arrives, or is lost after all.
Deliver(j) ==
  /\ j \in late
  /\ late' = late \ {j}
  /\ unread' \in {unread, unread \cup {j}}
  /\ UNCHANGED <<batched, epoch, counter, jobs, running, lock, pc, local>>

Call(t) == \/ Acquire(t) \/ Unlock(t) \/ SubmitJob(t) \/ SlotUnwedge(t) \/ SubmitBatch(t)
           \/ WaitBatch(t) \/ Read(t) \/ Timeout(t) \/ Reopen(t)

Kernel == \E j \in Jobs : Complete(j) \/ Deliver(j)

Next == (\E t \in Threads : Call(t)) \/ Recreate \/ Kernel

Spec == Init /\ [][Next]_vars

------------------------------------------------------------------------
(* Properties *)

\* Types of all variables.
TypeOK ==
  /\ batched \in BOOLEAN /\ crossed \in BOOLEAN
  /\ opened \in [reopens : 0..MaxReopens, creates : 0..MaxCreates]
  /\ context \in [first : 0..Last, start : {0, SafeZone}]
  /\ counter \in 0..Modulus
  /\ Last <= MaxJobs
  /\ \A j \in Jobs : jobs[j] \in [nr : 1..Modulus, dep : 0..(Modulus + 1), follows : 0..Last,
                                 issued : BOOLEAN]
  /\ running \subseteq Jobs /\ unread \subseteq Jobs /\ late \subseteq Jobs
  /\ lock \in Threads \cup {None}
  /\ pc \in [Threads -> {"idle", "locked", "wait", "batched"}]
  /\ mine \in [Threads -> 0..Last]
  /\ got \in [Threads -> 0..Last]
  /\ batch \in [Threads -> 0..Last]

\* A wait ends with the completion of the very atom it waits for, never with a stale
\* event of another one: the reason for the rotating numbers, the filter, the drains and
\* the counter of 200 (pan_kmod_kbase.c:157-175).  Two cases are beyond them: a context
\* that was to give out the number of an event that came after its drain, and a batch
\* whose number has come round to a later atom before anyone waits for it.
NoStaleMatch == \A t \in Threads :
  got[t] # 0 => got[t] = mine[t] \/ crossed \/ got[t] >= mine[t] + Modulus

\* Two live atoms of a context never share a number, however often the numbers come
\* round (kbase_winsys.c:322-324).
NoLiveCollision == \A i, j \in running : jobs[i].nr = jobs[j].nr => i = j

\* A dependency stops its atom behind the atom it is meant for or, when that one's ioctl
\* failed or the flush has number 1, behind none, never behind another atom that is
\* still running (kbase_slot_unwedge.c:34-37, kbase_winsys.c:633-637).
DependenciesRight == \A j \in running :
  jobs[j].follows # 0 =>
    /\ jobs[j].dep = jobs[jobs[j].follows].nr \/ jobs[j].nr = 1
    /\ \A i \in running : jobs[i].nr = jobs[j].dep => i = jobs[j].follows

\* What pan_kmod_kbase.c:168-174 says: the numbers from 201 never collide with stale
\* events of the old context.
NeverStale == \A t \in Threads : got[t] # 0 => got[t] = mine[t]

\* What kbase_slot_unwedge.c:95 says: the flush's dependency is the number before its
\* own, "wrapping correctly".
FlushFollows == \A j \in Jobs : jobs[j].follows # 0 => jobs[j].dep = jobs[jobs[j].follows].nr

========================================================================
