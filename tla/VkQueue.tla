----------------------------- MODULE VkQueue -----------------------------
(***************************************************************************)
(* Queue submission and the life of the v9 command buffers behind          *)
(* VkCommandBuffers (panvk_v9_entrypoints.c).  A VkCommandBuffer owns one  *)
(* reference to its v9_cmd; the queue keeps one more to the v9_cmd it      *)
(* submitted last.  Counts are plain unsigned ints: each change is a load  *)
(* and a store, which other threads may step between.                      *)
(*                                                                         *)
(* The application obeys Vulkan's rules: no two calls in progress touch    *)
(* the same command buffer or fence, and a command buffer is left alone    *)
(* until the call that submits it has returned.  What the GPU makes of a   *)
(* submit is PanKmod's subject; here it succeeds or fails.                 *)
(***************************************************************************)
EXTENDS Naturals, Sequences, SequencesExt

CONSTANTS
  Threads,    \* application threads
  Buffers,    \* VkCommandBuffers
  Cmds,       \* addresses of v9 command buffers
  Fences,     \* fences, each passed to one submit at a time
  None,       \* NULL
  MaxList     \* bound: command buffers in one submit

ASSUME NoneAssumption == None \notin Threads \cup Buffers \cup Cmds \cup Fences
ASSUME ListAssumption == MaxList \in Nat

VARIABLES
  owned,     \* VkCommandBuffer.v9_cmd
  live,      \* v9 command buffers that are allocated
  refcount,  \* their counts
  compute,   \* those with a compute command (has_compute)
  last,      \* queue->last_v9_cmd
  mutex,     \* owner of submit_mutex, or None
  signaled,  \* fences that are signaled
  outcome,   \* how the submit each fence was passed to went: "none", "ok", "failed"
  pc,        \* where each thread is
  next,      \* where it goes on after a destroy
  victim,    \* the v9 command buffer it is destroying
  reg,       \* the count it has loaded
  list,      \* command buffers its call has still to work on
  call       \* the call: [op, fence, todo], todo the command buffers it touches

heap  == <<live, refcount, compute>>
queue == <<last, mutex, signaled, outcome>>
frame == <<next, victim, reg, list, call>>
vars  == <<owned, heap, queue, pc, frame>>

Quiet == [op |-> "none", fence |-> None, todo |-> {}]

Init ==
  /\ owned = [b \in Buffers |-> None]
  /\ live = {} /\ refcount = [c \in Cmds |-> 0] /\ compute = {}
  /\ last = None /\ mutex = None
  /\ signaled = {} /\ outcome = [f \in Fences |-> "none"]
  /\ pc = [t \in Threads |-> "idle"]
  /\ next = [t \in Threads |-> "idle"]
  /\ victim = [t \in Threads |-> None]
  /\ reg = [t \in Threads |-> 0]
  /\ list = [t \in Threads |-> <<>>]
  /\ call = [t \in Threads |-> Quiet]

Goto(t, label) == pc' = [pc EXCEPT ![t] = label]

\* The application's side of the rules: nobody else uses these objects now.
Unused(bs, f) == \A t \in Threads : /\ call[t].todo \cap bs = {}
                                    /\ f # None => call[t].fence # f

Enter(t, op, bs, f) ==
  /\ pc[t] = "idle" /\ Unused(bs, f)
  /\ call' = [call EXCEPT ![t] = [op |-> op, fence |-> f, todo |-> bs]]

Return(t) == call' = [call EXCEPT ![t] = Quiet]

------------------------------------------------------------------------
(* v9_cmd_buffer_destroy, as every caller reaches it *)

\* Destroy c, then go on at label; a NULL pointer is nothing to destroy.
StartDestroy(t, c, label) ==
  IF c = None THEN Goto(t, label) /\ UNCHANGED <<next, victim>>
  ELSE /\ victim' = [victim EXCEPT ![t] = c]
       /\ next' = [next EXCEPT ![t] = label]
       /\ Goto(t, "load")

Load(t) ==
  /\ pc[t] = "load"
  /\ reg' = [reg EXCEPT ![t] = refcount[victim[t]]]
  /\ Goto(t, "store")
  /\ UNCHANGED <<owned, heap, queue, next, victim, list, call>>

\* Mutant of Dropped: the memory is freed whoever else holds a reference.
DroppedAlways(n) == TRUE

\* Only the last reference frees the memory.
Dropped(n) == n = 0

Store(t) ==
  /\ pc[t] = "store"
  /\ refcount' = [refcount EXCEPT ![victim[t]] = reg[t] - 1]
  /\ live' = IF Dropped(reg[t] - 1) THEN live \ {victim[t]} ELSE live
  /\ compute' = compute \cap live'
  /\ victim' = [victim EXCEPT ![t] = None]
  /\ reg' = [reg EXCEPT ![t] = 0]
  /\ next' = [next EXCEPT ![t] = "idle"]
  /\ Goto(t, next[t])
  /\ UNCHANGED <<owned, queue, list, call>>

\* v9_cmd_buffer_create for a command buffer, or its failure.
Create(b) ==
  \/ /\ owned' = [owned EXCEPT ![b] = None]
     /\ UNCHANGED <<live, refcount>>
  \/ \E c \in Cmds \ live :
       /\ live' = live \cup {c}
       /\ refcount' = [refcount EXCEPT ![c] = 1]
       /\ owned' = [owned EXCEPT ![b] = c]

------------------------------------------------------------------------
(* Recording, resetting and freeing *)

\* vkCmdDispatch: a first command creates the v9 command buffer.
Dispatch(t, b) ==
  /\ pc[t] = "idle" /\ Unused({b}, None)
  /\ IF owned[b] = None THEN Create(b) ELSE UNCHANGED <<owned, live, refcount>>
  /\ compute' = IF owned'[b] = None THEN compute ELSE compute \cup {owned'[b]}
  /\ UNCHANGED <<queue, pc, frame>>

\* vkCmdBeginRenderPass replaces the v9 command buffer unless it holds compute work.
BeginRenderPass(t, b) ==
  /\ owned[b] \notin compute
  /\ Enter(t, "begin", {b}, None)
  /\ StartDestroy(t, owned[b], "create")
  /\ UNCHANGED <<owned, heap, queue, reg, list>>

BeginCreate(t) ==
  /\ pc[t] = "create"
  /\ \E b \in call[t].todo : Create(b)
  /\ Return(t)
  /\ Goto(t, "idle")
  /\ UNCHANGED <<compute, queue, next, victim, reg, list>>

\* vkResetCommandBuffer, and vkFreeCommandBuffers with the allocation that follows it:
\* either way the command buffer is one without a v9_cmd afterwards.
Reset(t, b) ==
  /\ owned[b] # None
  /\ Enter(t, "reset", {b}, None)
  /\ StartDestroy(t, owned[b], "forget")
  /\ UNCHANGED <<owned, heap, queue, reg, list>>

Forget(t) ==
  /\ pc[t] = "forget"
  /\ owned' = [b \in Buffers |-> IF b \in call[t].todo THEN None ELSE owned[b]]
  /\ Return(t)
  /\ Goto(t, "idle")
  /\ UNCHANGED <<heap, queue, next, victim, reg, list>>

------------------------------------------------------------------------
(* vkQueueSubmit and vkQueueSubmit2 *)

\* Any list of command buffers and perhaps an unsignaled fence.
Submit(t) ==
  /\ \E bs \in BoundedSeq(Buffers, MaxList), f \in (Fences \ signaled) \cup {None},
        op \in {"submit", "submit2"} :
       /\ Enter(t, op, ToSet(bs), f)
       /\ list' = [list EXCEPT ![t] = bs]
  /\ Goto(t, "lock")
  /\ UNCHANGED <<owned, heap, queue, next, victim, reg>>

\* Mutant of Lock: submit_mutex keeps nobody out.
LockShared(t) ==
  /\ pc[t] = "lock"
  /\ mutex' = t
  /\ Goto(t, "next")
  /\ UNCHANGED <<owned, heap, last, signaled, outcome, frame>>

Lock(t) ==
  /\ pc[t] = "lock" /\ mutex = None
  /\ mutex' = t
  /\ Goto(t, "next")
  /\ UNCHANGED <<owned, heap, last, signaled, outcome, frame>>

Current(t) == owned[Head(list[t])]

\* The next command buffer: without a v9_cmd it is skipped; the queue's reference moves
\* to it unless it has one already.
NextBuffer(t) ==
  /\ pc[t] = "next" /\ list[t] # <<>>
  /\ IF Current(t) = None
     THEN list' = [list EXCEPT ![t] = Tail(@)] /\ UNCHANGED <<pc, next, victim>>
     ELSE /\ IF last = Current(t)
             THEN Goto(t, "render") /\ UNCHANGED <<next, victim>>
             ELSE StartDestroy(t, last, "ref")
          /\ UNCHANGED list
  /\ UNCHANGED <<owned, heap, queue, reg, call>>

\* v9_cmd_buffer_ref, its load and its store.
RefLoad(t) ==
  /\ pc[t] = "ref"
  /\ reg' = [reg EXCEPT ![t] = refcount[Current(t)]]
  /\ Goto(t, "refstore")
  /\ UNCHANGED <<owned, heap, queue, next, victim, list, call>>

\* Mutant of Counted: the queue takes a pointer without a reference.
CountedNot(n) == n

Counted(n) == n + 1

RefStore(t) ==
  /\ pc[t] = "refstore"
  /\ refcount' = [refcount EXCEPT ![Current(t)] = Counted(reg[t])]
  /\ last' = Current(t)
  /\ reg' = [reg EXCEPT ![t] = 0]
  /\ Goto(t, "render")
  /\ UNCHANGED <<owned, live, compute, mutex, signaled, outcome, next, victim, list, call>>

\* v9_cmd_buffer_submit returns 0.
Render(t) ==
  /\ pc[t] = "render"
  /\ list' = [list EXCEPT ![t] = Tail(@)]
  /\ Goto(t, "next")
  /\ UNCHANGED <<owned, heap, queue, next, victim, reg, call>>

\* The call ends: whether it signals its fence, and how it went.
Finish(t, signals, how) ==
  LET f == call[t].fence IN
  /\ signaled' = IF f # None /\ signals THEN signaled \cup {f} ELSE signaled
  /\ outcome' = IF f # None THEN [outcome EXCEPT ![f] = how] ELSE outcome
  /\ mutex' = None
  /\ list' = [list EXCEPT ![t] = <<>>]
  /\ Return(t)
  /\ Goto(t, "idle")
  /\ UNCHANGED <<owned, heap, last, next, victim, reg>>

Done(t) == pc[t] = "next" /\ list[t] = <<>> /\ Finish(t, TRUE, "ok")

\* Mutant of SignalsAnyway: the fence of vkQueueSubmit is signaled too.
SignalsAnywayAll(op) == TRUE

\* After a failure vkQueueSubmit leaves the fence, vkQueueSubmit2 signals it.
SignalsAnyway(op) == op = "submit2"

\* v9_cmd_buffer_submit fails: the rest of the list is not submitted.
Fail(t) == pc[t] = "render" /\ Finish(t, SignalsAnyway(call[t].op), "failed")

\* vkResetFences.
ResetFence(t, f) ==
  /\ pc[t] = "idle" /\ Unused({}, f) /\ f \in signaled
  /\ signaled' = signaled \ {f}
  /\ outcome' = [outcome EXCEPT ![f] = "none"]
  /\ UNCHANGED <<owned, heap, last, mutex, pc, frame>>

\* What a thread does once its call has begun, and what begins a call.
Continue(t) == \/ Load(t) \/ Store(t) \/ BeginCreate(t) \/ Forget(t)
               \/ Lock(t) \/ NextBuffer(t) \/ RefLoad(t) \/ RefStore(t)
               \/ Render(t) \/ Done(t) \/ Fail(t)

Begin(t) == \/ Submit(t)
            \/ \E b \in Buffers : Dispatch(t, b) \/ BeginRenderPass(t, b) \/ Reset(t, b)
            \/ \E f \in Fences : ResetFence(t, f)

Next == \E t \in Threads : Continue(t) \/ Begin(t)

Spec == Init /\ [][Next]_vars

------------------------------------------------------------------------
(* Properties *)

\* Types of all variables.
TypeOK ==
  /\ owned \in [Buffers -> Cmds \cup {None}]
  /\ live \subseteq Cmds /\ compute \subseteq live
  /\ refcount \in [Cmds -> Nat]
  /\ last \in Cmds \cup {None}
  /\ mutex \in Threads \cup {None}
  /\ signaled \subseteq Fences /\ outcome \in [Fences -> {"none", "ok", "failed"}]
  /\ victim \in [Threads -> Cmds \cup {None}]
  /\ reg \in [Threads -> Nat]
  /\ \A t \in Threads : call[t].todo \subseteq Buffers /\ ToSet(list[t]) \subseteq call[t].todo

\* Nothing is used after it was freed, although counts are changed without atomicity and
\* recording threads drop references while a submit drops the queue's: a count that is
\* loaded, a v9 command buffer that is rendered, one that a command buffer owns and the
\* one the queue keeps (vkQueuePresentKHR reads its pixels) are allocated, except for the
\* pointer a call is just about to replace.
NoUseAfterFree ==
  /\ \A t \in Threads : pc[t] = "load" => victim[t] \in live
  /\ \A t \in Threads : pc[t] \in {"ref", "refstore", "render"} => Current(t) \in live
  /\ \A b \in Buffers : owned[b] \in live \cup {None}
                        \/ \E t \in Threads : b \in call[t].todo /\ pc[t] \in {"create", "forget"}
  /\ last \in live \cup {None} \/ \E t \in Threads : mutex = t /\ pc[t] \in {"ref", "refstore"}

\* A v9 command buffer is submitted by one thread at a time, and what is being rendered
\* is what the queue keeps (comment at submit_mutex, panvk_v9_entrypoints.c:793-797).
RenderedIsLast == \A t \in Threads : pc[t] = "render" => mutex = t /\ last = Current(t)

\* vkQueueSubmit signals its fence only if every command buffer of every submit went
\* well ("FIX BUG6", panvk_v9_entrypoints.c:4954).
SubmitFenceTruth ==
  [][\A t \in Threads : call[t].op = "submit" /\ call[t].fence \in signaled' \ signaled
       => outcome'[call[t].fence] = "ok"]_vars

\* The same of both entry points.  vkQueueSubmit2 violates it.
FenceTruth == \A f \in signaled : outcome[f] = "ok"

==========================================================================
