-------------------------- MODULE VkQueueProofs --------------------------
(***************************************************************************)
(* Proof that no v9 command buffer is used after it was freed, although    *)
(* its count is changed by a load and a store that other threads step      *)
(* between.  Each allocated v9 command buffer has at most two holders: one *)
(* VkCommandBuffer (Held) and the queue (Kept).  The inductive invariant   *)
(* says that a count is at least the number of its holders, and that a     *)
(* count some thread has loaded to drop its own reference is at least 2    *)
(* while the other holder is there: a lost update leaks, it never frees    *)
(* too early.                                                              *)
(***************************************************************************)
EXTENDS VkQueue, TLAPS

Labels == {"idle", "load", "store", "create", "forget",
           "lock", "next", "ref", "refstore", "render"}

\* b's reference to its v9 command buffer is not dropped yet.
Held(b) == /\ owned[b] # None
           /\ \A t \in Threads : b \in call[t].todo => pc[t] \notin {"create", "forget"}

\* Neither is the queue's.
Kept == last # None /\ \A t \in Threads : pc[t] \notin {"ref", "refstore"}

Types ==
  /\ TypeOK
  /\ pc \in [Threads -> Labels]
  /\ next \in [Threads -> {"idle", "create", "forget", "ref"}]
  /\ list \in [Threads -> Seq(Buffers)]
  /\ call \in [Threads -> [op : {"none", "begin", "reset", "submit", "submit2"},
                           fence : Fences \cup {None}, todo : SUBSET Buffers]]

Drops(t)   == pc[t] \in {"load", "store"}
Submits(t) == call[t].op \in {"submit", "submit2"}

\* Where a call that replaces or resets one command buffer can be.
ResetPhase(t) ==
  /\ ~Submits(t) => list[t] = <<>>
  /\ call[t].op = "none" => pc[t] = "idle" /\ call[t].todo = {}
  /\ call[t].op = "begin" => pc[t] \in {"load", "store", "create"}
  /\ call[t].op = "reset" => pc[t] \in {"load", "store", "forget"}
  /\ call[t].op = "begin" /\ Drops(t) => next[t] = "create"
  /\ call[t].op = "reset" /\ Drops(t) => next[t] = "forget"
  /\ call[t].op \in {"begin", "reset"} =>
       \E b \in Buffers : /\ call[t].todo = {b}
                          /\ Drops(t) => owned[b] = victim[t] /\ victim[t] # None

\* Where a submit can be.
SubmitPhase(t) ==
  Submits(t) =>
    /\ pc[t] \in {"lock", "next", "load", "store", "ref", "refstore", "render"}
    /\ pc[t] # "lock" => mutex = t
    /\ Drops(t) => next[t] = "ref" /\ victim[t] = last /\ last # None
    /\ pc[t] \in {"load", "store", "ref", "refstore", "render"} =>
         list[t] # <<>> /\ Current(t) # None
    /\ pc[t] = "refstore" => reg[t] >= 1
    /\ pc[t] = "render" => last = Current(t)

Phases == \A t \in Threads : ResetPhase(t) /\ SubmitPhase(t)

Disjoint == \A t, u \in Threads : t # u => call[t].todo \cap call[u].todo = {}

OneOwner == \A a, b \in Buffers : Held(a) /\ Held(b) /\ owned[a] = owned[b] => a = b

Counts ==
  /\ \A b \in Buffers : Held(b) => owned[b] \in live /\ refcount[owned[b]] >= 1
  /\ Kept => last \in live /\ refcount[last] >= 1
  /\ \A b \in Buffers : Held(b) /\ Kept /\ owned[b] = last => refcount[last] >= 2

Loaded ==
  \A t \in Threads : pc[t] = "store" =>
    /\ reg[t] >= 1
    /\ ~Submits(t) /\ Kept /\ victim[t] = last => reg[t] >= 2
    /\ Submits(t) => \A b \in Buffers : Held(b) /\ owned[b] = victim[t] => reg[t] >= 2

QueueInv == Types /\ Phases /\ Disjoint /\ OneOwner /\ Counts /\ Loaded

------------------------------------------------------------------------
(* Lemmas *)

LEMMA HeadTail ==
  ASSUME NEW S, NEW s \in Seq(S), s # <<>>
  PROVE  /\ Head(s) \in ToSet(s) /\ Head(s) \in S
         /\ Tail(s) \in Seq(S) /\ ToSet(Tail(s)) \subseteq ToSet(s)
  <1>1. Len(s) \in Nat /\ Len(s) >= 1 /\ DOMAIN s = 1..Len(s) /\ Head(s) = s[1]
    OBVIOUS
  <1>2. /\ Tail(s) \in Seq(S) /\ DOMAIN Tail(s) = 1..(Len(s) - 1)
        /\ \A i \in 1..(Len(s) - 1) : Tail(s)[i] = s[i + 1] /\ i + 1 \in DOMAIN s
    BY <1>1
  <1>3. ToSet(Tail(s)) \subseteq ToSet(s)
    BY <1>2 DEF ToSet
  <1>. QED  BY <1>1, <1>2, <1>3 DEF ToSet

\* The command buffer a submit works on is one its call touches.
LEMMA CurrentListed ==
  ASSUME Types, NEW t \in Threads, list[t] # <<>>
  PROVE  /\ Head(list[t]) \in Buffers /\ Head(list[t]) \in call[t].todo
         /\ Tail(list[t]) \in Seq(Buffers) /\ ToSet(Tail(list[t])) \subseteq call[t].todo
  <1>1. list[t] \in Seq(Buffers) /\ ToSet(list[t]) \subseteq call[t].todo
    BY DEF Types, TypeOK
  <1>. QED  BY <1>1, HeadTail

LEMMA InitInv == Init => QueueInv
  <1>. SUFFICES ASSUME Init PROVE QueueInv
    OBVIOUS
  <1>1. ToSet(<<>>) = {}
    BY DEF ToSet
  <1>2. Types
    BY <1>1 DEF Init, Types, TypeOK, Labels, Quiet
  <1>. QED  BY <1>2 DEF Init, QueueInv, Phases, ResetPhase, SubmitPhase, Submits, Drops,
                        Disjoint, OneOwner, Held, Kept, Counts, Loaded, Quiet

\* A thread at a step of queue submission holds submit_mutex.
LEMMA InSubmit ==
  ASSUME QueueInv, NEW t \in Threads
  PROVE  /\ pc[t] \in {"lock", "next", "ref", "refstore", "render"} => Submits(t)
         /\ Submits(t) /\ pc[t] # "lock" => mutex = t
         /\ pc[t] \in {"create", "forget"} => ~Submits(t)
         /\ pc[t] = "idle" => call[t].op = "none" /\ ~Submits(t)
  <1>1. call[t].op \in {"none", "begin", "reset", "submit", "submit2"}
    BY DEF QueueInv, Types
  <1>. QED  BY <1>1 DEF QueueInv, Phases, ResetPhase, SubmitPhase, Submits

\* A thread that drops a reference drops the one a holder still has.
LEMMA Dropper ==
  ASSUME QueueInv, NEW t \in Threads, Drops(t)
  PROVE  /\ victim[t] \in Cmds /\ victim[t] \in live /\ refcount[victim[t]] >= 1
         /\ Submits(t) => Kept /\ victim[t] = last /\ mutex = t /\ next[t] = "ref"
         /\ ~Submits(t) => \E b \in Buffers : /\ call[t].todo = {b} /\ Held(b)
                                              /\ owned[b] = victim[t] /\ victim[t] # None
         /\ ~Submits(t) => next[t] \in {"create", "forget"}
  <1>. USE DEF QueueInv
  <1>0. /\ call[t] \in [op : {"none", "begin", "reset", "submit", "submit2"},
                         fence : Fences \cup {None}, todo : SUBSET Buffers]
        /\ live \subseteq Cmds
    BY DEF Types, TypeOK
  <1>1. CASE Submits(t)
    <2>1. victim[t] = last /\ last # None /\ mutex = t /\ next[t] = "ref"
      BY <1>1 DEF Phases, SubmitPhase, Drops
    <2>2. ASSUME NEW u \in Threads, pc[u] \in {"ref", "refstore"} PROVE FALSE
      BY <2>1, <2>2, InSubmit DEF Drops
    <2>3. Kept
      BY <2>1, <2>2 DEF Kept
    <2>. QED  BY <1>0, <1>1, <2>1, <2>3 DEF Counts
  <1>2. CASE ~Submits(t)
    <2>1. call[t].op \in {"begin", "reset"}
      BY <1>0, <1>2 DEF Phases, ResetPhase, Drops, Submits
    <2>2. PICK b \in Buffers : call[t].todo = {b} /\ owned[b] = victim[t] /\ victim[t] # None
      BY <2>1 DEF Phases, ResetPhase
    <2>3. \A u \in Threads : b \in call[u].todo => u = t
      BY <2>2 DEF Disjoint
    <2>4. Held(b)
      BY <2>2, <2>3 DEF Held, Drops
    <2>5. next[t] \in {"create", "forget"}
      BY <2>1 DEF Phases, ResetPhase
    <2>. QED  BY <1>0, <1>2, <2>2, <2>4, <2>5 DEF Counts
  <1>. QED  BY <1>1, <1>2

LEMMA LoadStep ==
  ASSUME QueueInv, NEW t \in Threads, Load(t)
  PROVE  QueueInv'
  <1>. USE DEF QueueInv
  <1>1. /\ Drops(t) /\ pc[t] = "load" /\ pc'[t] = "store" /\ reg'[t] = refcount[victim[t]]
        /\ \A u \in Threads \ {t} : pc'[u] = pc[u] /\ reg'[u] = reg[u]
        /\ UNCHANGED <<owned, heap, queue, next, victim, list, call>>
    BY DEF Load, Goto, Types, TypeOK, Drops
  <1>2. victim[t] \in Cmds
    BY <1>1, Dropper
  <1>3. Types'
    BY <1>1, <1>2 DEF Load, Goto, Types, TypeOK, Labels, heap, queue
  <1>4. (\A b \in Buffers : Held(b)' <=> Held(b)) /\ (Kept' <=> Kept)
    BY <1>1 DEF Held, Kept, queue
  <1>5. Phases'
    BY <1>1 DEF Phases, ResetPhase, SubmitPhase, Submits, Drops, Current, queue
  <1>6. Disjoint' /\ OneOwner' /\ Counts'
    BY <1>1, <1>4 DEF Disjoint, OneOwner, Counts, heap, queue
  <1>7. Loaded'
    <2>1. ASSUME NEW u \in Threads, u # t PROVE
            pc'[u] = "store" =>
              /\ reg'[u] >= 1
              /\ ~Submits(u)' /\ Kept' /\ victim'[u] = last' => reg'[u] >= 2
              /\ Submits(u)' => \A b \in Buffers : Held(b)' /\ owned'[b] = victim'[u] => reg'[u] >= 2
      BY <1>1, <1>4, <2>1 DEF Loaded, Submits, queue
    <2>2. reg'[t] >= 1
      BY <1>1, Dropper
    <2>3. ~Submits(t) /\ Kept /\ victim[t] = last => refcount[victim[t]] >= 2
      BY <1>1, Dropper DEF Counts
    <2>4. Submits(t) => \A b \in Buffers : Held(b) /\ owned[b] = victim[t] => refcount[victim[t]] >= 2
      BY <1>1, Dropper DEF Counts
    <2>. QED  BY <1>1, <1>4, <2>1, <2>2, <2>3, <2>4 DEF Loaded, Submits, queue
  <1>. QED  BY <1>3, <1>5, <1>6, <1>7

LEMMA StoreStep ==
  ASSUME QueueInv, NEW t \in Threads, Store(t)
  PROVE  QueueInv'
  <1>. USE DEF QueueInv
  <1>. DEFINE v == victim[t]
              n == reg[t] - 1
  <1>1. /\ Drops(t) /\ pc[t] = "store" /\ pc'[t] = next[t] /\ victim'[t] = None
        /\ \A u \in Threads \ {t} : /\ pc'[u] = pc[u] /\ reg'[u] = reg[u]
                                    /\ victim'[u] = victim[u] /\ next'[u] = next[u]
        /\ UNCHANGED <<owned, queue, list, call>>
    BY DEF Store, Goto, Types, TypeOK, Drops
  <1>2. /\ v \in Cmds /\ v \in live /\ reg[t] \in Nat /\ n \in Nat
        /\ next[t] \in {"create", "forget", "ref"}
    BY <1>1, Dropper DEF Types, TypeOK, Loaded
  <1>3. /\ refcount'[v] = n /\ (n >= 1 => v \in live')
        /\ \A c \in Cmds \ {v} : refcount'[c] = refcount[c] /\ (c \in live => c \in live')
        /\ refcount' \in [Cmds -> Nat] /\ live' \subseteq Cmds /\ compute' \subseteq live'
    BY <1>2 DEF Store, Types, TypeOK, Dropped
  <1>4. Types'
    BY <1>1, <1>2, <1>3 DEF Store, Goto, Types, TypeOK, Labels, queue
  <1>5. Phases'
    <2>1. ASSUME NEW u \in Threads, u # t PROVE ResetPhase(u)' /\ SubmitPhase(u)'
      BY <1>1, <2>1 DEF Phases, ResetPhase, SubmitPhase, Submits, Drops, Current, queue
    <2>2. ResetPhase(t)' /\ SubmitPhase(t)'
      BY <1>1, <1>2, Dropper DEF Phases, ResetPhase, SubmitPhase, Submits, Drops, Current, queue
    <2>. QED  BY <2>1, <2>2 DEF Phases
  <1>6. Disjoint'
    BY <1>1 DEF Disjoint
  <1>7. CASE Submits(t)
    <2>1. next[t] = "ref" /\ v = last /\ mutex = t /\ Kept
      BY <1>1, <1>7, Dropper
    <2>2. ~Kept'
      BY <1>1, <2>1 DEF Kept
    <2>3. \A b \in Buffers : Held(b)' <=> Held(b)
      BY <1>1, <2>1 DEF Held
    <2>4. OneOwner'
      BY <1>1, <2>3 DEF OneOwner
    <2>5. \A b \in Buffers : Held(b) /\ owned[b] = v => n >= 1
      BY <1>1, <1>2, <1>7 DEF Loaded
    <2>6. \A b \in Buffers : Held(b) => owned[b] \in Cmds
      BY DEF Held, Types, TypeOK
    <2>7. Counts'
      BY <1>1, <1>3, <2>2, <2>3, <2>5, <2>6 DEF Counts
    <2>8. \A u \in Threads \ {t} : pc[u] = "store" => ~Submits(u)
      BY <2>1, InSubmit
    <2>9. Loaded'
      BY <1>1, <1>2, <2>1, <2>2, <2>8 DEF Loaded, Submits
    <2>. QED  BY <1>4, <1>5, <1>6, <2>4, <2>7, <2>9
  <1>8. CASE ~Submits(t)
    <2>1. PICK b \in Buffers : call[t].todo = {b} /\ Held(b) /\ owned[b] = v
      BY <1>1, <1>8, Dropper
    <2>2. next[t] \in {"create", "forget"}
      BY <1>1, <1>8, Dropper
    <2>3. Kept' <=> Kept
      BY <1>1, <2>2 DEF Kept, queue
    <2>4. ~Held(b)' /\ \A a \in Buffers \ {b} : Held(a)' <=> Held(a)
      BY <1>1, <2>1, <2>2 DEF Held
    <2>5. OneOwner'
      BY <1>1, <2>4 DEF OneOwner
    <2>6. \A a \in Buffers \ {b} : Held(a) => owned[a] \in Cmds \ {v}
      BY <2>1 DEF OneOwner, Held, Types, TypeOK
    <2>7. Kept /\ last = v => n >= 1
      BY <1>1, <1>2, <1>8 DEF Loaded
    <2>8. Kept => last \in Cmds
      BY DEF Kept, Types, TypeOK
    <2>9. Counts'
      BY <1>1, <1>3, <2>3, <2>4, <2>6, <2>7, <2>8 DEF Counts, queue
    <2>10. Loaded'
      BY <1>1, <2>2, <2>3, <2>4 DEF Loaded, Submits, queue
    <2>. QED  BY <1>4, <1>5, <1>6, <2>5, <2>9, <2>10
  <1>. QED  BY <1>7, <1>8

\* What v9_cmd_buffer_create does to a command buffer: at most one new holder of a
\* v9 command buffer nobody has.
LEMMA Created ==
  ASSUME Types, NEW b \in Buffers, Create(b)
  PROVE  /\ owned' \in [Buffers -> Cmds \cup {None}] /\ refcount' \in [Cmds -> Nat]
         /\ live \subseteq live' /\ live' \subseteq Cmds
         /\ \A a \in Buffers \ {b} : owned'[a] = owned[a]
         /\ \A c \in live : refcount'[c] = refcount[c]
         /\ owned'[b] # None => owned'[b] \in live' \ live /\ refcount'[owned'[b]] = 1
  <1>0. /\ owned \in [Buffers -> Cmds \cup {None}] /\ live \subseteq Cmds
        /\ refcount \in [Cmds -> Nat] /\ None \notin Cmds
    BY NoneAssumption DEF Types, TypeOK
  <1>1. CASE owned' = [owned EXCEPT ![b] = None] /\ UNCHANGED <<live, refcount>>
    BY <1>0, <1>1
  <1>2. ASSUME NEW c \in Cmds \ live, live' = live \cup {c},
               refcount' = [refcount EXCEPT ![c] = 1], owned' = [owned EXCEPT ![b] = c]
        PROVE  /\ owned' \in [Buffers -> Cmds \cup {None}] /\ refcount' \in [Cmds -> Nat]
               /\ live \subseteq live' /\ live' \subseteq Cmds
               /\ \A a \in Buffers \ {b} : owned'[a] = owned[a]
               /\ \A d \in live : refcount'[d] = refcount[d]
               /\ owned'[b] = c /\ c \in live' \ live /\ refcount'[c] = 1
    BY <1>0, <1>2
  <1>. QED  BY <1>1, <1>2 DEF Create

\* With nobody dropping or queueing anew, one more owner keeps holders and counts right.
LEMMA CreatedInv ==
  ASSUME QueueInv, NEW b \in Buffers, Create(b), ~Held(b), Kept' <=> Kept, last' = last,
         \A a \in Buffers \ {b} : Held(a)' <=> Held(a)
  PROVE  OneOwner' /\ Counts'
  <1>. USE DEF QueueInv
  <1>1. /\ live \subseteq live' /\ live' \subseteq Cmds
        /\ \A a \in Buffers \ {b} : owned'[a] = owned[a]
        /\ \A c \in live : refcount'[c] = refcount[c]
        /\ owned'[b] # None => owned'[b] \in live' \ live /\ refcount'[owned'[b]] = 1
    BY Created
  <1>2. \A a \in Buffers : Held(a) => a # b /\ owned[a] \in live
    BY DEF Counts
  <1>3. Held(b)' => owned'[b] # None
    BY DEF Held
  <1>4. OneOwner'
    BY <1>1, <1>2, <1>3 DEF OneOwner
  <1>5. Counts'
    BY <1>1, <1>2, <1>3 DEF Counts
  <1>. QED  BY <1>4, <1>5

LEMMA DispatchStep ==
  ASSUME QueueInv, NEW t \in Threads, NEW b \in Buffers, Dispatch(t, b)
  PROVE  QueueInv'
  <1>. USE DEF QueueInv
  <1>1. /\ UNCHANGED <<queue, pc, frame>>
        /\ \A u \in Threads : b \notin call[u].todo
    BY DEF Dispatch, Unused
  <1>2. CASE owned[b] # None
    <2>1. UNCHANGED <<owned, live, refcount>> /\ compute' \subseteq compute \cup {owned[b]}
      BY <1>2 DEF Dispatch
    <2>2. owned[b] \in live
      BY <1>1, <1>2 DEF Counts, Held
    <2>3. Types'
      BY <1>1, <2>1, <2>2 DEF Types, TypeOK, queue, frame
    <2>. QED  BY <1>1, <2>1, <2>3 DEF Phases, ResetPhase, SubmitPhase, Submits, Drops, Current,
                   Disjoint, OneOwner, Held, Kept, Counts, Loaded, queue, frame
  <1>3. CASE owned[b] = None
    <2>1. Create(b) /\ compute' \subseteq compute \cup ({owned'[b]} \ {None})
      BY <1>3 DEF Dispatch
    <2>2. /\ \A a \in Buffers \ {b} : owned'[a] = owned[a]
          /\ owned'[b] # None => owned'[b] \in live' \ live
          /\ owned' \in [Buffers -> Cmds \cup {None}] /\ refcount' \in [Cmds -> Nat]
          /\ live \subseteq live' /\ live' \subseteq Cmds
      BY <2>1, Created
    <2>3. Types'
      BY <1>1, <2>1, <2>2 DEF Types, TypeOK, queue, frame
    <2>4. (Kept' <=> Kept) /\ ~Held(b) /\ \A a \in Buffers \ {b} : Held(a)' <=> Held(a)
      BY <1>1, <1>3, <2>2 DEF Kept, Held, queue, frame
    <2>5. OneOwner' /\ Counts'
      BY <1>1, <2>1, <2>4, CreatedInv DEF queue
    <2>6. Phases'
      <3>1. \A u \in Threads : list[u] # <<>> => Head(list[u]) \in call[u].todo /\ Head(list[u]) \in Buffers
        BY CurrentListed
      <3>2. ASSUME NEW u \in Threads PROVE ResetPhase(u)'
        BY <1>1, <2>2 DEF Phases, ResetPhase, Submits, Drops, frame
      <3>3. ASSUME NEW u \in Threads PROVE SubmitPhase(u)'
        BY <1>1, <2>2, <3>1 DEF Phases, SubmitPhase, Submits, Drops, Current, queue, frame
      <3>. QED  BY <3>2, <3>3 DEF Phases
    <2>7. Disjoint'
      BY <1>1 DEF Disjoint, frame
    <2>8. Loaded'
      <3>1. \A u \in Threads : pc[u] = "store" => victim[u] \in live
        BY Dropper DEF Drops
      <3>2. Held(b)' => owned'[b] \notin live
        BY <2>2 DEF Held
      <3>. QED  BY <1>1, <2>2, <2>4, <3>1, <3>2 DEF Loaded, Submits, queue, frame
    <2>. QED  BY <2>3, <2>5, <2>6, <2>7, <2>8
  <1>. QED  BY <1>2, <1>3

\* Beginning a call on one command buffer leaves every reference where it was.
LEMMA EnterReset ==
  ASSUME QueueInv, NEW t \in Threads, NEW b \in Buffers,
         NEW op \in {"begin", "reset"}, NEW label, label = IF op = "begin" THEN "create" ELSE "forget",
         Enter(t, op, {b}, None), StartDestroy(t, owned[b], label),
         op = "reset" => owned[b] # None,
         UNCHANGED <<owned, heap, queue, reg, list>>
  PROVE  QueueInv'
  <1>. USE DEF QueueInv
  <1>1. /\ pc[t] = "idle" /\ call[t].op = "none" /\ call[t].todo = {} /\ ~Submits(t)
        /\ \A u \in Threads : b \notin call[u].todo
        /\ call'[t] = [op |-> op, fence |-> None, todo |-> {b}]
        /\ \A u \in Threads \ {t} : call'[u] = call[u]
        /\ call' \in [Threads -> [op : {"none", "begin", "reset", "submit", "submit2"},
                                fence : Fences \cup {None}, todo : SUBSET Buffers]]
    BY InSubmit DEF Enter, Unused, Types, Phases, ResetPhase
  <1>2. /\ owned[b] = None => pc'[t] = label /\ UNCHANGED <<next, victim>>
        /\ owned[b] # None => pc'[t] = "load" /\ next'[t] = label /\ victim'[t] = owned[b]
        /\ \A u \in Threads \ {t} : pc'[u] = pc[u] /\ next'[u] = next[u] /\ victim'[u] = victim[u]
        /\ label \in {"create", "forget"}
    BY DEF StartDestroy, Goto, Types, TypeOK
  <1>3. Types'
    <2>1. /\ pc' \in [Threads -> Labels] /\ victim' \in [Threads -> Cmds \cup {None}]
          /\ next' \in [Threads -> {"idle", "create", "forget", "ref"}]
      <3>1. owned[b] \in Cmds \cup {None}
        BY DEF Types, TypeOK
      <3>2. CASE owned[b] = None
        BY <1>2, <3>2 DEF StartDestroy, Goto, Types, TypeOK, Labels
      <3>3. CASE owned[b] # None
        BY <1>2, <3>1, <3>3 DEF StartDestroy, Goto, Types, TypeOK, Labels
      <3>. QED  BY <3>2, <3>3
    <2>2. \A u \in Threads : ToSet(list[u]) \subseteq call[u].todo
      BY DEF Types, TypeOK
    <2>3. \A u \in Threads : call'[u].todo \subseteq Buffers /\ ToSet(list[u]) \subseteq call'[u].todo
      BY <1>1, <2>2
    <2>. QED  BY <1>1, <2>1, <2>3 DEF Types, TypeOK, heap, queue
  <1>4. (Kept' <=> Kept) /\ \A a \in Buffers : Held(a)' <=> Held(a)
    <2>1. Kept' <=> Kept
      BY <1>1, <1>2 DEF Kept, queue
    <2>2. Held(b)' <=> Held(b)
      BY <1>1, <1>2 DEF Held
    <2>3. \A a \in Buffers \ {b} : Held(a)' <=> Held(a)
      BY <1>1, <1>2 DEF Held
    <2>. QED  BY <2>1, <2>2, <2>3
  <1>5. Phases'
    <2>1. ASSUME NEW u \in Threads, u # t PROVE ResetPhase(u)' /\ SubmitPhase(u)'
      BY <1>1, <1>2, <2>1 DEF Phases, ResetPhase, SubmitPhase, Submits, Drops, Current, queue
    <2>2. ResetPhase(t)'
      BY <1>1, <1>2 DEF Phases, ResetPhase, Submits, Drops
    <2>3. SubmitPhase(t)'
      BY <1>1 DEF SubmitPhase, Submits
    <2>. QED  BY <2>1, <2>2, <2>3 DEF Phases
  <1>6. Disjoint'
    BY <1>1 DEF Disjoint
  <1>7. OneOwner' /\ Counts'
    BY <1>4 DEF OneOwner, Counts, heap, queue
  <1>8. Loaded'
    BY <1>1, <1>2, <1>4 DEF Loaded, Submits, queue
  <1>. QED  BY <1>3, <1>5, <1>6, <1>7, <1>8

LEMMA BeginRenderPassStep ==
  ASSUME QueueInv, NEW t \in Threads, NEW b \in Buffers, BeginRenderPass(t, b)
  PROVE  QueueInv'
  BY EnterReset DEF BeginRenderPass

LEMMA ResetStep ==
  ASSUME QueueInv, NEW t \in Threads, NEW b \in Buffers, Reset(t, b)
  PROVE  QueueInv'
  BY EnterReset DEF Reset

\* The end of a call on one command buffer: its reference is there again, or nothing is.
LEMMA LeaveReset ==
  ASSUME QueueInv, NEW t \in Threads, pc[t] \in {"create", "forget"}, Return(t), Goto(t, "idle"),
         NEW b \in Buffers, call[t].todo = {b}
  PROVE  /\ ~Held(b) /\ Disjoint' /\ ~Submits(t)'
         /\ call'[t] = Quiet /\ pc'[t] = "idle"
         /\ \A u \in Threads \ {t} : pc'[u] = pc[u] /\ call'[u] = call[u] /\ b \notin call[u].todo
         /\ pc' \in [Threads -> Labels]
         /\ call' \in [Threads -> [op : {"none", "begin", "reset", "submit", "submit2"},
                                 fence : Fences \cup {None}, todo : SUBSET Buffers]]
  <1>. USE DEF QueueInv
  <1>1. /\ call'[t] = Quiet /\ pc'[t] = "idle"
        /\ \A u \in Threads \ {t} : pc'[u] = pc[u] /\ call'[u] = call[u]
        /\ pc' \in [Threads -> Labels]
        /\ call' \in [Threads -> [op : {"none", "begin", "reset", "submit", "submit2"},
                                fence : Fences \cup {None}, todo : SUBSET Buffers]]
    BY DEF Return, Goto, Quiet, Types, Labels
  <1>2. \A u \in Threads \ {t} : b \notin call[u].todo
    BY DEF Disjoint
  <1>3. ~Held(b)
    BY DEF Held
  <1>4. Disjoint'
    BY <1>1 DEF Disjoint, Quiet
  <1>. QED  BY <1>1, <1>2, <1>3, <1>4 DEF Submits, Quiet

\* The call that drops a reference works on one command buffer and on no list.
LEMMA OneBuffer ==
  ASSUME QueueInv, NEW t \in Threads, pc[t] \in {"create", "forget"}
  PROVE  \E b \in Buffers : call[t].todo = {b}
  BY DEF QueueInv, Types, Phases, ResetPhase, SubmitPhase, Submits

LEMMA BeginCreateStep ==
  ASSUME QueueInv, NEW t \in Threads, BeginCreate(t)
  PROVE  QueueInv'
  <1>. USE DEF QueueInv
  <1>1. PICK b \in Buffers : call[t].todo = {b}
    BY OneBuffer DEF BeginCreate
  <1>2. /\ Create(b) /\ pc[t] = "create" /\ Return(t) /\ Goto(t, "idle")
        /\ UNCHANGED <<compute, queue, next, victim, reg, list>>
    BY <1>1 DEF BeginCreate
  <1>3. /\ ~Held(b) /\ Disjoint' /\ ~Submits(t)'
        /\ call'[t] = Quiet /\ pc'[t] = "idle"
        /\ \A u \in Threads \ {t} : pc'[u] = pc[u] /\ call'[u] = call[u] /\ b \notin call[u].todo
        /\ pc' \in [Threads -> Labels]
        /\ call' \in [Threads -> [op : {"none", "begin", "reset", "submit", "submit2"},
                                fence : Fences \cup {None}, todo : SUBSET Buffers]]
    BY <1>1, <1>2, LeaveReset
  <1>4. /\ owned' \in [Buffers -> Cmds \cup {None}] /\ refcount' \in [Cmds -> Nat]
        /\ live \subseteq live' /\ live' \subseteq Cmds
        /\ \A a \in Buffers \ {b} : owned'[a] = owned[a]
        /\ owned'[b] # None => owned'[b] \in live' \ live
    BY <1>2, Created
  <1>5. Types'
    <2>1. list[t] = <<>> /\ ToSet(<<>>) = {}
      BY <1>1, <1>2, InSubmit DEF Phases, ResetPhase, ToSet
    <2>2. \A u \in Threads : call'[u].todo \subseteq Buffers /\ ToSet(list[u]) \subseteq call'[u].todo
      BY <1>3, <2>1 DEF Types, TypeOK, Quiet
    <2>. QED  BY <1>2, <1>3, <1>4, <2>2 DEF Types, TypeOK, queue
  <1>6. (Kept' <=> Kept) /\ \A a \in Buffers \ {b} : Held(a)' <=> Held(a)
    BY <1>1, <1>2, <1>3, <1>4 DEF Kept, Held, Quiet, queue
  <1>7. OneOwner' /\ Counts'
    BY <1>2, <1>3, <1>6, CreatedInv DEF queue
  <1>8. Phases'
    <2>1. \A u \in Threads : list[u] # <<>> => Head(list[u]) \in call[u].todo /\ Head(list[u]) \in Buffers
      BY CurrentListed
    <2>2. ASSUME NEW u \in Threads, u # t PROVE ResetPhase(u)'
      BY <1>2, <1>3, <1>4, <2>2 DEF Phases, ResetPhase, Submits, Drops
    <2>3. ASSUME NEW u \in Threads, u # t PROVE SubmitPhase(u)'
      BY <1>2, <1>3, <1>4, <2>1, <2>3 DEF Phases, SubmitPhase, Submits, Drops, Current, queue
    <2>4. list[t] = <<>>
      BY <1>2, InSubmit DEF Phases, ResetPhase
    <2>5. ResetPhase(t)' /\ SubmitPhase(t)'
      BY <1>2, <1>3, <2>4 DEF ResetPhase, SubmitPhase, Submits, Drops, Quiet
    <2>. QED  BY <2>2, <2>3, <2>5 DEF Phases
  <1>9. Loaded'
    <2>1. \A u \in Threads : pc[u] = "store" => victim[u] \in live
      BY Dropper DEF Drops
    <2>2. Held(b)' => owned'[b] \notin live
      BY <1>4 DEF Held
    <2>. QED  BY <1>2, <1>3, <1>4, <1>6, <2>1, <2>2 DEF Loaded, Submits, queue
  <1>. QED  BY <1>3, <1>5, <1>7, <1>8, <1>9

LEMMA ForgetStep ==
  ASSUME QueueInv, NEW t \in Threads, Forget(t)
  PROVE  QueueInv'
  <1>. USE DEF QueueInv
  <1>1. PICK b \in Buffers : call[t].todo = {b}
    BY OneBuffer DEF Forget
  <1>2. /\ pc[t] = "forget" /\ Return(t) /\ Goto(t, "idle")
        /\ owned' \in [Buffers -> Cmds \cup {None}] /\ owned'[b] = None
        /\ \A a \in Buffers \ {b} : owned'[a] = owned[a]
        /\ UNCHANGED <<heap, queue, next, victim, reg, list>>
    BY <1>1 DEF Forget, Types, TypeOK
  <1>3. /\ ~Held(b) /\ Disjoint' /\ ~Submits(t)'
        /\ call'[t] = Quiet /\ pc'[t] = "idle"
        /\ \A u \in Threads \ {t} : pc'[u] = pc[u] /\ call'[u] = call[u] /\ b \notin call[u].todo
        /\ pc' \in [Threads -> Labels]
        /\ call' \in [Threads -> [op : {"none", "begin", "reset", "submit", "submit2"},
                                fence : Fences \cup {None}, todo : SUBSET Buffers]]
    BY <1>1, <1>2, LeaveReset
  <1>4. Types'
    <2>1. list[t] = <<>> /\ ToSet(<<>>) = {}
      BY <1>1, <1>2, InSubmit DEF Phases, ResetPhase, ToSet
    <2>2. \A u \in Threads : call'[u].todo \subseteq Buffers /\ ToSet(list[u]) \subseteq call'[u].todo
      BY <1>3, <2>1 DEF Types, TypeOK, Quiet
    <2>. QED  BY <1>2, <1>3, <2>2 DEF Types, TypeOK, heap, queue
  <1>5. /\ Kept' <=> Kept
        /\ ~Held(b)' /\ \A a \in Buffers \ {b} : Held(a)' <=> Held(a)
    BY <1>1, <1>2, <1>3 DEF Kept, Held, Quiet, queue
  <1>6. OneOwner' /\ Counts'
    BY <1>2, <1>5 DEF OneOwner, Counts, heap, queue
  <1>7. Phases'
    <2>1. \A u \in Threads : list[u] # <<>> => Head(list[u]) \in call[u].todo /\ Head(list[u]) \in Buffers
      BY CurrentListed
    <2>2. ASSUME NEW u \in Threads, u # t PROVE ResetPhase(u)'
      BY <1>2, <1>3, <2>2 DEF Phases, ResetPhase, Submits, Drops
    <2>3. ASSUME NEW u \in Threads, u # t PROVE SubmitPhase(u)'
      BY <1>2, <1>3, <2>1, <2>3 DEF Phases, SubmitPhase, Submits, Drops, Current, queue
    <2>4. list[t] = <<>>
      BY <1>2, InSubmit DEF Phases, ResetPhase
    <2>5. ResetPhase(t)' /\ SubmitPhase(t)'
      BY <1>2, <1>3, <2>4 DEF ResetPhase, SubmitPhase, Submits, Drops, Quiet
    <2>. QED  BY <2>2, <2>3, <2>5 DEF Phases
  <1>8. Loaded'
    BY <1>2, <1>3, <1>5 DEF Loaded, Submits, queue
  <1>. QED  BY <1>3, <1>4, <1>6, <1>7, <1>8

\* The steps that touch no reference and no holder.
LEMMA SameHolders ==
  ASSUME QueueInv, NEW t \in Threads,
         UNCHANGED <<owned, heap, last>>,
         \A u \in Threads \ {t} : pc'[u] = pc[u] /\ call'[u] = call[u],
         pc[t] \notin {"create", "forget", "ref", "refstore"},
         pc'[t] \notin {"create", "forget", "ref", "refstore"}
  PROVE  (Kept' <=> Kept) /\ (\A b \in Buffers : Held(b)' <=> Held(b)) /\ OneOwner' /\ Counts'
  <1>. USE DEF QueueInv
  <1>1. (Kept' <=> Kept) /\ \A b \in Buffers : Held(b)' <=> Held(b)
    BY DEF Kept, Held
  <1>2. OneOwner' /\ Counts'
    BY <1>1 DEF OneOwner, Counts, heap
  <1>. QED  BY <1>1, <1>2

LEMMA SubmitStep ==
  ASSUME QueueInv, NEW t \in Threads, Submit(t)
  PROVE  QueueInv'
  <1>. USE DEF QueueInv
  <1>1. PICK bs \in BoundedSeq(Buffers, MaxList), f \in (Fences \ signaled) \cup {None},
             op \in {"submit", "submit2"} :
               Enter(t, op, ToSet(bs), f) /\ list' = [list EXCEPT ![t] = bs]
    BY DEF Submit
  <1>2. bs \in Seq(Buffers) /\ ToSet(bs) \subseteq Buffers
    <2>1. PICK m \in 0..MaxList : bs \in [1..m -> Buffers]
      BY DEF BoundedSeq, SeqOf
    <2>2. m \in Nat
      BY ListAssumption
    <2>3. bs \in Seq(Buffers)
      BY <2>1, <2>2
    <2>. QED  BY <2>1, <2>3 DEF ToSet
  <1>3. /\ pc[t] = "idle" /\ ~Submits(t)
        /\ call'[t].op = op /\ call'[t].todo = ToSet(bs)
        /\ \A u \in Threads : call[u].todo \cap ToSet(bs) = {}
        /\ \A u \in Threads \ {t} : call'[u] = call[u] /\ list'[u] = list[u]
        /\ call' \in [Threads -> [op : {"none", "begin", "reset", "submit", "submit2"},
                                fence : Fences \cup {None}, todo : SUBSET Buffers]]
        /\ list'[t] = bs /\ list' \in [Threads -> Seq(Buffers)]
    BY <1>1, <1>2, InSubmit DEF Enter, Unused, Types
  <1>4. /\ pc'[t] = "lock" /\ pc' \in [Threads -> Labels]
        /\ \A u \in Threads \ {t} : pc'[u] = pc[u]
        /\ UNCHANGED <<owned, heap, queue, next, victim, reg>>
    BY DEF Submit, Goto, Types, Labels
  <1>5. Types'
    <2>1. \A u \in Threads : call'[u].todo \subseteq Buffers /\ ToSet(list'[u]) \subseteq call'[u].todo
      <3>1. ASSUME NEW u \in Threads, u # t
            PROVE  call'[u].todo \subseteq Buffers /\ ToSet(list'[u]) \subseteq call'[u].todo
        BY <1>3, <3>1 DEF Types, TypeOK
      <3>2. call'[t].todo \subseteq Buffers /\ ToSet(list'[t]) \subseteq call'[t].todo
        BY <1>2, <1>3
      <3>. QED  BY <3>1, <3>2
    <2>. QED  BY <1>3, <1>4, <2>1 DEF Types, TypeOK, heap, queue
  <1>6. (Kept' <=> Kept) /\ (\A b \in Buffers : Held(b)' <=> Held(b)) /\ OneOwner' /\ Counts'
    BY <1>3, <1>4, SameHolders DEF queue
  <1>7. Phases'
    <2>0. ASSUME NEW u \in Threads, u # t
          PROVE  /\ pc'[u] = pc[u] /\ call'[u] = call[u] /\ list'[u] = list[u]
                 /\ reg'[u] = reg[u] /\ next'[u] = next[u] /\ victim'[u] = victim[u]
                 /\ owned' = owned /\ last' = last /\ mutex' = mutex
      BY <1>3, <1>4, <2>0 DEF queue
    <2>1. ASSUME NEW u \in Threads, u # t PROVE ResetPhase(u)'
      BY <2>0, <2>1 DEF Phases, ResetPhase, Submits, Drops
    <2>2. ASSUME NEW u \in Threads, u # t PROVE SubmitPhase(u)'
      BY <2>0, <2>2 DEF Phases, SubmitPhase, Submits, Drops, Current
    <2>3. ResetPhase(t)' /\ SubmitPhase(t)'
      BY <1>3, <1>4 DEF ResetPhase, SubmitPhase, Submits, Drops
    <2>. QED  BY <2>1, <2>2, <2>3 DEF Phases
  <1>8. Disjoint'
    <2>0. call'[t].todo = ToSet(bs) /\ \A u \in Threads : call[u].todo \cap ToSet(bs) = {}
      BY <1>3
    <2>1. ASSUME NEW u \in Threads, NEW w \in Threads, u # w
          PROVE  call'[u].todo \cap call'[w].todo = {}
      <3>1. CASE u = t
        <4>1. call'[w].todo = call[w].todo
          BY <1>3, <2>1, <3>1
        <4>. QED  BY <2>0, <3>1, <4>1
      <3>2. CASE w = t
        <4>1. call'[u].todo = call[u].todo
          BY <1>3, <2>1, <3>2
        <4>. QED  BY <2>0, <3>2, <4>1
      <3>3. CASE u # t /\ w # t
        BY <1>3, <2>1, <3>3 DEF Disjoint
      <3>. QED  BY <3>1, <3>2, <3>3
    <2>. QED  BY <2>1 DEF Disjoint
  <1>9. Loaded'
    BY <1>3, <1>4, <1>6 DEF Loaded, Submits, queue
  <1>. QED  BY <1>5, <1>6, <1>7, <1>8, <1>9

LEMMA LockStep ==
  ASSUME QueueInv, NEW t \in Threads, Lock(t)
  PROVE  QueueInv'
  <1>. USE DEF QueueInv
  <1>1. /\ pc[t] = "lock" /\ Submits(t) /\ mutex = None /\ mutex' = t
        /\ pc'[t] = "next" /\ pc' \in [Threads -> Labels]
        /\ \A u \in Threads \ {t} : pc'[u] = pc[u]
        /\ UNCHANGED <<owned, heap, last, signaled, outcome, frame>>
    BY InSubmit DEF Lock, Goto, Types, Labels
  <1>2. Types'
    BY <1>1 DEF Types, TypeOK, heap, frame
  <1>3. (Kept' <=> Kept) /\ (\A b \in Buffers : Held(b)' <=> Held(b)) /\ OneOwner' /\ Counts'
    BY <1>1, SameHolders DEF frame
  <1>4. None \notin Threads
    BY NoneAssumption
  <1>5. Phases'
    <2>1. ASSUME NEW u \in Threads, u # t PROVE ResetPhase(u)' /\ SubmitPhase(u)'
      BY <1>1, <1>4, <2>1, InSubmit DEF Phases, ResetPhase, SubmitPhase, Submits, Drops, Current, frame
    <2>2. ResetPhase(t)' /\ SubmitPhase(t)'
      BY <1>1 DEF Phases, ResetPhase, SubmitPhase, Submits, Drops, frame
    <2>. QED  BY <2>1, <2>2 DEF Phases
  <1>6. Disjoint' /\ Loaded'
    BY <1>1, <1>3 DEF Disjoint, Loaded, Submits, frame
  <1>. QED  BY <1>2, <1>3, <1>5, <1>6

LEMMA NextBufferStep ==
  ASSUME QueueInv, NEW t \in Threads, NextBuffer(t)
  PROVE  QueueInv'
  <1>. USE DEF QueueInv
  <1>1. /\ pc[t] = "next" /\ list[t] # <<>> /\ Submits(t) /\ mutex = t
        /\ \A u \in Threads \ {t} : Submits(u) => pc[u] = "lock"
        /\ UNCHANGED <<owned, heap, queue, reg, call>>
    BY InSubmit DEF NextBuffer
  <1>2. /\ Head(list[t]) \in Buffers /\ Head(list[t]) \in call[t].todo
        /\ Tail(list[t]) \in Seq(Buffers) /\ ToSet(Tail(list[t])) \subseteq call[t].todo
    BY <1>1, CurrentListed
  <1>3. Disjoint'
    BY <1>1 DEF Disjoint
  <1>4. CASE Current(t) = None
    <2>1. /\ list'[t] = Tail(list[t]) /\ list' \in [Threads -> Seq(Buffers)]
          /\ \A u \in Threads \ {t} : list'[u] = list[u]
          /\ UNCHANGED <<pc, next, victim>>
      BY <1>2, <1>4 DEF NextBuffer, Types
    <2>2. Types'
      BY <1>1, <1>2, <2>1 DEF Types, TypeOK, heap, queue
    <2>3. (Kept' <=> Kept) /\ (\A b \in Buffers : Held(b)' <=> Held(b)) /\ OneOwner' /\ Counts'
      BY <1>1, <2>1, SameHolders DEF queue
    <2>4. Phases'
      BY <1>1, <2>1 DEF Phases, ResetPhase, SubmitPhase, Submits, Drops, Current, queue
    <2>5. Loaded'
      BY <1>1, <2>1, <2>3 DEF Loaded, Submits, queue
    <2>. QED  BY <1>3, <2>2, <2>3, <2>4, <2>5
  <1>5. CASE Current(t) # None /\ last = Current(t)
    <2>1. /\ pc'[t] = "render" /\ pc' \in [Threads -> Labels]
          /\ \A u \in Threads \ {t} : pc'[u] = pc[u]
          /\ UNCHANGED <<list, next, victim>>
      BY <1>5 DEF NextBuffer, Goto, Types, Labels
    <2>2. Types'
      BY <1>1, <2>1 DEF Types, TypeOK, heap, queue
    <2>3. (Kept' <=> Kept) /\ (\A b \in Buffers : Held(b)' <=> Held(b)) /\ OneOwner' /\ Counts'
      BY <1>1, <2>1, SameHolders DEF queue
    <2>4. Phases'
      BY <1>1, <1>5, <2>1 DEF Phases, ResetPhase, SubmitPhase, Submits, Drops, Current, queue
    <2>5. Loaded'
      BY <1>1, <2>1, <2>3 DEF Loaded, Submits, queue
    <2>. QED  BY <1>3, <2>2, <2>3, <2>4, <2>5
  <1>6. CASE Current(t) # None /\ last # Current(t) /\ last = None
    <2>1. /\ pc'[t] = "ref" /\ pc' \in [Threads -> Labels]
          /\ \A u \in Threads \ {t} : pc'[u] = pc[u]
          /\ UNCHANGED <<list, next, victim>>
      BY <1>6 DEF NextBuffer, StartDestroy, Goto, Types, Labels
    <2>2. Types'
      BY <1>1, <2>1 DEF Types, TypeOK, heap, queue
    <2>3. ~Kept /\ ~Kept' /\ \A b \in Buffers : Held(b)' <=> Held(b)
      BY <1>1, <1>6, <2>1 DEF Kept, Held, queue
    <2>4. OneOwner' /\ Counts'
      BY <1>1, <2>3 DEF OneOwner, Counts, heap, queue
    <2>5. Phases'
      BY <1>1, <1>6, <2>1 DEF Phases, ResetPhase, SubmitPhase, Submits, Drops, Current, queue
    <2>6. Loaded'
      BY <1>1, <2>1, <2>3 DEF Loaded, Submits, queue
    <2>. QED  BY <1>3, <2>2, <2>4, <2>5, <2>6
  <1>7. CASE Current(t) # None /\ last # Current(t) /\ last # None
    <2>1. /\ pc'[t] = "load" /\ pc' \in [Threads -> Labels]
          /\ next'[t] = "ref" /\ next' \in [Threads -> {"idle", "create", "forget", "ref"}]
          /\ victim'[t] = last /\ victim' \in [Threads -> Cmds \cup {None}]
          /\ \A u \in Threads \ {t} : pc'[u] = pc[u] /\ next'[u] = next[u] /\ victim'[u] = victim[u]
          /\ UNCHANGED list
      BY <1>7 DEF NextBuffer, StartDestroy, Goto, Types, TypeOK, Labels
    <2>2. Types'
      BY <1>1, <2>1 DEF Types, TypeOK, heap, queue
    <2>3. (Kept' <=> Kept) /\ (\A b \in Buffers : Held(b)' <=> Held(b)) /\ OneOwner' /\ Counts'
      BY <1>1, <2>1, SameHolders DEF queue
    <2>4. Phases'
      BY <1>1, <1>7, <2>1 DEF Phases, ResetPhase, SubmitPhase, Submits, Drops, Current, queue
    <2>5. Loaded'
      BY <1>1, <2>1, <2>3 DEF Loaded, Submits, queue
    <2>. QED  BY <1>3, <2>2, <2>3, <2>4, <2>5
  <1>. QED  BY <1>4, <1>5, <1>6, <1>7

LEMMA RefLoadStep ==
  ASSUME QueueInv, NEW t \in Threads, RefLoad(t)
  PROVE  QueueInv'
  <1>. USE DEF QueueInv
  <1>1. /\ pc[t] = "ref" /\ Submits(t) /\ mutex = t /\ list[t] # <<>> /\ Current(t) # None
        /\ pc'[t] = "refstore" /\ pc' \in [Threads -> Labels]
        /\ reg' = [reg EXCEPT ![t] = refcount[Current(t)]]
        /\ \A u \in Threads \ {t} : pc'[u] = pc[u]
        /\ UNCHANGED <<owned, heap, queue, next, victim, list, call>>
    BY InSubmit DEF RefLoad, Goto, Types, Labels, Phases, SubmitPhase
  <1>2. Head(list[t]) \in Buffers /\ Head(list[t]) \in call[t].todo
    BY <1>1, CurrentListed
  <1>3. Held(Head(list[t]))
    <2>1. \A u \in Threads : Head(list[t]) \in call[u].todo => u = t
      BY <1>2 DEF Disjoint
    <2>. QED  BY <1>1, <1>2, <2>1 DEF Held, Current
  <1>4. Current(t) \in Cmds /\ refcount[Current(t)] \in Nat /\ refcount[Current(t)] >= 1
    BY <1>1, <1>2, <1>3 DEF Counts, Current, Types, TypeOK
  <1>5. /\ reg'[t] >= 1 /\ reg' \in [Threads -> Nat]
        /\ \A u \in Threads \ {t} : reg'[u] = reg[u]
    BY <1>1, <1>4 DEF Types, TypeOK
  <1>6. Types'
    BY <1>1, <1>5 DEF Types, TypeOK, heap, queue
  <1>7. ~Kept /\ ~Kept' /\ \A b \in Buffers : Held(b)' <=> Held(b)
    BY <1>1 DEF Kept, Held
  <1>8. OneOwner' /\ Counts'
    BY <1>1, <1>7 DEF OneOwner, Counts, heap, queue
  <1>9. Phases'
    BY <1>1, <1>5 DEF Phases, ResetPhase, SubmitPhase, Submits, Drops, Current, queue
  <1>10. Disjoint' /\ Loaded'
    BY <1>1, <1>5, <1>7 DEF Disjoint, Loaded, Submits, queue
  <1>. QED  BY <1>6, <1>8, <1>9, <1>10

LEMMA RefStoreStep ==
  ASSUME QueueInv, NEW t \in Threads, RefStore(t)
  PROVE  QueueInv'
  <1>. USE DEF QueueInv
  <1>. DEFINE b == Head(list[t])
  <1>1. /\ pc[t] = "refstore" /\ Submits(t) /\ mutex = t /\ list[t] # <<>> /\ Current(t) # None
        /\ reg[t] \in Nat /\ reg[t] >= 1
        /\ pc'[t] = "render" /\ pc' \in [Threads -> Labels] /\ last' = Current(t)
        /\ refcount' = [refcount EXCEPT ![Current(t)] = reg[t] + 1]
        /\ reg' \in [Threads -> Nat]
        /\ \A u \in Threads \ {t} : pc'[u] = pc[u] /\ reg'[u] = reg[u]
        /\ UNCHANGED <<owned, live, compute, mutex, signaled, outcome, next, victim, list, call>>
    BY InSubmit DEF RefStore, Counted, Goto, Types, TypeOK, Labels, Phases, SubmitPhase
  <1>2. b \in Buffers /\ b \in call[t].todo /\ owned[b] = Current(t)
    BY <1>1, CurrentListed DEF Current
  <1>3. \A u \in Threads : b \in call[u].todo => u = t
    BY <1>2 DEF Disjoint
  <1>4. Held(b) /\ \A a \in Buffers : Held(a)' <=> Held(a)
    BY <1>1, <1>2, <1>3 DEF Held
  <1>5. Current(t) \in live /\ Current(t) \in Cmds
    BY <1>2, <1>4 DEF Counts, Types, TypeOK
  <1>6. /\ refcount' \in [Cmds -> Nat] /\ refcount'[Current(t)] = reg[t] + 1
        /\ \A c \in Cmds \ {Current(t)} : refcount'[c] = refcount[c]
    BY <1>1, <1>5 DEF Types, TypeOK
  <1>7. Types'
    BY <1>1, <1>5, <1>6 DEF Types, TypeOK
  <1>8. OneOwner'
    BY <1>1, <1>4 DEF OneOwner
  <1>9. Counts'
    <2>1. \A a \in Buffers : Held(a) => owned[a] \in Cmds
      BY DEF Held, Types, TypeOK
    <2>. QED  BY <1>1, <1>4, <1>5, <1>6, <2>1 DEF Counts
  <1>10. \A u \in Threads \ {t} : Submits(u) => pc[u] = "lock"
    BY <1>1, InSubmit
  <1>11. Phases'
    <2>1. ASSUME NEW u \in Threads, u # t PROVE ResetPhase(u)' /\ SubmitPhase(u)'
      BY <1>1, <1>10, <2>1 DEF Phases, ResetPhase, SubmitPhase, Submits, Drops, Current
    <2>2. ResetPhase(t)' /\ SubmitPhase(t)'
      BY <1>1 DEF Phases, ResetPhase, SubmitPhase, Submits, Drops, Current
    <2>. QED  BY <2>1, <2>2 DEF Phases
  <1>12. Loaded'
    <2>1. ASSUME NEW u \in Threads, u # t, pc[u] = "store" PROVE ~Submits(u) /\ victim[u] # Current(t)
      <3>1. ~Submits(u)
        BY <1>10, <2>1
      <3>2. PICK a \in Buffers : call[u].todo = {a} /\ Held(a) /\ owned[a] = victim[u]
        BY <2>1, <3>1, Dropper DEF Drops
      <3>. QED  BY <1>2, <1>3, <1>4, <2>1, <3>1, <3>2 DEF OneOwner
    <2>. QED  BY <1>1, <2>1 DEF Loaded, Submits
  <1>13. Disjoint'
    BY <1>1 DEF Disjoint
  <1>. QED  BY <1>7, <1>8, <1>9, <1>11, <1>12, <1>13

LEMMA RenderStep ==
  ASSUME QueueInv, NEW t \in Threads, Render(t)
  PROVE  QueueInv'
  <1>. USE DEF QueueInv
  <1>1. /\ pc[t] = "render" /\ Submits(t) /\ mutex = t /\ list[t] # <<>>
        /\ pc'[t] = "next" /\ pc' \in [Threads -> Labels]
        /\ list' = [list EXCEPT ![t] = Tail(@)]
        /\ \A u \in Threads \ {t} : pc'[u] = pc[u]
        /\ UNCHANGED <<owned, heap, queue, next, victim, reg, call>>
    BY InSubmit DEF Render, Goto, Types, Labels, Phases, SubmitPhase
  <1>2. Tail(list[t]) \in Seq(Buffers) /\ ToSet(Tail(list[t])) \subseteq call[t].todo
    BY <1>1, CurrentListed
  <1>3. /\ list'[t] = Tail(list[t]) /\ list' \in [Threads -> Seq(Buffers)]
        /\ \A u \in Threads \ {t} : list'[u] = list[u]
    BY <1>1, <1>2 DEF Types
  <1>4. Types'
    BY <1>1, <1>2, <1>3 DEF Types, TypeOK, heap, queue
  <1>5. (Kept' <=> Kept) /\ (\A b \in Buffers : Held(b)' <=> Held(b)) /\ OneOwner' /\ Counts'
    BY <1>1, SameHolders DEF queue
  <1>6. Phases'
    BY <1>1, <1>3 DEF Phases, ResetPhase, SubmitPhase, Submits, Drops, Current, queue
  <1>7. Disjoint' /\ Loaded'
    BY <1>1, <1>5 DEF Disjoint, Loaded, Submits, queue
  <1>. QED  BY <1>4, <1>5, <1>6, <1>7

LEMMA FinishStep ==
  ASSUME QueueInv, NEW t \in Threads, pc[t] \in {"next", "render"},
         NEW signals \in BOOLEAN, NEW how \in {"ok", "failed"}, Finish(t, signals, how)
  PROVE  QueueInv'
  <1>. USE DEF QueueInv
  <1>1. Submits(t) /\ mutex = t /\ \A u \in Threads \ {t} : Submits(u) => pc[u] = "lock"
    BY InSubmit
  <1>2. /\ pc'[t] = "idle" /\ pc' \in [Threads -> Labels]
        /\ list'[t] = <<>> /\ list' \in [Threads -> Seq(Buffers)]
        /\ call'[t] = Quiet
        /\ call' \in [Threads -> [op : {"none", "begin", "reset", "submit", "submit2"},
                                fence : Fences \cup {None}, todo : SUBSET Buffers]]
        /\ \A u \in Threads \ {t} : pc'[u] = pc[u] /\ list'[u] = list[u] /\ call'[u] = call[u]
        /\ mutex' = None
        /\ UNCHANGED <<owned, heap, last, next, victim, reg>>
    BY DEF Finish, Return, Goto, Quiet, Types, Labels
  <1>3. signaled' \subseteq Fences /\ outcome' \in [Fences -> {"none", "ok", "failed"}]
    <2>1. call[t].fence \in Fences \cup {None}
      BY DEF Types
    <2>. QED  BY <2>1 DEF Finish, Types, TypeOK
  <1>4. Types'
    <2>1. ToSet(<<>>) = {}
      BY DEF ToSet
    <2>2. \A u \in Threads : call'[u].todo \subseteq Buffers /\ ToSet(list'[u]) \subseteq call'[u].todo
      BY <1>2, <2>1 DEF Types, TypeOK, Quiet
    <2>. QED  BY <1>2, <1>3, <2>2 DEF Types, TypeOK, heap
  <1>5. (Kept' <=> Kept) /\ (\A b \in Buffers : Held(b)' <=> Held(b)) /\ OneOwner' /\ Counts'
    <2>1. \A b \in Buffers : Held(b)' <=> Held(b)
      BY <1>2 DEF Held, Quiet
    <2>2. Kept' <=> Kept
      BY <1>2 DEF Kept
    <2>. QED  BY <1>2, <2>1, <2>2 DEF OneOwner, Counts, heap
  <1>6. Phases'
    <2>0. ASSUME NEW u \in Threads, u # t
          PROVE  /\ pc'[u] = pc[u] /\ call'[u] = call[u] /\ list'[u] = list[u]
                 /\ reg'[u] = reg[u] /\ next'[u] = next[u] /\ victim'[u] = victim[u]
                 /\ owned' = owned /\ last' = last /\ (Submits(u) => pc[u] = "lock")
      BY <1>1, <1>2, <2>0
    <2>1. ASSUME NEW u \in Threads, u # t PROVE ResetPhase(u)' /\ SubmitPhase(u)'
      BY <2>0, <2>1 DEF Phases, ResetPhase, SubmitPhase, Submits, Drops, Current
    <2>2. ResetPhase(t)' /\ SubmitPhase(t)'
      BY <1>2 DEF ResetPhase, SubmitPhase, Submits, Drops, Quiet
    <2>. QED  BY <2>1, <2>2 DEF Phases
  <1>7. Disjoint'
    <2>1. call'[t].todo = {} /\ \A u \in Threads \ {t} : call'[u] = call[u]
      BY <1>2 DEF Quiet
    <2>. QED  BY <2>1 DEF Disjoint
  <1>8. Loaded'
    BY <1>2, <1>5 DEF Loaded, Submits
  <1>. QED  BY <1>4, <1>5, <1>6, <1>7, <1>8

LEMMA ResetFenceStep ==
  ASSUME QueueInv, NEW t \in Threads, NEW f \in Fences, ResetFence(t, f)
  PROVE  QueueInv'
  <1>. USE DEF QueueInv
  <1>1. /\ UNCHANGED <<owned, heap, last, mutex, pc, frame>>
        /\ signaled' \subseteq Fences /\ outcome' \in [Fences -> {"none", "ok", "failed"}]
    BY DEF ResetFence, Types, TypeOK
  <1>2. Types'
    BY <1>1 DEF Types, TypeOK, heap, frame
  <1>. QED  BY <1>1, <1>2 DEF Phases, ResetPhase, SubmitPhase, Submits, Drops, Current,
                 Disjoint, OneOwner, Held, Kept, Counts, Loaded, heap, frame

\* The invariant is inductive.
LEMMA NextInv == QueueInv /\ [Next]_vars => QueueInv'
  <1>. SUFFICES ASSUME QueueInv, [Next]_vars PROVE QueueInv'
    OBVIOUS
  <1>1. ASSUME NEW t \in Threads, Continue(t) PROVE QueueInv'
    <2>1. CASE Done(t)
      BY <2>1, FinishStep DEF Done
    <2>2. CASE Fail(t)
      BY <2>2, FinishStep DEF Fail, SignalsAnyway
    <2>. QED  BY <1>1, <2>1, <2>2, LoadStep, StoreStep, BeginCreateStep, ForgetStep, LockStep,
                 NextBufferStep, RefLoadStep, RefStoreStep, RenderStep DEF Continue
  <1>2. ASSUME NEW t \in Threads, Begin(t) PROVE QueueInv'
    BY <1>2, SubmitStep, DispatchStep, BeginRenderPassStep, ResetStep, ResetFenceStep DEF Begin
  <1>3. CASE UNCHANGED vars
    BY <1>3 DEF QueueInv, Types, TypeOK, Phases, ResetPhase, SubmitPhase, Submits, Drops, Current,
                Disjoint, OneOwner, Held, Kept, Counts, Loaded, vars, heap, queue, frame
  <1>. QED  BY <1>1, <1>2, <1>3 DEF Next

LEMMA InvariantHolds == Spec => []QueueInv
  BY InitInv, NextInv, PTL DEF Spec

------------------------------------------------------------------------
(* Theorems *)

\* Every variable keeps its type; above all no count goes below zero, so that it cannot
\* wrap around.
THEOREM QueueTypes == Spec => []TypeOK
  <1>1. QueueInv => TypeOK
    BY DEF QueueInv, Types
  <1>. QED  BY <1>1, InvariantHolds, PTL

\* No v9 command buffer is used after v9_cmd_buffer_destroy has freed it, whatever the
\* threads, command buffers and lists: the unsynchronised counts only ever leak.
THEOREM UseAfterFree == Spec => []NoUseAfterFree
  <1>1. QueueInv => NoUseAfterFree
    <2>. SUFFICES ASSUME QueueInv PROVE NoUseAfterFree
      OBVIOUS
    <2>1. \A t \in Threads : pc[t] = "load" => victim[t] \in live
      BY Dropper DEF Drops
    <2>2. ASSUME NEW t \in Threads, pc[t] \in {"ref", "refstore", "render"} PROVE Current(t) \in live
      <3>1. Submits(t) /\ list[t] # <<>> /\ Current(t) # None
        BY <2>2, InSubmit DEF QueueInv, Phases, SubmitPhase
      <3>2. Head(list[t]) \in Buffers /\ Head(list[t]) \in call[t].todo
        BY <3>1, CurrentListed DEF QueueInv
      <3>3. \A u \in Threads : Head(list[t]) \in call[u].todo => u = t
        BY <3>2 DEF QueueInv, Disjoint
      <3>4. Held(Head(list[t]))
        BY <2>2, <3>1, <3>3 DEF Held, Current
      <3>. QED  BY <3>2, <3>4 DEF QueueInv, Counts, Current
    <2>3. \A b \in Buffers : owned[b] \in live \cup {None}
             \/ \E t \in Threads : b \in call[t].todo /\ pc[t] \in {"create", "forget"}
      BY DEF QueueInv, Counts, Held
    <2>4. last \in live \cup {None} \/ \E t \in Threads : mutex = t /\ pc[t] \in {"ref", "refstore"}
      BY InSubmit DEF QueueInv, Counts, Kept
    <2>. QED  BY <2>1, <2>2, <2>3, <2>4 DEF NoUseAfterFree
  <1>. QED  BY <1>1, InvariantHolds, PTL

\* Rendering is exclusive, and the queue keeps exactly what is rendered: what
\* vkQueuePresentKHR reads afterwards is the v9 command buffer of the last submit.
THEOREM OneRenderer == Spec => []RenderedIsLast
  <1>1. QueueInv => RenderedIsLast
    BY InSubmit DEF RenderedIsLast, QueueInv, Phases, SubmitPhase
  <1>. QED  BY <1>1, InvariantHolds, PTL

\* Two calls in progress never hold the same fence.
FencesApart ==
  \A t, u \in Threads : t # u /\ call[t].fence # None => call[u].fence # call[t].fence

LEMMA FencesApartHolds == Spec => []FencesApart
  <1>1. Init => FencesApart
    BY DEF Init, FencesApart, Quiet
  <1>2. QueueInv /\ FencesApart /\ [Next]_vars => FencesApart'
    <2>. SUFFICES ASSUME QueueInv, FencesApart, [Next]_vars PROVE FencesApart'
      OBVIOUS
    <2>1. ASSUME NEW t \in Threads, NEW op, NEW bs, NEW f, Enter(t, op, bs, f)
          PROVE  FencesApart'
      BY <2>1 DEF Enter, Unused, FencesApart, QueueInv, Types
    <2>2. ASSUME NEW t \in Threads, Return(t) PROVE FencesApart'
      BY <2>2 DEF Return, Quiet, FencesApart, QueueInv, Types
    <2>3. ASSUME UNCHANGED call PROVE FencesApart'
      BY <2>3 DEF FencesApart
    <2>4. \/ UNCHANGED call \/ \E t \in Threads : Return(t)
          \/ \E t \in Threads : \E op, bs, f : Enter(t, op, bs, f)
      BY DEF Next, Continue, Begin, Load, Store, BeginCreate, Forget, Lock, NextBuffer, RefLoad,
             RefStore, Render, Done, Fail, Finish, Submit, Dispatch, BeginRenderPass, Reset,
             ResetFence, frame, vars
    <2>. QED  BY <2>1, <2>2, <2>3, <2>4
  <1>. QED  BY <1>1, <1>2, InvariantHolds, PTL DEF Spec

\* vkQueueSubmit signals its fence only when every command buffer of the call went well.
THEOREM SubmitFences == Spec => SubmitFenceTruth
  <1>1. QueueInv /\ FencesApart /\ [Next]_vars =>
          \A t \in Threads : call[t].op = "submit" /\ call[t].fence \in signaled' \ signaled
            => outcome'[call[t].fence] = "ok"
    <2>. SUFFICES ASSUME QueueInv, FencesApart, [Next]_vars, NEW t \in Threads,
                         call[t].op = "submit", call[t].fence \in signaled' \ signaled
                  PROVE  outcome'[call[t].fence] = "ok"
      OBVIOUS
    <2>1. \E u \in Threads : Done(u) \/ Fail(u)
      BY DEF Next, Continue, Begin, Load, Store, BeginCreate, Forget, Lock, NextBuffer, RefLoad,
             RefStore, Render, Submit, Dispatch, BeginRenderPass, Reset, ResetFence, vars, queue
    <2>2. PICK u \in Threads : Done(u) \/ Fail(u)
      BY <2>1
    <2>3. call[u].fence # None /\ call[u].fence = call[t].fence
      BY <2>2 DEF Done, Fail, Finish
    <2>4. u = t
      BY <2>3 DEF FencesApart
    <2>5. Done(t)
      BY <2>2, <2>4 DEF Fail, Finish, SignalsAnyway
    <2>6. call[t].fence \in Fences
      BY <2>3, <2>4 DEF QueueInv, Types
    <2>. QED  BY <2>5, <2>6 DEF Done, Finish, QueueInv, Types, TypeOK
  <1>. QED  BY <1>1, InvariantHolds, FencesApartHolds, PTL DEF Spec, SubmitFenceTruth

==========================================================================
