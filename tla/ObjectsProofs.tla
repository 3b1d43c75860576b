------------------------ MODULE ObjectsProofs ------------------------
(***************************************************************************)
(* Theorems about MCObjects' Spec, the parts of the entry points that share*)
(* no state, for any number of pipelines and compile threads, any layouts, *)
(* images, buffers, swapchain sizes and instances.  Each part has an       *)
(* inductive invariant of its own: GuardInv, DescriptorInv, MemoryInv,     *)
(* SwapchainInv and WatchInv.  A step of one part leaves the others'       *)
(* variables as they are.                                                  *)
(***************************************************************************)
EXTENDS MCObjects, DescriptorsProofs, SequenceTheorems

\* The compiler guard.  While a pipeline is under construction its object is there, and it
\* has the binaries of exactly the stages that are done, of those it is created with.
Busy == at \in {"begin", "spawn", "join", "direct"}

\* The pipeline a call works on is under construction, from the stages of the call.
Owned ==
  Busy => life[pipe] = "building" /\ asked[pipe] = {call.stages[i] : i \in 1..Len(call.stages)}

\* Its binaries are those of the stages before the one that is compiled next.
Collected ==
  Busy /\ pipe \notin late => binary[pipe] = {call.stages[i] : i \in 1..call.next - 1}

\* The inductive invariant.
GuardInv == GuardTypeOK /\ WritersAwaited /\ WholeOrNone /\ Owned /\ Collected

\* A list of stages that a pipeline is made of.
StageList(s) ==
  /\ Len(s) \in 1..2
  /\ \A i \in 1..Len(s) : s[i] \in Stages
  /\ \A i, j \in 1..Len(s) : s[i] = s[j] => i = j
  /\ Range(s) = {s[i] : i \in 1..Len(s)}

\* A pipeline's stages are different.
LEMMA StageLists == \A s \in Graphics \cup {Compute} : StageList(s)
<1> SUFFICES ASSUME NEW s \in Graphics \cup {Compute} PROVE StageList(s)
  OBVIOUS
<1>1. CASE s = <<"cs">>
  BY <1>1 DEF StageList, Stages, Range
<1>2. CASE s = <<"vs">>
  BY <1>2 DEF StageList, Stages, Range
<1>3. CASE s = <<"vs", "fs">>
  BY <1>3 DEF StageList, Stages, Range
<1>4. CASE s = <<"fs", "vs">>
  BY <1>4 DEF StageList, Stages, Range
<1> QED BY <1>1, <1>2, <1>3, <1>4, GraphicsAssumption DEF Compute, GraphicsAssumption

\* The facts about the current call that every step uses.
LEMMA CallFacts ==
  ASSUME GuardTypeOK
  PROVE  /\ pipe \in Pipelines /\ stage \in Stages /\ StageList(call.stages)
         /\ call.next \in 1..Len(call.stages)
<1>1. call.stages \in Graphics \cup {Compute} /\ call.pipe \in Pipelines
  BY DEF GuardTypeOK
<1>2. StageList(call.stages)
  BY <1>1, StageLists
<1> QED BY <1>1, <1>2 DEF GuardTypeOK, StageList, pipe, stage

\* What a call leaves behind when it is done with a pipeline, if the binaries it leaves
\* are whole.
LEMMA LeaveKeeps ==
  ASSUME GuardInv, NEW ok \in BOOLEAN, NEW binaries \in SUBSET Stages, Leave(ok, binaries),
         ok /\ pipe \notin late => binaries \in {{}, asked[pipe]}, asked' = asked,
         threads' \subseteq [pipe : Pipelines, stage : Stages, abandoned : BOOLEAN],
         \A t \in threads' : t.abandoned,
         required' \in BOOLEAN, library' \in {"untried", "loaded", "absent"}, late' = late
  PROVE  GuardInv'
<1> USE DEF GuardInv
<1>1. pipe \in Pipelines /\ call.next \in 1..Len(call.stages)
  BY CallFacts
<1>2. at' \in {"idle", "create"} /\ ~Busy'
  BY DEF Leave, Busy
<1>3. call' \in [pipe : Pipelines, stages : Graphics \cup {Compute}, next : 1..2,
                 code : {"own", "fallback"}, made : SUBSET Pipelines]
      /\ call'.next = call.next /\ call'.stages = call.stages
  BY <1>1 DEF Leave, GuardTypeOK
<1>4. life' \in [Pipelines -> {"free", "building", "live"}] /\ binary' \in [Pipelines -> SUBSET Stages]
  BY DEF Leave, GuardTypeOK
<1>5. GuardTypeOK'
  BY <1>1, <1>2, <1>3, <1>4 DEF GuardTypeOK
<1>6. WritersAwaited'
  BY DEF WritersAwaited, Current
<1>7. WholeOrNone'
  <2> SUFFICES ASSUME NEW p \in Pipelines \ late, life'[p] = "live"
               PROVE  binary'[p] \in {{}, asked[p]}
    BY DEF WholeOrNone
  <2>1. CASE p = pipe
    BY <2>1 DEF Leave, GuardTypeOK
  <2>2. CASE p # pipe
    BY <2>2 DEF Leave, WholeOrNone, GuardTypeOK
  <2> QED BY <2>1, <2>2
<1> QED BY <1>2, <1>5, <1>6, <1>7 DEF Owned, Collected

\* A call that goes on with the same pipeline, from one compile to the next.
LEMMA GoOnKeeps ==
  ASSUME GuardInv, Busy, at' = "spawn",
         call' \in [pipe : Pipelines, stages : Graphics \cup {Compute}, next : 1..2,
                    code : {"own", "fallback"}, made : SUBSET Pipelines],
         call'.pipe = call.pipe, call'.stages = call.stages,
         call'.next \in 1..Len(call.stages),
         NEW binaries \in SUBSET Stages, binary' = [binary EXCEPT ![pipe] = binaries],
         pipe \notin late => binaries = {call.stages[i] : i \in 1..call'.next - 1},
         life' = life, asked' = asked,
         threads' \subseteq [pipe : Pipelines, stage : Stages, abandoned : BOOLEAN],
         \A t \in threads' : t.abandoned,
         required' = required, library' = library, late' = late
  PROVE  GuardInv'
<1> USE DEF GuardInv
<1>1. pipe \in Pipelines /\ pipe' = pipe
  BY CallFacts DEF pipe
<1>2. GuardTypeOK'
  BY DEF GuardTypeOK
<1>3. WritersAwaited'
  BY DEF WritersAwaited, Current
<1>4. WholeOrNone'
  <2> SUFFICES ASSUME NEW p \in Pipelines \ late, life[p] = "live"
               PROVE  binary'[p] \in {{}, asked[p]}
    BY DEF WholeOrNone
  <2>1. p # pipe
    BY DEF Owned
  <2> QED BY <2>1 DEF WholeOrNone, GuardTypeOK
<1>5. Owned'
  BY <1>1 DEF Owned
<1>6. Collected'
  <2> SUFFICES ASSUME pipe \notin late
               PROVE  binary'[pipe] = {call'.stages[i] : i \in 1..call'.next - 1}
    BY <1>1 DEF Collected
  <2> QED BY <1>1 DEF GuardTypeOK
<1> QED BY <1>2, <1>3, <1>4, <1>5, <1>6

\* The end of a compile, whether it succeeded or not.
LEMMA ResultKeeps ==
  ASSUME GuardInv, at \in {"join", "direct"}, NEW rc \in BOOLEAN, Result(rc), asked' = asked,
         threads' \subseteq [pipe : Pipelines, stage : Stages, abandoned : BOOLEAN],
         \A t \in threads' : t.abandoned,
         required' = required, library' = library, late' = late
  PROVE  GuardInv'
<1> USE DEF GuardInv
<1>1. /\ pipe \in Pipelines /\ stage \in Stages /\ StageList(call.stages)
      /\ call.next \in 1..Len(call.stages) /\ Busy
  BY CallFacts DEF Busy
<1>2. binary[pipe] \in SUBSET Stages
      /\ required \in BOOLEAN /\ library \in {"untried", "loaded", "absent"}
  BY <1>1 DEF GuardTypeOK
<1>3. pipe \notin late => binary[pipe] = {call.stages[i] : i \in 1..call.next - 1}
  BY <1>1 DEF Collected
<1>4. pipe \notin late => stage \notin binary[pipe]
  BY <1>1, <1>3 DEF StageList, stage
<1>5. CASE rc = TRUE /\ call.next = Len(call.stages)
  <2>1. Leave(TRUE, binary[pipe] \cup {stage})
    BY <1>5 DEF Result, Compiled
  <2>2. ASSUME pipe \notin late PROVE binary[pipe] \cup {stage} = {call.stages[i] : i \in 1..Len(call.stages)}
    BY <1>1, <1>3, <1>5, <2>2 DEF StageList, stage
  <2>3. ASSUME pipe \notin late PROVE binary[pipe] \cup {stage} = asked[pipe]
    BY <1>1, <2>2, <2>3 DEF Owned
  <2> QED BY <1>1, <1>2, <2>1, <2>3, LeaveKeeps
<1>6. CASE rc = TRUE /\ call.next # Len(call.stages)
  <2>1. /\ at' = "spawn" /\ life' = life
        /\ call' = [call EXCEPT !.next = call.next + 1, !.code = "own"]
        /\ binary' = [binary EXCEPT ![pipe] = binary[pipe] \cup {stage}]
    BY <1>6 DEF Result, Compiled
  <2>2. call.next = 1 /\ Len(call.stages) = 2
    <3>1. Len(call.stages) \in 1..2
      BY <1>1 DEF StageList
    <3>2. \A n \in 1..2 : \A m \in 1..n : m # n => m = 1 /\ n = 2
      OBVIOUS
    <3> QED BY <1>1, <1>6, <3>1, <3>2
  <2>3. /\ call' \in [pipe : Pipelines, stages : Graphics \cup {Compute}, next : 1..2,
                      code : {"own", "fallback"}, made : SUBSET Pipelines]
        /\ call'.pipe = call.pipe /\ call'.stages = call.stages /\ call'.next = 2
    <3>1. call \in [pipe : Pipelines, stages : Graphics \cup {Compute}, next : 1..2,
                    code : {"own", "fallback"}, made : SUBSET Pipelines]
      BY DEF GuardTypeOK
    <3>2. call.next + 1 = 2
      BY <2>2
    <3>3. call' = [call EXCEPT !.next = 2, !.code = "own"]
      BY <2>1, <3>2
    <3>4. call' = [pipe |-> call.pipe, stages |-> call.stages, next |-> 2,
                   code |-> "own", made |-> call.made]
      BY <3>1, <3>3
    <3> QED BY <3>1, <3>4
  <2>4. ASSUME pipe \notin late
        PROVE  binary[pipe] \cup {stage} = {call.stages[i] : i \in 1..call'.next - 1}
    <3>1. binary[pipe] = {}
      BY <1>3, <2>2, <2>4
    <3>2. stage = call.stages[1]
      BY <2>2 DEF stage
    <3> QED BY <2>3, <3>1, <3>2
  <2>5. call'.next \in 1..Len(call.stages) /\ binary[pipe] \cup {stage} \in SUBSET Stages
    BY <1>1, <1>2, <2>2, <2>3
  <2> QED BY <1>1, <2>1, <2>3, <2>4, <2>5, GoOnKeeps
<1>7. CASE rc = FALSE /\ call.code = "own"
  <2>1. /\ at' = "spawn" /\ life' = life
        /\ call' = [call EXCEPT !.code = "fallback"]
        /\ binary' = [binary EXCEPT ![pipe] = binary[pipe] \ {stage}]
    BY <1>7 DEF Result, Failed
  <2>2. /\ call' \in [pipe : Pipelines, stages : Graphics \cup {Compute}, next : 1..2,
                      code : {"own", "fallback"}, made : SUBSET Pipelines]
        /\ call'.pipe = call.pipe /\ call'.stages = call.stages
        /\ call'.next = call.next
    BY <2>1 DEF GuardTypeOK
  <2>3. pipe \notin late
          => binary[pipe] \ {stage} = {call.stages[i] : i \in 1..call'.next - 1}
    BY <1>3, <1>4, <2>2
  <2> QED BY <1>1, <1>2, <2>1, <2>2, <2>3, GoOnKeeps
<1>8. CASE rc = FALSE /\ call.code # "own"
  <2>1. Leave(~required \/ call.stages = Compute, {})
    BY <1>8 DEF Result, Failed
  <2>2. (~required \/ call.stages = Compute) \in BOOLEAN
    OBVIOUS
  <2> QED BY <1>2, <2>1, <2>2, LeaveKeeps
<1> QED BY <1>5, <1>6, <1>7, <1>8
------------------------------------------------------------------------

\* Nothing is compiled yet.
LEMMA GuardStart == GuardInit => GuardInv
<1> SUFFICES ASSUME GuardInit PROVE GuardInv
  OBVIOUS
<1>1. call.pipe \in Pipelines
  BY PipelinesAssumption DEF GuardInit, PipelinesAssumption
<1>2. call.stages = <<"cs">> /\ Len(call.stages) = 1
  BY DEF GuardInit, Compute
<1>3. GuardTypeOK
  BY <1>1, <1>2 DEF GuardInit, GuardTypeOK, Compute
<1> QED BY <1>3 DEF GuardInv, GuardInit, WritersAwaited, Current, WholeOrNone, Owned, Collected, Busy

\* Every step of the caller, of a compile thread and of the application keeps GuardInv.
LEMMA GuardStep == GuardInv /\ [GuardNext]_guard => GuardInv'
<1> SUFFICES ASSUME GuardInv, [GuardNext]_guard PROVE GuardInv'
  OBVIOUS
<1>0. /\ pipe \in Pipelines /\ stage \in Stages /\ StageList(call.stages)
      /\ call.next \in 1..Len(call.stages)
  BY CallFacts DEF GuardInv
<1>1. CASE Allocate
  <2> USE DEF GuardInv
  <2>1. PICK p \in Pipelines, stages \in Graphics \cup {Compute} :
          /\ life[p] = "free"
          /\ call' = [call EXCEPT !.pipe = p, !.stages = stages, !.next = 1, !.code = "own"]
          /\ life' = [life EXCEPT ![p] = "building"]
          /\ binary' = [binary EXCEPT ![p] = {}]
          /\ asked' = [asked EXCEPT ![p] = Range(stages)]
          /\ late' = late \ {p}
    BY <1>1 DEF Allocate
  <2>10. call' = [pipe |-> p, stages |-> stages, next |-> 1, code |-> "own", made |-> call.made]
    BY <2>1 DEF GuardTypeOK
  <2>2. at \in {"idle", "create"} /\ at' = "begin" /\ required' = required /\ threads' = threads
    BY <1>1 DEF Allocate
  <2>3. library' \in {"untried", "loaded", "absent"}
    BY <1>1 DEF Allocate, LoadCompiler, GuardTypeOK
  <2>4. StageList(stages)
    BY StageLists
  <2>5. GuardTypeOK'
    <3>1. call' \in [pipe : Pipelines, stages : Graphics \cup {Compute}, next : 1..2,
                     code : {"own", "fallback"}, made : SUBSET Pipelines]
      <4>1. call \in [pipe : Pipelines, stages : Graphics \cup {Compute}, next : 1..2,
                      code : {"own", "fallback"}, made : SUBSET Pipelines]
        BY DEF GuardTypeOK
      <4> QED BY <2>10, <4>1
    <3>2. call'.next = 1 /\ call'.stages = stages
      BY <2>10
    <3>3. call'.next \in 1..Len(call'.stages)
      <4>1. Len(stages) \in 1..2
        BY <2>4 DEF StageList
      <4>2. \A n \in 1..2 : 1 \in 1..n
        OBVIOUS
      <4> QED BY <3>2, <4>1, <4>2
    <3>4. life' \in [Pipelines -> {"free", "building", "live"}]
          /\ binary' \in [Pipelines -> SUBSET Stages] /\ late' \subseteq Pipelines
          /\ asked' \in [Pipelines -> SUBSET Stages]
      BY <2>1, <2>4 DEF GuardTypeOK, StageList
    <3> QED BY <2>2, <2>3, <3>1, <3>3, <3>4 DEF GuardTypeOK
  <2>6. WritersAwaited'
    BY <2>2 DEF WritersAwaited, Current
  <2>7. WholeOrNone'
    BY <2>1 DEF WholeOrNone, GuardTypeOK
  <2>8. pipe' = p /\ call'.next = 1 /\ call'.stages = stages
    BY <2>1, <2>10 DEF GuardTypeOK, pipe
  <2>9. Owned' /\ Collected'
    BY <2>1, <2>4, <2>8 DEF Owned, Collected, GuardTypeOK, StageList
  <2> QED BY <2>5, <2>6, <2>7, <2>9
<1>2. CASE AllocateFails
  <2> USE DEF GuardInv
  <2>1. call'.pipe = call.pipe /\ call'.stages = call.stages /\ call'.next = call.next
        /\ call' \in [pipe : Pipelines, stages : Graphics \cup {Compute}, next : 1..2,
                      code : {"own", "fallback"}, made : SUBSET Pipelines]
    BY <1>2 DEF AllocateFails, GuardTypeOK
  <2>2. GuardTypeOK'
    BY <1>2, <2>1 DEF AllocateFails, GuardTypeOK
  <2> QED BY <1>2, <2>2 DEF AllocateFails, WritersAwaited, Current, WholeOrNone, Owned,
                            Collected, Busy
<1>3. CASE Begin
  <2>1. /\ at = "begin" /\ required' = required /\ library' = library
        /\ threads' = threads /\ late' = late /\ asked' = asked
    BY <1>3 DEF Begin
  <2>2. \A t \in threads : t.abandoned
    BY <2>1 DEF GuardInv, WritersAwaited, Current
  <2>3. threads' \subseteq [pipe : Pipelines, stage : Stages, abandoned : BOOLEAN]
        /\ required' \in BOOLEAN /\ library' \in {"untried", "loaded", "absent"}
    BY <2>1 DEF GuardInv, GuardTypeOK
  <2>4. CASE Leave(FALSE, {}) \/ Leave(~required \/ call.stages = Compute, {})
    BY <2>1, <2>2, <2>3, <2>4, LeaveKeeps
  <2>5. CASE at' = "spawn" /\ UNCHANGED <<call, life, binary>>
    BY <2>1, <2>5 DEF GuardInv, GuardTypeOK, WritersAwaited, Current, WholeOrNone, Owned,
                      Collected, Busy, pipe
  <2> QED BY <1>3, <2>4, <2>5 DEF Begin
<1>4. CASE Spawn
  <2> USE DEF GuardInv
  <2>1. /\ at = "spawn" /\ at' \in {"join", "direct"}
        /\ UNCHANGED <<required, library, call, life, binary, asked, late>>
    BY <1>4 DEF Spawn
  <2>2. \A t \in threads : t.abandoned
    BY <2>1 DEF WritersAwaited, Current
  <2>3. \/ threads' = threads \cup {[pipe |-> pipe, stage |-> stage, abandoned |-> FALSE]}
           /\ at' = "join"
        \/ threads' = threads
    BY <1>4 DEF Spawn
  <2>4. threads' \subseteq [pipe : Pipelines, stage : Stages, abandoned : BOOLEAN]
    <3>1. [pipe |-> pipe, stage |-> stage, abandoned |-> FALSE]
            \in [pipe : Pipelines, stage : Stages, abandoned : BOOLEAN]
      BY <1>0
    <3>2. threads \subseteq [pipe : Pipelines, stage : Stages, abandoned : BOOLEAN]
      BY DEF GuardTypeOK
    <3> QED BY <2>3, <3>1, <3>2, Zenon
  <2>5. GuardTypeOK'
    BY <2>1, <2>4 DEF GuardTypeOK
  <2>6. pipe' = pipe /\ stage' = stage /\ life'[pipe] = "building"
    BY <2>1 DEF pipe, stage, Owned, Busy
  <2>7. WritersAwaited'
    BY <2>2, <2>3, <2>6 DEF WritersAwaited, Current
  <2> QED BY <2>1, <2>5, <2>6, <2>7 DEF WholeOrNone, Owned, Collected, Busy
<1>5. CASE Join
  <2>1. PICK rc \in BOOLEAN : Result(rc)
    BY <1>5 DEF Join
  <2>2. /\ at = "join" /\ threads' = threads \ Current
        /\ required' = required /\ library' = library /\ late' = late /\ asked' = asked
    BY <1>5 DEF Join
  <2>3. threads' \subseteq [pipe : Pipelines, stage : Stages, abandoned : BOOLEAN]
        /\ \A t \in threads' : t.abandoned
    BY <2>2 DEF GuardInv, GuardTypeOK, Current
  <2> QED BY <2>1, <2>2, <2>3, ResultKeeps
<1>6. CASE Timeout
  <2>1. /\ at = "join" /\ Result(FALSE)
        /\ threads' = (threads \ Current) \cup {[t EXCEPT !.abandoned = TRUE] : t \in Current}
        /\ required' = required /\ library' = library /\ late' = late /\ asked' = asked
    BY <1>6 DEF Timeout, Result
  <2>2. \A t \in threads : t \in [pipe : Pipelines, stage : Stages, abandoned : BOOLEAN]
    BY DEF GuardInv, GuardTypeOK
  <2>3. \A t \in threads :
          /\ [t EXCEPT !.abandoned = TRUE]
               \in [pipe : Pipelines, stage : Stages, abandoned : BOOLEAN]
          /\ [t EXCEPT !.abandoned = TRUE].abandoned
    BY <2>2
  <2>4. threads' \subseteq [pipe : Pipelines, stage : Stages, abandoned : BOOLEAN]
        /\ \A t \in threads' : t.abandoned
    BY <2>1, <2>2, <2>3 DEF Current
  <2> QED BY <2>1, <2>4, ResultKeeps
<1>7. CASE Direct
  <2>1. PICK rc \in BOOLEAN : Result(rc)
    BY <1>7 DEF Direct
  <2>2. /\ at = "direct" /\ threads' = threads
        /\ required' = required /\ library' = library /\ late' = late /\ asked' = asked
    BY <1>7 DEF Direct
  <2>3. threads' \subseteq [pipe : Pipelines, stage : Stages, abandoned : BOOLEAN]
        /\ \A t \in threads' : t.abandoned
    BY <2>2 DEF GuardInv, GuardTypeOK, WritersAwaited, Current
  <2> QED BY <2>1, <2>2, <2>3, ResultKeeps
<1>8. CASE LateEnd
  <2> USE DEF GuardInv
  <2>1. PICK t \in threads, rc \in BOOLEAN :
          /\ t.abandoned /\ threads' = threads \ {t}
          /\ binary' = IF rc THEN [binary EXCEPT ![t.pipe] = @ \cup {t.stage}] ELSE binary
          /\ late' = IF rc THEN late \cup {t.pipe} ELSE late
    BY <1>8 DEF LateEnd
  <2>2. UNCHANGED <<required, library, at, call, life, asked>> /\ pipe' = pipe /\ stage' = stage
    BY <1>8 DEF LateEnd, pipe, stage
  <2>3. t.pipe \in Pipelines /\ t.stage \in Stages
    BY DEF GuardTypeOK
  <2>4. \A p \in Pipelines \ late' : p \notin late /\ binary'[p] = binary[p]
    BY <2>1, <2>3 DEF GuardTypeOK
  <2>5. binary' \in [Pipelines -> SUBSET Stages] /\ late' \subseteq Pipelines
    BY <2>1, <2>3 DEF GuardTypeOK
  <2>6. GuardTypeOK'
    BY <2>1, <2>2, <2>5 DEF GuardTypeOK
  <2>7. WritersAwaited' /\ WholeOrNone'
    BY <2>1, <2>2, <2>4 DEF WritersAwaited, Current, WholeOrNone
  <2>8. Owned' /\ Collected'
    BY <1>0, <2>2, <2>4 DEF Owned, Collected, Busy
  <2> QED BY <2>6, <2>7, <2>8
<1>9. CASE DestroyPipeline
  <2> USE DEF GuardInv
  <2>1. PICK p \in Pipelines :
          /\ life[p] = "live" /\ life' = [life EXCEPT ![p] = "free"]
          /\ binary' = [binary EXCEPT ![p] = {}]
    BY <1>9 DEF DestroyPipeline
  <2>2. UNCHANGED <<required, library, at, call, asked, threads, late>> /\ pipe' = pipe /\ stage' = stage
    BY <1>9 DEF DestroyPipeline, pipe, stage
  <2>3. Busy => p # pipe
    BY <2>1 DEF Owned
  <2>4. GuardTypeOK'
    BY <2>1, <2>2 DEF GuardTypeOK
  <2>5. WritersAwaited'
    BY <1>0, <2>1, <2>2, <2>3 DEF WritersAwaited, Current, GuardTypeOK, Busy
  <2>6. WholeOrNone'
    BY <2>1, <2>2 DEF WholeOrNone, GuardTypeOK
  <2>7. Owned' /\ Collected'
    BY <1>0, <2>1, <2>2, <2>3 DEF Owned, Collected, Busy, GuardTypeOK
  <2> QED BY <2>4, <2>5, <2>6, <2>7
<1>10. CASE UNCHANGED guard
  BY <1>10 DEF guard, GuardInv, GuardTypeOK, WritersAwaited, Current, WholeOrNone, Owned,
               Collected, Busy, pipe, stage
<1> QED BY <1>1, <1>2, <1>3, <1>4, <1>5, <1>6, <1>7, <1>8, <1>9, <1>10 DEF GuardNext

------------------------------------------------------------------------

\* The images held, in the order in which they were acquired, are the last ones handed out,
\* and no more than there are.
InTurn ==
  /\ Len(held) <= next /\ Len(held) <= count
  /\ \A k \in 1..Len(held) : held[k].image = (next - Len(held) + k - 1) % count

\* An image that was rendered to still has that frame.
Undisturbed ==
  \A k \in 1..Len(held) : held[k].frame # 0 => pixels[held[k].image] = held[k].frame

\* The images held are images.
HeldType == held \in Seq([image : 0..count - 1, frame : 0..Frames])

\* The inductive invariant.
SwapchainInv ==
  /\ SwapchainTypeOK /\ HeldType
  /\ pixels \in [DOMAIN pixels -> 0..Frames]
  /\ regular => InTurn /\ Undisturbed
  /\ window.regular => window.seen = window.presented

\* Numbers that are less than c apart have different remainders.
LEMMA RemaindersDiffer ==
  ASSUME NEW c \in Nat \ {0}, NEW m \in Nat, NEW n \in Nat, m < n, n < m + c
  PROVE  m % c # n % c
<1> SUFFICES ASSUME m % c = n % c PROVE FALSE
  OBVIOUS
<1> DEFINE p == m \div c
           q == n \div c
           r == m % c
<1>1. p \in Nat /\ q \in Nat /\ r \in Nat
  OBVIOUS
<1>2. m = c * p + r
  OBVIOUS
<1>3. n = c * q + r
  <2>1. n = c * q + (n % c)
    OBVIOUS
  <2> QED BY <2>1
<1> HIDE DEF p, q, r
<1> DEFINE e == q - p
<1>4. c * q - c * p = c * e
  BY <1>1
<1>5. e \in Int
  BY <1>1
<1> HIDE DEF e
<1>6. 0 < c * e /\ c * e < c
  BY <1>1, <1>2, <1>3, <1>4, <1>5
<1>7. CASE e <= 0
  BY <1>5, <1>6, <1>7
<1>8. CASE e >= 1
  BY <1>5, <1>6, <1>8
<1> QED BY <1>5, <1>7, <1>8

\* What is left of a sequence without its k-th element.
LEMMA Removed ==
  ASSUME NEW S, NEW s \in Seq(S), NEW k \in 1..Len(s)
  PROVE  /\ RemoveAt(s, k) \in Seq(S)
         /\ Len(RemoveAt(s, k)) = Len(s) - 1
         /\ \A j \in 1..Len(s) - 1 : RemoveAt(s, k)[j] = IF j < k THEN s[j] ELSE s[j + 1]
<1> DEFINE front == SubSeq(s, 1, k - 1)
           back == SubSeq(s, k + 1, Len(s))
<1>1. Len(s) \in Nat /\ k \in Nat
  OBVIOUS
<1>2. front \in Seq(S) /\ Len(front) = k - 1 /\ \A i \in 1..k - 1 : front[i] = s[i]
  OBVIOUS
<1>3. back \in Seq(S) /\ Len(back) = Len(s) - k /\ \A i \in 1..Len(s) - k : back[i] = s[k + i]
  OBVIOUS
<1> HIDE DEF front, back
<1>4. RemoveAt(s, k) = front \o back
  BY DEF RemoveAt, front, back
<1>5. Len(front) + Len(back) = Len(s) - 1
  BY <1>1, <1>2, <1>3
<1>6. /\ front \o back \in Seq(S) /\ Len(front \o back) = Len(front) + Len(back)
      /\ \A i \in 1..Len(front) + Len(back) :
           (front \o back)[i] = IF i <= Len(front) THEN front[i] ELSE back[i - Len(front)]
  BY <1>2, <1>3, ConcatProperties
<1> DEFINE joined == front \o back
<1> HIDE DEF joined
<1>7. /\ RemoveAt(s, k) = joined /\ joined \in Seq(S) /\ Len(joined) = Len(s) - 1
      /\ \A i \in 1..Len(s) - 1 :
           joined[i] = IF i <= k - 1 THEN front[i] ELSE back[i - (k - 1)]
  BY <1>2, <1>4, <1>5, <1>6 DEF joined
<1>8. ASSUME NEW j \in 1..Len(s) - 1
      PROVE  joined[j] = IF j < k THEN s[j] ELSE s[j + 1]
  <2>1. CASE j < k
    <3>1. j \in 1..k - 1 /\ j <= k - 1
      BY <1>1, <2>1
    <3> QED BY <1>2, <1>7, <2>1, <3>1
  <2>2. CASE j >= k
    <3>1. j - (k - 1) \in 1..Len(s) - k /\ k + (j - (k - 1)) = j + 1
      BY <1>1, <2>2
    <3>2. back[j - (k - 1)] = s[j + 1]
      BY <1>3, <3>1
    <3> QED BY <1>1, <1>7, <2>2, <3>2
  <2> QED BY <1>1, <2>1, <2>2
<1> QED BY <1>7, <1>8

\* What SwapchainInv says of the types, in the form the steps use.
LEMMA SwapchainTypes ==
  ASSUME SwapchainInv
  PROVE  /\ Wrap \in Nat \ {0} /\ Frames \in Nat \ {0} /\ count \in Nat /\ next \in Nat
         /\ Len(held) \in Nat /\ DOMAIN held = 1..Len(held)
         /\ \A k \in 1..Len(held) : held[k].image \in DOMAIN pixels /\ held[k].frame \in 0..Frames
<1>1. /\ Wrap \in Nat \ {0} /\ Frames \in Nat \ {0} /\ count \in Nat /\ next \in Nat
  BY WrapAssumption, CountsAssumption
     DEF WrapAssumption, CountsAssumption, SwapchainInv, SwapchainTypeOK
<1>2. Len(held) \in Nat /\ DOMAIN held = 1..Len(held)
  BY <1>1 DEF SwapchainInv, HeldType
<1>3. \A k \in DOMAIN held : held[k].image \in 0..count - 1 /\ held[k].frame \in 0..Frames
  BY DEF SwapchainInv, SwapchainTypeOK
<1>4. count # 0 => DOMAIN pixels = 0..count - 1
  BY DEF SwapchainInv, SwapchainTypeOK
<1> QED BY <1>1, <1>2, <1>3, <1>4

\* Images that were handed out in turn are different.
LEMMA Different ==
  ASSUME SwapchainInv, InTurn, NEW j \in 1..Len(held), NEW k \in 1..Len(held), j # k
  PROVE  held[j].image # held[k].image
<1> DEFINE a == next - Len(held) + j - 1
           b == next - Len(held) + k - 1
<1>1. /\ count \in Nat /\ next \in Nat /\ Len(held) \in Nat
      /\ Len(held) <= next /\ Len(held) <= count
  BY SwapchainTypes DEF InTurn
<1>2. a \in Nat /\ b \in Nat /\ a < b + count /\ b < a + count /\ count \in Nat \ {0} /\ a # b
  BY <1>1
<1>3. held[j].image = a % count /\ held[k].image = b % count
  BY DEF InTurn
<1> HIDE DEF a, b
<1>4. a < b \/ b < a
  BY <1>2
<1> QED BY <1>2, <1>3, <1>4, RemaindersDiffer

\* So the images held are different, and the window shows what was rendered for it.
LEMMA SwapchainHolds == SwapchainInv => SwapchainTypeOK /\ SeenIsPresented
<1> SUFFICES ASSUME SwapchainInv PROVE SwapchainTypeOK /\ SeenIsPresented
  OBVIOUS
<1>1. DOMAIN held = 1..Len(held)
  BY SwapchainTypes
<1>2. regular => \A j, k \in DOMAIN held : j # k => held[j].image # held[k].image
  BY <1>1, Different DEF SwapchainInv
<1> QED BY <1>2 DEF SwapchainInv, SeenIsPresented

\* There is no swapchain yet.
LEMMA SwapchainStart == SwapchainInit => SwapchainInv
<1> SUFFICES ASSUME SwapchainInit PROVE SwapchainInv
  OBVIOUS
<1>1. Wrap \in Nat \ {0} /\ Frames \in Nat \ {0}
  BY WrapAssumption DEF WrapAssumption
<1>2. SwapchainTypeOK
  <2>1. 0 \in 0..Wrap - 1 /\ 0 \in 0..Frames
    BY <1>1
  <2>2. DOMAIN pixels = {} /\ DOMAIN held = {}
    BY DEF SwapchainInit
  <2> QED BY <2>1, <2>2 DEF SwapchainInit, SwapchainTypeOK, NoWindow
<1>4. HeldType /\ window.seen = window.presented
  BY DEF SwapchainInit, HeldType, NoWindow
<1>3. InTurn /\ Undisturbed /\ pixels \in [DOMAIN pixels -> 0..Frames]
  BY DEF SwapchainInit, InTurn, Undisturbed
<1> QED BY <1>2, <1>3, <1>4 DEF SwapchainInv

\* An image is given back, whether to be shown or not.
LEMMA GiveBackKeeps ==
  ASSUME SwapchainInv, NEW k \in DOMAIN held, held' = RemoveAt(held, k),
         regular' = (regular /\ k = 1),
         window' \in [seen : 0..Frames, presented : 0..Frames, regular : BOOLEAN],
         window'.regular => window'.seen = window'.presented,
         UNCHANGED <<count, next, pixels, frame>>
  PROVE  SwapchainInv'
<1>0. /\ Wrap \in Nat \ {0} /\ Frames \in Nat \ {0} /\ count \in Nat /\ next \in Nat
      /\ Len(held) \in Nat /\ DOMAIN held = 1..Len(held)
      /\ \A i \in 1..Len(held) : held[i].image \in DOMAIN pixels /\ held[i].frame \in 0..Frames
  BY SwapchainTypes
<1> DEFINE left == RemoveAt(held, k)
           Kind == [image : 0..count - 1, frame : 0..Frames]
<1>1. /\ left \in Seq(Kind) /\ Len(left) = Len(held) - 1
      /\ \A j \in 1..Len(held) - 1 : left[j] = IF j < k THEN held[j] ELSE held[j + 1]
  <2>1. held \in Seq(Kind) /\ k \in 1..Len(held)
    BY <1>0 DEF SwapchainInv, HeldType
  <2> HIDE DEF Kind
  <2> QED BY <2>1, Removed
<1>2. held' = left /\ Len(left) \in Nat
  BY <1>0, <1>1
<1> HIDE DEF left
<1>3. HeldType'
  BY <1>0, <1>1, <1>2 DEF HeldType
<1>5. \A j \in DOMAIN left : left[j] \in Kind
  <2> HIDE DEF Kind
  <2> QED BY <1>1
<1>6. SwapchainTypeOK'
  BY <1>2, <1>5 DEF SwapchainInv, SwapchainTypeOK
<1>4. ASSUME regular' PROVE InTurn' /\ Undisturbed'
  <2>1. k = 1 /\ InTurn /\ Undisturbed
    BY <1>4 DEF SwapchainInv
  <2>2. \A j \in 1..Len(left) : j + 1 \in 1..Len(held) /\ left[j] = held[j + 1]
    BY <1>0, <1>1, <2>1
  <2>3. Undisturbed'
    BY <1>2, <2>1, <2>2 DEF Undisturbed
  <2>4. Len(left) <= next /\ Len(left) <= count
    BY <1>0, <1>1, <2>1 DEF InTurn
  <2>5. ASSUME NEW j \in 1..Len(left)
        PROVE  left[j].image = (next - Len(left) + j - 1) % count
    <3>1. held[j + 1].image = (next - Len(held) + (j + 1) - 1) % count
      BY <2>1, <2>2 DEF InTurn
    <3>2. next - Len(held) + (j + 1) - 1 = next - Len(left) + j - 1
      BY <1>0, <1>1
    <3> QED BY <2>2, <3>1, <3>2
  <2> QED BY <1>2, <2>3, <2>4, <2>5 DEF InTurn
<1> QED BY <1>3, <1>4, <1>6 DEF SwapchainInv

\* Every step of the swapchain keeps the invariant.
LEMMA SwapchainStep == SwapchainInv /\ [SwapchainNext]_swapchain => SwapchainInv'
<1> SUFFICES ASSUME SwapchainInv, [SwapchainNext]_swapchain PROVE SwapchainInv'
  OBVIOUS
<1>0. /\ Wrap \in Nat \ {0} /\ Frames \in Nat \ {0} /\ count \in Nat /\ next \in Nat
      /\ Len(held) \in Nat /\ DOMAIN held = 1..Len(held)
      /\ \A i \in 1..Len(held) : held[i].image \in DOMAIN pixels /\ held[i].frame \in 0..Frames
  BY SwapchainTypes
<1>1. CASE CreateSwapchain
  <2>1. Counts \subseteq Nat \ {0} /\ count = 0
    BY <1>1, CountsAssumption DEF CountsAssumption, CreateSwapchain
  <2>2. /\ count' \in Counts \cup {0} /\ held' = <<>> /\ next' = 0 /\ frame' = frame
        /\ window' = NoWindow /\ regular' = TRUE
    BY <1>1, <2>1 DEF CreateSwapchain
  <2>3. \/ count' # 0 /\ pixels' = [i \in 0..count' - 1 |-> 0]
        \/ count' = 0 /\ pixels' = pixels
    BY <1>1, <2>1 DEF CreateSwapchain
  <2>4. SwapchainTypeOK'
    <3>1. DOMAIN pixels' = IF count' = 0 THEN {} ELSE 0..count' - 1
      BY <2>1, <2>3 DEF SwapchainInv, SwapchainTypeOK
    <3>2. next' \in 0..Wrap - 1 /\ DOMAIN held' = {} /\ 0 \in 0..Frames
      BY <1>0, <2>2
    <3>3. window' \in [seen : 0..Frames, presented : 0..Frames, regular : BOOLEAN]
      BY <2>2, <3>2 DEF NoWindow
    <3> QED BY <2>2, <3>1, <3>2, <3>3 DEF SwapchainInv, SwapchainTypeOK
  <2>5. pixels' \in [DOMAIN pixels' -> 0..Frames]
    <3>1. 0 \in 0..Frames
      BY <1>0
    <3> QED BY <2>3, <3>1 DEF SwapchainInv
  <2>6. HeldType' /\ InTurn' /\ Undisturbed' /\ window'.seen = window'.presented
    BY <2>1, <2>2 DEF HeldType, InTurn, Undisturbed, NoWindow
  <2> QED BY <2>4, <2>5, <2>6 DEF SwapchainInv
<1>2. CASE DestroySwapchain
  <2>1. /\ count' = 0 /\ pixels' = <<>> /\ held' = <<>>
        /\ UNCHANGED <<next, window, frame, regular>>
    BY <1>2 DEF DestroySwapchain
  <2>2. SwapchainTypeOK' /\ pixels' \in [DOMAIN pixels' -> 0..Frames]
    BY <2>1 DEF SwapchainInv, SwapchainTypeOK
  <2>3. HeldType' /\ InTurn' /\ Undisturbed'
    BY <1>0, <2>1 DEF HeldType, InTurn, Undisturbed
  <2> QED BY <2>1, <2>2, <2>3 DEF SwapchainInv
<1>3. CASE Acquire
  <2> DEFINE new == [image |-> next % count, frame |-> 0]
             Kind == [image : 0..count - 1, frame : 0..Frames]
  <2>1. /\ count > 0 /\ held' = Append(held, new) /\ next' = (next + 1) % Wrap
        /\ regular' = ((held = <<>> \/ regular) /\ Len(held) < count /\ next' # 0)
        /\ UNCHANGED <<count, pixels, window, frame>>
    BY <1>3 DEF Acquire
  <2>2. count \in Nat \ {0} /\ next % count \in 0..count - 1
    <3>1. count \in Nat \ {0}
      BY <1>0, <2>1
    <3> QED BY <1>0, <3>1
  <2>3. next' \in 0..Wrap - 1 /\ (next' # 0 => next' = next + 1)
    <3>1. next \in 0..Wrap - 1
      BY DEF SwapchainInv, SwapchainTypeOK
    <3>2. CASE next + 1 < Wrap
      <4>1. ASSUME NEW n \in Nat, n < Wrap PROVE n % Wrap = n
        BY <1>0, <4>1
      <4>2. (next + 1) % Wrap = next + 1
        BY <1>0, <3>2, <4>1
      <4> QED BY <1>0, <2>1, <3>2, <4>2
    <3>3. CASE next + 1 = Wrap
      <4>1. (next + 1) % Wrap = 0
        BY <1>0, <3>3
      <4> QED BY <1>0, <2>1, <4>1
    <3> QED BY <1>0, <3>1, <3>2, <3>3
  <2>4. new \in Kind /\ new.image = next % count /\ new.frame = 0
    BY <1>0, <2>2
  <2>5. held \in Seq(Kind)
    BY DEF SwapchainInv, HeldType
  <2> HIDE DEF new
  <2>6. held' \in Seq(Kind)
    <3> HIDE DEF Kind
    <3> QED BY <2>1, <2>4, <2>5
  <2>7. /\ Len(held') = Len(held) + 1
        /\ \A k \in 1..Len(held) + 1 : held'[k] = IF k = Len(held) + 1 THEN new ELSE held[k]
    <3> HIDE DEF Kind
    <3> QED BY <2>1, <2>5
  <2>8. HeldType'
    BY <1>0, <2>1, <2>6, <2>7 DEF HeldType
  <2>9. SwapchainTypeOK'
    <3>1. \A k \in DOMAIN held' : held'[k] \in Kind
      <4> HIDE DEF Kind
      <4> QED BY <2>6
    <3> QED BY <2>1, <2>3, <3>1 DEF SwapchainInv, SwapchainTypeOK
  <2>10. ASSUME regular' PROVE InTurn' /\ Undisturbed'
    <3>6. next' = next + 1 /\ Len(held) < count /\ (held = <<>> \/ regular)
      BY <2>1, <2>3, <2>10
    <3>7. held = <<>> => InTurn /\ Undisturbed
      BY <1>0 DEF InTurn, Undisturbed
    <3>1. InTurn /\ Undisturbed
      BY <3>6, <3>7 DEF SwapchainInv
    <3>2. \A k \in 1..Len(held) + 1 : k # Len(held) + 1 => k \in 1..Len(held)
      BY <1>0
    <3>3. Undisturbed'
      BY <2>1, <2>4, <2>7, <3>1, <3>2 DEF Undisturbed
    <3>4. Len(held') <= next' /\ Len(held') <= count'
      <4>1. Len(held) <= next /\ count' = count
        BY <2>1, <3>1 DEF InTurn
      <4> QED BY <1>0, <2>7, <3>6, <4>1
    <3>5. ASSUME NEW k \in 1..Len(held) + 1
          PROVE  held'[k].image = (next' - Len(held') + k - 1) % count
      <4>1. next' - Len(held') + k - 1 = next - Len(held) + k - 1
        BY <1>0, <2>7, <3>6
      <4>2. CASE k = Len(held) + 1
        <5>1. next - Len(held) + k - 1 = next
          BY <1>0, <4>2
        <5> QED BY <2>4, <2>7, <4>1, <4>2, <5>1
      <4>3. CASE k # Len(held) + 1
        BY <2>7, <3>1, <3>2, <4>1, <4>3 DEF InTurn
      <4> QED BY <4>2, <4>3
    <3> QED BY <2>1, <2>7, <3>3, <3>4, <3>5 DEF InTurn
  <2>11. /\ window'.regular => window'.seen = window'.presented
         /\ pixels' \in [DOMAIN pixels' -> 0..Frames]
    BY <2>1 DEF SwapchainInv
  <2> QED BY <2>8, <2>9, <2>10, <2>11 DEF SwapchainInv
<1>4. CASE Render
  <2>1. PICK k \in 1..Len(held) :
          /\ held' = [held EXCEPT ![k].frame = frame']
          /\ pixels' = [pixels EXCEPT ![held[k].image] = frame']
    BY <1>0, <1>4 DEF Render
  <2>2. frame' = (frame % Frames) + 1 /\ UNCHANGED <<count, next, window, regular>>
    BY <1>4 DEF Render
  <2>3. frame' \in 1..Frames
    <3>1. frame \in Nat
      BY <1>0 DEF SwapchainInv, SwapchainTypeOK
    <3>2. frame % Frames \in 0..Frames - 1
      BY <1>0, <3>1
    <3> QED BY <1>0, <2>2, <3>2
  <2> DEFINE Kind == [image : 0..count - 1, frame : 0..Frames]
             fresh == [held[k] EXCEPT !.frame = frame']
  <2>4. held \in Seq(Kind) /\ held[k] \in Kind
    <3>1. held \in Seq(Kind)
      BY DEF SwapchainInv, HeldType
    <3> HIDE DEF Kind
    <3> QED BY <2>1, <3>1
  <2>5. fresh \in Kind /\ fresh.image = held[k].image /\ fresh.frame = frame'
    <3>1. frame' \in 0..Frames
      BY <1>0, <2>3
    <3> QED BY <2>4, <3>1
  <2>6. held' = [held EXCEPT ![k] = fresh]
    BY <2>1
  <2> HIDE DEF fresh
  <2>7. held' \in Seq(Kind) /\ Len(held') = Len(held)
    <3> HIDE DEF Kind
    <3> QED BY <2>4, <2>5, <2>6
  <2>8. \A j \in 1..Len(held) : held'[j] = IF j = k THEN fresh ELSE held[j]
    <3> HIDE DEF Kind
    <3> QED BY <1>0, <2>4, <2>6
  <2>9. DOMAIN pixels' = DOMAIN pixels /\ pixels' \in [DOMAIN pixels' -> 0..Frames]
        /\ \A i \in DOMAIN pixels : pixels'[i] = IF i = held[k].image THEN frame' ELSE pixels[i]
    BY <1>0, <2>1, <2>3 DEF SwapchainInv
  <2>10. HeldType'
    BY <1>0, <2>2, <2>7 DEF HeldType
  <2>11. SwapchainTypeOK'
    <3>1. \A j \in DOMAIN held' : held'[j] \in Kind
      <4> HIDE DEF Kind
      <4> QED BY <2>7
    <3>2. frame' \in 0..Frames
      BY <1>0, <2>3
    <3> QED BY <2>2, <2>9, <3>1, <3>2 DEF SwapchainInv, SwapchainTypeOK
  <2>12. ASSUME regular' PROVE InTurn' /\ Undisturbed'
    <3>1. InTurn /\ Undisturbed
      BY <2>2, <2>12 DEF SwapchainInv
    <3>2. InTurn'
      BY <2>2, <2>5, <2>7, <2>8, <3>1 DEF InTurn
    <3>3. ASSUME NEW j \in 1..Len(held), j # k PROVE held[j].image # held[k].image
      BY <2>1, <3>1, <3>3, Different
    <3>4. ASSUME NEW j \in 1..Len(held), held'[j].frame # 0
          PROVE  pixels'[held'[j].image] = held'[j].frame
      <4>1. CASE j = k
        BY <1>0, <2>1, <2>5, <2>8, <2>9, <4>1
      <4>2. CASE j # k
        BY <1>0, <2>8, <2>9, <3>1, <3>3, <3>4, <4>2 DEF Undisturbed
      <4> QED BY <4>1, <4>2
    <3> QED BY <2>7, <3>2, <3>4 DEF Undisturbed
  <2> QED BY <2>2, <2>9, <2>10, <2>11, <2>12 DEF SwapchainInv
<1>5. CASE Present
  <2>1. PICK k \in DOMAIN held :
          /\ window' = [seen |-> pixels[held[k].image], presented |-> held[k].frame,
                        regular |-> regular]
          /\ held' = RemoveAt(held, k) /\ held[k].frame # 0
          /\ regular' = (regular /\ k = 1)
    BY <1>5 DEF Present
  <2>2. UNCHANGED <<count, next, pixels, frame>>
    BY <1>5 DEF Present
  <2>3. window' \in [seen : 0..Frames, presented : 0..Frames, regular : BOOLEAN]
    <3>1. pixels[held[k].image] \in 0..Frames /\ held[k].frame \in 0..Frames
      BY <1>0 DEF SwapchainInv
    <3>2. regular \in BOOLEAN
      BY DEF SwapchainInv, SwapchainTypeOK
    <3> QED BY <2>1, <3>1, <3>2
  <2>4. window'.regular => window'.seen = window'.presented
    BY <1>0, <2>1 DEF SwapchainInv, Undisturbed
  <2> QED BY <2>1, <2>2, <2>3, <2>4, GiveBackKeeps
<1>6. CASE Release
  <2>1. PICK k \in DOMAIN held : held' = RemoveAt(held, k) /\ regular' = (regular /\ k = 1)
    BY <1>6 DEF Release
  <2>2. UNCHANGED <<count, next, pixels, window, frame>>
    BY <1>6 DEF Release
  <2>3. /\ window' \in [seen : 0..Frames, presented : 0..Frames, regular : BOOLEAN]
        /\ window'.regular => window'.seen = window'.presented
    BY <2>2 DEF SwapchainInv, SwapchainTypeOK
  <2> QED BY <2>1, <2>2, <2>3, GiveBackKeeps
<1>7. CASE UNCHANGED swapchain
  BY <1>7 DEF swapchain, SwapchainInv, SwapchainTypeOK, HeldType, InTurn, Undisturbed
<1> QED BY <1>1, <1>2, <1>3, <1>4, <1>5, <1>6, <1>7 DEF SwapchainNext

------------------------------------------------------------------------

\* The watchdog: a vkDestroyDevice that has reset the flag, and the thread it started, can
\* tell from the flag what VerdictTrue says.  Before that nothing is known of the flag.
Tellable(round) ==
  /\ destroyed => round.since
  /\ round.since /\ ~round.lost => destroyed

\* The inductive invariant.
WatchInv ==
  /\ WatchdogTypeOK
  /\ \A i \in Instances : arming[i].at = "spawn" => Tellable(arming[i])
  /\ \A w \in Watchers : watcher[w].at = "asleep" => Tellable(watcher[w])

\* Nothing is armed yet.
LEMMA WatchStart == WatchdogInit => WatchInv
<1> SUFFICES ASSUME WatchdogInit PROVE WatchInv
  OBVIOUS
<1>1. /\ Round("no") \in Rounds({"no", "set", "reset", "spawn"}) /\ Round("no").at = "no"
      /\ Round("none") \in Rounds({"none", "asleep", "spoken"}) /\ Round("none").at = "none"
  BY DEF Round, Rounds
<1> QED BY <1>1 DEF WatchdogInit, WatchInv, WatchdogTypeOK

\* Every step of the watchdog keeps the invariant.
LEMMA WatchStep == WatchInv /\ [WatchdogNext]_watchdog => WatchInv'
<1> SUFFICES ASSUME WatchInv, [WatchdogNext]_watchdog PROVE WatchInv'
  OBVIOUS
<1> USE DEF WatchInv, WatchdogTypeOK, Tellable
<1>0. /\ \A i \in Instances : arming[i] \in Rounds({"no", "set", "reset", "spawn"})
      /\ \A w \in Watchers : watcher[w] \in Rounds({"none", "asleep", "spoken"})
  OBVIOUS
<1>1. CASE CreateInstance
  BY <1>1 DEF CreateInstance
<1>2. CASE CreateDevice
  BY <1>2 DEF CreateDevice
<1>3. CASE DestroyDevice
  <2>1. CASE UNCHANGED arming
    BY <1>3, <2>1 DEF DestroyDevice
  <2>2. PICK i \in Instances : /\ made' = [made EXCEPT ![i] = "instance"]
                               /\ \/ UNCHANGED arming
                                   \/ arming' = [arming EXCEPT ![i] = Round("set")]
    BY <1>3 DEF DestroyDevice
  <2>3. Round("set") \in Rounds({"no", "set", "reset", "spawn"}) /\ Round("set").at = "set"
    BY DEF Round, Rounds
  <2>4. CASE arming' = [arming EXCEPT ![i] = Round("set")]
    BY <1>3, <2>2, <2>3, <2>4 DEF DestroyDevice
  <2> QED BY <2>1, <2>2, <2>4
<1>4. ASSUME NEW i \in Instances, SetArmed(i) PROVE WatchInv'
  <2>1. [arming[i] EXCEPT !.at = "reset"] \in Rounds({"no", "set", "reset", "spawn"})
        /\ [arming[i] EXCEPT !.at = "reset"].at = "reset"
    BY <1>0 DEF Rounds
  <2> QED BY <1>4, <2>1 DEF SetArmed
<1>5. ASSUME NEW i \in Instances, ResetFlag(i) PROVE WatchInv'
  <2> DEFINE marked(round) == [round EXCEPT !.lost = @ \/ round.since]
             reset == [marked(arming[i]) EXCEPT !.at = "spawn"]
  <2>1. ASSUME NEW places, NEW round \in Rounds(places)
        PROVE  /\ marked(round) \in Rounds(places) /\ marked(round).at = round.at
               /\ marked(round).since => marked(round).lost
    BY DEF Rounds
  <2>2. /\ reset \in Rounds({"no", "set", "reset", "spawn"})
        /\ reset.since => reset.lost
    BY <1>0 DEF Rounds
  <2> HIDE DEF marked, reset
  <2>3. /\ destroyed' = FALSE /\ UNCHANGED <<made, armed, verdict>>
        /\ arming' = [j \in Instances |-> IF j = i THEN reset ELSE marked(arming[j])]
        /\ watcher' = [w \in Watchers |-> marked(watcher[w])]
    BY <1>5 DEF ResetFlag, Marked, marked, reset
  <2>4. \A j \in Instances : /\ arming'[j] \in Rounds({"no", "set", "reset", "spawn"})
                             /\ arming'[j].since => arming'[j].lost
    BY <1>0, <2>1, <2>2, <2>3
  <2>5. \A w \in Watchers : /\ watcher'[w] \in Rounds({"none", "asleep", "spoken"})
                            /\ watcher'[w].since => watcher'[w].lost
    BY <1>0, <2>1, <2>3
  <2>6. arming' \in [Instances -> Rounds({"no", "set", "reset", "spawn"})]
    BY <2>3, <2>4
  <2>7. watcher' \in [Watchers -> Rounds({"none", "asleep", "spoken"})]
    BY <2>3, <2>5
  <2>8. WatchdogTypeOK'
    BY <2>3, <2>6, <2>7
  <2>9. /\ \A j \in Instances : Tellable(arming[j])'
        /\ \A w \in Watchers : Tellable(watcher[w])'
    BY <2>3, <2>4, <2>5
  <2> QED BY <2>8, <2>9
<1>6. ASSUME NEW i \in Instances, StartWatcher(i) PROVE WatchInv'
  <2> DEFINE started == [arming[i] EXCEPT !.at = "no"]
             asleep == [arming[i] EXCEPT !.at = "asleep"]
  <2>1. started \in Rounds({"no", "set", "reset", "spawn"}) /\ started.at = "no"
    BY <1>0 DEF Rounds
  <2>2. /\ asleep \in Rounds({"none", "asleep", "spoken"})
        /\ asleep.since = arming[i].since /\ asleep.lost = arming[i].lost
    BY <1>0 DEF Rounds
  <2>3. /\ arming' = [arming EXCEPT ![i] = started] /\ arming[i].at = "spawn"
        /\ UNCHANGED <<made, armed, destroyed, verdict>>
        /\ \/ UNCHANGED watcher
           \/ \E w \in Watchers : watcher' = [watcher EXCEPT ![w] = asleep]
    BY <1>6 DEF StartWatcher
  <2> HIDE DEF started, asleep
  <2>4. CASE UNCHANGED watcher
    BY <2>1, <2>3, <2>4
  <2>5. ASSUME NEW w \in Watchers, watcher' = [watcher EXCEPT ![w] = asleep] PROVE WatchInv'
    BY <2>1, <2>2, <2>3, <2>5
  <2> QED BY <2>3, <2>4, <2>5
<1>7. CASE DestroyInstance
  <2> DEFINE seen(round) == [round EXCEPT !.since = TRUE]
  <2>1. ASSUME NEW places, NEW round \in Rounds(places)
        PROVE  seen(round) \in Rounds(places) /\ seen(round).since
    BY DEF Rounds
  <2> HIDE DEF seen
  <2>2. /\ destroyed' = TRUE /\ UNCHANGED <<armed, verdict>>
        /\ made' \in [Instances -> {"none", "instance", "device"}]
        /\ arming' = [i \in Instances |-> seen(arming[i])]
        /\ watcher' = [w \in Watchers |-> seen(watcher[w])]
    BY <1>7 DEF DestroyInstance, Seen, seen
  <2> QED BY <1>0, <2>1, <2>2
<1>8. ASSUME NEW w \in Watchers, Wake(w) PROVE WatchInv'
  <2>1. /\ [watcher[w] EXCEPT !.at = "spoken"] \in Rounds({"none", "asleep", "spoken"})
        /\ [watcher[w] EXCEPT !.at = "spoken"].at = "spoken"
    BY <1>0 DEF Rounds
  <2> QED BY <1>8, <2>1 DEF Wake
<1>9. ASSUME NEW w \in Watchers, Disarm(w) PROVE WatchInv'
  <2>1. /\ [watcher[w] EXCEPT !.at = "none"] \in Rounds({"none", "asleep", "spoken"})
        /\ [watcher[w] EXCEPT !.at = "none"].at = "none"
    BY <1>0 DEF Rounds
  <2> QED BY <1>9, <2>1 DEF Disarm
<1>10. CASE UNCHANGED watchdog
  BY <1>10 DEF watchdog
<1> QED BY <1>1, <1>2, <1>3, <1>4, <1>5, <1>6, <1>7, <1>8, <1>9, <1>10 DEF WatchdogNext

------------------------------------------------------------------------

\* The inductive invariant of all the parts.
ObjectsInv == GuardInv /\ DescriptorInv /\ MemoryInv /\ SwapchainInv /\ WatchInv

LEMMA ObjectsStart == Init => ObjectsInv
  BY GuardStart, DescriptorStart, MemoryStart, SwapchainStart, WatchStart DEF Init, ObjectsInv

\* Every step is one of a part's, or leaves it as it is.
LEMMA EachItsOwn ==
  ASSUME [Next]_objects
  PROVE  /\ [GuardNext]_guard /\ [DescriptorNext]_descriptors /\ [MemoryNext]_memory
         /\ [SwapchainNext]_swapchain /\ [WatchdogNext]_watchdog
<1>1. CASE Next
  BY <1>1, Zenon DEF Next
<1>2. CASE UNCHANGED objects
  BY <1>2, Zenon DEF objects
<1> QED BY <1>1, <1>2

\* So it keeps the invariant of each.
LEMMA ObjectsStep == ObjectsInv /\ [Next]_objects => ObjectsInv'
<1> SUFFICES ASSUME ObjectsInv, [Next]_objects PROVE ObjectsInv'
  OBVIOUS
<1>1. /\ [GuardNext]_guard /\ [DescriptorNext]_descriptors /\ [MemoryNext]_memory
      /\ [SwapchainNext]_swapchain /\ [WatchdogNext]_watchdog
  BY EachItsOwn
<1>2. GuardInv /\ DescriptorInv /\ MemoryInv /\ SwapchainInv /\ WatchInv
  BY DEF ObjectsInv
<1>3. GuardInv'
  BY <1>1, <1>2, GuardStep
<1>4. DescriptorInv'
  BY <1>1, <1>2, DescriptorStep
<1>5. MemoryInv'
  BY <1>1, <1>2, MemoryStep
<1>6. SwapchainInv'
  BY <1>1, <1>2, SwapchainStep
<1>7. WatchInv'
  BY <1>1, <1>2, WatchStep
<1> QED BY <1>3, <1>4, <1>5, <1>6, <1>7 DEF ObjectsInv

\* What the runs check follows from it.
LEMMA ObjectsHold ==
  ObjectsInv => /\ ObjectsTypeOK /\ WritersAwaited /\ WholeOrNone /\ TableFaithful
                /\ WritesInBounds /\ SubresourcesDisjoint /\ NoSpill /\ SeenIsPresented
                /\ VerdictTrue
<1> SUFFICES ASSUME ObjectsInv
             PROVE  /\ ObjectsTypeOK /\ WritersAwaited /\ WholeOrNone /\ TableFaithful
                    /\ WritesInBounds /\ SubresourcesDisjoint /\ NoSpill /\ SeenIsPresented
                    /\ VerdictTrue
  OBVIOUS
<1>1. GuardInv /\ DescriptorInv /\ MemoryInv /\ SwapchainInv /\ WatchInv
  BY DEF ObjectsInv
<1>2. GuardTypeOK /\ WritersAwaited /\ WholeOrNone
  BY <1>1 DEF GuardInv
<1>3. DescriptorTypeOK /\ WritesInBounds /\ TableFaithful
  BY <1>1, Faithful DEF DescriptorInv
<1>4. MemoryTypeOK /\ NoSpill /\ SubresourcesDisjoint
  BY <1>1, Apart DEF MemoryInv
<1>5. SwapchainTypeOK /\ SeenIsPresented
  BY <1>1, SwapchainHolds
<1>6. WatchdogTypeOK /\ VerdictTrue
  BY <1>1 DEF WatchInv, Tellable, VerdictTrue
<1> QED BY <1>2, <1>3, <1>4, <1>5, <1>6 DEF ObjectsTypeOK

\* The invariant holds at any time.
LEMMA ObjectsAlways == Spec => []ObjectsInv
BY ObjectsStart, ObjectsStep, PTL DEF Spec

\* The variables of every part have their types: a bound descriptor set is one that is
\* allocated for the layout it is bound for, and a held swapchain image one that exists.
THEOREM ObjectsTyped == Spec => []ObjectsTypeOK
BY ObjectsAlways, ObjectsHold, PTL

\* A compile thread that was not abandoned has its caller waiting for it, with the job and
\* the pipeline it writes to.
THEOREM ThreadsAwaited == Spec => []WritersAwaited
BY ObjectsAlways, ObjectsHold, PTL

\* Without late writes a pipeline the application has got has all the shaders it asked for
\* or none.
THEOREM PipelinesWhole == Spec => []WholeOrNone
BY ObjectsAlways, ObjectsHold, PTL

\* A draw finds at a descriptor's resource index what the application wrote last for its
\* set, binding and element, over any history of allocations, writes, copies and binds and
\* whatever lies behind the arrays of shrunk sets; its table is refused only if its class
\* has more descriptors than entries.  Descriptors that a write going on into the next
\* binding left out, and those a shrunk set has lost, are not claimed.
THEOREM TablesFaithful == Spec => []TableFaithful
BY ObjectsAlways, ObjectsHold, PTL

\* A set allocated with fewer descriptors than its layout declares is written within its
\* array, if its variable binding is its last.
THEOREM WritesStay == Spec => []WritesInBounds
BY ObjectsAlways, ObjectsHold, PTL

\* The levels and layers that panvk_v9_image_layout_init computes lie in their image and
\* do not lie over one another.
THEOREM ImagesApart == Spec => []SubresourcesDisjoint
BY ObjectsAlways, ObjectsHold, PTL

\* A transfer, a clear or a frame begins in the level and layer, or in the buffer, that it
\* names, and ends there or no further past it than Limit says, for images of any shape;
\* nothing is said of a frame rendered to an image of small pixels or not at the start of
\* its memory, and of a fill of VK_WHOLE_SIZE.
THEOREM CommandsStay == Spec => []NoSpill
BY ObjectsAlways, ObjectsHold, PTL

\* What the window shows is the frame that was rendered for the present, for any number of
\* images: as long as the application, from holding none on, gives them back in the order
\* in which it acquired them and acquires none while it holds them all, and the counter
\* does not wrap round meanwhile.
THEOREM PresentedIsSeen == Spec => []SeenIsPresented
BY ObjectsAlways, ObjectsHold, PTL

\* However the threads of any instances and any watchdogs interleave: a watchdog says "OK"
\* only if an instance was destroyed since the vkDestroyDevice that began its round, and
\* misses one only if the flag was reset after that, before the watchdog woke up.
THEOREM WatchdogTrue == Spec => []VerdictTrue
BY ObjectsAlways, ObjectsHold, PTL

========================================================================
