------------------------- MODULE CompilerGuard -------------------------
(***************************************************************************)
(* Pipelines and the guard around the shader compiler (panvk_v9_entry-     *)
(* points.c).  Every shader is compiled by a thread of its own, which the  *)
(* caller joins with a timeout and abandons when it does not end; a shader *)
(* that fails is replaced by a built-in one, compiled the same way.  The   *)
(* thread has pointers into its caller's stack and to the pipeline, and an *)
(* abandoned one still has them.                                           *)
(***************************************************************************)
EXTENDS Naturals, Sequences, FiniteSets, Functions

CONSTANTS
  Pipelines,  \* addresses of pipelines
  Graphics,   \* the stage lists of graphics pipelines
  MaxThreads  \* bound: compile threads at a time

Stages == {"vs", "fs", "cs"}
Compute == <<"cs">>

ASSUME PipelinesAssumption == Pipelines # {}

\* pipeline_parse_shader_stages: a vertex shader, and a fragment shader before or after it.
ASSUME GraphicsAssumption == Graphics \subseteq {<<"vs">>, <<"vs", "fs">>, <<"fs", "vs">>}
ASSUME ThreadsAssumption == MaxThreads \in Nat

VARIABLES
  required, \* PANVK_REQUIRE_COMPILER is set
  library,  \* compiler_api: "untried", "loaded" or "absent"
  at,       \* the caller: "idle", "create", "spawn", "join" or "direct"
  call,     \* what it creates: [pipe, stages, next, code, made], made by the same call
  life,     \* per pipeline: "free", "building" or "live"
  binary,   \* per pipeline: the stages it has a binary for, its own or the fallback's
  asked,    \* history: per pipeline the stages it was created with
  threads,  \* compile threads that have not ended
  late      \* history: the pipelines an abandoned thread has written a binary into

guard == <<required, library, at, call, life, binary, asked, threads, late>>

GuardInit ==
  /\ required \in BOOLEAN /\ library = "untried" /\ at = "idle"
  /\ call = [pipe |-> CHOOSE p \in Pipelines : TRUE, stages |-> Compute, next |-> 1,
             code |-> "own", made |-> {}]
  /\ life = [p \in Pipelines |-> "free"]
  /\ binary = [p \in Pipelines |-> {}] /\ asked = [p \in Pipelines |-> {}]
  /\ threads = {} /\ late = {}

pipe == call.pipe
stage == call.stages[call.next]

\* load_compiler: the libraries are looked for once.
LoadCompiler ==
  IF library = "untried" THEN library' \in {"loaded", "absent"} ELSE UNCHANGED library

\* A pipeline of the call is done: it and the others go to the application, or another
\* follows; a graphics call that fails destroys the ones it has made.
Leave(ok, binaries) ==
  /\ LET gone == IF ok THEN {} ELSE call.made \cup {pipe} IN
       /\ life' = [p \in Pipelines |-> IF p \in gone THEN "free"
                                       ELSE IF p = pipe THEN "live" ELSE life[p]]
       /\ binary' = [p \in Pipelines |-> IF p \in gone THEN {}
                                         ELSE IF p = pipe THEN binaries ELSE binary[p]]
       /\ IF ok THEN at' \in {"idle", "create"} ELSE at' = "idle"
       /\ call' = [call EXCEPT !.made = IF at' = "idle" THEN {} ELSE @ \cup {pipe}]

\* vkCreateGraphicsPipelines, vkCreateComputePipelines: a new object.
Allocate ==
  /\ at \in {"idle", "create"}
  /\ LoadCompiler
  /\ \E p \in {q \in Pipelines : life[q] = "free"},
        stages \in IF at = "idle" THEN Graphics \cup {Compute}
                   ELSE IF call.stages = Compute THEN {Compute} ELSE Graphics :
       /\ call' = [call EXCEPT !.pipe = p, !.stages = stages, !.next = 1, !.code = "own"]
       /\ life' = [life EXCEPT ![p] = "building"]
       /\ binary' = [binary EXCEPT ![p] = {}]
       /\ asked' = [asked EXCEPT ![p] = Range(stages)]
       /\ late' = late \ {p}
  /\ at' = "begin"
  /\ UNCHANGED <<required, threads>>

\* calloc failed: the pipelines already made stay, for the application to find.
AllocateFails ==
  /\ at = "create" /\ at' = "idle"
  /\ call' = [call EXCEPT !.made = {}]
  /\ UNCHANGED <<required, library, life, binary, asked, threads, late>>

\* A graphics pipeline's stages may be refused.  Without a compiler a pipeline has no
\* binaries; if one is required, there is no graphics pipeline.
Begin ==
  /\ at = "begin"
  /\ \/ call.stages # Compute /\ Leave(FALSE, {})
     \/ library = "absent" /\ Leave(~required \/ call.stages = Compute, {})
     \/ library = "loaded" /\ at' = "spawn" /\ UNCHANGED <<call, life, binary>>
  /\ UNCHANGED <<required, library, asked, threads, late>>

\* panvk_compile_guarded starts a thread, or compiles in the caller if it cannot.
Spawn ==
  /\ at = "spawn"
  /\ \/ /\ Cardinality(threads) < MaxThreads /\ at' = "join"
        /\ threads' = threads \cup {[pipe |-> pipe, stage |-> stage, abandoned |-> FALSE]}
     \/ at' = "direct" /\ UNCHANGED threads
  /\ UNCHANGED <<required, library, call, life, binary, asked, late>>

Current == {t \in threads : ~t.abandoned}

\* Mutant of Failed: only the failing stage's binary is cleaned up.
FailedHalf(binaries) ==
  IF call.code = "own"
  THEN /\ at' = "spawn" /\ call' = [call EXCEPT !.code = "fallback"]
       /\ binary' = [binary EXCEPT ![pipe] = binaries \ {stage}]
       /\ UNCHANGED life
  ELSE Leave(TRUE, binaries \ {stage})

\* A shader failed or timed out: its fallback is compiled.  If that fails too, a graphics
\* pipeline goes without any shader, or is not created when a compiler is required.
Failed(binaries) ==
  IF call.code = "own"
  THEN /\ at' = "spawn" /\ call' = [call EXCEPT !.code = "fallback"]
       /\ binary' = [binary EXCEPT ![pipe] = binaries \ {stage}]
       /\ UNCHANGED life
  ELSE Leave(~required \/ call.stages = Compute, {})

\* Mutant of Compiled: a stage after the last.
CompiledPast(binaries) ==
  IF call.next > Len(call.stages) THEN Leave(TRUE, binaries)
  ELSE /\ at' = "spawn"
       /\ call' = [call EXCEPT !.next = @ + 1, !.code = "own"]
       /\ binary' = [binary EXCEPT ![pipe] = binaries]
       /\ UNCHANGED life

\* A shader is there: the next stage, or the end.
Compiled(binaries) ==
  IF call.next = Len(call.stages) THEN Leave(TRUE, binaries)
  ELSE /\ at' = "spawn"
       /\ call' = [call EXCEPT !.next = @ + 1, !.code = "own"]
       /\ binary' = [binary EXCEPT ![pipe] = binaries]
       /\ UNCHANGED life

Result(rc) ==
  IF rc THEN Compiled(binary[pipe] \cup {stage}) ELSE Failed(binary[pipe])

\* The thread ends in time and is joined; job.rc is read.
Join ==
  /\ at = "join"
  /\ \E rc \in BOOLEAN : Result(rc)
  /\ threads' = threads \ Current
  /\ UNCHANGED <<required, library, asked, late>>

\* Mutant of Timeout: the join has no timeout, as in the build for Android.
TimeoutNever == FALSE /\ UNCHANGED guard

\* Mutant of Timeout: the thread is taken for one that has ended.
TimeoutForgets ==
  /\ at = "join" /\ Failed(binary[pipe])
  /\ UNCHANGED <<required, library, asked, threads, late>>

\* pthread_timedjoin_np gives up: the thread is detached and goes on.
Timeout ==
  /\ at = "join" /\ Failed(binary[pipe])
  /\ threads' = (threads \ Current) \cup {[t EXCEPT !.abandoned = TRUE] : t \in Current}
  /\ UNCHANGED <<required, library, asked, late>>

\* The compiler, called by the caller itself.  It may not return.
Direct ==
  /\ at = "direct"
  /\ \E rc \in BOOLEAN : Result(rc)
  /\ UNCHANGED <<required, library, asked, threads, late>>

\* An abandoned thread ends.  It writes job->rc on a stack frame that is gone and, if the
\* compiler succeeds, a binary for a pipeline that may be finished or freed.
LateEnd ==
  /\ \E t \in {u \in threads : u.abandoned}, rc \in BOOLEAN :
       /\ threads' = threads \ {t}
       /\ binary' = IF rc THEN [binary EXCEPT ![t.pipe] = @ \cup {t.stage}] ELSE binary
       /\ late' = IF rc THEN late \cup {t.pipe} ELSE late
  /\ UNCHANGED <<required, library, at, call, life, asked>>

\* pipeline_cleanup.
DestroyPipeline ==
  /\ \E p \in Pipelines \ call.made :
       /\ life[p] = "live"
       /\ life' = [life EXCEPT ![p] = "free"]
       /\ binary' = [binary EXCEPT ![p] = {}]
  /\ UNCHANGED <<required, library, at, call, asked, threads, late>>

GuardNext ==
  \/ Allocate \/ AllocateFails \/ Begin \/ Spawn \/ Join \/ Timeout \/ Direct \/ LateEnd \/ DestroyPipeline

\* The caller goes on by itself; whether a compile ever ends is nobody's promise.
GuardFairness == WF_guard(Spawn) /\ WF_guard(Timeout)

------------------------------------------------------------------------
GuardTypeOK ==
  /\ required \in BOOLEAN /\ library \in {"untried", "loaded", "absent"}
  /\ at \in {"idle", "create", "begin", "spawn", "join", "direct"}
  /\ call \in [pipe : Pipelines, stages : Graphics \cup {Compute}, next : 1..2,
               code : {"own", "fallback"}, made : SUBSET Pipelines]
  /\ call.next \in 1..Len(call.stages)
  /\ life \in [Pipelines -> {"free", "building", "live"}]
  /\ binary \in [Pipelines -> SUBSET Stages] /\ asked \in [Pipelines -> SUBSET Stages]
  /\ threads \subseteq [pipe : Pipelines, stage : Stages, abandoned : BOOLEAN]
  /\ late \subseteq Pipelines

\* A compile thread that was not abandoned is the one its caller waits for: what it writes
\* to, the caller's frame and the pipeline under construction, is there.
WritersAwaited ==
  \A t \in Current :
    at = "join" /\ t.pipe = pipe /\ t.stage = stage /\ life[pipe] = "building"

\* A pipeline the application has got has a binary for each of the stages it was created
\* with or none at all (command buffers test one stage at a time), as long as no abandoned
\* thread has written into it.
WholeOrNone ==
  \A p \in Pipelines \ late : life[p] = "live" => binary[p] \in {{}, asked[p]}

\* "so a single broken shader cannot deadlock the whole driver/app": a call that creates
\* pipelines gets past each of them although a compile never ends, unless it has to run
\* the compiler itself.
CreateReturns == at = "spawn" ~> at \in {"idle", "create", "direct"}

========================================================================
