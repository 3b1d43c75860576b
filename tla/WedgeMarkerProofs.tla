------------------------ MODULE WedgeMarkerProofs ------------------------
(***************************************************************************)
(* Theorems about WedgeMarker, for any number of processes, files and      *)
(* reboots.  MarkerInv is the inductive invariant: its conjunct Quiet says *)
(* what nobody can disturb without overlapping a check with a mark.        *)
(***************************************************************************)
EXTENDS WedgeMarker, TLAPS

\* A process that writes or reads has a file open.
FilesOpen == \A p \in Processes : pc[p] \in {"marking", "reading"} => fd[p] # None

\* The id of this boot is in a file only if it was written in this boot.
Honest == \A i \in Inodes : content[i] = boot => marked

\* What a check owes was written.
Owing == \A p \in Processes : owed[p] => marked

\* While nothing was disturbed: marks work on the named file; once a marker is complete
\* the name stays, its file holds this boot's id or is being rewritten, checks read that
\* file, and none is about to unlink it.
Quiet ==
  ~disturbed =>
    /\ ~Overlap(pc)
    /\ \A p \in Processes : pc[p] = "marking" => fd[p] = name
    /\ marked =>
         /\ name # None
         /\ content[name] = boot \/ \E p \in Processes : pc[p] = "marking"
         /\ \A p \in Processes : pc[p] = "reading" => fd[p] = name
         /\ \A p \in Processes : pc[p] # "unlinking"

MarkerInv == FilesOpen /\ Honest /\ Owing /\ Quiet /\ RefusalsTrue /\ WedgedRefused

------------------------------------------------------------------------

\* Every variable keeps its type.
THEOREM MarkerTypes == Spec => []TypeOK
<1>1. Init => TypeOK
  <2> SUFFICES ASSUME Init PROVE TypeOK
    OBVIOUS
  <2>1. marked \in BOOLEAN /\ disturbed \in BOOLEAN /\ readable \in BOOLEAN
    BY Zenon DEF Init
  <2>2. owed \in [Processes -> BOOLEAN]
    BY Zenon DEF Init
  <2> QED BY <2>1, <2>2, BootsAssumption DEF Init, TypeOK, BootsAssumption
<1>2. TypeOK /\ [Next]_vars => TypeOK'
  <2> SUFFICES ASSUME TypeOK, [Next]_vars PROVE TypeOK'
    OBVIOUS
  <2> USE BootsAssumption DEF TypeOK, Goto, Answer, file
  <2>1. ASSUME NEW p \in Processes, MarkBegin(p) PROVE TypeOK'
    <3>1. disturbed' \in BOOLEAN
      BY <2>1, Zenon DEF MarkBegin, Watch
    <3> QED BY <2>1, <3>1 DEF MarkBegin, Free
  <2>2. ASSUME NEW p \in Processes, MarkEnd(p) PROVE TypeOK'
    <3>1. disturbed' \in BOOLEAN /\ marked' \in BOOLEAN
      BY <2>2, Zenon DEF MarkEnd, Watch
    <3>2. content' \in [Inodes -> 0..boot]
      BY <2>2, boot \in 0..boot DEF MarkEnd, BootId
    <3> QED BY <2>2, <3>1, <3>2 DEF MarkEnd
  <2>3. ASSUME NEW p \in Processes, CheckBegin(p) PROVE TypeOK'
    <3>1. disturbed' \in BOOLEAN
      BY <2>3, Zenon DEF CheckBegin, Watch
    <3> QED BY <2>3, <3>1 DEF CheckBegin
  <2>4. ASSUME NEW p \in Processes, CheckRead(p) PROVE TypeOK'
    <3>1. disturbed' \in BOOLEAN
      BY <2>4, Zenon DEF CheckRead, Watch
    <3> QED BY <2>4, <3>1 DEF CheckRead
  <2>5. ASSUME NEW p \in Processes, CheckUnlink(p) PROVE TypeOK'
    <3>1. disturbed' \in BOOLEAN
      BY <2>5, Zenon DEF CheckUnlink, Watch
    <3> QED BY <2>5, <3>1 DEF CheckUnlink
  <2>6. ASSUME NEW p \in Processes, Crash(p) PROVE TypeOK'
    <3>1. disturbed' \in BOOLEAN
      BY <2>6, Zenon DEF Crash
    <3> QED BY <2>6, <3>1 DEF Crash
  <2>7. CASE Reboot
    <3>1. disturbed' \in BOOLEAN /\ marked' \in BOOLEAN /\ readable' \in BOOLEAN
      BY <2>7, Zenon DEF Reboot
    <3>2. owed' \in [Processes -> BOOLEAN]
      BY <2>7, Zenon DEF Reboot
    <3>3. boot' \in 1..MaxBoots /\ content' \in [Inodes -> 0..boot']
      BY <2>7 DEF Reboot, BootsAssumption
    <3> QED BY <2>7, <3>1, <3>2, <3>3 DEF Reboot
  <2>8. CASE UNCHANGED vars
    BY <2>8 DEF vars
  <2> QED BY <2>1, <2>2, <2>3, <2>4, <2>5, <2>6, <2>7, <2>8 DEF Next, Step
<1> QED BY <1>1, <1>2, PTL DEF Spec

\* A step that disturbs nothing leaves no check and mark under way together.
LEMMA WatchQuiet == ASSUME Watch, ~disturbed' PROVE ~disturbed /\ ~Overlap(pc')
  BY Zenon DEF Watch

LEMMA MarkerInit == Init => MarkerInv
  BY InodesAssumption DEF Init, MarkerInv, FilesOpen, Honest, Owing, Quiet, Overlap, RefusalsTrue, WedgedRefused

LEMMA MarkerStep == ASSUME TypeOK, MarkerInv, [Next]_vars PROVE MarkerInv'
<1> USE InodesAssumption, BootsAssumption DEF TypeOK, Goto, Answer, file
<1>1. ASSUME NEW p \in Processes, MarkBegin(p) PROVE MarkerInv'
  <2> USE <1>1 DEF MarkBegin, Free
  <2>1. FilesOpen' /\ Honest' /\ Owing'
    BY DEF MarkerInv, FilesOpen, Honest, Owing
  <2>2. Quiet'
    <3> SUFFICES ASSUME ~disturbed'
                 PROVE  Quiet'
      BY DEF Quiet
    <3>1. ~disturbed /\ ~Overlap(pc')
      BY WatchQuiet
    <3> QED BY <3>1 DEF MarkerInv, FilesOpen, Quiet, Overlap, Honest, Owing
  <2>3. RefusalsTrue' /\ WedgedRefused'
    BY DEF MarkerInv, RefusalsTrue, WedgedRefused, Honest, Owing, Quiet, FilesOpen, Watch
  <2> QED BY <2>1, <2>2, <2>3 DEF MarkerInv
<1>2. ASSUME NEW p \in Processes, MarkEnd(p) PROVE MarkerInv'
  <2> USE <1>2 DEF MarkEnd, BootId
  <2>1. FilesOpen' /\ Honest' /\ Owing'
    BY DEF MarkerInv, FilesOpen, Honest, Owing
  <2>2. Quiet'
    <3> SUFFICES ASSUME ~disturbed'
                 PROVE  Quiet'
      BY DEF Quiet
    <3>1. ~disturbed /\ ~Overlap(pc')
      BY WatchQuiet
    <3> QED BY <3>1 DEF MarkerInv, FilesOpen, Quiet, Overlap, Honest, Owing
  <2>3. RefusalsTrue' /\ WedgedRefused'
    BY DEF MarkerInv, RefusalsTrue, WedgedRefused, Honest, Owing, Quiet, FilesOpen, Watch
  <2> QED BY <2>1, <2>2, <2>3 DEF MarkerInv
<1>3. ASSUME NEW p \in Processes, CheckBegin(p) PROVE MarkerInv'
  <2> USE <1>3 DEF CheckBegin
  <2>1. FilesOpen' /\ Honest' /\ Owing'
    BY DEF MarkerInv, FilesOpen, Honest, Owing
  <2>2. Quiet'
    <3> SUFFICES ASSUME ~disturbed'
                 PROVE  Quiet'
      BY DEF Quiet
    <3>1. ~disturbed /\ ~Overlap(pc')
      BY WatchQuiet
    <3> QED BY <3>1 DEF MarkerInv, FilesOpen, Quiet, Overlap, Honest, Owing
  <2>3. RefusalsTrue' /\ WedgedRefused'
    BY DEF MarkerInv, RefusalsTrue, WedgedRefused, Honest, Owing, Quiet, FilesOpen, Watch
  <2> QED BY <2>1, <2>2, <2>3 DEF MarkerInv
<1>4. ASSUME NEW p \in Processes, CheckRead(p) PROVE MarkerInv'
  <2> USE <1>4 DEF CheckRead, Believed
  <2>1. FilesOpen' /\ Honest' /\ Owing'
    BY DEF MarkerInv, FilesOpen, Honest, Owing
  <2>2. Quiet'
    <3> SUFFICES ASSUME ~disturbed'
                 PROVE  Quiet'
      BY DEF Quiet
    <3>1. ~disturbed /\ ~Overlap(pc')
      BY WatchQuiet
    <3> QED BY <3>1 DEF MarkerInv, FilesOpen, Quiet, Overlap, Honest, Owing
  <2>3. RefusalsTrue' /\ WedgedRefused'
    BY DEF MarkerInv, RefusalsTrue, WedgedRefused, Honest, Owing, Quiet, FilesOpen, Watch
  <2> QED BY <2>1, <2>2, <2>3 DEF MarkerInv
<1>5. ASSUME NEW p \in Processes, CheckUnlink(p) PROVE MarkerInv'
  <2> USE <1>5 DEF CheckUnlink
  <2>1. FilesOpen' /\ Honest' /\ Owing'
    BY DEF MarkerInv, FilesOpen, Honest, Owing
  <2>2. Quiet'
    <3> SUFFICES ASSUME ~disturbed'
                 PROVE  Quiet'
      BY DEF Quiet
    <3>1. ~disturbed /\ ~Overlap(pc')
      BY WatchQuiet
    <3> QED BY <3>1 DEF MarkerInv, FilesOpen, Quiet, Overlap, Honest, Owing
  <2>3. RefusalsTrue' /\ WedgedRefused'
    BY DEF MarkerInv, RefusalsTrue, WedgedRefused, Honest, Owing, Quiet, FilesOpen, Watch
  <2> QED BY <2>1, <2>2, <2>3 DEF MarkerInv
<1>6. ASSUME NEW p \in Processes, Crash(p) PROVE MarkerInv'
  <2> USE <1>6 DEF Crash
  <2>1. FilesOpen' /\ Honest' /\ Owing'
    BY DEF MarkerInv, FilesOpen, Honest, Owing
  <2>2. Quiet'
    BY DEF MarkerInv, FilesOpen, Quiet, Overlap
  <2>3. RefusalsTrue' /\ WedgedRefused'
    BY DEF MarkerInv, RefusalsTrue, WedgedRefused, Honest, Owing, Quiet, FilesOpen, Watch
  <2> QED BY <2>1, <2>2, <2>3 DEF MarkerInv
<1>7. CASE Reboot
  BY <1>7 DEF Reboot, MarkerInv, FilesOpen, Honest, Owing, Quiet, Overlap, RefusalsTrue, WedgedRefused
<1>8. CASE UNCHANGED vars
  BY <1>8 DEF vars, MarkerInv, FilesOpen, Honest, Owing, Quiet, Overlap, RefusalsTrue, WedgedRefused
<1> QED BY <1>1, <1>2, <1>3, <1>4, <1>5, <1>6, <1>7, <1>8 DEF Next, Step

\* For any number of processes and reboots, with crashes anywhere: a refusal is due to a
\* marker of this boot, and a completed marker is lost only to an overlap or a crash.
THEOREM MarkerCorrect == Spec => [](RefusalsTrue /\ WedgedRefused)
<1>1. Init => MarkerInv
  BY MarkerInit
<1>2. TypeOK /\ MarkerInv /\ [Next]_vars => MarkerInv'
  BY MarkerStep
<1>3. MarkerInv => RefusalsTrue /\ WedgedRefused
  BY DEF MarkerInv
<1> QED BY <1>1, <1>2, <1>3, MarkerTypes, PTL DEF Spec

==========================================================================
