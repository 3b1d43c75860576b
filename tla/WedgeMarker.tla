--------------------------- MODULE WedgeMarker ---------------------------
(***************************************************************************)
(* The reboot-aware wedge marker (kbase_winsys.c:134-202) shared by every  *)
(* process that uses the driver.  A process whose atom timed out writes    *)
(* the boot id to a file; a process that is about to open the GPU reads    *)
(* it.  fopen("w") empties the file one step before fclose writes it, the  *)
(* reader decides one step before it unlinks, and nothing locks the file.  *)
(*                                                                         *)
(* Files are inodes: an unlink takes the name away and leaves the inode to *)
(* whoever has it open.                                                    *)
(***************************************************************************)
EXTENDS Naturals

CONSTANTS
  Processes,   \* processes, or threads with a device object of their own
  Inodes,      \* enough for a named file and one open file of every process
  None,        \* no inode
  MaxBoots     \* bound: reboots observed

ASSUME InodesAssumption == None \notin Inodes
ASSUME BootsAssumption == MaxBoots \in Nat \ {0}

VARIABLES
  boot,      \* the boot id of the running kernel; 0 is the content of an empty file
  readable,  \* whether /proc/sys/kernel/random/boot_id can be read in this boot
  name,      \* the inode the marker path leads to, or None
  content,   \* what each inode holds: 0, or a boot id
  fd,        \* the inode each process has open, or None
  pc,        \* where each process is
  answer,    \* what its last check in this boot said: "none", "open", "refused"
  \* history of this boot:
  marked,    \* a marker has been written completely
  owed,      \* whether one had been when the check of each process began
  disturbed  \* a check overlapped a mark, or a process died with the marker empty

file == <<name, content>>
vars == <<boot, readable, name, content, fd, pc, answer, marked, owed, disturbed>>

Init ==
  /\ boot = 1 /\ readable \in BOOLEAN
  /\ name = None /\ content = [i \in Inodes |-> 0]
  /\ fd = [p \in Processes |-> None]
  /\ pc = [p \in Processes |-> "idle"]
  /\ answer = [p \in Processes |-> "none"]
  /\ marked = FALSE /\ disturbed = FALSE
  /\ owed = [p \in Processes |-> FALSE]

Goto(p, label) == pc' = [pc EXCEPT ![p] = label]

Overlap(at) == \E p, q \in Processes : at[p] = "marking" /\ at[q] \in {"reading", "unlinking"}

\* Every step notes whether a check and a mark are under way together.
Watch == disturbed' = (disturbed \/ Overlap(pc'))

------------------------------------------------------------------------
(* kbase_wedge_mark *)

\* Inodes that are neither named nor open.
Free == Inodes \ ({name} \cup {fd[p] : p \in Processes})

\* fopen(path, "w") creates the file or empties the one that is there.
MarkBegin(p) ==
  /\ pc[p] = "idle" /\ readable
  /\ \E i \in IF name = None THEN Free ELSE {name} :
       /\ name' = i
       /\ content' = [content EXCEPT ![i] = 0]
       /\ fd' = [fd EXCEPT ![p] = i]
  /\ Goto(p, "marking")
  /\ Watch
  /\ UNCHANGED <<boot, readable, answer, marked, owed>>

\* Mutants of BootId: nothing is written; more than the id is written.
BootIdEmpty(b) == 0
BootIdLonger(b) == b + MaxBoots

\* What fprintf writes.
BootId(b) == b

\* fclose writes the boot id, to the inode that was opened.
MarkEnd(p) ==
  /\ pc[p] = "marking"
  /\ content' = [content EXCEPT ![fd[p]] = BootId(boot)]
  /\ fd' = [fd EXCEPT ![p] = None]
  /\ marked' = TRUE
  /\ Goto(p, "idle")
  /\ Watch
  /\ UNCHANGED <<boot, readable, name, answer, owed>>

------------------------------------------------------------------------
(* kbase_wedge_check *)

Answer(p, said) == answer' = [answer EXCEPT ![p] = said]

\* fopen(path, "r"): without a marker the GPU is usable.
CheckBegin(p) ==
  /\ pc[p] = "idle"
  /\ owed' = [owed EXCEPT ![p] = marked]
  /\ IF name = None
     THEN Answer(p, "open") /\ UNCHANGED <<fd, pc>>
     ELSE Answer(p, "none") /\ fd' = [fd EXCEPT ![p] = name] /\ Goto(p, "reading")
  /\ Watch
  /\ UNCHANGED <<boot, readable, file, marked>>

\* Mutant of Believed: the boot the marker was written in is not compared.
BelievedAlways(c) == c # 0

\* A marker counts if it names this boot, or if the boot id cannot be read.
Believed(c) == c # 0 /\ (readable => c = boot)

\* fgets and fclose, and the comparison.
CheckRead(p) ==
  /\ pc[p] = "reading"
  /\ fd' = [fd EXCEPT ![p] = None]
  /\ IF Believed(content[fd[p]])
     THEN Answer(p, "refused") /\ Goto(p, "idle")
     ELSE Goto(p, "unlinking") /\ UNCHANGED answer
  /\ Watch
  /\ UNCHANGED <<boot, readable, file, marked, owed>>

\* unlink(path), whatever the path leads to by now.
CheckUnlink(p) ==
  /\ pc[p] = "unlinking"
  /\ name' = None
  /\ Answer(p, "open")
  /\ Goto(p, "idle")
  /\ Watch
  /\ UNCHANGED <<boot, readable, content, fd, marked, owed>>

------------------------------------------------------------------------
(* The world *)

\* A process is killed, or the watchdog ends it, and is started again.
Crash(p) ==
  /\ pc[p] # "idle" \/ answer[p] # "none"
  /\ fd' = [fd EXCEPT ![p] = None]
  /\ Goto(p, "idle")
  /\ Answer(p, "none")
  /\ owed' = [owed EXCEPT ![p] = FALSE]
  /\ disturbed' = (disturbed \/ pc[p] = "marking")
  /\ UNCHANGED <<boot, readable, file, marked>>

\* The phone restarts: the file stays, the boot id is new and the GPU is clean.
Reboot ==
  /\ boot < MaxBoots
  /\ boot' = boot + 1
  /\ fd' = [p \in Processes |-> None]
  /\ pc' = [p \in Processes |-> "idle"]
  /\ answer' = [p \in Processes |-> "none"]
  /\ owed' = [p \in Processes |-> FALSE]
  /\ marked' = FALSE /\ disturbed' = FALSE
  /\ readable' \in BOOLEAN
  /\ UNCHANGED file

Step(p) == MarkBegin(p) \/ MarkEnd(p) \/ CheckBegin(p) \/ CheckRead(p) \/ CheckUnlink(p) \/ Crash(p)

Next == (\E p \in Processes : Step(p)) \/ Reboot

Spec == Init /\ [][Next]_vars

------------------------------------------------------------------------
(* Properties *)

\* Types of all variables.
TypeOK ==
  /\ boot \in 1..MaxBoots /\ readable \in BOOLEAN
  /\ name \in Inodes \cup {None}
  /\ content \in [Inodes -> 0..boot]
  /\ fd \in [Processes -> Inodes \cup {None}]
  /\ pc \in [Processes -> {"idle", "marking", "reading", "unlinking"}]
  /\ answer \in [Processes -> {"none", "open", "refused"}]
  /\ marked \in BOOLEAN /\ disturbed \in BOOLEAN
  /\ owed \in [Processes -> BOOLEAN]

\* No process is kept off a healthy GPU: a refusal means that some process marked this
\* very boot, whatever was left by earlier ones ("the marker self-clears on the next
\* boot"), unless the boot id cannot be read.
RefusalsTrue == \A p \in Processes : answer[p] = "refused" /\ readable => marked

\* A process that checks after a marker was completed is refused ("a fresh process
\* refuses", kbase_winsys.h:132-138), unless a check overlapped a mark or a process died
\* between emptying and writing the file: these are the only ways to lose a marker.
WedgedRefused == \A p \in Processes : answer[p] = "open" /\ owed[p] => disturbed

==========================================================================
