------------------------ MODULE KbaseAtomsProofs ------------------------
(***************************************************************************)
(* How far the numbering of atoms can be trusted.  A number comes round    *)
(* every Modulus numbers; what keeps completions with their atoms is that  *)
(* the kernel is done with an atom long before that (Patience), that a     *)
(* wait filters on its number, and that a new context begins in a zone     *)
(* the events still to come have no number of.                             *)
(*                                                                         *)
(* The inductive invariant.  Numbering: the k-th number of a context is k  *)
(* after the counter the context began with.  Events: what the kernel may  *)
(* still report is among the last Patience numbers, and unless contexts    *)
(* have crossed a report of an older context has no number the open one    *)
(* gives out first.  Depends: a dependency means the number just before.   *)
(* Owners: who holds the lock, and that its atom is the newest.            *)
(***************************************************************************)
EXTENDS KbaseAtoms, TLAPS

AtomType == [nr : 1..Modulus, dep : 0..(Modulus + 1), follows : Nat, issued : BOOLEAN]

JobTypes == /\ jobs \in Seq(AtomType) /\ Last <= MaxJobs
            /\ \A j \in Jobs : jobs[j].follows <= Last
            /\ running \subseteq Jobs /\ unread \subseteq Jobs /\ late \subseteq Jobs
            /\ counter \in 0..Modulus /\ crossed \in BOOLEAN
            /\ context \in [first : 0..Last, start : {0, SafeZone}]

Numbering == /\ counter = Ahead(context.start, Last - context.first)
             /\ \A j \in Jobs : j > context.first => jobs[j].nr = Ahead(context.start, j - context.first)

Events == /\ \A j \in Outstanding : j > Last - Patience
          /\ \A j \in running : j > context.first
          /\ crossed \/ \A j \in Outstanding : j <= context.first => jobs[j].nr \notin Zone(context.start)

\* Atom j, with this entry in the history, depends on the number before its own.
Behind(j, atom) == /\ atom.follows = j - 1 /\ j - 1 > context.first
                   /\ \/ atom.dep = Ahead(context.start, j - 1 - context.first)
                      \/ atom.nr = 1 /\ atom.dep = Modulus + 1

Depends == \A j \in running : jobs[j].follows # 0 => Behind(j, jobs[j])

Core == JobTypes /\ Numbering /\ Events /\ Depends

ThreadTypes == /\ batched \in BOOLEAN
               /\ opened \in [reopens : 0..MaxReopens, creates : 0..MaxCreates]
               /\ lock \in Threads \cup {None}
               /\ pc \in [Threads -> {"idle", "locked", "wait", "batched"}]
               /\ mine \in [Threads -> 0..Last]
               /\ got \in [Threads -> 0..Last]
               /\ batch \in [Threads -> 0..Last]

Owners == \A t \in Threads :
            /\ pc[t] \in {"locked", "wait"} => lock = t
            /\ pc[t] = "wait" => mine[t] # 0
            /\ mine[t] # 0 => pc[t] \in {"locked", "wait"} /\ mine[t] > context.first
            /\ batch[t] # 0 => batched /\ batch[t] > context.first
            /\ pc[t] = "batched" => batch[t] # 0
            /\ pc[t] = "idle" => batch[t] = 0
            /\ ~batched /\ mine[t] # 0 => mine[t] = Last

AtomInv == Core /\ ThreadTypes /\ Owners /\ NoStaleMatch

------------------------------------------------------------------------
(* The numbers *)

LEMMA Naturals == /\ Modulus \in Nat /\ SafeZone \in Nat /\ Patience \in Nat
                  /\ SafeZone >= 1 /\ Patience >= 3 /\ SafeZone + Patience <= Modulus
                  /\ MaxJobs \in Nat /\ MaxReopens \in Nat /\ MaxCreates \in Nat
  BY NumbersAssumption, PatienceAssumption, BoundsAssumption

LEMMA RemainderDrops ==
  ASSUME NEW m \in Nat \ {0}, NEW q \in Nat, NEW y \in Nat PROVE (m * q + y) % m = y % m
  <1>. DEFINE d == y \div m
              r == y % m
  <1>1. d \in Nat /\ r \in Nat /\ r < m /\ y = m * d + r
    OBVIOUS
  <1>. HIDE DEF d, r
  <1>2. m * q + y = m * (q + d) + r
    BY <1>1
  <1>3. q + d \in Nat
    BY <1>1
  <1>4. \A e \in Nat : (m * e + r) % m = r
    BY <1>1
  <1>5. (m * q + y) % m = r
    BY <1>2, <1>3, <1>4
  <1>. QED  BY <1>5 DEF r

LEMMA RemainderAdds ==
  ASSUME NEW m \in Nat \ {0}, NEW x \in Nat, NEW k \in Nat PROVE ((x % m) + k) % m = (x + k) % m
  <1>. DEFINE d == x \div m
              r == x % m
              z == r + k
  <1>1. d \in Nat /\ r \in Nat /\ x = m * d + r
    OBVIOUS
  <1>2. z \in Nat
    BY <1>1
  <1>3. (m * d + z) % m = z % m
    <2>. HIDE DEF d, r, z
    <2>. QED  BY <1>1, <1>2, RemainderDrops
  <1>4. x + k = m * d + z
    <2>. HIDE DEF d, r
    <2>. QED  BY <1>1
  <1>5. (x + k) % m = z % m
    BY <1>3, <1>4, Zenon
  <1>. QED  BY <1>5

\* Numbers less than a whole turn apart differ.
LEMMA RemaindersApart ==
  ASSUME NEW m \in Nat \ {0}, NEW x \in Nat, NEW y \in Nat, x < y, y < x + m
  PROVE  x % m # y % m
  <1>. SUFFICES ASSUME x % m = y % m PROVE FALSE
    OBVIOUS
  <1>1. ((x % m) + (y - x)) % m = y % m
    BY RemainderAdds
  <1>. DEFINE r == x % m
              g == y - x
  <1>2. r \in Nat /\ r < m /\ g \in Nat /\ 0 < g /\ g < m /\ (r + g) % m = r
    BY <1>1
  <1>. HIDE DEF r, g
  <1>3. CASE r + g < m
    <2>1. (r + g) % m = r + g
      BY <1>2, <1>3
    <2>. QED  BY <1>2, <2>1
  <1>4. CASE r + g >= m
    <2>. DEFINE e == r + g - m
    <2>1. e \in Nat /\ e < m /\ r + g = m * 1 + e
      BY <1>2, <1>4
    <2>2. e < r
      BY <1>2
    <2>. HIDE DEF e
    <2>3. (m * 1 + e) % m = e % m
      BY <2>1, RemainderDrops
    <2>4. e % m = e
      BY <2>1
    <2>. QED  BY <1>2, <2>1, <2>2, <2>3, <2>4
  <1>. QED  BY <1>2, <1>3, <1>4

LEMMA AheadType == ASSUME NEW s \in 0..Modulus, NEW k \in Nat
                   PROVE  Ahead(s, k) \in 0..Modulus /\ (k # 0 => Ahead(s, k) \in 1..Modulus)
  <1>1. \A x \in Nat : x % Modulus \in 0..(Modulus - 1)
    BY Naturals
  <1>2. k # 0 => s + k - 1 \in Nat
    BY Naturals
  <1>. QED  BY <1>1, <1>2, Naturals DEF Ahead

\* k numbers after a of them are a + k numbers.
LEMMA AheadAdds == ASSUME NEW s \in Nat, NEW a \in Nat, NEW k \in Nat
                   PROVE  Ahead(Ahead(s, a), k) = Ahead(s, a + k)
  <1>1. CASE a = 0 \/ k = 0
    BY <1>1 DEF Ahead
  <1>2. CASE a # 0 /\ k # 0
    <2>1. s + a - 1 \in Nat /\ k \in Nat /\ Modulus \in Nat \ {0}
      BY <1>2, Naturals
    <2>2. (((s + a - 1) % Modulus) + k) % Modulus = (s + a - 1 + k) % Modulus
      BY <2>1, RemainderAdds
    <2>3. Ahead(s, a) = ((s + a - 1) % Modulus) + 1 /\ Ahead(s, a + k) = ((s + (a + k) - 1) % Modulus) + 1
      BY <1>2 DEF Ahead
    <2>4. Ahead(Ahead(s, a), k) = ((Ahead(s, a) + k - 1) % Modulus) + 1
      BY <1>2 DEF Ahead
    <2>5. (s + a - 1) % Modulus \in Nat
      BY <2>1
    <2>6. Ahead(s, a) + k - 1 = ((s + a - 1) % Modulus) + k /\ s + (a + k) - 1 = s + a - 1 + k
      BY <2>3, <2>5
    <2>. QED  BY <2>2, <2>3, <2>4, <2>6
  <1>. QED  BY <1>1, <1>2

LEMMA AheadApart ==
  ASSUME NEW s \in Nat, NEW a \in Nat, NEW b \in Nat, 1 <= a, a < b, b < a + Modulus
  PROVE  Ahead(s, a) # Ahead(s, b)
  <1>1. /\ s + a - 1 \in Nat /\ s + b - 1 \in Nat /\ s + a - 1 < s + b - 1
        /\ s + b - 1 < (s + a - 1) + Modulus /\ Modulus \in Nat \ {0}
    BY Naturals
  <1>2. (s + a - 1) % Modulus # (s + b - 1) % Modulus
    BY <1>1, RemaindersApart
  <1>3. (s + a - 1) % Modulus \in Nat /\ (s + b - 1) % Modulus \in Nat
    BY <1>1
  <1>. QED  BY <1>2, <1>3 DEF Ahead

\* Two jobs of the open context less than a turn apart have different numbers.
LEMMA NumbersApart ==
  ASSUME JobTypes, Numbering, NEW i \in Jobs, NEW j \in Jobs,
         context.first < i, i < j, j < i + Modulus
  PROVE  jobs[i].nr # jobs[j].nr
  <1>1. context.first \in Nat /\ context.start \in Nat
    BY Naturals DEF JobTypes
  <1>2. i \in Nat /\ j \in Nat
    BY DEF Jobs
  <1>. DEFINE a == i - context.first
              b == j - context.first
  <1>3. a \in Nat /\ b \in Nat /\ 1 <= a /\ a < b /\ b < a + Modulus
    BY <1>1, <1>2, Naturals
  <1>4. jobs[i].nr = Ahead(context.start, a) /\ jobs[j].nr = Ahead(context.start, b)
    BY <1>1, <1>2 DEF Numbering
  <1>. HIDE DEF a, b
  <1>. QED  BY <1>1, <1>3, <1>4, AheadApart

------------------------------------------------------------------------
(* Giving out numbers *)

\* What a JOB_SUBMIT of n atoms, accepted or not, adds to the history.
GivenOut(n, atoms) ==
  /\ Last \in Nat /\ Last + n <= MaxJobs
  /\ jobs' \in Seq(AtomType) /\ Len(jobs') = Last + n
  /\ \A j \in Jobs : jobs'[j] = jobs[j]
  /\ \A i \in 1..n : jobs'[Last + i] = atoms[i]
  /\ \A j \in Outstanding : j > (Last + n) - Patience
  /\ \A j \in running' : j \in running \/ j - Last \in 1..n
  /\ running' \subseteq 1..(Last + n) /\ UNCHANGED <<unread, late>>

LEMMA Issued ==
  ASSUME JobTypes, NEW n \in 1..3, NEW atoms \in [1..n -> AtomType], NEW ok \in BOOLEAN,
         Issue(atoms, ok)
  PROVE  GivenOut(n, atoms)
  <1>1. n \in Nat /\ Len(atoms) = n /\ atoms \in Seq(AtomType) /\ DOMAIN atoms = 1..n
    <2>1. \A m \in Nat : \A f \in [1..m -> AtomType] : f \in Seq(AtomType) /\ Len(f) = m
      OBVIOUS
    <2>. QED  BY <2>1
  <1>2. /\ jobs' = jobs \o atoms /\ Last + n <= MaxJobs /\ jobs \in Seq(AtomType)
        /\ \A j \in Outstanding : j > (Last + n) - Patience
        /\ running' = IF ok THEN running \cup {Last + i : i \in 1..n} ELSE running
        /\ UNCHANGED <<unread, late>>
    BY <1>1 DEF Issue, JobTypes
  <1>3. Last \in Nat /\ Jobs = 1..Last /\ running \subseteq 1..Last
    BY <1>2 DEF Last, Jobs, JobTypes
  <1>4. /\ jobs' \in Seq(AtomType) /\ Len(jobs') = Last + n
        /\ \A j \in Jobs : jobs'[j] = jobs[j]
        /\ \A i \in 1..n : jobs'[Last + i] = atoms[i]
    BY <1>1, <1>2, <1>3 DEF Last
  <1>5. \A i \in 1..n : Last + i \in 1..(Last + n) /\ (Last + i) - Last \in 1..n
    BY <1>1, <1>3
  <1>6. 1..Last \subseteq 1..(Last + n)
    BY <1>1, <1>3
  <1>7. \A j \in running' : j \in running \/ j - Last \in 1..n
    <2>1. \A j \in running' : j \in running \/ \E i \in 1..n : j = Last + i
      BY <1>2
    <2>. QED  BY <1>5, <2>1
  <1>8. running' \subseteq 1..(Last + n)
    BY <1>2, <1>3, <1>5, <1>6
  <1>. QED  BY <1>1, <1>2, <1>3, <1>4, <1>7, <1>8 DEF GivenOut

\* The numbers of an open context go on from where they were.
LEMMA IssueKeeps ==
  ASSUME Core, NEW n \in 1..3, NEW atoms \in [1..n -> AtomType], NEW ok \in BOOLEAN,
         Issue(atoms, ok), UNCHANGED epoch, counter' = Ahead(counter, n),
         \A i \in 1..n : /\ atoms[i].nr = Ahead(counter, i)
                         /\ atoms[i].follows # 0 => Behind(Last + i, atoms[i])
  PROVE  Core' /\ Last' = Last + n /\ Last \in Nat
  <1>. DEFINE first == context.first
              start == context.start
  <1>1. /\ Last \in Nat /\ Last + n <= MaxJobs /\ n \in Nat
        /\ jobs' \in Seq(AtomType) /\ Len(jobs') = Last + n
        /\ \A j \in Jobs : jobs'[j] = jobs[j]
        /\ \A i \in 1..n : jobs'[Last + i] = atoms[i]
        /\ \A j \in Outstanding : j > (Last + n) - Patience
        /\ \A j \in running' : j \in running \/ j - Last \in 1..n
        /\ running' \subseteq 1..(Last + n) /\ UNCHANGED <<unread, late>>
    <2>1. JobTypes /\ n \in Nat
      BY DEF Core
    <2>2. GivenOut(n, atoms)
      BY <2>1, Issued
    <2>. QED  BY <2>1, <2>2 DEF GivenOut
  <1>2. Last' = Last + n /\ Jobs' = 1..(Last + n) /\ Jobs = 1..Last
    BY <1>1 DEF Last, Jobs
  <1>3. /\ UNCHANGED <<opened, context, crossed>> /\ first \in Nat /\ first <= Last /\ start \in Nat
        /\ start \in 0..Modulus /\ context' = context /\ context \in [first : 0..Last, start : {0, SafeZone}]
        /\ counter \in 0..Modulus /\ counter = Ahead(start, Last - first) /\ Last - first \in Nat
    BY <1>1, Naturals DEF epoch, Core, JobTypes, Numbering
  <1>4. \A k \in 0..3 : Ahead(counter, k) = Ahead(start, (Last - first) + k)
    <2>. DEFINE a == Last - first
    <2>1. a \in Nat /\ start \in Nat /\ counter = Ahead(start, a)
      BY <1>3
    <2>. HIDE DEF first, start, a
    <2>2. \A k \in Nat : Ahead(Ahead(start, a), k) = Ahead(start, a + k)
      BY <2>1, AheadAdds
    <2>3. \A k \in 0..3 : Ahead(counter, k) = Ahead(start, a + k)
      BY <2>1, <2>2
    <2>. QED  BY <2>3 DEF a
  <1>5. \A j \in 1..(Last + n) : j \in 1..Last \/ (j - Last \in 1..n /\ j = Last + (j - Last))
    BY <1>1
  <1>6. JobTypes'
    <2>1. counter' \in 0..Modulus
      BY <1>1, <1>3, AheadType
    <2>2. ASSUME NEW j \in 1..(Last + n) PROVE jobs'[j].follows <= Last + n
      <3>1. CASE j \in 1..Last
        <4>1. jobs[j].follows \in Nat /\ jobs[j].follows <= Last
          <5>1. jobs[j] \in AtomType /\ j \in Jobs
            BY <1>2, <3>1 DEF Core, JobTypes, Last
          <5>. QED  BY <5>1 DEF Core, JobTypes, AtomType
        <4>. QED  BY <1>1, <1>2, <3>1, <4>1
      <3>2. CASE j - Last \in 1..n
        <4>. DEFINE i == j - Last
        <4>1. i \in 1..n /\ j = Last + i /\ jobs'[j] = atoms[i] /\ i <= n /\ i \in Nat
          BY <1>1, <1>5, <2>2, <3>2
        <4>2. CASE atoms[i].follows = 0
          BY <1>1, <4>1, <4>2
        <4>3. CASE atoms[i].follows # 0
          <5>1. atoms[i].follows = (Last + i) - 1
            BY <4>1, <4>3 DEF Behind
          <5>. HIDE DEF i
          <5>. QED  BY <1>1, <4>1, <5>1
        <4>. QED  BY <4>2, <4>3
      <3>. QED  BY <1>5, <2>2, <3>1, <3>2
    <2>3. unread' \subseteq 1..(Last + n) /\ late' \subseteq 1..(Last + n)
      BY <1>1, <1>2 DEF Core, JobTypes
    <2>4. context' \in [first : 0..Last', start : {0, SafeZone}]
      BY <1>1, <1>2, <1>3
    <2>5. crossed' \in BOOLEAN
      BY <1>3, Zenon DEF Core, JobTypes
    <2>. QED  BY <1>1, <1>2, <2>1, <2>2, <2>3, <2>4, <2>5 DEF JobTypes, AtomType
  <1>7. Numbering'
    <2>1. counter' = Ahead(start, (Last + n) - first)
      <3>1. counter' = Ahead(start, (Last - first) + n)
        BY <1>4
      <3>2. (Last - first) + n = (Last + n) - first
        BY <1>1, <1>3
      <3>. QED  BY <3>1, <3>2
    <2>2. ASSUME NEW j \in 1..(Last + n), j > first PROVE jobs'[j].nr = Ahead(start, j - first)
      <3>1. CASE j \in 1..Last
        BY <1>1, <1>2, <2>2, <3>1 DEF Core, Numbering
      <3>2. CASE j - Last \in 1..n
        <4>1. jobs'[j] = atoms[j - Last] /\ atoms[j - Last].nr = Ahead(counter, j - Last)
          BY <1>1, <1>5, <2>2, <3>2
        <4>2. j - Last \in 0..3 /\ (Last - first) + (j - Last) = j - first
          BY <1>1, <1>3, <3>2
        <4>. HIDE DEF first, start
        <4>. QED  BY <1>4, <4>1, <4>2
      <3>. QED  BY <1>5, <2>2, <3>1, <3>2
    <2>. QED  BY <1>2, <1>3, <2>1, <2>2 DEF Numbering
  <1>8. \A j \in Outstanding' : j \in Outstanding \/ (j - Last \in 1..n /\ j \in 1..(Last + n))
    BY <1>1 DEF Outstanding
  <1>9. Outstanding \subseteq 1..Last
    BY <1>2 DEF Core, JobTypes, Outstanding
  <1>10. Events'
    <2>1. ASSUME NEW j \in Outstanding' PROVE j > (Last + n) - Patience
      <3>1. CASE j \in Outstanding
        <4>1. \A i \in Outstanding : i > (Last + n) - Patience
          BY <1>1
        <4>. QED  BY <3>1, <4>1, Zenon
      <3>2. CASE j - Last \in 1..n /\ j \in 1..(Last + n)
        BY <1>1, <3>2, Naturals
      <3>. QED  BY <1>8, <2>1, <3>1, <3>2
    <2>2. ASSUME NEW j \in running' PROVE j > first
      <3>1. CASE j \in running
        BY <3>1 DEF Core, Events
      <3>2. CASE j - Last \in 1..n
        <4>1. j \in 1..(Last + n)
          BY <1>1, <2>2
        <4>. QED  BY <1>1, <1>3, <3>2, <4>1
      <3>. QED  BY <1>1, <2>2, <3>1, <3>2
    <2>3. ASSUME NEW j \in Outstanding', j <= first, ~crossed' PROVE jobs'[j].nr \notin Zone(start)
      <3>1. j \in Outstanding
        BY <1>1, <1>3, <1>8, <2>3
      <3>2. j \in Jobs /\ jobs[j].nr \notin Zone(start)
        BY <1>2, <1>3, <1>9, <2>3, <3>1 DEF Core, Events
      <3>. QED  BY <1>1, <3>2
    <2>. QED  BY <1>2, <1>3, <2>1, <2>2, <2>3 DEF Events, Zone
  <1>11. Depends'
    <2>1. ASSUME NEW j \in running', jobs'[j].follows # 0 PROVE Behind(j, jobs'[j])
      <3>1. CASE j \in running
        <4>1. j \in Jobs /\ jobs'[j] = jobs[j]
          BY <1>1, <3>1 DEF Core, JobTypes
        <4>. QED  BY <2>1, <3>1, <4>1 DEF Core, Depends
      <3>2. CASE j - Last \in 1..n
        <4>1. j \in 1..(Last + n)
          BY <1>1, <2>1
        <4>2. jobs'[j] = atoms[j - Last] /\ Last + (j - Last) = j
          BY <1>1, <1>5, <3>2, <4>1
        <4>. QED  BY <2>1, <3>2, <4>2
      <3>. QED  BY <1>1, <2>1, <3>1, <3>2
    <2>. QED  BY <1>3, <2>1 DEF Depends, Behind
  <1>. QED  BY <1>1, <1>2, <1>6, <1>7, <1>10, <1>11 DEF Core

\* One number, and the wait for its atom: kbase_submit_job, and the null flush.
LEMMA OneAtomStep ==
  ASSUME AtomInv, NEW t \in Threads, pc[t] = "locked", NEW ok \in BOOLEAN,
         NEW d \in 0..(Modulus + 1), NEW f \in Nat,
         f # 0 => /\ f = Last /\ Last > context.first
                  /\ d = counter \/ (NextNr(counter) = 1 /\ d = Modulus + 1),
         counter' = NextNr(counter), Issue(<<Atom(NextNr(counter), d, f, ok)>>, ok),
         Await(t, Last + 1, ok), UNCHANGED <<batched, epoch, lock, batch>>
  PROVE  AtomInv'
  <1>. USE DEF AtomInv
  <1>. DEFINE atom == Atom(NextNr(counter), d, f, ok)
              atoms == <<atom>>
  <1>0. /\ lock = t /\ Last \in Nat /\ context.first \in Nat /\ context.first <= Last
        /\ counter \in 0..Modulus /\ counter = Ahead(context.start, Last - context.first)
        /\ UNCHANGED <<opened, context, crossed>>
    BY DEF Core, JobTypes, Numbering, Owners, Last, epoch
  <1>1. counter' = Ahead(counter, 1) /\ NextNr(counter) = Ahead(counter, 1) /\ Ahead(counter, 1) \in 1..Modulus
    <2>1. Ahead(counter, 1) \in 1..Modulus
      BY <1>0, AheadType
    <2>2. counter + 1 - 1 = counter
      BY <1>0
    <2>3. NextNr(counter) = Ahead(counter, 1)
      BY <2>2 DEF Ahead, NextNr
    <2>. QED  BY <2>1, <2>3
  <1>2. atom \in AtomType /\ atom.nr = Ahead(counter, 1) /\ atom.follows = f /\ atom.dep = d
    BY <1>1 DEF Atom, AtomType
  <1>3. f # 0 => Behind(Last + 1, atom)
    <2>1. (Last + 1) - 1 = Last
      BY <1>0
    <2>. HIDE DEF atom
    <2>. QED  BY <1>0, <1>1, <1>2, <2>1 DEF Behind
  <1>4. Core' /\ Last' = Last + 1
    <2>1. 1 \in 1..3 /\ 1..1 = {1} /\ atoms \in [1..1 -> AtomType] /\ atoms[1] = atom
      <3>1. 1 \in 1..3 /\ 1..1 = {1}
        OBVIOUS
      <3>. HIDE DEF atom
      <3>. QED  BY <1>2, <3>1
    <2>2. Core /\ Issue(atoms, ok) /\ UNCHANGED epoch /\ counter' = Ahead(counter, 1)
      BY <1>1
    <2>3. \A i \in 1..1 : /\ atoms[i].nr = Ahead(counter, i)
                          /\ atoms[i].follows # 0 => Behind(Last + i, atoms[i])
      <3>. HIDE DEF atom, atoms
      <3>. QED  BY <1>2, <1>3, <2>1
    <2>. HIDE DEF atoms
    <2>. QED  BY <2>1, <2>2, <2>3, IssueKeeps
  <1>5. /\ mine'[t] = Last + 1 /\ got'[t] = 0 /\ pc'[t] \in {"wait", "locked"}
        /\ \A u \in Threads \ {t} : mine'[u] = mine[u] /\ got'[u] = got[u] /\ pc'[u] = pc[u]
    BY DEF Await, Goto, ThreadTypes
  <1>6. ThreadTypes'
    <2>1. 0..Last \subseteq 0..(Last + 1) /\ Last + 1 \in 0..(Last + 1) /\ 0 \in 0..(Last + 1)
      BY <1>0
    <2>2. mine' \in [Threads -> 0..Last'] /\ got' \in [Threads -> 0..Last'] /\ batch' \in [Threads -> 0..Last']
      BY <1>4, <2>1 DEF Await, ThreadTypes
    <2>3. pc' \in [Threads -> {"idle", "locked", "wait", "batched"}]
      BY DEF Await, Goto, ThreadTypes
    <2>. QED  BY <1>0, <2>2, <2>3 DEF ThreadTypes
  <1>7. Owners' /\ NoStaleMatch'
    <2>1. \A u \in Threads \ {t} : pc[u] \notin {"locked", "wait"} /\ mine[u] = 0
      BY <1>0 DEF Owners
    <2>2. \A u \in Threads \ {t} : pc'[u] \notin {"locked", "wait"} /\ mine'[u] = 0
      BY <1>5, <2>1
    <2>3. \A u \in Threads : /\ batch'[u] # 0 => batched' /\ batch'[u] > context'.first
                             /\ pc'[u] = "batched" => batch'[u] # 0
                             /\ pc'[u] = "idle" => batch'[u] = 0
      BY <1>0, <1>5 DEF Owners
    <2>4. lock' = t /\ mine'[t] # 0 /\ mine'[t] > context'.first /\ mine'[t] = Last'
      BY <1>0, <1>4, <1>5
    <2>5. Owners'
      BY <1>5, <2>2, <2>3, <2>4 DEF Owners
    <2>6. NoStaleMatch'
      BY <1>0, <1>5 DEF NoStaleMatch
    <2>. QED  BY <2>5, <2>6
  <1>. QED  BY <1>4, <1>6, <1>7

LEMMA SubmitJobStep ==
  ASSUME AtomInv, NEW t \in Threads, SubmitJob(t)
  PROVE  AtomInv'
  <1>1. /\ pc[t] = "locked" /\ counter' = NextNr(counter)
        /\ UNCHANGED <<batched, epoch, lock, batch>>
    BY DEF SubmitJob
  <1>2. PICK ok \in BOOLEAN : Issue(<<Atom(NextNr(counter), 0, 0, ok)>>, ok) /\ Await(t, Last + 1, ok)
    BY DEF SubmitJob
  <1>3. 0 \in 0..(Modulus + 1) /\ 0 \in Nat
    BY Naturals
  <1>. QED  BY <1>1, <1>2, <1>3, OneAtomStep

\* The number before the flush's is that of the atom the thread had before it.
LEMMA SlotUnwedgeStep ==
  ASSUME AtomInv, NEW t \in Threads, SlotUnwedge(t)
  PROVE  AtomInv'
  <1>. DEFINE nr == NextNr(counter)
  <1>1. /\ pc[t] = "locked" /\ ~batched /\ counter' = nr
        /\ UNCHANGED <<batched, epoch, lock, batch>>
    BY DEF SlotUnwedge
  <1>2. PICK ok \in BOOLEAN : Issue(<<Atom(nr, FlushDep(nr), mine[t], ok)>>, ok) /\ Await(t, Last + 1, ok)
    BY DEF SlotUnwedge
  <1>3. counter \in 0..Modulus /\ nr = (counter % Modulus) + 1
    BY DEF AtomInv, Core, JobTypes, NextNr
  <1>4. FlushDep(nr) = counter \/ (nr = 1 /\ FlushDep(nr) = Modulus + 1)
    <2>1. CASE counter = 0 \/ counter = Modulus
      <3>1. counter % Modulus = 0
        BY <2>1, Naturals
      <3>. QED  BY <1>3, <3>1 DEF FlushDep
    <2>2. CASE counter \in 1..(Modulus - 1)
      <3>1. counter % Modulus = counter
        BY <2>2, Naturals
      <3>2. nr = counter + 1 /\ nr > 1 /\ nr - 1 = counter
        BY <1>3, <2>2, <3>1, Naturals
      <3>. QED  BY <3>2 DEF FlushDep
    <2>. QED  BY <1>3, <2>1, <2>2, Naturals
  <1>5. FlushDep(nr) \in 0..(Modulus + 1)
    BY <1>3, <1>4, Naturals
  <1>6. mine[t] \in Nat
    BY DEF AtomInv, ThreadTypes
  <1>7. mine[t] # 0 => mine[t] = Last /\ Last > context.first
    BY <1>1 DEF AtomInv, Owners
  <1>. QED  BY <1>1, <1>2, <1>4, <1>5, <1>6, <1>7, OneAtomStep

LEMMA SubmitBatchStep ==
  ASSUME AtomInv, NEW t \in Threads, SubmitBatch(t)
  PROVE  AtomInv'
  <1>. USE DEF AtomInv
  <1>0. /\ batched /\ pc[t] = "locked" /\ mine[t] = 0 /\ batch[t] = 0
        /\ counter' = Ahead(counter, 3) /\ UNCHANGED <<batched, epoch, lock, pc, mine, got>>
    BY Zenon DEF SubmitBatch
  <1>1. PICK ok \in BOOLEAN :
          /\ Issue([i \in 1..3 |-> IF i = 1 THEN Atom(Ahead(counter, 1), 0, 0, ok)
                                   ELSE Atom(Ahead(counter, i), Remap(i), (Last + i) - 1, ok)], ok)
          /\ batch' = [batch EXCEPT ![t] = IF ok THEN Last + 3 ELSE 0]
    BY Zenon DEF SubmitBatch
  <1>. DEFINE atoms == [i \in 1..3 |-> IF i = 1 THEN Atom(Ahead(counter, 1), 0, 0, ok)
                                   ELSE Atom(Ahead(counter, i), Remap(i), (Last + i) - 1, ok)]
  <1>2. /\ lock = t /\ Last \in Nat /\ context.first \in Nat /\ context.first <= Last
        /\ context.start \in 0..Modulus /\ context.start \in Nat
        /\ counter \in 0..Modulus /\ counter = Ahead(context.start, Last - context.first)
        /\ UNCHANGED <<opened, context, crossed>>
    BY <1>0, Naturals DEF Core, JobTypes, Numbering, Owners, Last, epoch
  <1>3. \A k \in 1..3 : Ahead(counter, k) \in 1..Modulus
    <2>1. \A k \in Nat : k # 0 => Ahead(counter, k) \in 1..Modulus
      BY <1>2, AheadType
    <2>. QED  BY <2>1
  <1>4. \A k \in {1, 2} : Ahead(counter, k) = Ahead(context.start, (Last + k) - context.first)
    <2>. DEFINE s == context.start
                a == Last - context.first
    <2>1. a \in Nat /\ s \in Nat /\ counter = Ahead(s, a)
      BY <1>2
    <2>2. \A k \in Nat : (Last + k) - context.first = a + k
      BY <1>2
    <2>. HIDE DEF s, a
    <2>3. \A k \in Nat : Ahead(Ahead(s, a), k) = Ahead(s, a + k)
      BY <2>1, AheadAdds
    <2>. QED  BY <2>1, <2>2, <2>3 DEF s
  <1>5. \A i \in 1..3 : /\ atoms[i] \in AtomType /\ atoms[i].nr = Ahead(counter, i)
                        /\ atoms[i].follows # 0 => Behind(Last + i, atoms[i])
    <2>1. atoms[1] \in AtomType /\ atoms[1].nr = Ahead(counter, 1) /\ atoms[1].follows = 0
      BY <1>3, Naturals DEF Atom, AtomType
    <2>2. ASSUME NEW i \in {2, 3}
          PROVE  /\ atoms[i] \in AtomType /\ atoms[i].nr = Ahead(counter, i)
                 /\ Behind(Last + i, atoms[i])
      <3>1. /\ i \in 1..3 /\ i # 1 /\ i - 1 \in {1, 2} /\ Last + (i - 1) = (Last + i) - 1
            /\ (Last + i) - 1 \in Nat /\ (Last + i) - 1 > context.first
        BY <1>2
      <3>2. atoms[i] = Atom(Ahead(counter, i), Ahead(counter, i - 1), (Last + i) - 1, ok)
        BY <3>1 DEF Remap
      <3>3. Ahead(counter, i - 1) = Ahead(context.start, ((Last + i) - 1) - context.first)
        BY <1>4, <3>1
      <3>. HIDE DEF atoms
      <3>4. Ahead(counter, i) \in 1..Modulus /\ Ahead(counter, i - 1) \in 0..(Modulus + 1)
        BY <1>3, <3>1, Naturals
      <3>5. /\ atoms[i].nr = Ahead(counter, i) /\ atoms[i].dep = Ahead(counter, i - 1)
            /\ atoms[i].follows = (Last + i) - 1
        BY <3>2 DEF Atom
      <3>6. atoms[i] \in AtomType
        BY <3>1, <3>2, <3>4 DEF Atom, AtomType
      <3>7. Behind(Last + i, atoms[i])
        BY <3>1, <3>3, <3>5 DEF Behind
      <3>. QED  BY <3>5, <3>6, <3>7
    <2>. HIDE DEF atoms
    <2>. QED  BY <2>1, <2>2
  <1>6. Core' /\ Last' = Last + 3
    <2>1. atoms \in [1..3 -> AtomType] /\ 3 \in 1..3
      <3>1. DOMAIN atoms = 1..3 /\ atoms = [i \in 1..3 |-> atoms[i]]
        OBVIOUS
      <3>. HIDE DEF atoms
      <3>. QED  BY <1>5, <3>1
    <2>2. Issue(atoms, ok)
      BY <1>1
    <2>. HIDE DEF atoms
    <2>. QED  BY <1>0, <1>5, <2>1, <2>2, IssueKeeps
  <1>7. batch'[t] \in {0, Last + 3} /\ \A u \in Threads \ {t} : batch'[u] = batch[u]
    BY <1>1 DEF ThreadTypes
  <1>8. ThreadTypes'
    <2>1. 0..Last \subseteq 0..(Last + 3) /\ Last + 3 \in 0..(Last + 3) /\ 0 \in 0..(Last + 3)
      BY <1>2
    <2>2. mine' \in [Threads -> 0..Last'] /\ got' \in [Threads -> 0..Last'] /\ batch' \in [Threads -> 0..Last']
      BY <1>0, <1>1, <1>6, <2>1 DEF ThreadTypes
    <2>. QED  BY <1>0, <1>2, <2>2 DEF ThreadTypes
  <1>9. Owners' /\ NoStaleMatch'
    <2>1. \A u \in Threads : /\ batch'[u] # 0 => batched' /\ batch'[u] > context'.first
                             /\ pc'[u] = "batched" => batch'[u] # 0
                             /\ pc'[u] = "idle" => batch'[u] = 0
      <3>1. ASSUME NEW u \in Threads, u # t
            PROVE  /\ batch'[u] # 0 => batched' /\ batch'[u] > context'.first
                   /\ pc'[u] = "batched" => batch'[u] # 0
                   /\ pc'[u] = "idle" => batch'[u] = 0
        BY <1>0, <1>2, <1>7, <3>1 DEF Owners
      <3>2. pc'[t] = "locked" /\ (batch'[t] # 0 => batched' /\ batch'[t] > context'.first)
        BY <1>0, <1>2, <1>7
      <3>. QED  BY <3>1, <3>2
    <2>2. Owners'
      BY <1>0, <1>2, <2>1 DEF Owners
    <2>3. NoStaleMatch'
      BY <1>0, <1>2 DEF NoStaleMatch
    <2>. QED  BY <2>2, <2>3
  <1>. QED  BY <1>6, <1>8, <1>9

------------------------------------------------------------------------
(* The other steps *)

\* Steps that give out no number and replace no context.
LEMMA CoreKept ==
  ASSUME Core, UNCHANGED <<jobs, counter, context, crossed>>,
         running' \subseteq running, Outstanding' \subseteq Outstanding
  PROVE  Core' /\ Last' = Last
  <1>1. Last' = Last /\ Jobs' = Jobs
    BY DEF Last, Jobs
  <1>2. running' \subseteq Jobs /\ unread' \subseteq Jobs /\ late' \subseteq Jobs
    BY DEF Core, JobTypes, Outstanding
  <1>3. JobTypes'
    BY <1>1, <1>2 DEF Core, JobTypes, AtomType
  <1>4. Numbering' /\ Events' /\ Depends'
    BY <1>1 DEF Core, Numbering, Events, Depends, Behind, Zone
  <1>. QED  BY <1>1, <1>3, <1>4 DEF Core

LEMMA AcquireStep ==
  ASSUME AtomInv, NEW t \in Threads, Acquire(t)
  PROVE  AtomInv'
  <1>. USE DEF AtomInv
  <1>1. /\ pc[t] = "idle" /\ lock = None /\ lock' = t /\ pc'[t] = "locked"
        /\ pc' \in [Threads -> {"idle", "locked", "wait", "batched"}]
        /\ \A u \in Threads \ {t} : pc'[u] = pc[u]
        /\ UNCHANGED <<batched, opened, context, crossed, counter, jobs, running, unread, late,
                       mine, got, batch>>
    BY DEF Acquire, Goto, ThreadTypes, kernel, local, epoch
  <1>2. Core' /\ Last' = Last
    BY <1>1, CoreKept DEF Outstanding
  <1>3. None \notin Threads
    BY AtomThreadsAssumption
  <1>4. ThreadTypes' /\ Owners' /\ NoStaleMatch'
    BY <1>1, <1>2, <1>3 DEF ThreadTypes, Owners, NoStaleMatch
  <1>. QED  BY <1>2, <1>4

\* Leaving the critical section forgets the atom.
LEMMA Released ==
  ASSUME ThreadTypes, NEW t \in Threads, Release(t)
  PROVE  /\ lock' = None /\ mine'[t] = 0 /\ got'[t] = 0
         /\ pc'[t] = IF batch[t] = 0 THEN "idle" ELSE "batched"
         /\ \A u \in Threads \ {t} : mine'[u] = mine[u] /\ got'[u] = got[u] /\ pc'[u] = pc[u]
         /\ pc' \in [Threads -> {"idle", "locked", "wait", "batched"}]
         /\ Last \in Nat => mine' \in [Threads -> 0..Last] /\ got' \in [Threads -> 0..Last]
  BY DEF Release, Goto, ThreadTypes

LEMMA UnlockStep ==
  ASSUME AtomInv, NEW t \in Threads, Unlock(t)
  PROVE  AtomInv'
  <1>. USE DEF AtomInv
  <1>0. Last \in Nat
    BY DEF Core, JobTypes, Last
  <1>1. /\ lock = t /\ lock' = None /\ mine'[t] = 0 /\ got'[t] = 0
        /\ pc'[t] = IF batch[t] = 0 THEN "idle" ELSE "batched"
        /\ \A u \in Threads \ {t} : mine'[u] = mine[u] /\ got'[u] = got[u] /\ pc'[u] = pc[u]
        /\ pc' \in [Threads -> {"idle", "locked", "wait", "batched"}]
        /\ mine' \in [Threads -> 0..Last] /\ got' \in [Threads -> 0..Last]
        /\ UNCHANGED <<batched, opened, context, crossed, counter, jobs, running, unread, late, batch>>
    BY <1>0, Released DEF Unlock, kernel, epoch, Owners
  <1>2. Core' /\ Last' = Last
    BY <1>1, CoreKept DEF Outstanding
  <1>3. ThreadTypes' /\ Owners' /\ NoStaleMatch'
    BY <1>1, <1>2 DEF ThreadTypes, Owners, NoStaleMatch
  <1>. QED  BY <1>2, <1>3

LEMMA WaitBatchStep ==
  ASSUME AtomInv, NEW t \in Threads, WaitBatch(t)
  PROVE  AtomInv'
  <1>. USE DEF AtomInv
  <1>0. Last \in Nat /\ batch[t] \in 0..Last /\ batched /\ batch[t] # 0 /\ batch[t] > context.first
    BY DEF Core, JobTypes, Last, ThreadTypes, Owners, WaitBatch
  <1>1. /\ pc[t] = "batched" /\ lock = None /\ lock' = t
        /\ mine'[t] = batch[t] /\ got'[t] = 0 /\ pc'[t] = "wait" /\ batch'[t] = 0
        /\ \A u \in Threads \ {t} : /\ mine'[u] = mine[u] /\ got'[u] = got[u] /\ pc'[u] = pc[u]
                                    /\ batch'[u] = batch[u]
        /\ pc' \in [Threads -> {"idle", "locked", "wait", "batched"}]
        /\ mine' \in [Threads -> 0..Last] /\ got' \in [Threads -> 0..Last]
        /\ batch' \in [Threads -> 0..Last]
        /\ UNCHANGED <<batched, opened, context, crossed, counter, jobs, running, unread, late>>
    BY <1>0 DEF WaitBatch, Await, Goto, ThreadTypes, kernel, epoch
  <1>2. Core' /\ Last' = Last
    BY <1>1, CoreKept DEF Outstanding
  <1>3. None \notin Threads
    BY AtomThreadsAssumption
  <1>4. ThreadTypes' /\ Owners' /\ NoStaleMatch'
    BY <1>0, <1>1, <1>2, <1>3 DEF ThreadTypes, Owners, NoStaleMatch
  <1>. QED  BY <1>2, <1>4

\* An outstanding event with the number a thread waits for is its atom's, or contexts have
\* crossed, or the number has come round.
LEMMA MatchIsMine ==
  ASSUME AtomInv, NEW t \in Threads, mine[t] # 0, NEW e \in Outstanding,
         jobs[e].nr = jobs[mine[t]].nr
  PROVE  e = mine[t] \/ crossed \/ e >= mine[t] + Modulus
  <1>. USE DEF AtomInv
  <1>. DEFINE m == mine[t]
              first == context.first
  <1>1. /\ Last \in Nat /\ Jobs = 1..Last /\ e \in Jobs /\ m \in Jobs /\ m > first /\ first \in Nat
        /\ e > Last - Patience
    <2>1. Last \in Nat /\ Jobs = 1..Last /\ first \in Nat
      BY DEF Core, JobTypes, Jobs, Last
    <2>3. e \in Jobs /\ e > Last - Patience
      <3>1. Outstanding \subseteq Jobs
        BY DEF Core, JobTypes, Outstanding
      <3>. QED  BY <3>1 DEF Core, Events
    <2>2. m \in 0..Last /\ m # 0 /\ m > first
      BY DEF ThreadTypes, Owners
    <2>. QED  BY <2>1, <2>2, <2>3
  <1>2. CASE e > first
    <2>1. ~(e < m)
      <3>1. SUFFICES ASSUME e < m PROVE FALSE
        OBVIOUS
      <3>2. m < e + Modulus
        BY <1>1, Naturals
      <3>. QED  BY <1>1, <1>2, <3>1, <3>2, NumbersApart DEF Core
    <2>2. ~(m < e /\ e < m + Modulus)
      BY <1>1, NumbersApart DEF Core
    <2>. QED  BY <1>1, <2>1, <2>2, Naturals
  <1>3. CASE e <= first /\ ~crossed
    <2>1. jobs[e].nr \notin Zone(context.start)
      BY <1>3 DEF Core, Events
    <2>2. m - first \in 1..Patience
      BY <1>1, <1>3, Naturals
    <2>3. jobs[m].nr = Ahead(context.start, m - first)
      BY <1>1 DEF Core, Numbering
    <2>. QED  BY <2>1, <2>2, <2>3 DEF Zone
  <1>4. e > first \/ e <= first
    BY <1>1
  <1>. QED  BY <1>2, <1>3, <1>4

\* An event is kept only if it has the awaited number.
LEMMA ReadStep ==
  ASSUME AtomInv, NEW t \in Threads, Read(t)
  PROVE  AtomInv'
  <1>. USE DEF AtomInv
  <1>1. PICK e \in unread :
          /\ unread' = unread \ {e}
          /\ IF Accepts(jobs[e].nr, jobs[mine[t]].nr)
             THEN got' = [got EXCEPT ![t] = e] /\ Goto(t, "locked")
             ELSE UNCHANGED <<got, pc>>
    BY DEF Read
  <1>2. /\ pc[t] = "wait" /\ lock = t /\ mine[t] # 0 /\ mine[t] > context.first
        /\ UNCHANGED <<batched, opened, context, crossed, counter, jobs, running, late, lock, mine, batch>>
    BY DEF Read, Owners, epoch
  <1>3. Core' /\ Last' = Last
    BY <1>1, <1>2, CoreKept DEF Outstanding
  <1>4. CASE Accepts(jobs[e].nr, jobs[mine[t]].nr)
    <2>1. e \in Outstanding /\ e \in 0..Last
      <3>1. e \in Jobs /\ Jobs \subseteq 0..Last
        BY DEF Core, JobTypes, Jobs, Last
      <3>. QED  BY <3>1 DEF Outstanding
    <2>2. e = mine[t] \/ crossed \/ e >= mine[t] + Modulus
      BY <1>2, <1>4, <2>1, MatchIsMine DEF Accepts
    <2>3. /\ got'[t] = e /\ got' \in [Threads -> 0..Last] /\ pc'[t] = "locked"
          /\ pc' \in [Threads -> {"idle", "locked", "wait", "batched"}]
          /\ \A u \in Threads \ {t} : got'[u] = got[u] /\ pc'[u] = pc[u]
      BY <1>1, <1>4, <2>1 DEF Goto, ThreadTypes
    <2>4. ThreadTypes' /\ Owners'
      BY <1>2, <1>3, <2>3 DEF ThreadTypes, Owners
    <2>5. NoStaleMatch'
      BY <1>2, <2>2, <2>3 DEF NoStaleMatch
    <2>. QED  BY <1>3, <2>4, <2>5
  <1>5. CASE ~Accepts(jobs[e].nr, jobs[mine[t]].nr)
    <2>1. UNCHANGED <<got, pc>>
      BY <1>1, <1>5
    <2>2. ThreadTypes' /\ Owners' /\ NoStaleMatch'
      BY <1>2, <1>3, <2>1 DEF ThreadTypes, Owners, NoStaleMatch
    <2>. QED  BY <1>3, <2>2
  <1>. QED  BY <1>4, <1>5

LEMMA TimeoutStep ==
  ASSUME AtomInv, NEW t \in Threads, Timeout(t)
  PROVE  AtomInv'
  <1>. USE DEF AtomInv
  <1>1. /\ pc[t] = "wait" /\ lock = t /\ pc'[t] = "locked"
        /\ pc' \in [Threads -> {"idle", "locked", "wait", "batched"}]
        /\ \A u \in Threads \ {t} : pc'[u] = pc[u]
        /\ UNCHANGED <<batched, opened, context, crossed, counter, jobs, running, unread, late, lock,
                       mine, got, batch>>
    BY DEF Timeout, Goto, ThreadTypes, Owners, kernel, local, epoch
  <1>2. Core' /\ Last' = Last
    BY <1>1, CoreKept DEF Outstanding
  <1>3. ThreadTypes' /\ Owners' /\ NoStaleMatch'
    BY <1>1, <1>2 DEF ThreadTypes, Owners, NoStaleMatch
  <1>. QED  BY <1>2, <1>3

\* A new context has given out no number, and knows whether it may meet an old event.
LEMMA Replaced ==
  ASSUME Core, NEW start \in {0, SafeZone}, Replace(start), counter' = start, UNCHANGED jobs
  PROVE  /\ Core' /\ Last' = Last /\ context'.first = Last /\ (crossed => crossed')
  <1>1. PICK before, after \in SUBSET Outstanding :
          /\ running' = {} /\ unread' = {} /\ late' = after
          /\ context' = [first |-> Last, start |-> start]
          /\ crossed' = (crossed \/ \E j \in after : jobs[j].nr \in Zone(start))
    BY DEF Replace, Drain
  <1>2. Last' = Last /\ Jobs' = Jobs /\ Last \in Nat /\ Jobs = 1..Last /\ start \in 0..Modulus
    BY Naturals DEF Last, Jobs, Core, JobTypes
  <1>3. context'.first = Last /\ context'.start = start /\ Outstanding' = after /\ after \subseteq Outstanding
    BY <1>1 DEF Outstanding
  <1>4. Outstanding \subseteq Jobs
    BY DEF Outstanding, Core, JobTypes
  <1>5. JobTypes'
    <2>1. late' \subseteq Jobs /\ crossed' \in BOOLEAN
      <3>1. crossed \in BOOLEAN
        BY Zenon DEF Core, JobTypes
      <3>. QED  BY <1>1, <1>4, <3>1
    <2>2. context' \in [first : 0..Last, start : {0, SafeZone}]
      BY <1>1, <1>2
    <2>. QED  BY <1>1, <1>2, <2>1, <2>2 DEF Core, JobTypes, AtomType
  <1>6. Numbering'
    <2>1. Last - Last = 0
      BY <1>2
    <2>2. counter' = Ahead(start, Last - Last)
      BY <2>1 DEF Ahead
    <2>. QED  BY <1>2, <1>3, <2>2 DEF Numbering
  <1>7. Events'
    <2>1. \A j \in Outstanding' : j > Last' - Patience
      BY <1>2, <1>3 DEF Core, Events
    <2>2. crossed' \/ \A j \in after : jobs[j].nr \notin Zone(start)
      BY <1>1
    <2>. QED  BY <1>1, <1>3, <2>1, <2>2 DEF Events, Zone
  <1>8. Depends'
    BY <1>1 DEF Depends
  <1>. QED  BY <1>1, <1>2, <1>3, <1>5, <1>6, <1>7, <1>8 DEF Core

LEMMA ReopenStep ==
  ASSUME AtomInv, NEW t \in Threads, Reopen(t)
  PROVE  AtomInv'
  <1>. USE DEF AtomInv
  <1>0. Last \in Nat
    BY DEF Core, JobTypes, Last
  <1>1. /\ pc[t] = "locked" /\ lock = t /\ ~batched /\ Replace(SafeZone) /\ counter' = SafeZone
        /\ opened.reopens < MaxReopens /\ opened' = [opened EXCEPT !.reopens = @ + 1]
        /\ Release(t) /\ UNCHANGED <<batched, jobs, batch>>
    BY DEF Reopen, ReopenCounter, Owners
  <1>2. Core' /\ Last' = Last /\ (crossed => crossed')
    BY <1>1, Replaced
  <1>3. opened' \in [reopens : 0..MaxReopens, creates : 0..MaxCreates]
    BY <1>1, Naturals DEF ThreadTypes
  <1>4. /\ lock' = None /\ mine'[t] = 0 /\ got'[t] = 0
        /\ pc'[t] = IF batch[t] = 0 THEN "idle" ELSE "batched"
        /\ \A u \in Threads \ {t} : mine'[u] = mine[u] /\ got'[u] = got[u] /\ pc'[u] = pc[u]
        /\ pc' \in [Threads -> {"idle", "locked", "wait", "batched"}]
        /\ mine' \in [Threads -> 0..Last] /\ got' \in [Threads -> 0..Last]
    BY <1>0, <1>1, Released
  <1>5. ThreadTypes'
    BY <1>1, <1>2, <1>3, <1>4 DEF ThreadTypes
  <1>6. Owners' /\ NoStaleMatch'
    <2>1. \A u \in Threads \ {t} : mine[u] = 0 /\ pc[u] \notin {"locked", "wait"}
      BY <1>1 DEF Owners
    <2>2. \A u \in Threads : batch[u] = 0
      BY <1>1 DEF Owners
    <2>3. \A u \in Threads : mine'[u] = 0
      BY <1>4, <2>1
    <2>4. Owners'
      BY <1>1, <1>4, <2>1, <2>2, <2>3 DEF Owners
    <2>5. NoStaleMatch'
      BY <1>2, <1>4 DEF NoStaleMatch
    <2>. QED  BY <2>4, <2>5
  <1>. QED  BY <1>2, <1>5, <1>6

LEMMA RecreateStep ==
  ASSUME AtomInv, Recreate
  PROVE  AtomInv'
  <1>. USE DEF AtomInv
  <1>1. /\ \A t \in Threads : pc[t] = "idle"
        /\ opened.creates < MaxCreates /\ opened' = [opened EXCEPT !.creates = @ + 1]
        /\ Replace(0) /\ counter' = 0
        /\ UNCHANGED <<batched, jobs, lock, pc, mine, got, batch>>
    BY DEF Recreate, local
  <1>2. Core' /\ Last' = Last /\ (crossed => crossed')
    BY <1>1, Replaced
  <1>3. opened' \in [reopens : 0..MaxReopens, creates : 0..MaxCreates]
    BY <1>1, Naturals DEF ThreadTypes
  <1>4. \A t \in Threads : mine[t] = 0 /\ batch[t] = 0
    BY <1>1 DEF Owners
  <1>5. ThreadTypes' /\ Owners' /\ NoStaleMatch'
    BY <1>1, <1>2, <1>3, <1>4 DEF ThreadTypes, Owners, NoStaleMatch
  <1>. QED  BY <1>2, <1>5

LEMMA KernelStep ==
  ASSUME AtomInv, NEW j \in Jobs, Complete(j) \/ Deliver(j)
  PROVE  AtomInv'
  <1>. USE DEF AtomInv
  <1>1. /\ running' \subseteq running /\ Outstanding' \subseteq Outstanding
        /\ UNCHANGED <<batched, opened, context, crossed, counter, jobs, lock, pc, mine, got, batch>>
    BY DEF Complete, Deliver, local, epoch, Outstanding
  <1>2. Core' /\ Last' = Last
    BY <1>1, CoreKept
  <1>3. ThreadTypes' /\ Owners' /\ NoStaleMatch'
    BY <1>1, <1>2 DEF ThreadTypes, Owners, NoStaleMatch
  <1>. QED  BY <1>2, <1>3

LEMMA InitAtoms == Init => AtomInv
  <1>. SUFFICES ASSUME Init PROVE AtomInv
    OBVIOUS
  <1>1. Last = 0 /\ jobs \in Seq(AtomType) /\ Jobs = {} /\ Outstanding = {}
    BY DEF Init, Jobs, Last, Outstanding
  <1>2. batched \in BOOLEAN /\ crossed \in BOOLEAN
    BY Zenon DEF Init
  <1>3. JobTypes
    BY <1>1, <1>2, Naturals DEF Init, JobTypes
  <1>4. Numbering /\ Events /\ Depends
    BY <1>1 DEF Init, Numbering, Events, Depends, Ahead, Outstanding
  <1>5. ThreadTypes /\ Owners /\ NoStaleMatch
    BY <1>1, <1>2, Naturals DEF Init, ThreadTypes, Owners, NoStaleMatch
  <1>. QED  BY <1>3, <1>4, <1>5 DEF AtomInv, Core

LEMMA NextAtoms == ASSUME AtomInv, [Next]_vars PROVE AtomInv'
  <1>1. ASSUME NEW t \in Threads, Call(t) PROVE AtomInv'
    BY <1>1, AcquireStep, UnlockStep, SubmitJobStep, SlotUnwedgeStep, SubmitBatchStep, WaitBatchStep,
       ReadStep, TimeoutStep, ReopenStep DEF Call
  <1>2. CASE Kernel
    BY <1>2, KernelStep DEF Kernel
  <1>3. CASE UNCHANGED vars
    <2>1. UNCHANGED <<batched, opened, context, crossed, counter, jobs, running, unread, late, lock, pc,
                      mine, got, batch>>
      BY <1>3 DEF vars, kernel, local, epoch
    <2>2. Core' /\ Last' = Last
      BY <2>1, CoreKept DEF AtomInv, Outstanding
    <2>3. ThreadTypes' /\ Owners' /\ NoStaleMatch'
      BY <2>1, <2>2 DEF AtomInv, ThreadTypes, Owners, NoStaleMatch
    <2>. QED  BY <2>2, <2>3 DEF AtomInv
  <1>. QED  BY <1>1, <1>2, <1>3, RecreateStep DEF Next

------------------------------------------------------------------------
(* Theorems *)

\* Live atoms are among the last Patience numbers of the open context.
LEMMA LiveDiffer == ASSUME Core PROVE NoLiveCollision
  <1>. SUFFICES ASSUME NEW i \in running, NEW j \in running, jobs[i].nr = jobs[j].nr, i # j PROVE FALSE
    BY DEF NoLiveCollision
  <1>1. /\ Last \in Nat /\ i \in 1..Last /\ j \in 1..Last /\ i \in Jobs /\ j \in Jobs
        /\ i > context.first /\ j > context.first
        /\ i > Last - Patience /\ j > Last - Patience
    BY DEF Core, JobTypes, Jobs, Last, Events, Outstanding
  <1>2. (i < j /\ j < i + Modulus) \/ (j < i /\ i < j + Modulus)
    BY <1>1, Naturals
  <1>. QED  BY <1>1, <1>2, NumbersApart DEF Core

\* The atom with a dependency's number is the one before, if it is alive at all.
LEMMA DependRight == ASSUME Core PROVE DependenciesRight
  <1>. SUFFICES ASSUME NEW j \in running, jobs[j].follows # 0
                PROVE  /\ jobs[j].dep = jobs[jobs[j].follows].nr \/ jobs[j].nr = 1
                       /\ \A i \in running : jobs[i].nr = jobs[j].dep => i = jobs[j].follows
    BY DEF DependenciesRight
  <1>. DEFINE f == j - 1
  <1>1. /\ Last \in Nat /\ Jobs = 1..Last /\ j \in Jobs /\ j > Last - Patience /\ context.first \in Nat
        /\ jobs[j].follows = f /\ f > context.first
        /\ jobs[j].dep = Ahead(context.start, f - context.first) \/ (jobs[j].nr = 1 /\ jobs[j].dep = Modulus + 1)
    <2>1. Behind(j, jobs[j])
      BY DEF Core, Depends
    <2>. QED  BY <2>1 DEF Behind, Core, JobTypes, Jobs, Last, Events, Outstanding
  <1>2. f \in Jobs /\ jobs[f].nr = Ahead(context.start, f - context.first)
    <2>1. f \in Jobs
      BY <1>1
    <2>. QED  BY <1>1, <2>1 DEF Core, Numbering
  <1>3. ASSUME NEW i \in running, jobs[i].nr = jobs[j].dep PROVE i = f
    <2>1. i \in Jobs /\ i > context.first /\ i > Last - Patience /\ jobs[i].nr \in 1..Modulus
      <3>1. i \in Jobs /\ i > context.first /\ i > Last - Patience
        BY DEF Core, JobTypes, Events, Outstanding
      <3>2. jobs[i] \in AtomType
        BY <3>1 DEF Core, JobTypes, Jobs
      <3>. QED  BY <3>1, <3>2 DEF AtomType
    <2>2. jobs[i].nr = jobs[f].nr
      BY <1>1, <1>2, <1>3, <2>1, Naturals
    <2>3. i = f \/ (i < f /\ f < i + Modulus) \/ (f < i /\ i < f + Modulus)
      BY <1>1, <2>1, Naturals
    <2>. HIDE DEF f
    <2>. QED  BY <1>1, <1>2, <2>1, <2>2, <2>3, NumbersApart DEF Core
  <1>. QED  BY <1>1, <1>2, <1>3

\* For any number of threads, atoms, reopens and new device objects, with ioctls that fail
\* and events lost, late or out of order, however often the numbers come round: a wait ends
\* with its own atom's event but for the two cases NoStaleMatch names, live atoms have
\* different numbers, and a dependency names the atom meant or none.
THEOREM AtomsTold == Spec => [](TypeOK /\ NoStaleMatch /\ NoLiveCollision /\ DependenciesRight)
  <1>1. AtomInv => TypeOK /\ NoStaleMatch /\ NoLiveCollision /\ DependenciesRight
    <2>. SUFFICES ASSUME AtomInv PROVE TypeOK /\ NoStaleMatch /\ NoLiveCollision /\ DependenciesRight
      OBVIOUS
    <2>1. \A j \in Jobs : jobs[j] \in [nr : 1..Modulus, dep : 0..(Modulus + 1), follows : 0..Last,
                                       issued : BOOLEAN]
      <3>1. \A j \in Jobs : jobs[j] \in AtomType /\ jobs[j].follows \in 0..Last
        <4>1. \A j \in Jobs : jobs[j] \in AtomType
          BY DEF AtomInv, Core, JobTypes, Jobs
        <4>2. \A j \in Jobs : jobs[j].follows \in Nat
          BY <4>1 DEF AtomType
        <4>. QED  BY <4>1, <4>2 DEF AtomInv, Core, JobTypes, Last
      <3>. QED  BY <3>1 DEF AtomType
    <2>2. TypeOK
      BY <2>1 DEF AtomInv, Core, JobTypes, ThreadTypes, TypeOK
    <2>. QED  BY <2>2, LiveDiffer, DependRight DEF AtomInv
  <1>2. AtomInv /\ [Next]_vars => AtomInv'
    BY NextAtoms
  <1>. QED  BY InitAtoms, <1>1, <1>2, PTL DEF Spec

\* No step forgets a number.
LEMMA HistoryGrows ==
  ASSUME AtomInv, [Next]_vars PROVE \A j \in Jobs : j \in Jobs' /\ jobs'[j] = jobs[j]
  <1>. DEFINE Grown == \A j \in Jobs : j \in Jobs' /\ jobs'[j] = jobs[j]
  <1>0. jobs \in Seq(AtomType)
    BY DEF AtomInv, Core, JobTypes
  <1>1. ASSUME NEW S, jobs \in Seq(S), NEW new \in Seq(S), jobs' = jobs \o new PROVE Grown
    BY <1>1 DEF Jobs
  <1>2. ASSUME NEW atom, jobs' = jobs \o <<atom>> PROVE Grown
    <2>. DEFINE S == AtomType \cup {atom}
    <2>1. <<atom>> \in Seq(S) /\ jobs \in Seq(S)
      <3>1. AtomType \subseteq S /\ atom \in S
        OBVIOUS
      <3>. HIDE DEF S
      <3>. QED  BY <1>0, <3>1
    <2>. HIDE DEF S, Grown
    <2>. QED  BY <1>1, <1>2, <2>1
  <1>3. ASSUME NEW f, f = [i \in 1..3 |-> f[i]], jobs' = jobs \o f PROVE Grown
    <2>. DEFINE S == AtomType \cup {f[i] : i \in 1..3}
    <2>1. f \in Seq(S) /\ jobs \in Seq(S)
      <3>1. AtomType \subseteq S /\ f \in [1..3 -> S]
        BY <1>3
      <3>. HIDE DEF S
      <3>2. \A m \in Nat : \A g \in [1..m -> S] : g \in Seq(S)
        OBVIOUS
      <3>3. f \in Seq(S)
        BY <3>1, <3>2
      <3>. QED  BY <1>0, <3>1, <3>3
    <2>. HIDE DEF S, Grown
    <2>. QED  BY <1>1, <1>3, <2>1
  <1>. HIDE DEF Grown
  <1>4. ASSUME NEW t \in Threads, SubmitJob(t) \/ SlotUnwedge(t) PROVE Grown
    <2>1. \E atom : jobs' = jobs \o <<atom>>
      BY <1>4, Zenon DEF SubmitJob, SlotUnwedge, Issue
    <2>. QED  BY <1>2, <2>1
  <1>5. ASSUME NEW t \in Threads, SubmitBatch(t) PROVE Grown
    <2>1. PICK ok \in BOOLEAN :
             jobs' = jobs \o [i \in 1..3 |-> IF i = 1 THEN Atom(Ahead(counter, 1), 0, 0, ok)
                                           ELSE Atom(Ahead(counter, i), Remap(i), (Last + i) - 1, ok)]
      BY <1>5, Zenon DEF SubmitBatch, Issue
    <2>2. \E f : f = [i \in 1..3 |-> f[i]] /\ jobs' = jobs \o f
      BY <2>1
    <2>. QED  BY <1>3, <2>2
  <1>6. jobs' = jobs \/ \E t \in Threads : SubmitJob(t) \/ SlotUnwedge(t) \/ SubmitBatch(t)
    BY Zenon DEF Next, Call, Kernel, Acquire, Unlock, WaitBatch, Read, Timeout, Reopen, Recreate,
       Complete, Deliver, vars
  <1>7. CASE jobs' = jobs
    BY <1>7 DEF Grown, Jobs
  <1>. QED  BY <1>4, <1>5, <1>6, <1>7 DEF Grown

\* Contexts that cross have used a number above SafeZone, or a device object has been
\* created anew: the first reopen of a context that stayed below is safe.
SafeZoneHolds == crossed => opened.creates > 0 \/ \E j \in Jobs : jobs[j].nr > SafeZone

\* What the counter of a reopened context achieves (pan_kmod_kbase.c:168-175): as long as
\* no number above 200 was used, no late event is taken for an atom of the new context.
THEOREM SafeZoneTrue == Spec => []SafeZoneHolds
  <1>1. Init => SafeZoneHolds
    BY DEF Init, SafeZoneHolds
  <1>2. ASSUME AtomInv, SafeZoneHolds, [Next]_vars PROVE SafeZoneHolds'
    <2>1. CASE UNCHANGED epoch
      <3>1. \A j \in Jobs : j \in Jobs' /\ jobs'[j] = jobs[j]
        BY <1>2, HistoryGrows
      <3>. QED  BY <1>2, <2>1, <3>1 DEF SafeZoneHolds, epoch
    <2>2. ASSUME NEW t \in Threads, Reopen(t) PROVE SafeZoneHolds'
      <3>1. Replace(SafeZone) /\ jobs' = jobs /\ opened' = [opened EXCEPT !.reopens = @ + 1]
        BY <2>2 DEF Reopen
      <3>2. opened'.creates = opened.creates
        BY <3>1 DEF AtomInv, ThreadTypes
      <3>3. ASSUME NEW j \in Outstanding, jobs[j].nr \in Zone(SafeZone) PROVE jobs[j].nr > SafeZone
        <4>1. PICK k \in 1..Patience : jobs[j].nr = Ahead(SafeZone, k)
          BY <3>3 DEF Zone
        <4>2. SafeZone + k - 1 \in 0..(Modulus - 1) /\ k # 0
          BY Naturals
        <4>3. (SafeZone + k - 1) % Modulus = SafeZone + k - 1
          BY <4>2, Naturals
        <4>4. jobs[j].nr = SafeZone + k
          BY <4>1, <4>2, <4>3, Naturals DEF Ahead
        <4>. QED  BY <4>4, Naturals
      <3>4. crossed' => crossed \/ \E j \in Outstanding : jobs[j].nr \in Zone(SafeZone)
        BY <3>1 DEF Replace
      <3>5. Outstanding \subseteq Jobs /\ Jobs' = Jobs
        <4>1. Outstanding \subseteq Jobs
          BY <1>2 DEF AtomInv, Core, JobTypes, Outstanding
        <4>. QED  BY <3>1, <4>1 DEF Jobs
      <3>. QED  BY <1>2, <3>1, <3>2, <3>3, <3>4, <3>5 DEF SafeZoneHolds
    <2>3. CASE Recreate
      <3>1. opened'.creates = opened.creates + 1 /\ opened.creates \in Nat
        BY <1>2, <2>3, Naturals DEF Recreate, AtomInv, ThreadTypes
      <3>. QED  BY <3>1 DEF SafeZoneHolds
    <2>4. UNCHANGED epoch \/ (\E t \in Threads : Reopen(t)) \/ Recreate
      BY <1>2, Zenon DEF Next, Call, Kernel, Acquire, Unlock, SubmitJob, SlotUnwedge, SubmitBatch, WaitBatch,
         Read, Timeout, Complete, Deliver, vars
    <2>. QED  BY <2>1, <2>2, <2>3, <2>4
  <1>. QED  BY InitAtoms, NextAtoms, <1>1, <1>2, PTL DEF Spec

========================================================================
