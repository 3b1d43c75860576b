---------------------- MODULE DescriptorsProofs ----------------------
(***************************************************************************)
(* Lemmas about Descriptors, for any set layouts: the numbers of a class's *)
(* descriptors are all different and grow in the order in which a draw     *)
(* collects them, so each finds its place in the table; and what the       *)
(* application wrote to a set is in the slots of its array.  The lemmas    *)
(* about running sums are those of ImageMemoryProofs.                      *)
(***************************************************************************)
EXTENDS Descriptors, ImageMemoryProofs, FiniteSetTheorems

\* The members of a layout.
LEMMA Shaped ==
  ASSUME NEW l \in DOMAIN Layouts
  PROVE  /\ DOMAIN Layouts = 1..Len(Layouts) /\ Len(Layouts) \in Nat
         /\ Layouts[l].variable \in 0..Len(Bindings(l))
         /\ Len(Bindings(l)) \in Nat /\ DOMAIN Bindings(l) = 1..Len(Bindings(l))
         /\ \A b \in DOMAIN Bindings(l) :
              Bindings(l)[b].count \in Nat /\ Bindings(l)[b].type \in Classes
<1> DEFINE B == [number : Nat, type : Classes, count : Nat]
           L == [bindings : Seq(B), variable : Nat]
<1>1. Layouts \in Seq(L) /\ Layouts[l].variable \in 0..Len(Layouts[l].bindings)
  BY LayoutsAssumption DEF LayoutsAssumption
<1>2. DOMAIN Layouts = 1..Len(Layouts) /\ Len(Layouts) \in Nat /\ Layouts[l] \in L
  <2> HIDE DEF L
  <2> QED BY <1>1
<1>3. Bindings(l) \in Seq(B) /\ Bindings(l) = Layouts[l].bindings
  BY <1>2 DEF Bindings
<1>4. /\ Len(Bindings(l)) \in Nat /\ DOMAIN Bindings(l) = 1..Len(Bindings(l))
      /\ \A b \in DOMAIN Bindings(l) : Bindings(l)[b] \in B
  <2> HIDE DEF B
  <2> QED BY <1>3
<1> QED BY <1>1, <1>2, <1>3, <1>4

\* A function over the first numbers is a sequence.
LEMMA Sequence ==
  ASSUME NEW n \in Nat, NEW f, NEW S, f \in [1..n -> S]
  PROVE  f \in Seq(S) /\ Len(f) = n
<1>1. f \in Seq(S)
  OBVIOUS
<1>2. DOMAIN f = 1..n /\ DOMAIN f = 1..Len(f) /\ Len(f) \in Nat
  BY <1>1
<1> QED BY <1>1, <1>2

\* The slots of a binding lie in the array, behind those of the bindings before it.
LEMMA SlotsApart ==
  ASSUME NEW l \in DOMAIN Layouts
  PROVE  /\ Total(l) \in Nat
         /\ \A b \in DOMAIN Bindings(l) :
              Offset(l, b) \in Nat /\ Offset(l, b) + Bindings(l)[b].count <= Total(l)
         /\ \A b, c \in DOMAIN Bindings(l) :
              b < c => Offset(l, b) + Bindings(l)[b].count <= Offset(l, c)
         /\ Len(Bindings(l)) \in DOMAIN Bindings(l) =>
              Offset(l, Len(Bindings(l))) + Bindings(l)[Len(Bindings(l))].count = Total(l)
<1> DEFINE n == Len(Bindings(l))
           s == PerBinding(l)
<1>1. n \in Nat /\ DOMAIN Bindings(l) = 1..n /\ \A b \in 1..n : Bindings(l)[b].count \in Nat
  BY Shaped
<1>2. s \in [1..n -> Nat] /\ \A b \in 1..n : s[b] = Bindings(l)[b].count
  BY <1>1 DEF PerBinding
<1>3. Total(l) = SumTo(s, Len(s)) /\ \A b : Offset(l, b) = SumTo(s, b - 1)
  BY DEF Total, Offset, SumOf
<1> HIDE DEF s, n
<1>4. s \in Seq(Nat) /\ Len(s) = n
  BY <1>1, <1>2, Sequence
<1>5. /\ \A k \in 0..n : SumTo(s, k) \in Nat
      /\ \A k \in 1..n : SumTo(s, k) = SumTo(s, k - 1) + s[k]
      /\ \A j, k \in 0..n : j <= k => SumTo(s, j) <= SumTo(s, k)
  BY <1>4, SumsGrow
<1>6. n \in 0..n /\ Total(l) = SumTo(s, n)
  BY <1>1, <1>3, <1>4
<1>7. ASSUME NEW b \in 1..n
      PROVE  /\ Offset(l, b) \in Nat /\ b \in 0..n /\ b - 1 \in 0..n
             /\ Offset(l, b) + Bindings(l)[b].count = SumTo(s, b) /\ SumTo(s, b) \in Nat
  <2>1. b \in 0..n /\ b - 1 \in 0..n
    BY <1>1
  <2> QED BY <1>2, <1>3, <1>5, <2>1
<1>8. \A b \in 1..n : SumTo(s, b) <= Total(l)
  BY <1>5, <1>6, <1>7
<1>9. ASSUME NEW b \in 1..n, NEW c \in 1..n, b < c PROVE SumTo(s, b) <= Offset(l, c)
  <2>1. b <= c - 1 /\ b \in 0..n /\ c - 1 \in 0..n
    BY <1>1, <1>9
  <2> QED BY <1>3, <1>5, <2>1
<1> QED BY <1>1, <1>5, <1>6, <1>7, <1>8, <1>9 DEF n

\* Where a class's descriptors of a layout are numbered.
LEMMA PlacesApart ==
  ASSUME NEW class \in Classes, NEW l \in DOMAIN Layouts
  PROVE  /\ PerSet(class) \in Seq(Nat) /\ Len(PerSet(class)) = Len(Layouts)
         /\ PerSet(class)[l] \in Nat
         /\ \A b \in DOMAIN Bindings(l) : Bindings(l)[b].type = class =>
              /\ SumTo(OfClass(l, class), b - 1) \in Nat
              /\ SumTo(OfClass(l, class), b - 1) + Bindings(l)[b].count <= PerSet(class)[l]
         /\ \A b, c \in DOMAIN Bindings(l) :
              Bindings(l)[b].type = class /\ b < c =>
                SumTo(OfClass(l, class), b - 1) + Bindings(l)[b].count
                  <= SumTo(OfClass(l, class), c - 1)
<1>1. ASSUME NEW k \in DOMAIN Layouts
      PROVE  LET n == Len(Bindings(k))
                 s == OfClass(k, class)
             IN /\ n \in Nat /\ DOMAIN Bindings(k) = 1..n
                /\ \A j \in 0..n : SumTo(s, j) \in Nat
                /\ \A j \in 1..n : SumTo(s, j) = SumTo(s, j - 1) + s[j]
                /\ \A i, j \in 0..n : i <= j => SumTo(s, i) <= SumTo(s, j)
                /\ PerSet(class)[k] = SumTo(s, n) /\ PerSet(class)[k] \in Nat
                /\ \A b \in 1..n : Bindings(k)[b].count \in Nat
                /\ \A b \in 1..n : Bindings(k)[b].type = class => s[b] = Bindings(k)[b].count
  <2> DEFINE n == Len(Bindings(k))
             s == OfClass(k, class)
  <2>1. n \in Nat /\ DOMAIN Bindings(k) = 1..n /\ \A b \in 1..n : Bindings(k)[b].count \in Nat
    BY Shaped
  <2>2. /\ s \in [1..n -> Nat]
        /\ \A b \in 1..n : Bindings(k)[b].type = class => s[b] = Bindings(k)[b].count
    BY <2>1 DEF OfClass
  <2>3. PerSet(class)[k] = SumTo(s, Len(s))
    BY DEF PerSet, SumOf
  <2> HIDE DEF s, n
  <2>4. s \in Seq(Nat) /\ Len(s) = n
    BY <2>1, <2>2, Sequence
  <2>5. /\ \A j \in 0..n : SumTo(s, j) \in Nat
        /\ \A j \in 1..n : SumTo(s, j) = SumTo(s, j - 1) + s[j]
        /\ \A i, j \in 0..n : i <= j => SumTo(s, i) <= SumTo(s, j)
    BY <2>4, SumsGrow
  <2>6. n \in 0..n
    BY <2>1
  <2> QED BY <2>1, <2>2, <2>3, <2>4, <2>5, <2>6 DEF s, n
<1> DEFINE n == Len(Bindings(l))
           s == OfClass(l, class)
<1>2. /\ n \in Nat /\ DOMAIN Bindings(l) = 1..n
      /\ \A j \in 0..n : SumTo(s, j) \in Nat
      /\ \A j \in 1..n : SumTo(s, j) = SumTo(s, j - 1) + s[j]
      /\ \A i, j \in 0..n : i <= j => SumTo(s, i) <= SumTo(s, j)
      /\ PerSet(class)[l] = SumTo(s, n) /\ PerSet(class)[l] \in Nat
      /\ \A b \in 1..n : Bindings(l)[b].count \in Nat
      /\ \A b \in 1..n : Bindings(l)[b].type = class => s[b] = Bindings(l)[b].count
  BY <1>1
<1>3. PerSet(class) \in Seq(Nat) /\ Len(PerSet(class)) = Len(Layouts)
  <2>1. DOMAIN Layouts = 1..Len(Layouts) /\ Len(Layouts) \in Nat
    BY Shaped
  <2>2. \A k \in DOMAIN Layouts : PerSet(class)[k] \in Nat
    BY <1>1
  <2>3. PerSet(class) \in [1..Len(Layouts) -> Nat]
    BY <2>1, <2>2 DEF PerSet
  <2> QED BY <2>1, <2>3, Sequence
<1> HIDE DEF s, n
<1>4. ASSUME NEW b \in 1..n, Bindings(l)[b].type = class
      PROVE  /\ SumTo(s, b - 1) \in Nat /\ SumTo(s, b) \in Nat
             /\ SumTo(s, b - 1) + Bindings(l)[b].count = SumTo(s, b)
  <2>1. b \in 0..n /\ b - 1 \in 0..n
    BY <1>2
  <2> QED BY <1>2, <1>4, <2>1
<1>5. \A b \in 1..n : SumTo(s, b) <= PerSet(class)[l]
  <2>1. n \in 0..n /\ \A b \in 1..n : b \in 0..n /\ b <= n
    BY <1>2
  <2> QED BY <1>2, <2>1
<1>6. ASSUME NEW b \in 1..n, NEW c \in 1..n, b < c PROVE SumTo(s, b) <= SumTo(s, c - 1)
  <2>1. b <= c - 1 /\ b \in 0..n /\ c - 1 \in 0..n
    BY <1>2, <1>6
  <2> QED BY <1>2, <2>1
<1>7. \A b \in 1..n : Bindings(l)[b].type = class =>
        /\ SumTo(s, b - 1) \in Nat /\ SumTo(s, b - 1) + Bindings(l)[b].count <= PerSet(class)[l]
  BY <1>4, <1>5
<1>8. \A b, c \in 1..n : Bindings(l)[b].type = class /\ b < c =>
        SumTo(s, b - 1) + Bindings(l)[b].count <= SumTo(s, c - 1)
  BY <1>4, <1>6
<1> QED BY <1>2, <1>3, <1>7, <1>8 DEF s

\* What Asked collects.
LEMMA AskedFor ==
  ASSUME NEW class, NEW x \in Asked(class)
  PROVE  /\ x.l \in DOMAIN Layouts /\ x.b \in DOMAIN Bindings(x.l)
         /\ x.elem \in 0..Bindings(x.l)[x.b].count - 1
         /\ x.l <= BoundSets /\ bound[x.l] # None /\ Bindings(x.l)[x.b].type = class
         /\ x = [l |-> x.l, b |-> x.b, elem |-> x.elem]
<1>1. PICK p \in Places :
        /\ p[1] <= BoundSets /\ bound[p[1]] # None /\ Bindings(p[1])[p[2]].type = class
        /\ \E e \in 0..Bindings(p[1])[p[2]].count - 1 : x = [l |-> p[1], b |-> p[2], elem |-> e]
  BY DEF Asked
<1>2. PICK l \in DOMAIN Layouts : p \in {l} \X DOMAIN Bindings(l)
  BY DEF Places
<1>3. p[1] = l /\ p[2] \in DOMAIN Bindings(l)
  BY <1>2
<1> QED BY <1>1, <1>3

\* A descriptor's number, and that they are numbered in the order of the loops.
LEMMA Numbering ==
  ASSUME NEW class \in Classes
  PROVE  /\ \A x \in Asked(class) : Index(x) \in Nat /\ (Fits(class) => Index(x) < TableSize)
         /\ \A x, y \in Asked(class) : Before(x, y) => Index(x) < Index(y)
<1> DEFINE s == PerSet(class)
           n == Len(Layouts)
           inner(x) == SumTo(OfClass(x.l, class), x.b - 1)
           outer(x) == SumTo(s, x.l - 1)
<1>1. ASSUME NEW x \in Asked(class)
      PROVE  /\ n \in Nat /\ x.l \in 1..n /\ s \in Seq(Nat) /\ Len(s) = n /\ s[x.l] \in Nat
             /\ inner(x) \in Nat /\ x.elem \in Nat /\ inner(x) + x.elem < s[x.l]
             /\ Index(x) = outer(x) + inner(x) + x.elem
  <2>1. /\ x.l \in DOMAIN Layouts /\ x.b \in DOMAIN Bindings(x.l)
        /\ x.elem \in 0..Bindings(x.l)[x.b].count - 1 /\ Bindings(x.l)[x.b].type = class
    BY AskedFor
  <2>2. n \in Nat /\ x.l \in 1..n /\ Bindings(x.l)[x.b].count \in Nat
    BY <2>1, Shaped
  <2>3. /\ s \in Seq(Nat) /\ Len(s) = n /\ s[x.l] \in Nat /\ inner(x) \in Nat
        /\ inner(x) + Bindings(x.l)[x.b].count <= s[x.l]
    BY <2>1, PlacesApart
  <2>4. Index(x) = outer(x) + inner(x) + x.elem
    BY <2>1 DEF Index, Indices, ResourceIndex
  <2> HIDE DEF s, n, inner, outer
  <2>5. x.elem \in Nat /\ inner(x) + x.elem < s[x.l]
    BY <2>1, <2>2, <2>3
  <2> QED BY <2>2, <2>3, <2>4, <2>5
<1> HIDE DEF s, n, inner, outer
<1>2. ASSUME NEW x \in Asked(class)
      PROVE  /\ outer(x) \in Nat /\ SumTo(s, x.l) \in Nat /\ SumTo(s, x.l) = outer(x) + s[x.l]
             /\ \A k \in 0..n : x.l <= k => SumTo(s, x.l) <= SumTo(s, k)
             /\ \A k \in 0..n : SumTo(s, k) \in Nat
  <2>1. n \in Nat /\ x.l \in 1..n /\ s \in Seq(Nat) /\ Len(s) = n
    BY <1>1
  <2>2. /\ \A k \in 0..n : SumTo(s, k) \in Nat
        /\ \A k \in 1..n : SumTo(s, k) = SumTo(s, k - 1) + s[k]
        /\ \A j, k \in 0..n : j <= k => SumTo(s, j) <= SumTo(s, k)
    BY <2>1, SumsGrow
  <2>3. x.l \in 0..n /\ x.l - 1 \in 0..n
    BY <2>1
  <2> QED BY <2>1, <2>2, <2>3 DEF outer
<1>3. ASSUME NEW x \in Asked(class) PROVE Index(x) \in Nat /\ Index(x) < SumTo(s, x.l)
  <2>1. /\ outer(x) \in Nat /\ inner(x) \in Nat /\ x.elem \in Nat /\ s[x.l] \in Nat
        /\ inner(x) + x.elem < s[x.l]
    BY <1>1, <1>2
  <2>2. outer(x) + inner(x) + x.elem \in Nat /\ outer(x) + inner(x) + x.elem < outer(x) + s[x.l]
    BY <2>1
  <2> QED BY <1>1, <1>2, <2>2
<1>6. ASSUME NEW x \in Asked(class) PROVE outer(x) <= Index(x)
  <2>1. outer(x) \in Nat /\ inner(x) \in Nat /\ x.elem \in Nat
    BY <1>1, <1>2
  <2>2. outer(x) <= outer(x) + inner(x) + x.elem
    BY <2>1
  <2> QED BY <1>1, <2>2
<1>4. ASSUME NEW x \in Asked(class), Fits(class) PROVE Index(x) < TableSize
  <2>1. n \in 0..n /\ x.l <= n
    BY <1>1
  <2>2. SumTo(s, n) <= TableSize
    BY <1>1, <1>4 DEF Fits, SumOf, s
  <2> QED BY <1>2, <1>3, <2>1, <2>2, BoundsAssumption DEF BoundsAssumption
<1>5. ASSUME NEW x \in Asked(class), NEW y \in Asked(class), Before(x, y) PROVE Index(x) < Index(y)
  <2>1. CASE x.l < y.l
    <3>1. x.l <= y.l - 1 /\ y.l - 1 \in 0..n
      BY <1>1, <2>1
    <3>2. SumTo(s, x.l) <= outer(y)
      BY <1>2, <3>1 DEF outer
    <3>3. /\ Index(x) < SumTo(s, x.l) /\ outer(y) <= Index(y) /\ Index(x) \in Nat
          /\ Index(y) \in Nat /\ SumTo(s, x.l) \in Nat /\ outer(y) \in Nat
      BY <1>2, <1>3, <1>6
    <3> QED BY <3>2, <3>3
  <2>2. CASE x.l = y.l /\ x.b < y.b
    <3>1. /\ x.l \in DOMAIN Layouts /\ x.b \in DOMAIN Bindings(x.l) /\ y.b \in DOMAIN Bindings(x.l)
          /\ x.elem \in 0..Bindings(x.l)[x.b].count - 1 /\ Bindings(x.l)[x.b].type = class
      BY <2>2, AskedFor
    <3>2. inner(x) + Bindings(x.l)[x.b].count <= inner(y) /\ Bindings(x.l)[x.b].count \in Nat
      BY <2>2, <3>1, PlacesApart, Shaped DEF inner
    <3>3. outer(x) = outer(y)
      BY <2>2 DEF outer
    <3>4. inner(x) + x.elem < inner(y)
      BY <1>1, <3>1, <3>2
    <3>5. /\ inner(x) \in Nat /\ inner(y) \in Nat /\ x.elem \in Nat /\ y.elem \in Nat
          /\ outer(y) \in Nat
      BY <1>1, <1>2
    <3>6. outer(y) + inner(x) + x.elem < outer(y) + inner(y) + y.elem
      BY <3>4, <3>5
    <3> QED BY <1>1, <3>3, <3>6
  <2>3. CASE x.l = y.l /\ x.b = y.b /\ x.elem < y.elem
    <3>1. outer(x) = outer(y) /\ inner(x) = inner(y)
      BY <2>3 DEF outer, inner
    <3> QED BY <1>1, <1>2, <2>3, <3>1
  <2> QED BY <1>5, <2>1, <2>2, <2>3 DEF Before
<1> QED BY <1>3, <1>4, <1>5

\* Two descriptors are not at one place of the order.
LEMMA Ordered ==
  ASSUME NEW class \in Classes, NEW x \in Asked(class), NEW y \in Asked(class), x # y
  PROVE  Before(x, y) \/ Before(y, x)
<1>1. x.l \in Nat /\ y.l \in Nat
  BY AskedFor, Shaped
<1>2. x.l = y.l => x.b \in Nat /\ y.b \in Nat
  BY AskedFor, Shaped
<1>3. x.elem \in Int /\ y.elem \in Int
  <2>1. Bindings(x.l)[x.b].count \in Nat /\ Bindings(y.l)[y.b].count \in Nat
    BY AskedFor, Shaped
  <2> QED BY <2>1, AskedFor
<1>4. ~(x.l = y.l /\ x.b = y.b /\ x.elem = y.elem)
  BY AskedFor
<1> QED BY <1>1, <1>2, <1>3, <1>4 DEF Before

\* No more descriptors come before one than its number says.
LEMMA FewBefore ==
  ASSUME NEW class \in Classes, NEW W \in SUBSET Asked(class), NEW x \in Asked(class)
  PROVE  /\ Cardinality({y \in W : Before(y, x)}) \in Nat
         /\ Cardinality({y \in W : Before(y, x)}) <= Index(x)
<1> DEFINE S == {y \in W : Before(y, x)}
           T == 0..Index(x) - 1
           f == [y \in S |-> Index(y)]
<1>1. /\ Index(x) \in Nat
      /\ \A y \in S : Index(y) \in Nat /\ Index(y) < Index(x)
  BY Numbering
<1>2. \A y \in S : Index(y) \in T
  BY <1>1
<1>3. f \in [S -> T]
  BY <1>2
<1>4. ASSUME NEW y \in S, NEW z \in S, y # z PROVE Index(y) # Index(z)
  <2>1. Before(y, z) \/ Before(z, y)
    BY <1>4, Ordered
  <2>2. Index(y) < Index(z) \/ Index(z) < Index(y)
    BY <2>1, Numbering
  <2> QED BY <1>1, <2>2
<1>5. \A y \in S : f[y] = Index(y)
  OBVIOUS
<1> HIDE DEF f, S
<1>6. f \in Injection(S, T)
  BY <1>3, <1>4, <1>5 DEF Injection, IsInjective
<1>7. 0 \in Int /\ Index(x) - 1 \in Int
  BY <1>1
<1>8. IsFiniteSet(T) /\ Cardinality(T) = IF 0 > Index(x) - 1 THEN 0 ELSE Index(x) - 1 - 0 + 1
  BY <1>7, FS_Interval
<1>9. Cardinality(T) = Index(x)
  BY <1>1, <1>8
<1> HIDE DEF T
<1>10. IsFiniteSet(S) /\ Cardinality(S) <= Cardinality(T)
  BY <1>6, <1>8, FS_Injection
<1>11. Cardinality(S) \in Nat
  BY <1>10, FS_CardinalityType
<1> QED BY <1>9, <1>10, <1>11 DEF S

\* Every descriptor that is not NULL and has a number within the table is taken.
LEMMA AllTaken ==
  ASSUME NEW class \in Classes, NEW contents, NEW x \in Asked(class), contents[x] # None,
         Index(x) < TableSize
  PROVE  x \in Taken(class, contents)
<1> DEFINE written == {y \in Asked(class) : contents[y] # None}
           many == Cardinality({y \in written : Before(y, x)})
<1>1. written \in SUBSET Asked(class) /\ x \in written
  OBVIOUS
<1>2. many \in Nat /\ many <= Index(x)
  <2> HIDE DEF written
  <2> QED BY <1>1, FewBefore
<1>3. Index(x) \in Nat
  BY Numbering
<1> HIDE DEF many
<1>4. many < TableSize
  BY <1>2, <1>3, BoundsAssumption DEF BoundsAssumption
<1> QED BY <1>1, <1>4 DEF Taken, many

\* A table that is not refused holds what a draw found in a descriptor's slot at the
\* descriptor's number.
LEMMA Found ==
  ASSUME NEW class \in Classes, NEW contents, ~Refused(class, contents),
         NEW x \in Asked(class), contents[x] # None, Index(x) < TableSize
  PROVE  Table(class, contents)[Index(x)] = contents[x]
<1> DEFINE taken == Taken(class, contents)
<1>1. x \in taken
  BY AllTaken
<1>2. \A z \in taken : z \in Asked(class)
  BY DEF Taken
<1>3. ASSUME NEW z \in taken, Index(z) = Index(x) PROVE z = x
  <2>1. z \in Asked(class) /\ Index(z) \in Nat /\ Index(x) \in Nat
    BY <1>2, Numbering
  <2>2. ASSUME z # x PROVE Before(z, x) \/ Before(x, z)
    BY <2>1, <2>2, Ordered
  <2>3. Before(z, x) => Index(z) < Index(x)
    BY <2>1, Numbering
  <2>4. Before(x, z) => Index(x) < Index(z)
    BY <2>1, Numbering
  <2> QED BY <1>3, <2>1, <2>2, <2>3, <2>4
<1>4. Table(class, contents) = [i \in 0..TableSize - 1 |-> IF \E z \in taken : Index(z) = i
        THEN contents[CHOOSE z \in taken : Index(z) = i] ELSE None]
  BY DEF Table
<1> HIDE DEF taken
<1>5. Index(x) \in 0..TableSize - 1
  <2>1. Index(x) \in Nat
    BY Numbering
  <2> QED BY <2>1, BoundsAssumption DEF BoundsAssumption
<1>6. (CHOOSE z \in taken : Index(z) = Index(x)) = x
  BY <1>1, <1>3
<1>7. Table(class, contents)[Index(x)] = contents[CHOOSE z \in taken : Index(z) = Index(x)]
  BY <1>1, <1>4, <1>5
<1> QED BY <1>6, <1>7

\* A table is refused only if its class does not fit.
LEMMA NotRefused ==
  ASSUME NEW class \in Classes, NEW contents, Fits(class)
  PROVE  ~Refused(class, contents)
<1> SUFFICES ASSUME NEW x \in Taken(class, contents) PROVE ~(Index(x) >= TableSize)
  BY DEF Refused
<1>1. x \in Asked(class)
  BY DEF Taken
<1>2. Index(x) \in Nat /\ Index(x) < TableSize
  BY <1>1, Numbering
<1> QED BY <1>2, BoundsAssumption DEF BoundsAssumption

\* What told may say of an element.
Marks == Values \cup {Void}

\* An element that something is claimed of is one of the set's, and has it in its slot if
\* the slot is in the array.
Holds(s, l) ==
  \A b \in DOMAIN Bindings(l) : \A e \in 0..Bindings(l)[b].count - 1 :
    Claimed(told[s][b][e]) =>
      /\ e < Room(s, b)
      /\ Offset(l, b) + e \in DOMAIN sets[s].slots =>
           sets[s].slots[Offset(l, b) + e] = told[s][b][e]

\* What the application wrote to a set, by the bindings and elements of its layout.
Tells(s, l) ==
  /\ told[s] = [b \in DOMAIN Bindings(l) |-> told[s][b]]
  /\ \A b \in DOMAIN Bindings(l) : told[s][b] \in [0..Bindings(l)[b].count - 1 -> Marks]

\* The inductive invariant: what is claimed of a set is in its slots.
DescriptorInv ==
  /\ DescriptorTypeOK /\ WritesInBounds
  /\ DOMAIN sets = Sets /\ DOMAIN told = Sets
  /\ sets = [s \in Sets |-> sets[s]] /\ told = [s \in Sets |-> told[s]]
  /\ bound \in [DOMAIN Layouts -> Sets \cup {None}]
  /\ \A s \in Sets, l \in DOMAIN Layouts : sets[s] \in SetOf(l) => Tells(s, l) /\ Holds(s, l)

\* The members of a set, and that they make it one.
LEMMA SetShape ==
  ASSUME NEW l, NEW x
  PROVE  x \in SetOf(l) <=>
           /\ x.layout = l /\ x.requested \in Requests(l)
           /\ x.slots \in [0..Size(l, x.requested) - 1 -> Values]
           /\ x = [layout |-> l, requested |-> x.requested, slots |-> x.slots]
<1> DEFINE Kind(requested) == [layout : {l}, requested : {requested},
                               slots : [0..Size(l, requested) - 1 -> Values]]
<1>1. x \in SetOf(l) <=> \E requested \in Requests(l) : x \in Kind(requested)
  BY Zenon DEF SetOf
<1>2. ASSUME NEW requested, x \in Kind(requested)
      PROVE  /\ x.layout = l /\ x.requested = requested
             /\ x.slots \in [0..Size(l, requested) - 1 -> Values]
             /\ x = [layout |-> l, requested |-> requested, slots |-> x.slots]
  <2> DEFINE S == [0..Size(l, requested) - 1 -> Values]
  <2>1. x \in [layout : {l}, requested : {requested}, slots : S]
    BY <1>2
  <2> HIDE DEF S
  <2>2. /\ x.layout = l /\ x.requested = requested /\ x.slots \in S
        /\ x = [layout |-> l, requested |-> requested, slots |-> x.slots]
    BY <2>1
  <2> QED BY <2>2 DEF S
<1>3. ASSUME x.layout = l, x.requested \in Requests(l),
             x.slots \in [0..Size(l, x.requested) - 1 -> Values],
             x = [layout |-> l, requested |-> x.requested, slots |-> x.slots]
      PROVE  x \in Kind(x.requested)
  <2> DEFINE S == [0..Size(l, x.requested) - 1 -> Values]
             requested == x.requested
             slots == x.slots
  <2>1. slots \in S /\ x = [layout |-> l, requested |-> requested, slots |-> slots]
    BY <1>3
  <2> HIDE DEF S, requested, slots
  <2>2. x \in [layout : {l}, requested : {requested}, slots : S]
    BY <2>1
  <2> QED BY <2>2 DEF S, requested
<1>4. x \in SetOf(l) => /\ x.layout = l /\ x.requested \in Requests(l)
                        /\ x.slots \in [0..Size(l, x.requested) - 1 -> Values]
                        /\ x = [layout |-> l, requested |-> x.requested, slots |-> x.slots]
  <2> SUFFICES ASSUME x \in SetOf(l)
               PROVE  /\ x.layout = l /\ x.requested \in Requests(l)
                      /\ x.slots \in [0..Size(l, x.requested) - 1 -> Values]
                      /\ x = [layout |-> l, requested |-> x.requested, slots |-> x.slots]
    OBVIOUS
  <2>1. PICK requested \in Requests(l) : x \in Kind(requested)
    BY <1>1
  <2> HIDE DEF Kind
  <2>2. /\ x.layout = l /\ x.requested = requested
        /\ x.slots \in [0..Size(l, requested) - 1 -> Values]
        /\ x = [layout |-> l, requested |-> requested, slots |-> x.slots]
    BY <1>2, <2>1
  <2> QED BY <2>2, Zenon
<1> HIDE DEF Kind
<1> QED BY <1>1, <1>3, <1>4, Zenon

\* No set is allocated yet.
LEMMA DescriptorStart == DescriptorInit => DescriptorInv
<1> SUFFICES ASSUME DescriptorInit PROVE DescriptorInv
  OBVIOUS
<1>1. /\ sets = [s \in Sets |-> None] /\ bound = [l \in DOMAIN Layouts |-> None]
      /\ writes = 0 /\ told = [s \in Sets |-> <<>>]
      /\ last.top = 0 /\ last.size = 0
  BY DEF DescriptorInit
<1>2. DescriptorTypeOK
  BY <1>1, BoundsAssumption DEF DescriptorTypeOK, BoundsAssumption
<1>3. WritesInBounds
  BY <1>1 DEF WritesInBounds
<1>4. \A s \in Sets, l \in DOMAIN Layouts : sets[s] \notin SetOf(l)
  BY <1>1, NoneAssumption DEF NoneAssumption
<1> QED BY <1>1, <1>2, <1>3, <1>4 DEF DescriptorInv

\* What an allocated set is.
LEMMA Allocated ==
  ASSUME DescriptorInv, NEW s \in Sets, sets[s] # None
  PROVE  /\ sets[s].layout \in DOMAIN Layouts /\ sets[s] \in SetOf(sets[s].layout)
         /\ Tells(s, sets[s].layout) /\ Holds(s, sets[s].layout)
<1>1. PICK l \in DOMAIN Layouts : sets[s] \in SetOf(l)
  BY DEF DescriptorInv, DescriptorTypeOK
<1>2. sets[s].layout = l
  BY <1>1, SetShape
<1> QED BY <1>1, <1>2 DEF DescriptorInv

\* The room of a binding is in the binding, and in the array if the one of variable count
\* is the last.
LEMMA Rooms ==
  ASSUME NEW s, NEW l \in DOMAIN Layouts, sets[s] \in SetOf(l), NEW b \in DOMAIN Bindings(l)
  PROVE  /\ Room(s, b) \in Nat /\ Room(s, b) <= Bindings(l)[b].count
         /\ Size(l, sets[s].requested) \in Int
         /\ VariableLast(l) => Offset(l, b) + Room(s, b) <= Size(l, sets[s].requested)
<1> DEFINE n == Len(Bindings(l))
           v == Layouts[l].variable
           requested == sets[s].requested
           count(c) == Bindings(l)[c].count
<1>1. /\ n \in Nat /\ v \in 0..n /\ DOMAIN Bindings(l) = 1..n
      /\ \A c \in 1..n : count(c) \in Nat
  BY Shaped
<1>2. sets[s].layout = l /\ requested \in Requests(l)
  BY SetShape
<1>3. /\ v = 0 => requested = 0
      /\ v # 0 => requested \in 1..count(v)
  BY <1>2 DEF Requests, Declared
<1>4. Room(s, b) = IF b = v THEN requested ELSE count(b)
  BY <1>2 DEF Room
<1>5. /\ v # 0 /\ requested < count(v) => Size(l, requested) = Total(l) - (count(v) - requested)
      /\ ~(v # 0 /\ requested < count(v)) => Size(l, requested) = Total(l) - 0
  BY DEF Size, Shrinks, Declared
<1>6. VariableLast(l) => v = 0 \/ v = n
  BY DEF VariableLast
<1>7. /\ Total(l) \in Nat
      /\ \A c \in 1..n : Offset(l, c) \in Nat /\ Offset(l, c) + count(c) <= Total(l)
      /\ \A c \in 1..n : c < n => Offset(l, c) + count(c) <= Offset(l, n)
      /\ n \in 1..n => Offset(l, n) + count(n) = Total(l)
  BY <1>1, SlotsApart
<1> HIDE DEF n, v, requested, count
<1>8. b \in 1..n /\ count(b) \in Nat /\ Offset(l, b) \in Nat
  BY <1>1, <1>7
<1>9. CASE v = 0
  <2>1. b # v
    BY <1>1, <1>8, <1>9
  <2>2. Room(s, b) = count(b) /\ Size(l, requested) = Total(l)
    BY <1>4, <1>5, <1>7, <1>9, <2>1
  <2> QED BY <1>7, <1>8, <2>2 DEF count, requested
<1>10. CASE v # 0
  <2>1. v \in 1..n /\ n \in 1..n /\ count(v) \in Nat /\ requested \in 1..count(v) /\ requested \in Nat
    BY <1>1, <1>3, <1>10
  <2>2. Size(l, requested) = Total(l) - (count(v) - requested)
    BY <1>5, <1>7, <1>10, <2>1
  <2>3. CASE b = v
    <3>1. Room(s, b) = requested /\ requested <= count(b)
      BY <1>4, <2>1, <2>3
    <3>2. ASSUME VariableLast(l) PROVE Offset(l, b) + requested <= Size(l, requested)
      <4>1. v = n /\ Offset(l, v) + count(v) = Total(l)
        BY <1>6, <1>7, <1>10, <2>1, <3>2
      <4> QED BY <1>7, <1>8, <2>1, <2>2, <2>3, <4>1
    <3> QED BY <1>7, <2>1, <2>2, <3>1, <3>2 DEF count, requested
  <2>4. CASE b # v
    <3>1. Room(s, b) = count(b)
      BY <1>4, <2>4
    <3>2. ASSUME VariableLast(l) PROVE Offset(l, b) + count(b) <= Size(l, requested)
      <4>1. v = n
        BY <1>6, <1>10, <3>2
      <4>2. b < n
        BY <1>1, <1>8, <2>4, <4>1
      <4>3. Offset(l, b) + count(b) <= Offset(l, n) /\ Offset(l, n) + count(n) = Total(l)
            /\ Offset(l, n) \in Nat
        BY <1>7, <1>8, <2>1, <4>2
      <4> QED BY <1>7, <1>8, <2>1, <2>2, <4>1, <4>3
    <3> QED BY <1>7, <1>8, <2>1, <2>2, <3>1, <3>2 DEF count, requested
  <2> QED BY <2>3, <2>4
<1> QED BY <1>9, <1>10

\* What is claimed of the values of a write are the values.
Agree(values, marks, n) == \A i \in 0..n - 1 : Claimed(marks[i]) => values[i] = marks[i]

\* What does not move goes on holding.
LEMMA OthersStay ==
  ASSUME NEW t, NEW m, sets'[t] = sets[t], told'[t] = told[t], Tells(t, m), Holds(t, m)
  PROVE  Tells(t, m)' /\ Holds(t, m)'
<1>1. \A b : Room(t, b)' = Room(t, b)
  BY DEF Room
<1> QED BY <1>1 DEF Tells, Holds

\* What is stored in the slots of a binding is where the application is told it is, and
\* nothing else moves.
LEMMA StoreKeeps ==
  ASSUME DescriptorInv, NEW s \in Sets, sets[s] # None, NEW l, l = sets[s].layout,
         NEW b \in DOMAIN Bindings(l), NEW first \in Nat, NEW n \in 1..2, first + n <= Room(s, b),
         NEW values \in [0..n - 1 -> Values], NEW marks \in [0..n - 1 -> Marks],
         Store(s, Offsets[l][b] + first, values),
         told' = [told EXCEPT ![s][b] = Stored(@, first, marks)],
         Agree(values, marks, n), writes' \in 0..MaxWrites, bound' = bound
  PROVE  DescriptorInv'
<1> DEFINE count(c) == Bindings(l)[c].count
           at == Offset(l, b) + first
           size == Size(l, sets[s].requested)
<1>1. l \in DOMAIN Layouts /\ sets[s] \in SetOf(l) /\ Tells(s, l) /\ Holds(s, l)
  BY Allocated
<1>2. /\ sets[s].layout = l /\ sets[s].requested \in Requests(l)
      /\ sets[s].slots \in [0..size - 1 -> Values] /\ size \in Int
      /\ sets[s] = [layout |-> l, requested |-> sets[s].requested, slots |-> sets[s].slots]
  BY <1>1, SetShape, Rooms
<1>3. /\ \A c \in DOMAIN Bindings(l) : count(c) \in Nat /\ Offset(l, c) \in Nat
      /\ \A c, d \in DOMAIN Bindings(l) : c < d => Offset(l, c) + count(c) <= Offset(l, d)
      /\ DOMAIN Bindings(l) \subseteq Nat
  <2>1. DOMAIN Bindings(l) \subseteq Nat
    BY <1>1, Shaped
  <2> QED BY <1>1, <2>1, Shaped, SlotsApart
<1>4. first + n <= count(b)
  <2>1. Room(s, b) \in Nat /\ Room(s, b) <= count(b) /\ count(b) \in Nat
    BY <1>1, <1>3, Rooms
  <2> HIDE DEF count
  <2> QED BY <2>1
<1>5. Offsets[l][b] + first = at
  BY <1>1 DEF Offsets
<1>6. /\ sets' = [sets EXCEPT ![s].slots = Stored(@, at, values)]
      /\ last'.layout = l /\ last'.size = size
      /\ last'.top = at + Cardinality(DOMAIN values)
  BY <1>5 DEF Store
<1>7. sets = [t \in Sets |-> sets[t]] /\ told = [t \in Sets |-> told[t]]
  BY DEF DescriptorInv
<1> DEFINE slots == Stored(sets[s].slots, at, values)
<1>8. /\ sets'[s] = [layout |-> l, requested |-> sets[s].requested, slots |-> slots]
      /\ \A t \in Sets \ {s} : sets'[t] = sets[t]
      /\ sets' = [t \in Sets |-> sets'[t]] /\ DOMAIN sets' = Sets
  <2>1. sets' = [t \in Sets |-> IF t = s THEN [sets[s] EXCEPT !.slots = slots] ELSE sets[t]]
    BY <1>6, <1>7
  <2>2. [sets[s] EXCEPT !.slots = slots]
           = [layout |-> l, requested |-> sets[s].requested, slots |-> slots]
    BY <1>2
  <2> HIDE DEF slots
  <2> QED BY <2>1, <2>2
<1> DEFINE told2 == Stored(told[s][b], first, marks)
<1>9. told[s] = [c \in DOMAIN Bindings(l) |-> told[s][c]]
      /\ \A c \in DOMAIN Bindings(l) : told[s][c] \in [0..count(c) - 1 -> Marks]
  BY <1>1 DEF Tells
<1>10. /\ told'[s] = [c \in DOMAIN Bindings(l) |-> told'[s][c]]
       /\ told'[s][b] = told2 /\ \A c \in DOMAIN Bindings(l) : c # b => told'[s][c] = told[s][c]
       /\ \A t \in Sets \ {s} : told'[t] = told[t]
       /\ told' = [t \in Sets |-> told'[t]] /\ DOMAIN told' = Sets
  <2>1. told' = [t \in Sets |-> IF t = s THEN [told[s] EXCEPT ![b] = told2] ELSE told[t]]
    BY <1>7
  <2>2. [told[s] EXCEPT ![b] = told2]
           = [c \in DOMAIN Bindings(l) |-> IF c = b THEN told2 ELSE told[s][c]]
    BY <1>9
  <2> HIDE DEF told2
  <2> QED BY <2>1, <2>2
<1> DEFINE inside(i) == i \in 0..n - 1
<1>11. /\ DOMAIN slots = 0..size - 1 /\ slots \in [0..size - 1 -> Values]
       /\ \A i \in 0..size - 1 : slots[i] = IF inside(i - at) THEN values[i - at] ELSE sets[s].slots[i]
  <2>1. /\ slots \in [0..size - 1 -> Values]
        /\ \A i \in 0..size - 1 : slots[i] = IF inside(i - at) THEN values[i - at] ELSE sets[s].slots[i]
    <3> DEFINE I == 0..size - 1
               J == 0..n - 1
               old == sets[s].slots
    <3>1. old \in [I -> Values] /\ values \in [J -> Values]
      BY <1>2
    <3> HIDE DEF at, I, J, old
    <3>2. slots \in [I -> Values]
          /\ \A i \in I : slots[i] = IF i - at \in J THEN values[i - at] ELSE old[i]
      <4>1. DOMAIN old = I /\ DOMAIN values = J
        BY <3>1
      <4>2. slots = [i \in I |-> IF i - at \in J THEN values[i - at] ELSE old[i]]
        BY <4>1 DEF Stored, old
      <4> HIDE DEF slots
      <4> QED BY <3>1, <4>2
    <3> HIDE DEF slots
    <3> QED BY <3>2 DEF I, J, old
  <2> HIDE DEF slots
  <2> QED BY <2>1
<1>12. /\ told2 \in [0..count(b) - 1 -> Marks]
       /\ \A i \in 0..count(b) - 1 : told2[i] = IF inside(i - first) THEN marks[i - first] ELSE told[s][b][i]
  <2> DEFINE I == 0..count(b) - 1
             J == 0..n - 1
             old == told[s][b]
  <2>1. old \in [I -> Marks] /\ marks \in [J -> Marks]
    BY <1>9
  <2> HIDE DEF I, J, old
  <2>2. told2 \in [I -> Marks]
        /\ \A i \in I : told2[i] = IF i - first \in J THEN marks[i - first] ELSE old[i]
    <3>1. DOMAIN old = I /\ DOMAIN marks = J
      BY <2>1
    <3>2. told2 = [i \in I |-> IF i - first \in J THEN marks[i - first] ELSE old[i]]
      BY <3>1 DEF Stored, old
    <3> HIDE DEF told2
    <3> QED BY <2>1, <3>2
  <2> HIDE DEF told2
  <2> QED BY <2>2 DEF I, J, old
<1> HIDE DEF slots, told2
<1>13. sets'[s] \in SetOf(l) /\ sets'[s].slots = slots /\ sets'[s].layout = l
       /\ sets'[s].requested = sets[s].requested
  <2>1. /\ sets'[s].slots = slots /\ sets'[s].layout = l
        /\ sets'[s].requested = sets[s].requested
    BY <1>8
  <2>2. sets'[s].slots \in [0..Size(l, sets'[s].requested) - 1 -> Values]
    BY <1>11, <2>1
  <2>3. sets'[s] = [layout |-> l, requested |-> sets'[s].requested, slots |-> sets'[s].slots]
    BY <1>8, <2>1
  <2>4. sets'[s].requested \in Requests(l)
    BY <1>2, <2>1
  <2> QED BY <2>1, <2>2, <2>3, <2>4, SetShape
<1>14. Tells(s, l)'
  <2>1. \A c \in DOMAIN Bindings(l) : told'[s][c] \in [0..count(c) - 1 -> Marks]
    BY <1>9, <1>10, <1>12
  <2> QED BY <1>10, <2>1 DEF Tells
<1>15. Holds(s, l)'
  <2>7. \A c : Room(s, c)' = Room(s, c)
    BY <1>2, <1>13 DEF Room
  <2> SUFFICES ASSUME NEW c \in DOMAIN Bindings(l), NEW e \in 0..count(c) - 1,
                      Claimed(told'[s][c][e])
               PROVE  /\ e < Room(s, c)
                      /\ Offset(l, c) + e \in 0..size - 1 =>
                           slots[Offset(l, c) + e] = told'[s][c][e]
    BY <1>11, <1>13, <2>7 DEF Holds
  <2> DEFINE k == Offset(l, c) + e
             room == Room(s, c)
  <2>1. /\ Claimed(told[s][c][e]) =>
             e < room /\ (k \in 0..size - 1 => sets[s].slots[k] = told[s][c][e])
        /\ \A i \in 0..n - 1 : Claimed(marks[i]) => values[i] = marks[i]
    <3>1. DOMAIN sets[s].slots = 0..size - 1
      BY <1>2
    <3> QED BY <1>1, <3>1 DEF Holds, Agree
  <2>2. e \in Nat /\ k \in Nat /\ at \in Nat /\ room \in Nat
    <3>1. /\ count(c) \in Nat /\ Offset(l, c) \in Nat /\ Offset(l, b) \in Nat
          /\ e \in 0..count(c) - 1
      BY <1>3
    <3>2. room \in Nat
      BY <1>1, Rooms
    <3> HIDE DEF count, room
    <3> QED BY <3>1, <3>2
  <2>3. k \in 0..size - 1 =>
          slots[k] = IF inside(k - at) THEN values[k - at] ELSE sets[s].slots[k]
    BY <1>11
  <2> SUFFICES e < room /\ (k \in 0..size - 1 => slots[k] = told'[s][c][e])
    OBVIOUS
  <2>4. CASE c = b
    <3>1. k - at = e - first
      BY <1>3, <2>2, <2>4
    <3>2. told'[s][c][e] = IF inside(e - first) THEN marks[e - first] ELSE told[s][c][e]
      BY <1>10, <1>12, <2>4
    <3>3. CASE inside(e - first)
      <4>1. e < room
        <5>1. first + n <= room /\ e - first \in 0..n - 1
          BY <2>4, <3>3
        <5> HIDE DEF room
        <5> QED BY <2>2, <5>1
      <4>2. values[e - first] = marks[e - first] /\ told'[s][c][e] = marks[e - first]
        BY <2>1, <3>2, <3>3
      <4>3. k \in 0..size - 1 => slots[k] = values[e - first]
        BY <2>3, <3>1, <3>3
      <4> QED BY <4>1, <4>2, <4>3
    <3>4. CASE ~inside(e - first)
      <4>1. told'[s][c][e] = told[s][c][e] /\ (k \in 0..size - 1 => slots[k] = sets[s].slots[k])
        BY <2>3, <3>1, <3>2, <3>4
      <4> QED BY <2>1, <4>1
    <3> QED BY <3>3, <3>4
  <2>5. CASE c # b
    <3>1. b \in Nat /\ c \in Nat /\ (c < b \/ b < c)
      BY <1>3, <2>5
    <3>2. c < b => Offset(l, c) + count(c) <= Offset(l, b)
      BY <1>3
    <3>3. b < c => Offset(l, b) + count(b) <= Offset(l, c)
      BY <1>3
    <3>4. count(b) \in Nat /\ count(c) \in Nat /\ Offset(l, b) \in Nat /\ Offset(l, c) \in Nat
          /\ e \in 0..count(c) - 1
      BY <1>3
    <3>5. ~inside(k - at)
      <4> HIDE DEF count
      <4> QED BY <1>4, <3>1, <3>2, <3>3, <3>4
    <3>6. told'[s][c][e] = told[s][c][e] /\ (k \in 0..size - 1 => slots[k] = sets[s].slots[k])
      BY <1>10, <2>3, <2>5, <3>5
    <3> QED BY <2>1, <3>6
  <2> QED BY <2>4, <2>5
<1>16. WritesInBounds'
  <2> SUFFICES ASSUME VariableLast(l) PROVE last'.top <= last'.size
    BY <1>6 DEF WritesInBounds, VariableLast
  <2>1. Cardinality(DOMAIN values) = n
    <3>1. DOMAIN values = 0..n - 1 /\ 0 \in Int /\ n - 1 \in Int
      OBVIOUS
    <3>2. Cardinality(0..n - 1) = IF 0 > n - 1 THEN 0 ELSE n - 1 - 0 + 1
      BY <3>1, FS_Interval
    <3> QED BY <3>1, <3>2
  <2>2. Offset(l, b) + Room(s, b) <= size /\ Room(s, b) \in Nat /\ size \in Int
    BY <1>1, Rooms
  <2>3. Offset(l, b) \in Nat
    BY <1>3
  <2> QED BY <1>6, <2>1, <2>2, <2>3
<1>17. DescriptorTypeOK'
  <2>1. \A t \in Sets : sets'[t] # None => \E m \in DOMAIN Layouts : sets'[t] \in SetOf(m)
    BY <1>1, <1>8, <1>13 DEF DescriptorInv, DescriptorTypeOK
  <2>2. ASSUME NEW m \in DOMAIN Layouts, bound[m] # None PROVE sets'[bound[m]] \in SetOf(m)
    <3>1. bound[m] \in Sets /\ sets[bound[m]] \in SetOf(m)
      BY <2>2 DEF DescriptorInv, DescriptorTypeOK
    <3>2. CASE bound[m] = s
      <4>1. sets[s].layout = m
        BY <3>1, <3>2, SetShape
      <4> QED BY <1>2, <1>13, <3>2, <4>1
    <3>3. CASE bound[m] # s
      BY <1>8, <3>1, <3>3
    <3> QED BY <3>2, <3>3
  <2> QED BY <2>1, <2>2 DEF DescriptorTypeOK
<1>18. ASSUME NEW t \in Sets, NEW m \in DOMAIN Layouts, sets'[t] \in SetOf(m)
       PROVE  Tells(t, m)' /\ Holds(t, m)'
  <2>1. CASE t = s
    <3>1. m = l
      BY <1>13, <1>18, <2>1, SetShape
    <3> QED BY <1>14, <1>15, <2>1, <3>1
  <2>2. CASE t # s
    <3>1. sets'[t] = sets[t] /\ told'[t] = told[t]
      BY <1>8, <1>10, <2>2
    <3>2. Tells(t, m) /\ Holds(t, m)
      BY <1>18, <3>1 DEF DescriptorInv
    <3> QED BY <3>1, <3>2, OthersStay
  <2> QED BY <2>1, <2>2
<1>19. bound' \in [DOMAIN Layouts -> Sets \cup {None}]
  BY DEF DescriptorInv
<1> QED BY <1>8, <1>10, <1>16, <1>17, <1>18, <1>19 DEF DescriptorInv

\* vkAllocateDescriptorSets keeps the invariant: nothing is told of a new set.
LEMMA AllocateKeeps ==
  ASSUME DescriptorInv, AllocateSet
  PROVE  DescriptorInv'
<1> DEFINE New(l, requested) ==
             [layout |-> l, requested |-> requested,
              slots |-> [i \in 0..Size(l, requested) - 1 |-> None]]
           Blank(l) == [b \in DOMAIN Bindings(l) |->
                          [e \in 0..Bindings(l)[b].count - 1 |-> None]]
<1>1. PICK s \in Sets, l \in DOMAIN Layouts : \E requested \in Requests(l) :
         /\ sets[s] = None
         /\ sets' = [sets EXCEPT ![s] = New(l, requested)]
         /\ told' = [told EXCEPT ![s] = Blank(l)]
  BY DEF AllocateSet
<1>2. PICK requested \in Requests(l) : /\ sets[s] = None
                                      /\ sets' = [sets EXCEPT ![s] = New(l, requested)]
                                      /\ told' = [told EXCEPT ![s] = Blank(l)]
  BY <1>1
<1> DEFINE new == New(l, requested)
           blank == Blank(l)
<1>3. new \in SetOf(l) /\ new.layout = l
  <2>1. [i \in 0..Size(l, requested) - 1 |-> None] \in [0..Size(l, requested) - 1 -> Values]
    BY DEF Values
  <2> DEFINE slots == [i \in 0..Size(l, requested) - 1 |-> None]
  <2>2. new.layout = l /\ new.requested = requested /\ new.slots = slots
    OBVIOUS
  <2>3. new = [layout |-> l, requested |-> new.requested, slots |-> new.slots]
    OBVIOUS
  <2> HIDE DEF new, slots, New
  <2>4. new.slots \in [0..Size(l, new.requested) - 1 -> Values]
    BY <2>1, <2>2 DEF slots
  <2> QED BY <2>2, <2>3, <2>4, SetShape
<1> HIDE DEF New, Blank
<1>4. /\ sets[s] = None
      /\ sets' = [t \in Sets |-> IF t = s THEN new ELSE sets[t]]
      /\ told' = [t \in Sets |-> IF t = s THEN blank ELSE told[t]]
      /\ UNCHANGED <<bound, writes, last>>
  BY <1>2 DEF DescriptorInv, AllocateSet
<1>5. \A b \in DOMAIN Bindings(l) :
        /\ blank[b] \in [0..Bindings(l)[b].count - 1 -> Marks]
        /\ \A e \in 0..Bindings(l)[b].count - 1 : ~Claimed(blank[b][e])
  BY DEF Values, Marks, Claimed, Blank
<1>6. blank = [b \in DOMAIN Bindings(l) |-> blank[b]]
  BY DEF Blank
<1> HIDE DEF new, blank
<1>7. Tells(s, l)' /\ Holds(s, l)'
  BY <1>4, <1>5, <1>6 DEF Tells, Holds
<1>8. DescriptorTypeOK'
  <2>1. \A t \in Sets : sets'[t] # None => \E m \in DOMAIN Layouts : sets'[t] \in SetOf(m)
    BY <1>3, <1>4 DEF DescriptorInv, DescriptorTypeOK
  <2>2. ASSUME NEW m \in DOMAIN Layouts, bound[m] # None PROVE sets'[bound[m]] \in SetOf(m)
    <3>1. bound[m] \in Sets /\ sets[bound[m]] \in SetOf(m)
      BY <2>2 DEF DescriptorInv, DescriptorTypeOK
    <3>2. bound[m] # s
      BY <1>4, <3>1, NoneAssumption DEF NoneAssumption
    <3> QED BY <1>4, <3>1, <3>2
  <2> QED BY <1>4, <2>1, <2>2 DEF DescriptorInv, DescriptorTypeOK
<1>9. ASSUME NEW t \in Sets, NEW m \in DOMAIN Layouts, sets'[t] \in SetOf(m)
      PROVE  Tells(t, m)' /\ Holds(t, m)'
  <2>1. CASE t = s
    <3>1. m = l
      BY <1>3, <1>4, <1>9, <2>1, SetShape
    <3> QED BY <1>7, <2>1, <3>1
  <2>2. CASE t # s
    <3>1. sets'[t] = sets[t] /\ told'[t] = told[t]
      BY <1>4, <2>2
    <3>2. Tells(t, m) /\ Holds(t, m)
      BY <1>9, <3>1 DEF DescriptorInv
    <3> QED BY <3>1, <3>2, OthersStay
  <2> QED BY <2>1, <2>2
<1>10. WritesInBounds' /\ bound' \in [DOMAIN Layouts -> Sets \cup {None}]
  BY <1>4 DEF DescriptorInv, WritesInBounds, VariableLast
<1>11. /\ DOMAIN sets' = Sets /\ DOMAIN told' = Sets
       /\ sets' = [t \in Sets |-> sets'[t]] /\ told' = [t \in Sets |-> told'[t]]
  BY <1>4
<1> QED BY <1>8, <1>9, <1>10, <1>11 DEF DescriptorInv

\* vkFreeDescriptorSets does: it frees no set that is bound.
LEMMA FreeKeeps ==
  ASSUME DescriptorInv, FreeSet
  PROVE  DescriptorInv'
<1>1. PICK s \in Sets : /\ \A l \in DOMAIN bound : bound[l] # s
                        /\ sets' = [sets EXCEPT ![s] = None]
  BY DEF FreeSet
<1>2. /\ sets' = [t \in Sets |-> IF t = s THEN None ELSE sets[t]]
      /\ UNCHANGED <<bound, writes, last, told>>
      /\ \A l \in DOMAIN Layouts : bound[l] # s
  BY <1>1 DEF DescriptorInv, FreeSet
<1>3. DescriptorTypeOK'
  <2>1. \A t \in Sets : sets'[t] # None => \E m \in DOMAIN Layouts : sets'[t] \in SetOf(m)
    BY <1>2 DEF DescriptorInv, DescriptorTypeOK
  <2>2. ASSUME NEW m \in DOMAIN Layouts, bound[m] # None PROVE sets'[bound[m]] \in SetOf(m)
    <3>1. bound[m] \in Sets /\ sets[bound[m]] \in SetOf(m)
      BY <2>2 DEF DescriptorInv, DescriptorTypeOK
    <3> QED BY <1>2, <3>1
  <2> QED BY <1>2, <2>1, <2>2 DEF DescriptorInv, DescriptorTypeOK
<1>4. ASSUME NEW t \in Sets, NEW m \in DOMAIN Layouts, sets'[t] \in SetOf(m)
      PROVE  Tells(t, m)' /\ Holds(t, m)'
  <2>1. t # s
    BY <1>2, <1>4, NoneAssumption DEF NoneAssumption
  <2>2. sets'[t] = sets[t] /\ told'[t] = told[t]
    BY <1>2, <2>1
  <2>3. Tells(t, m) /\ Holds(t, m)
    BY <1>4, <2>2 DEF DescriptorInv
  <2> QED BY <2>2, <2>3, OthersStay
<1>5. WritesInBounds' /\ bound' \in [DOMAIN Layouts -> Sets \cup {None}]
  BY <1>2 DEF DescriptorInv, WritesInBounds, VariableLast
<1> QED BY <1>2, <1>3, <1>4, <1>5 DEF DescriptorInv

\* vkCmdBindDescriptorSets does: a set is bound for its own layout.
LEMMA BindSetKeeps ==
  ASSUME DescriptorInv, BindSet
  PROVE  DescriptorInv'
<1>1. PICK s \in Sets : sets[s] # None /\ bound' = [bound EXCEPT ![sets[s].layout] = s]
  BY DEF BindSet
<1>2. sets[s].layout \in DOMAIN Layouts /\ sets[s] \in SetOf(sets[s].layout)
  BY <1>1, Allocated
<1>3. /\ UNCHANGED <<sets, writes, last, told>>
      /\ bound' = [l \in DOMAIN Layouts |-> IF l = sets[s].layout THEN s ELSE bound[l]]
      /\ bound \in [DOMAIN Layouts -> Sets \cup {None}]
  BY <1>1 DEF DescriptorInv, BindSet
<1>4. DescriptorTypeOK'
  BY <1>2, <1>3 DEF DescriptorInv, DescriptorTypeOK
<1>5. WritesInBounds' /\ bound' \in [DOMAIN Layouts -> Sets \cup {None}]
  BY <1>2, <1>3 DEF DescriptorInv, WritesInBounds, VariableLast
<1>6. ASSUME NEW t \in Sets, NEW m \in DOMAIN Layouts, sets'[t] \in SetOf(m)
      PROVE  Tells(t, m)' /\ Holds(t, m)'
  <2>1. Tells(t, m) /\ Holds(t, m)
    BY <1>3, <1>6 DEF DescriptorInv
  <2> QED BY <1>3, <2>1, OthersStay
<1> QED BY <1>3, <1>4, <1>5, <1>6 DEF DescriptorInv

\* A copy does: a descriptor it copies from the array is the one told of, and of any other
\* nothing is claimed.
LEMMA CopySetKeeps ==
  ASSUME DescriptorInv, Copy
  PROVE  DescriptorInv'
<1> DEFINE Copied(s, b, e, d, c, f) ==
             LET from == Offsets[sets[s].layout][b] + e
                 slots == sets[s].slots
                 mark == IF from \in DOMAIN slots THEN told[s][b][e] ELSE Void
             IN /\ Bindings(sets[s].layout)[b].type = Bindings(sets[d].layout)[c].type
                /\ told[s][b][e] # None
                /\ \E value \in IF from \in DOMAIN slots THEN {slots[from]} ELSE Values :
                     Store(d, Offsets[sets[d].layout][c] + f, One(value))
                /\ told' = [told EXCEPT ![d][c] = Stored(@, f, One(mark))]
<1>1. \E s, d \in {t \in Sets : sets[t] # None} :
        \E b \in DOMAIN Bindings(sets[s].layout), c \in DOMAIN Bindings(sets[d].layout) :
          \E e \in 0..Room(s, b) - 1, f \in 0..Room(d, c) - 1 : Copied(s, b, e, d, c, f)
  BY DEF Copy
<1> HIDE DEF Copied
<1>2. PICK s, d \in {t \in Sets : sets[t] # None} :
        \E b \in DOMAIN Bindings(sets[s].layout), c \in DOMAIN Bindings(sets[d].layout) :
          \E e \in 0..Room(s, b) - 1, f \in 0..Room(d, c) - 1 : Copied(s, b, e, d, c, f)
  BY <1>1
<1> DEFINE l == sets[s].layout
           m == sets[d].layout
<1>3. PICK b \in DOMAIN Bindings(l), c \in DOMAIN Bindings(m) :
        \E e \in 0..Room(s, b) - 1, f \in 0..Room(d, c) - 1 : Copied(s, b, e, d, c, f)
  BY <1>2
<1>17. PICK e \in 0..Room(s, b) - 1, f \in 0..Room(d, c) - 1 : Copied(s, b, e, d, c, f)
  BY <1>3
<1>18. s \in Sets /\ sets[s] # None /\ d \in Sets /\ sets[d] # None
  BY <1>2
<1>4. /\ l \in DOMAIN Layouts /\ sets[s] \in SetOf(l) /\ Tells(s, l) /\ Holds(s, l)
      /\ m \in DOMAIN Layouts /\ sets[d] \in SetOf(m)
  BY <1>18, Allocated
<1>5. /\ Room(s, b) \in Nat /\ Room(s, b) <= Bindings(l)[b].count /\ Bindings(l)[b].count \in Nat
      /\ Room(d, c) \in Nat
  <2> HIDE DEF l, m
  <2> QED BY <1>4, Rooms, Shaped
<1> DEFINE from == Offsets[l][b] + e
           slots == sets[s].slots
           mark == IF from \in DOMAIN slots THEN told[s][b][e] ELSE Void
<1>6. e \in 0..Bindings(l)[b].count - 1 /\ f \in Nat /\ f + 1 <= Room(d, c)
  <2> DEFINE count == Bindings(l)[b].count
  <2>1. Room(s, b) <= count /\ count \in Nat
    BY <1>5
  <2> HIDE DEF count, l, m
  <2>2. e \in 0..count - 1
    BY <1>5, <2>1
  <2>3. f \in Nat /\ f + 1 <= Room(d, c)
    BY <1>5
  <2> QED BY <2>2, <2>3 DEF count
<1>7. slots \in [DOMAIN slots -> Values]
  BY <1>4, SetShape
<1>8. mark \in Marks
  BY <1>4, <1>6 DEF Tells, Marks
<1>9. Offset(l, b) + e = from
  BY <1>4 DEF Offsets
<1>19. PICK value \in IF from \in DOMAIN slots THEN {slots[from]} ELSE Values :
         Store(d, Offsets[m][c] + f, One(value))
  BY <1>17 DEF Copied
<1>10. value \in Values /\ (Claimed(mark) => value = mark)
  <2>1. CASE from \in DOMAIN slots
    <3>1. value = slots[from] /\ mark = told[s][b][e]
      BY <1>19, <2>1
    <3>2. Claimed(told[s][b][e]) => slots[from] = told[s][b][e]
      BY <1>4, <1>6, <1>9, <2>1 DEF Holds
    <3> QED BY <1>7, <2>1, <3>1, <3>2
  <2>2. CASE from \notin DOMAIN slots
    <3>1. value \in Values /\ mark = Void
      BY <1>19, <2>2
    <3> QED BY <3>1 DEF Claimed
  <2> QED BY <2>1, <2>2
<1> DEFINE values == One(value)
           marks == One(mark)
<1>11. /\ values \in [0..1 - 1 -> Values] /\ marks \in [0..1 - 1 -> Marks]
       /\ \A i \in 0..1 - 1 : values[i] = value /\ marks[i] = mark
  <2>1. 0..1 - 1 = {0}
    OBVIOUS
  <2> HIDE DEF mark
  <2> QED BY <1>8, <1>10, <2>1 DEF One
<1>12. Store(d, Offsets[m][c] + f, values) /\ told' = [told EXCEPT ![d][c] = Stored(@, f, marks)]
  BY <1>17, <1>19 DEF Copied
<1>13. writes' \in 0..MaxWrites /\ bound' = bound
  BY BoundsAssumption DEF Copy, DescriptorInv, DescriptorTypeOK, BoundsAssumption
<1> HIDE DEF mark
<1>14. Agree(values, marks, 1)
  <2> HIDE DEF marks, values
  <2> QED BY <1>10, <1>11 DEF Agree
<1>16. 1 \in 1..2 /\ m = sets[d].layout /\ sets[d] # None /\ c \in DOMAIN Bindings(m)
  BY <1>18
<1> HIDE DEF values, marks, m, l, from, slots
<1> QED BY <1>6, <1>11, <1>12, <1>13, <1>14, <1>16, <1>18, StoreKeeps

\* What is stored in an array leaves it an array of its kind.
LEMMA StoredIn ==
  ASSUME NEW V, NEW I, NEW J, NEW array \in [I -> V], NEW values \in [J -> V], NEW first
  PROVE  Stored(array, first, values) \in [I -> V]
<1>1. DOMAIN array = I /\ DOMAIN values = J
  OBVIOUS
<1>2. Stored(array, first, values) = [i \in I |-> IF i - first \in J THEN values[i - first] ELSE array[i]]
  BY <1>1 DEF Stored
<1> QED BY <1>2

\* A write does: in its binding it stores what it tells, and beyond it nothing is claimed
\* of its elements.
LEMMA UpdateKeeps ==
  ASSUME DescriptorInv, Update
  PROVE  DescriptorInv'
<1> DEFINE Told(n) == [i \in 0..n - 1 |-> writes']
           Matched(s, b, first, n) ==
             first + n <= Room(s, b) /\ WriteBinding(s, b, first, Told(n))
           Dropped(s, b, first, n) == WriteBeyond(s, b, first, n)
<1>1. \E s \in {t \in Sets : sets[t] # None} : \E b \in DOMAIN Bindings(sets[s].layout) :
        \E first \in 0..Room(s, b) - 1, n \in 1..2 :
          Matched(s, b, first, n) \/ Dropped(s, b, first, n)
  BY DEF Update
<1> HIDE DEF Matched, Dropped
<1>2. PICK s \in {t \in Sets : sets[t] # None} : \E b \in DOMAIN Bindings(sets[s].layout) :
        \E first \in 0..Room(s, b) - 1, n \in 1..2 :
          Matched(s, b, first, n) \/ Dropped(s, b, first, n)
  BY <1>1
<1> DEFINE l == sets[s].layout
<1>3. PICK b \in DOMAIN Bindings(l) :
        \E first \in 0..Room(s, b) - 1, n \in 1..2 :
          Matched(s, b, first, n) \/ Dropped(s, b, first, n)
  BY <1>2
<1>4. PICK first \in 0..Room(s, b) - 1, n \in 1..2 :
        Matched(s, b, first, n) \/ Dropped(s, b, first, n)
  BY <1>3
<1>5. s \in Sets /\ sets[s] # None
  BY <1>2
<1>6. l \in DOMAIN Layouts /\ sets[s] \in SetOf(l) /\ Tells(s, l) /\ Holds(s, l)
  BY <1>5, Allocated
<1>7. writes' \in 0..MaxWrites /\ writes' \in Values /\ bound' = bound
  BY BoundsAssumption DEF Update, DescriptorInv, DescriptorTypeOK, BoundsAssumption, Values
<1>8. Told(n) \in [0..n - 1 -> Values] /\ Told(n) \in [0..n - 1 -> Marks]
  BY <1>7 DEF Marks
<1>9. CASE Matched(s, b, first, n)
  <2> DEFINE marks == Told(n)
  <2>1. /\ first + n <= Room(s, b)
        /\ Store(s, Offsets[l][b] + first, marks)
        /\ told' = [told EXCEPT ![s][b] = Stored(@, first, marks)]
    BY <1>9 DEF Matched, WriteBinding
  <2>2. marks \in [0..n - 1 -> Values] /\ marks \in [0..n - 1 -> Marks]
    BY <1>8
  <2> HIDE DEF marks, Told
  <2>3. Agree(marks, marks, n)
    BY DEF Agree
  <2>5. first \in Nat
    <3>1. Room(s, b) \in Nat
      BY <1>6, Rooms
    <3> QED BY <3>1
  <2>6. l = sets[s].layout /\ b \in DOMAIN Bindings(l)
    OBVIOUS
  <2> HIDE DEF l
  <2> QED BY <1>5, <1>7, <2>1, <2>2, <2>3, <2>5, <2>6, StoreKeeps
<1>10. CASE Dropped(s, b, first, n)
  <2> DEFINE marks == [i \in 0..n - 1 |-> Void]
  <2>1. PICK next \in DOMAIN Bindings(l) :
          told' = [told EXCEPT ![s][b] = Stored(@, first, marks),
                               ![s][next] = Stored(@, first - Room(s, b), marks)]
    BY <1>10 DEF Dropped, WriteBeyond
  <2>2. UNCHANGED <<sets, last, bound>>
    BY <1>7, <1>10 DEF Dropped, WriteBeyond
  <2> DEFINE one == [told[s] EXCEPT ![b] = Stored(told[s][b], first, marks)]
             more == Stored(told[s][next], first - Room(s, b), marks)
             both == [one EXCEPT ![next] = more]
             count(c) == Bindings(l)[c].count
             Less(f) == \A c \in DOMAIN Bindings(l) : \A e \in 0..count(c) - 1 :
                          Claimed(f[c][e]) => f[c][e] = told[s][c][e]
  <2>3. told = [t \in Sets |-> told[t]] /\ DOMAIN told = Sets
    BY DEF DescriptorInv
  <2>4. told' = [t \in Sets |-> IF t = s THEN both ELSE told[t]]
    <3>1. told' = [told EXCEPT ![s] = both]
      BY <2>1, <2>3, <1>5
    <3> HIDE DEF both
    <3> QED BY <2>3, <3>1
  <2>5. marks \in [0..n - 1 -> Marks]
    BY DEF Marks
  <2>6. told[s] = [c \in DOMAIN Bindings(l) |-> told[s][c]]
        /\ \A c \in DOMAIN Bindings(l) : told[s][c] \in [0..count(c) - 1 -> Marks]
    BY <1>6 DEF Tells
  <2>14. ASSUME NEW array, NEW from, NEW e \in DOMAIN array, Claimed(Stored(array, from, marks)[e])
         PROVE  Stored(array, from, marks)[e] = array[e]
    BY <2>14 DEF Stored, Claimed
  <2> HIDE DEF marks, Told, l, count
  <2>7. /\ \A c \in DOMAIN Bindings(l) : one[c] \in [0..count(c) - 1 -> Marks]
        /\ one = [d \in DOMAIN Bindings(l) |-> one[d]] /\ Less(one)
    <3>1. Stored(told[s][b], first, marks) \in [0..count(b) - 1 -> Marks]
      BY <2>5, <2>6, StoredIn
    <3>2. one = [c \in DOMAIN Bindings(l) |-> IF c = b THEN Stored(told[s][b], first, marks) ELSE told[s][c]]
      BY <2>6
    <3> DEFINE new == Stored(told[s][b], first, marks)
    <3>3. \A e \in 0..count(b) - 1 : Claimed(new[e]) => new[e] = told[s][b][e]
      <4>1. DOMAIN told[s][b] = 0..count(b) - 1
        BY <2>6
      <4> QED BY <2>14, <4>1
    <3> HIDE DEF one, new
    <3> QED BY <2>6, <3>1, <3>2, <3>3 DEF new
  <2> HIDE DEF one
  <2>8. /\ both = [c \in DOMAIN Bindings(l) |-> both[c]] /\ Less(both)
        /\ \A c \in DOMAIN Bindings(l) : both[c] \in [0..count(c) - 1 -> Marks]
    <3>1. more \in [0..count(next) - 1 -> Marks]
      BY <2>5, <2>6, StoredIn
    <3>2. both = [c \in DOMAIN Bindings(l) |-> IF c = next THEN more ELSE one[c]]
      BY <2>7
    <3>3. DOMAIN told[s][next] = 0..count(next) - 1
      BY <2>6
    <3>4. \A e \in 0..count(next) - 1 : Claimed(more[e]) => more[e] = told[s][next][e]
      BY <2>14, <3>3
    <3> HIDE DEF both, more
    <3> QED BY <2>7, <3>1, <3>2, <3>4
  <2> HIDE DEF both
  <2>9. told'[s] = both
    BY <1>5, <2>4
  <2>10. ASSUME NEW m, m = l PROVE Tells(s, m)' /\ Holds(s, m)'
    <3>1. \A c : Room(s, c)' = Room(s, c)
      BY <2>2 DEF Room
    <3>2. \A c \in DOMAIN Bindings(m) : \A e \in 0..Bindings(m)[c].count - 1 :
            Claimed(told'[s][c][e]) => told'[s][c][e] = told[s][c][e]
      BY <2>8, <2>9, <2>10 DEF count
    <3>3. Holds(s, m)'
      BY <1>6, <2>2, <2>10, <3>1, <3>2 DEF Holds
    <3>4. Tells(s, m)'
      BY <2>8, <2>9, <2>10 DEF count, Tells
    <3> QED BY <3>3, <3>4
  <2>11. DescriptorTypeOK' /\ WritesInBounds'
    BY <1>7, <2>2 DEF DescriptorInv, DescriptorTypeOK, WritesInBounds, VariableLast
  <2>12. ASSUME NEW t \in Sets, NEW m \in DOMAIN Layouts, sets'[t] \in SetOf(m)
         PROVE  Tells(t, m)' /\ Holds(t, m)'
    <3>1. CASE t = s
      <4>1. m = l
        BY <2>2, <2>12, <3>1, SetShape DEF l
      <4> QED BY <2>10, <3>1, <4>1
    <3>2. CASE t # s
      <4>1. told'[t] = told[t] /\ sets'[t] = sets[t]
        BY <2>2, <2>4, <3>2
      <4>2. Tells(t, m) /\ Holds(t, m)
        BY <2>2, <2>12 DEF DescriptorInv
      <4> QED BY <4>1, <4>2, OthersStay
    <3> QED BY <3>1, <3>2
  <2>13. DOMAIN told' = Sets /\ told' = [t \in Sets |-> told'[t]]
    BY <2>4
  <2> QED BY <2>2, <2>11, <2>12, <2>13 DEF DescriptorInv
<1> QED BY <1>4, <1>9, <1>10

\* Every step of the descriptor sets keeps the invariant.
LEMMA DescriptorStep == DescriptorInv /\ [DescriptorNext]_descriptors => DescriptorInv'
<1> SUFFICES ASSUME DescriptorInv, [DescriptorNext]_descriptors PROVE DescriptorInv'
  OBVIOUS
<1>1. CASE UNCHANGED descriptors
  <2>1. UNCHANGED <<sets, bound, writes, last, told>>
    BY <1>1 DEF descriptors
  <2>2. DescriptorTypeOK' /\ WritesInBounds'
    BY <2>1 DEF DescriptorInv, DescriptorTypeOK, WritesInBounds, VariableLast
  <2>3. ASSUME NEW s \in Sets, NEW l \in DOMAIN Layouts, sets'[s] \in SetOf(l)
        PROVE  Tells(s, l)' /\ Holds(s, l)'
    <3>1. Tells(s, l) /\ Holds(s, l)
      BY <2>1, <2>3 DEF DescriptorInv
    <3> QED BY <2>1, <3>1, OthersStay
  <2> QED BY <2>1, <2>2, <2>3 DEF DescriptorInv
<1> QED BY <1>1, AllocateKeeps, FreeKeeps, UpdateKeeps, CopySetKeeps, BindSetKeeps
        DEF DescriptorNext

\* What is claimed of a descriptor is what a draw finds, if it is in the array.
LEMMA Drawn ==
  ASSUME DescriptorInv, NEW class \in Classes, NEW contents \in Contents(class),
         NEW x \in Asked(class), Claimed(told[bound[x.l]][x.b][x.elem]),
         VariableLast(x.l) \/ InArray(x)
  PROVE  contents[x] = told[bound[x.l]][x.b][x.elem]
<1> DEFINE s == bound[x.l]
<1>1. /\ x.l \in DOMAIN Layouts /\ x.b \in DOMAIN Bindings(x.l)
      /\ x.elem \in 0..Bindings(x.l)[x.b].count - 1 /\ bound[x.l] # None
  BY AskedFor
<1>2. s \in Sets /\ sets[s] \in SetOf(x.l)
  BY <1>1 DEF DescriptorInv, DescriptorTypeOK
<1>3. Holds(s, x.l)
  BY <1>1, <1>2 DEF DescriptorInv
<1>4. /\ x.elem < Room(s, x.b)
      /\ Offset(x.l, x.b) + x.elem \in DOMAIN sets[s].slots =>
           sets[s].slots[Offset(x.l, x.b) + x.elem] = told[s][x.b][x.elem]
  BY <1>1, <1>3 DEF Holds
<1>5. SlotAt(x) = Offset(x.l, x.b) + x.elem
  BY <1>1 DEF SlotAt, Offsets
<1>6. InArray(x)
  <2> SUFFICES ASSUME VariableLast(x.l) PROVE SlotAt(x) \in DOMAIN sets[s].slots
    BY DEF InArray
  <2> DEFINE size == Size(x.l, sets[s].requested)
             room == Room(s, x.b)
             offset == Offset(x.l, x.b)
  <2>1. DOMAIN sets[s].slots = 0..size - 1
    BY <1>2, SetShape
  <2>2. room \in Nat /\ size \in Int /\ offset + room <= size
    BY <1>1, <1>2, Rooms
  <2>3. offset \in Nat /\ Bindings(x.l)[x.b].count \in Nat
    BY <1>1, Shaped, SlotsApart
  <2>4. x.elem \in Nat
    BY <1>1, <2>3
  <2> HIDE DEF size, room, offset
  <2>5. x.elem < room
    BY <1>4 DEF room
  <2>6. offset + x.elem \in 0..size - 1
    BY <2>2, <2>3, <2>4, <2>5
  <2> QED BY <1>5, <2>1, <2>6 DEF offset
<1>7. contents[x] = sets[s].slots[SlotAt(x)]
  BY <1>6 DEF Contents
<1> QED BY <1>4, <1>5, <1>6, <1>7 DEF InArray

\* What the invariant is for.
LEMMA Faithful == DescriptorInv => TableFaithful
<1> SUFFICES ASSUME DescriptorInv, NEW class \in Classes, NEW contents \in Contents(class),
                    ~(Refused(class, contents) /\ ~Fits(class))
             PROVE  /\ ~Refused(class, contents)
                    /\ \A x \in Asked(class) :
                         LET wrote == told[bound[x.l]][x.b][x.elem]
                         IN Claimed(wrote) /\ (VariableLast(x.l) \/ InArray(x)) /\ Index(x) < TableSize
                              => Table(class, contents)[Index(x)] = wrote
  BY DEF TableFaithful
<1>1. ~Refused(class, contents)
  BY NotRefused
<1>2. ASSUME NEW x \in Asked(class), Claimed(told[bound[x.l]][x.b][x.elem]),
             VariableLast(x.l) \/ InArray(x), Index(x) < TableSize
      PROVE  Table(class, contents)[Index(x)] = told[bound[x.l]][x.b][x.elem]
  <2>1. contents[x] = told[bound[x.l]][x.b][x.elem]
    BY <1>2, Drawn
  <2>2. contents[x] # None
    BY <1>2, <2>1 DEF Claimed
  <2> QED BY <1>1, <1>2, <2>1, <2>2, Found
<1> QED BY <1>1, <1>2

========================================================================
