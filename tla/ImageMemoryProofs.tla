---------------------- MODULE ImageMemoryProofs ----------------------
(***************************************************************************)
(* Lemmas about ImageMemory, for any images and buffers: how the loops of  *)
(* panvk_v9_image_layout_init add up the levels and layers of an image,    *)
(* and that a command's writes begin in the level and layer it names and   *)
(* end there, or where Limit says.  What a recursive function computes is  *)
(* proved by induction over a set (Induction): its definition is a CHOOSE, *)
(* and Recursion says that there is something to choose.                   *)
(***************************************************************************)
EXTENDS ImageMemory, WellFoundedInduction, NaturalsInduction, TLAPS

\* Induction, over a set.
LEMMA Induction ==
  ASSUME NEW T, 0 \in T, \A n \in Nat : n \in T => n + 1 \in T
  PROVE  Nat \subseteq T
<1> DEFINE Less == {r \in Nat \X Nat : r[1] < r[2]}
           F == Nat \ T
<1>1. IsWellFoundedOn(Less, Nat)
  BY NatLessThanWellFounded DEF OpToRel
<1> SUFFICES ASSUME F # {} PROVE FALSE
  OBVIOUS
<1>2. PICK x \in F : \A y \in F : ~(<<y, x>> \in Less)
  <2> HIDE DEF Less
  <2>1. F \subseteq Nat
    OBVIOUS
  <2> HIDE DEF F
  <2> QED BY <1>1, <2>1, WFMin
<1>3. x \in Nat /\ x # 0 /\ x \notin T
  OBVIOUS
<1>4. x - 1 \in Nat /\ x - 1 < x /\ (x - 1) + 1 = x
  BY <1>3
<1>5. x - 1 \notin T
  BY <1>3, <1>4
<1> QED BY <1>2, <1>3, <1>4, <1>5

\* f is what a loop computes: it begins with base, and step makes one value of the last.
Follows(f, S, base, step) ==
  f \in [Nat -> S] /\ f[0] = base /\ \A n \in Nat : f[n + 1] = step[<<n, f[n]>>]

\* A recursion over the natural numbers, whose step is a function, has a solution.
LEMMA Recursion ==
  ASSUME NEW S, NEW base \in S, NEW step \in [Nat \X S -> S]
  PROVE  \E f : Follows(f, S, base, step)
<1> DEFINE Partial(n, f) == /\ f \in [0..n -> S] /\ f[0] = base
                            /\ \A k \in 0..n - 1 : f[k + 1] = step[<<k, f[k]>>]
           T == {n \in Nat : \E f \in [0..n -> S] : Partial(n, f)}
<1>1. 0 \in T
  <2> DEFINE f == [k \in 0..0 |-> base]
  <2>1. f \in [0..0 -> S] /\ f[0] = base
    OBVIOUS
  <2>2. 0..0 - 1 = {}
    OBVIOUS
  <2> HIDE DEF f
  <2>3. Partial(0, f)
    BY <2>1, <2>2
  <2> QED BY <2>1, <2>3
<1>2. ASSUME NEW n \in Nat, n \in T PROVE n + 1 \in T
  <2>1. PICK f \in [0..n -> S] : Partial(n, f)
    BY <1>2
  <2> DEFINE g == [k \in 0..n + 1 |-> IF k = n + 1 THEN step[<<n, f[n]>>] ELSE f[k]]
  <2>2. f[n] \in S /\ step[<<n, f[n]>>] \in S
    BY <2>1
  <2>3. g \in [0..n + 1 -> S]
    BY <2>1, <2>2
  <2>4. g[n + 1] = step[<<n, f[n]>>] /\ \A k \in 0..n : g[k] = f[k]
    OBVIOUS
  <2> HIDE DEF g
  <2>5. g[0] = base
    BY <2>1, <2>4
  <2>6. ASSUME NEW k \in 0..(n + 1) - 1 PROVE g[k + 1] = step[<<k, g[k]>>]
    <3>1. CASE k = n
      BY <2>4, <3>1
    <3>2. CASE k # n
      <4>1. k \in 0..n - 1 /\ k + 1 \in 0..n /\ k \in 0..n
        BY <3>2
      <4> QED BY <2>1, <2>4, <4>1
    <3> QED BY <3>1, <3>2
  <2> QED BY <2>3, <2>5, <2>6
<1>3. \A n \in Nat : n \in T
  <2> HIDE DEF T
  <2> QED BY <1>1, <1>2, Induction
<1> DEFINE part == [n \in Nat |-> CHOOSE f \in [0..n -> S] : Partial(n, f)]
<1>4. ASSUME NEW n \in Nat PROVE Partial(n, part[n])
  <2>1. \E f \in [0..n -> S] : Partial(n, f)
    BY <1>3
  <2> HIDE DEF Partial
  <2> QED BY <2>1
<1> HIDE DEF part, T
<1>5. ASSUME NEW n \in Nat, NEW m \in Nat PROVE n <= m => part[n][n] = part[m][n]
  <2> DEFINE U == {k \in Nat : k <= n => part[n][k] = part[m][k]}
  <2> SUFFICES ASSUME n <= m PROVE part[n][n] = part[m][n]
    OBVIOUS
  <2>1. 0 \in U
    BY <1>4
  <2>2. ASSUME NEW k \in Nat, k \in U PROVE k + 1 \in U
    <3> SUFFICES ASSUME k + 1 <= n PROVE part[n][k + 1] = part[m][k + 1]
      OBVIOUS
    <3>1. k \in 0..n - 1 /\ k \in 0..m - 1
      OBVIOUS
    <3>2. part[n][k] = part[m][k]
      BY <2>2
    <3>3. part[n][k + 1] = step[<<k, part[n][k]>>] /\ part[m][k + 1] = step[<<k, part[m][k]>>]
      BY <1>4, <3>1
    <3> QED BY <3>2, <3>3
  <2>3. n \in U
    <3> HIDE DEF U
    <3> QED BY <2>1, <2>2, Induction
  <2> QED BY <2>3
<1> DEFINE whole == [n \in Nat |-> part[n][n]]
<1>6. whole \in [Nat -> S]
  <2>1. \A n \in Nat : part[n][n] \in S
    BY <1>4
  <2> QED BY <2>1
<1>7. whole[0] = base
  BY <1>4
<1>8. ASSUME NEW n \in Nat PROVE whole[n + 1] = step[<<n, whole[n]>>]
  <2>1. part[n + 1][n + 1] = step[<<n, part[n + 1][n]>>]
    BY <1>4
  <2>2. part[n][n] = part[n + 1][n]
    BY <1>5
  <2> QED BY <2>1, <2>2
<1> HIDE DEF whole
<1>9. Follows(whole, S, base, step)
  BY <1>6, <1>7, <1>8 DEF Follows
<1> QED BY <1>9

\* One step of a running sum.
LEMMA SumStep ==
  ASSUME NEW s \in Seq(Int)
  PROVE  /\ SumTo(s, 0) = 0
         /\ \A n \in 0..Len(s) : SumTo(s, n) \in Int
         /\ \A n \in 1..Len(s) : SumTo(s, n) = SumTo(s, n - 1) + s[n]
<1> DEFINE Def(f) == f = [k \in 0..Len(s) |-> IF k = 0 THEN 0 ELSE f[k - 1] + s[k]]
           step == [x \in Nat \X Int |-> IF x[1] + 1 \in 1..Len(s) THEN x[2] + s[x[1] + 1] ELSE 0]
<1>0. Len(s) \in Nat /\ \A k \in 1..Len(s) : s[k] \in Int
  OBVIOUS
<1>1. step \in [Nat \X Int -> Int]
  BY <1>0
<1>2. PICK g : Follows(g, Int, 0, step)
  <2> HIDE DEF step
  <2>1. 0 \in Int
    OBVIOUS
  <2> QED BY <1>1, <2>1, Recursion
<1>8. g[0] = 0 /\ \A n \in Nat : g[n + 1] = step[<<n, g[n]>>]
  BY <1>2 DEF Follows
<1> DEFINE h == [k \in 0..Len(s) |-> g[k]]
<1>3. Def(h)
  <2>1. ASSUME NEW k \in 0..Len(s), k # 0 PROVE g[k] = g[k - 1] + s[k]
    <3>1. k - 1 \in Nat /\ (k - 1) + 1 = k /\ k \in 1..Len(s)
      BY <1>0, <2>1
    <3>2. g[k] = step[<<k - 1, g[k - 1]>>]
      BY <1>8, <3>1
    <3>3. step[<<k - 1, g[k - 1]>>] = g[k - 1] + s[k]
      <4>1. g[k - 1] \in Int
        BY <1>2, <3>1 DEF Follows
      <4>2. <<k - 1, g[k - 1]>> \in Nat \X Int
        BY <3>1, <4>1
      <4> QED BY <3>1, <4>2
    <3> QED BY <3>2, <3>3
  <2>2. \A k \in 0..Len(s) : k # 0 => k - 1 \in 0..Len(s)
    BY <1>0
  <2> HIDE DEF step
  <2> QED BY <1>8, <2>1, <2>2
<1> DEFINE f == CHOOSE e : Def(e)
<1>4. Def(f)
  <2> HIDE DEF Def, h
  <2> QED BY <1>3
<1>5. \A n : SumTo(s, n) = f[n]
  BY DEF SumTo
<1> HIDE DEF f, step, h
<1>6. f[0] = 0 /\ \A n \in 1..Len(s) : f[n] = f[n - 1] + s[n]
  <2>1. 0 \in 0..Len(s) /\ \A n \in 1..Len(s) : n \in 0..Len(s) /\ n # 0
    BY <1>0
  <2>2. \A n \in 0..Len(s) : f[n] = IF n = 0 THEN 0 ELSE f[n - 1] + s[n]
    BY <1>4, Zenon
  <2> QED BY <2>1, <2>2
<1> HIDE DEF Def
<1>7. \A n \in 0..Len(s) : f[n] \in Int
  <2> DEFINE T == {n \in Nat : n <= Len(s) => f[n] \in Int}
  <2>1. 0 \in T
    BY <1>6
  <2>2. ASSUME NEW n \in Nat, n \in T PROVE n + 1 \in T
    <3> SUFFICES ASSUME n + 1 <= Len(s) PROVE f[n + 1] \in Int
      OBVIOUS
    <3>1. n + 1 \in 1..Len(s) /\ (n + 1) - 1 = n /\ f[n] \in Int
      BY <1>0, <2>2
    <3>2. f[n + 1] = f[n] + s[n + 1] /\ s[n + 1] \in Int
      BY <1>0, <1>6, <3>1
    <3> QED BY <3>1, <3>2
  <2>3. Nat \subseteq T
    <3> HIDE DEF T
    <3> QED BY <2>1, <2>2, Induction
  <2> QED BY <1>0, <2>3
<1> QED BY <1>5, <1>6, <1>7

\* The running sum of natural numbers: its steps, and that it does not fall.
LEMMA SumsGrow ==
  ASSUME NEW s \in Seq(Nat)
  PROVE  /\ SumTo(s, 0) = 0
         /\ \A n \in 0..Len(s) : SumTo(s, n) \in Nat
         /\ \A n \in 1..Len(s) : SumTo(s, n) = SumTo(s, n - 1) + s[n]
         /\ \A m, n \in 0..Len(s) : m <= n => SumTo(s, m) <= SumTo(s, n)
<1>0. Len(s) \in Nat /\ s \in Seq(Int) /\ \A n \in 1..Len(s) : s[n] \in Nat
  OBVIOUS
<1>1. /\ SumTo(s, 0) = 0
      /\ \A n \in 0..Len(s) : SumTo(s, n) \in Int
      /\ \A n \in 1..Len(s) : SumTo(s, n) = SumTo(s, n - 1) + s[n]
  BY <1>0, SumStep
<1>2. ASSUME NEW m \in 0..Len(s), NEW n \in 0..Len(s), m <= n
      PROVE  SumTo(s, m) <= SumTo(s, n)
  <2> DEFINE T == {k \in Nat : m + k <= Len(s) => SumTo(s, m) <= SumTo(s, m + k)}
  <2>1. 0 \in T
    BY <1>1
  <2>2. ASSUME NEW k \in Nat, k \in T PROVE k + 1 \in T
    <3> SUFFICES ASSUME m + (k + 1) <= Len(s) PROVE SumTo(s, m) <= SumTo(s, m + (k + 1))
      OBVIOUS
    <3> DEFINE o == m + (k + 1)
    <3>1. o \in 1..Len(s) /\ o - 1 = m + k /\ o - 1 \in 0..Len(s)
      BY <1>0
    <3>2. SumTo(s, m) <= SumTo(s, o - 1)
      BY <2>2, <3>1
    <3> HIDE DEF o
    <3>3. SumTo(s, o) = SumTo(s, o - 1) + s[o] /\ s[o] \in Nat
      BY <1>0, <1>1, <3>1
    <3>4. SumTo(s, o - 1) \in Int /\ SumTo(s, m) \in Int
      BY <1>1, <3>1
    <3>5. SumTo(s, m) <= SumTo(s, o)
      BY <3>2, <3>3, <3>4
    <3> QED BY <3>5 DEF o
  <2>3. n - m \in T
    <3>1. n - m \in Nat
      BY <1>0, <1>2
    <3> HIDE DEF T
    <3> QED BY <2>1, <2>2, <3>1, Induction
  <2>4. m + (n - m) = n
    OBVIOUS
  <2> QED BY <1>0, <2>3, <2>4
<1>3. \A n \in 0..Len(s) : SumTo(s, n) \in Nat
  <2> SUFFICES ASSUME NEW n \in 0..Len(s) PROVE SumTo(s, n) >= 0
    BY <1>1
  <2>1. 0 \in 0..Len(s)
    BY <1>0
  <2>2. SumTo(s, 0) <= SumTo(s, n)
    BY <1>2, <2>1
  <2> QED BY <1>1, <2>2
<1> QED BY <1>1, <1>2, <1>3

------------------------------------------------------------------------

\* The extent of a level is at least 1.
LEMMA MipExtent ==
  ASSUME NEW v \in Nat \ {0}
  PROVE  Mip(v, 0) = v /\ \A level \in Nat : Mip(v, level) \in Nat \ {0}
<1> DEFINE Def(f) == f = [l \in Nat |-> IF l = 0 THEN v ELSE f[l - 1] \div 2]
           step == [x \in Nat \X Nat |-> x[2] \div 2]
<1>1. step \in [Nat \X Nat -> Nat]
  OBVIOUS
<1>2. PICK g : Follows(g, Nat, v, step)
  <2> HIDE DEF step
  <2>1. v \in Nat
    OBVIOUS
  <2> QED BY <1>1, <2>1, Recursion
<1>3. g \in [Nat -> Nat] /\ g[0] = v /\ \A n \in Nat : g[n + 1] = g[n] \div 2
  <2>1. g \in [Nat -> Nat] /\ g[0] = v /\ \A n \in Nat : g[n + 1] = step[<<n, g[n]>>]
    BY <1>2 DEF Follows
  <2>2. ASSUME NEW n \in Nat PROVE step[<<n, g[n]>>] = g[n] \div 2
    <3>1. <<n, g[n]>> \in Nat \X Nat
      BY <2>1
    <3> QED BY <3>1
  <2> QED BY <2>1, <2>2
<1>4. Def(g)
  <2>1. ASSUME NEW l \in Nat, l # 0 PROVE g[l] = g[l - 1] \div 2
    <3>1. l - 1 \in Nat /\ (l - 1) + 1 = l
      BY <2>1
    <3> QED BY <1>3, <3>1
  <2> QED BY <1>3, <2>1
<1> DEFINE f == CHOOSE e : Def(e)
<1>5. Def(f)
  <2> HIDE DEF Def
  <2> QED BY <1>4
<1>6. \A level : Mip(v, level) = IF f[level] < 1 THEN 1 ELSE f[level]
  BY DEF Mip
<1> HIDE DEF f, step
<1>7. f[0] = v /\ \A n \in Nat : f[n + 1] = f[n] \div 2
  <2>1. \A l \in Nat : f[l] = IF l = 0 THEN v ELSE f[l - 1] \div 2
    BY <1>5, Zenon
  <2>2. \A n \in Nat : n + 1 \in Nat /\ n + 1 # 0 /\ (n + 1) - 1 = n
    OBVIOUS
  <2> QED BY <2>1, <2>2
<1> HIDE DEF Def
<1>8. \A n \in Nat : f[n] \in Nat
  <2> DEFINE T == {n \in Nat : f[n] \in Nat}
  <2>1. 0 \in T
    BY <1>7
  <2>2. \A n \in Nat : n \in T => n + 1 \in T
    BY <1>7
  <2>3. Nat \subseteq T
    <3> HIDE DEF T
    <3> QED BY <2>1, <2>2, Induction
  <2> QED BY <2>3
<1> QED BY <1>6, <1>7, <1>8

\* Rounding up to a multiple.
LEMMA Aligned ==
  ASSUME NEW v \in Nat, NEW a \in Nat \ {0}
  PROVE  Align(v, a) \in Nat /\ v <= Align(v, a) /\ \E k \in Nat : Align(v, a) = a * k
<1> DEFINE n == v + a - 1
           k == n \div a
<1>1. n \in Nat /\ k \in Nat /\ n % a \in 0..a - 1 /\ n = a * k + (n % a)
  <2>1. n \in Nat
    OBVIOUS
  <2> HIDE DEF n
  <2> QED BY <2>1
<1>2. Align(v, a) = k * a
  BY DEF Align
<1> HIDE DEF k
<1>3. k * a \in Nat /\ a * k = k * a
  BY <1>1
<1>4. v <= k * a
  BY <1>1, <1>3
<1> QED BY <1>1, <1>2, <1>3, <1>4

\* Products grow with their factors.
LEMMA Products ==
  ASSUME NEW a \in Nat, NEW b \in Nat, NEW c \in Nat, NEW d \in Nat
  PROVE  /\ a * b \in Nat
         /\ a <= c => a * b <= c * b /\ b * a <= b * c
         /\ a <= c /\ b <= d => a * b <= c * d
         /\ a # 0 /\ b # 0 => a * b # 0
<1>1. a * b \in Nat /\ c * b \in Nat /\ c * d \in Nat
  OBVIOUS
<1>2. ASSUME a <= c PROVE a * b <= c * b
  <2>1. PICK e \in Nat : c = a + e
    <3>1. c - a \in Nat /\ c = a + (c - a)
      BY <1>2
    <3> QED BY <3>1
  <2>2. c * b = a * b + e * b /\ e * b \in Nat
    BY <2>1
  <2> QED BY <1>1, <2>2
<1>3. ASSUME b <= d PROVE c * b <= c * d
  <2>1. PICK e \in Nat : d = b + e
    <3>1. d - b \in Nat /\ d = b + (d - b)
      BY <1>3
    <3> QED BY <3>1
  <2>2. c * d = c * b + c * e /\ c * e \in Nat
    BY <2>1
  <2> QED BY <1>1, <2>2
<1>4. b * a = a * b /\ b * c = c * b
  OBVIOUS
<1>5. ASSUME a <= c, b <= d PROVE a * b <= c * d
  BY <1>1, <1>2, <1>3, <1>5
<1>6. a # 0 /\ b # 0 => a * b # 0
  OBVIOUS
<1> QED BY <1>1, <1>2, <1>4, <1>5, <1>6

\* What RowPitch, SlicePitch and LevelSize need to be of a level that has room for its
\* texels.
Extent(i, level) ==
  /\ Mip(i.w, level) \in Nat \ {0} /\ Mip(i.h, level) \in Nat \ {0} /\ Depth(i, level) \in Nat \ {0}
  /\ RowPitch(i, level) \in Nat \ {0} /\ SlicePitch(i, level) \in Nat \ {0}
  /\ LevelSize(i, level) \in Nat \ {0}
  /\ i.bpp \in Nat \ {0} /\ i.mips \in Nat \ {0} /\ i.layers \in Nat \ {0}
  /\ Mip(i.w, level) * i.bpp <= RowPitch(i, level)
  /\ Mip(i.h, level) * RowPitch(i, level) <= SlicePitch(i, level)

\* The pitches of a level hold its rows and its slices.
LEMMA Pitches ==
  ASSUME NEW i \in Images, NEW level \in Nat
  PROVE  Extent(i, level)
<1>1. /\ i.w \in Nat \ {0} /\ i.h \in Nat \ {0} /\ i.d \in Nat \ {0} /\ i.mips \in Nat \ {0}
      /\ i.layers \in Nat \ {0} /\ i.bpp \in Nat \ {0}
  BY ImagesAssumption DEF ImagesAssumption, Extents
<1>2. Mip(i.w, level) \in Nat \ {0} /\ Mip(i.h, level) \in Nat \ {0} /\ Mip(i.d, level) \in Nat \ {0}
  BY <1>1, MipExtent
<1>3. Depth(i, level) \in Nat \ {0}
  BY <1>2 DEF Depth
<1> DEFINE mw == Mip(i.w, level)
           mh == Mip(i.h, level)
           dd == Depth(i, level)
           row == RowPitch(i, level)
           slice == SlicePitch(i, level)
<1>4. mw \in Nat \ {0} /\ mh \in Nat \ {0} /\ dd \in Nat \ {0}
  BY <1>2, <1>3
<1>5. row = Align(mw * i.bpp, 64) /\ slice = Align(mh * row, 64)
  BY DEF RowPitch, SlicePitch
<1>6. LevelSize(i, level) = slice * dd * i.layers
  BY DEF LevelSize
<1> HIDE DEF mw, mh, dd, row, slice
<1>7. mw * i.bpp \in Nat /\ mw * i.bpp # 0
  BY <1>1, <1>4, Products
<1>8. row \in Nat \ {0} /\ mw * i.bpp <= row
  <2> DEFINE p == mw * i.bpp
  <2>1. p \in Nat /\ p # 0 /\ row = Align(p, 64) /\ 64 \in Nat \ {0}
    BY <1>5, <1>7
  <2> HIDE DEF p
  <2>2. row \in Nat /\ p <= row
    BY <2>1, Aligned
  <2>3. row # 0
    BY <2>1, <2>2
  <2> QED BY <2>2, <2>3 DEF p
<1>9. mh * row \in Nat /\ mh * row # 0
  BY <1>4, <1>8, Products
<1>10. slice \in Nat \ {0} /\ mh * row <= slice
  BY <1>5, <1>9, Aligned
<1>11. slice * dd \in Nat \ {0}
  BY <1>4, <1>10, Products
<1>12. slice * dd * i.layers \in Nat \ {0}
  BY <1>1, <1>11, Products
<1> QED BY <1>1, <1>4, <1>6, <1>8, <1>10, <1>12 DEF Extent, mw, mh, dd, row, slice

\* The offsets of the levels.
LEMMA Levels ==
  ASSUME NEW i \in Images
  PROVE  /\ \A l \in 0..i.mips : MipOffset(i, l) \in Nat
         /\ \A l \in 0..i.mips - 1 : MipOffset(i, l + 1) = MipOffset(i, l) + LevelSize(i, l)
         /\ \A k, l \in 0..i.mips : k <= l => MipOffset(i, k) <= MipOffset(i, l)
         /\ MipOffset(i, i.mips) # 0 /\ MipOffset(i, 0) = 0
<1> DEFINE s == LevelSizes(i)
<1>1. i.mips \in Nat \ {0} /\ \A l \in Nat : LevelSize(i, l) \in Nat \ {0}
  BY ImagesAssumption, Pitches DEF ImagesAssumption, Extents, Extent
<1>2. s \in Seq(Nat) /\ Len(s) = i.mips /\ \A l \in 1..i.mips : s[l] = LevelSize(i, l - 1)
  <2>1. s = [l \in 1..i.mips |-> LevelSize(i, l - 1)]
    BY DEF LevelSizes
  <2>2. \A l \in 1..i.mips : LevelSize(i, l - 1) \in Nat
    BY <1>1
  <2>3. s \in [1..i.mips -> Nat]
    BY <2>1, <2>2
  <2>4. i.mips \in Nat
    BY <1>1
  <2> HIDE DEF s
  <2>5. s \in Seq(Nat)
    BY <2>3, <2>4
  <2>6. Len(s) = i.mips
    BY <2>3, <2>4, <2>5
  <2> QED BY <2>1, <2>5, <2>6
<1>3. \A l : MipOffset(i, l) = SumTo(s, l)
  BY DEF MipOffset
<1> HIDE DEF s
<1>4. /\ SumTo(s, 0) = 0 /\ \A n \in 0..i.mips : SumTo(s, n) \in Nat
      /\ \A n \in 1..i.mips : SumTo(s, n) = SumTo(s, n - 1) + s[n]
      /\ \A m, n \in 0..i.mips : m <= n => SumTo(s, m) <= SumTo(s, n)
  BY <1>2, SumsGrow
<1>5. ASSUME NEW l \in 0..i.mips - 1 PROVE SumTo(s, l + 1) = SumTo(s, l) + LevelSize(i, l)
  <2>1. l + 1 \in 1..i.mips /\ (l + 1) - 1 = l
    BY <1>1
  <2> QED BY <1>2, <1>4, <2>1
<1>6. SumTo(s, i.mips) # 0
  <2>1. i.mips - 1 \in 0..i.mips - 1 /\ (i.mips - 1) + 1 = i.mips /\ i.mips - 1 \in Nat /\ i.mips - 1 \in 0..i.mips
    BY <1>1
  <2>2. SumTo(s, i.mips) = SumTo(s, i.mips - 1) + LevelSize(i, i.mips - 1)
    BY <1>5, <2>1
  <2> QED BY <1>1, <1>4, <2>1, <2>2
<1> QED BY <1>3, <1>4, <1>5, <1>6

\* The offsets of the layers: one begins where the one before it ends.
LEMMA Layers ==
  ASSUME NEW i \in Images, NEW l \in 0..i.mips - 1
  PROVE  LET size == SlicePitch(i, l) * Depth(i, l) IN
         /\ size \in Nat \ {0}
         /\ \A k \in 0..i.layers : SubOffset(i, l, k) \in Nat
         /\ \A k \in 0..i.layers - 1 : SubOffset(i, l, k + 1) = SubOffset(i, l, k) + size
         /\ \A j, k \in 0..i.layers : j <= k => SubOffset(i, l, j) <= SubOffset(i, l, k)
         /\ SubOffset(i, l, 0) = MipOffset(i, l)
         /\ SubOffset(i, l, i.layers) = MipOffset(i, l + 1)
<1>1. i.mips \in Nat \ {0}
  BY ImagesAssumption DEF ImagesAssumption, Extents
<1>2. Extent(i, l)
  BY <1>1, Pitches
<1> DEFINE slice == SlicePitch(i, l)
           dd == Depth(i, l)
           base == MipOffset(i, l)
           size == slice * dd
<1>3. slice \in Nat \ {0} /\ dd \in Nat \ {0} /\ i.layers \in Nat \ {0}
  BY <1>2 DEF Extent
<1>4. base \in Nat /\ MipOffset(i, l + 1) = base + slice * dd * i.layers
  BY <1>1, Levels DEF LevelSize
<1>5. \A k : SubOffset(i, l, k) = base + k * slice * dd
  BY DEF SubOffset
<1> HIDE DEF slice, dd, base
<1>6. size \in Nat \ {0}
  BY <1>3, Products
<1>7. \A k \in Nat : k * slice * dd = k * size
  BY <1>3
<1>8. slice * dd * i.layers = i.layers * size
  BY <1>3
<1> HIDE DEF size
<1>9. \A k \in 0..i.layers : k \in Nat /\ k * size \in Nat /\ SubOffset(i, l, k) = base + k * size
  BY <1>3, <1>5, <1>6, <1>7, Products
<1>10. \A k \in 0..i.layers - 1 : SubOffset(i, l, k + 1) = SubOffset(i, l, k) + size
  <2> SUFFICES ASSUME NEW k \in 0..i.layers - 1
               PROVE  SubOffset(i, l, k + 1) = SubOffset(i, l, k) + size
    OBVIOUS
  <2>1. k \in Nat /\ k \in 0..i.layers /\ k + 1 \in 0..i.layers
    BY <1>3
  <2>2. (k + 1) * size = k * size + size
    BY <1>6, <2>1
  <2> QED BY <1>4, <1>6, <1>9, <2>1, <2>2
<1>11. \A j, k \in 0..i.layers : j <= k => j * size <= k * size
  BY <1>6, <1>9, Products
<1>12. \A j, k \in 0..i.layers : j <= k => SubOffset(i, l, j) <= SubOffset(i, l, k)
  BY <1>4, <1>9, <1>11
<1>13. SubOffset(i, l, 0) = base /\ SubOffset(i, l, i.layers) = base + i.layers * size
  <2>1. 0 * size = 0 /\ 0 \in 0..i.layers /\ i.layers \in 0..i.layers
    BY <1>3, <1>6
  <2> QED BY <1>4, <1>9, <2>1
<1>14. \A k \in 0..i.layers : SubOffset(i, l, k) \in Nat
  BY <1>4, <1>9
<1> QED BY <1>4, <1>6, <1>8, <1>10, <1>12, <1>13, <1>14 DEF size, slice, dd, base

\* What an image or a buffer is.
Thing == [image : {<<>>} \cup {<<i>> : i \in Images}, size : Nat \ {0}, at : Nat]

\* The inductive invariant: a resource's size is that of its levels, so NoSpill can speak of
\* offsets alone.
MemoryInv ==
  /\ MemoryTypeOK /\ NoSpill
  /\ things \in Seq(Thing)
  /\ \A n \in 1..Len(things) :
       things[n].image # <<>> => things[n].size = MipOffset(Shape(n), Shape(n).mips)

\* What the invariant says of each image and each buffer.
LEMMA Shapes ==
  ASSUME MemoryInv
  PROVE  /\ Len(things) \in Nat
         /\ \A n \in 1..Len(things) : things[n] \in Thing
         /\ \A n \in Numbers("image") :
              /\ n \in 1..Len(things) /\ n \notin Numbers("buffer") /\ Shape(n) \in Images
              /\ things[n].size = MipOffset(Shape(n), Shape(n).mips) /\ things[n].at \in Nat
         /\ \A n \in Numbers("buffer") :
              n \in 1..Len(things) /\ things[n].size \in Nat \ {0} /\ things[n].at \in Nat
<1>1. things \in Seq(Thing)
  BY DEF MemoryInv
<1>2. Len(things) \in Nat /\ \A n \in 1..Len(things) : things[n] \in Thing
  BY <1>1
<1>3. ASSUME NEW n \in Numbers("image")
      PROVE  /\ n \in 1..Len(things) /\ n \notin Numbers("buffer") /\ Shape(n) \in Images
             /\ things[n].size = MipOffset(Shape(n), Shape(n).mips) /\ things[n].at \in Nat
  <2>1. n \in 1..Len(things) /\ things[n].image # <<>>
    BY DEF Numbers
  <2>2. things[n] \in Thing
    BY <1>2, <2>1
  <2>3. PICK i \in Images : things[n].image = <<i>>
    BY <2>1, <2>2 DEF Thing
  <2>4. Shape(n) = i
    BY <2>3 DEF Shape
  <2>5. things[n].at \in Nat
    BY <2>2 DEF Thing
  <2> QED BY <2>1, <2>4, <2>5 DEF Numbers, MemoryInv
<1>4. ASSUME NEW n \in Numbers("buffer")
      PROVE  n \in 1..Len(things) /\ things[n].size \in Nat \ {0} /\ things[n].at \in Nat
  <2>1. n \in 1..Len(things)
    BY DEF Numbers
  <2>2. things[n] \in Thing
    BY <1>2, <2>1
  <2> QED BY <2>1, <2>2 DEF Thing
<1> QED BY <1>2, <1>3, <1>4

\* A level and layer lies in its image, and those after it begin behind it.
LEMMA Apart == MemoryInv => SubresourcesDisjoint
<1> SUFFICES ASSUME MemoryInv, NEW n \in Numbers("image"),
                    NEW a \in 0..Shape(n).mips - 1, NEW b \in 0..Shape(n).layers - 1,
                    NEW c \in 0..Shape(n).mips - 1, NEW d \in 0..Shape(n).layers - 1
             PROVE  /\ SubOffset(Shape(n), a, b) + SlicePitch(Shape(n), a) * Depth(Shape(n), a)
                         <= things[n].size
                    /\ <<a, b>> # <<c, d>> =>
                         \/ SubOffset(Shape(n), a, b) + SlicePitch(Shape(n), a) * Depth(Shape(n), a)
                              <= SubOffset(Shape(n), c, d)
                         \/ SubOffset(Shape(n), c, d) + SlicePitch(Shape(n), c) * Depth(Shape(n), c)
                              <= SubOffset(Shape(n), a, b)
  BY DEF SubresourcesDisjoint
<1> DEFINE i == Shape(n)
<1>1. i \in Images /\ things[n].size = MipOffset(i, i.mips)
  BY Shapes
<1> HIDE DEF i
<1>2. i.mips \in Nat \ {0} /\ i.layers \in Nat \ {0}
  BY <1>1, ImagesAssumption DEF ImagesAssumption, Extents
<1> DEFINE end(l, k) == SubOffset(i, l, k) + SlicePitch(i, l) * Depth(i, l)
<1>3. ASSUME NEW l \in 0..i.mips - 1, NEW k \in 0..i.layers - 1
      PROVE  /\ end(l, k) = SubOffset(i, l, k + 1) /\ k + 1 \in 0..i.layers /\ k \in 0..i.layers
             /\ MipOffset(i, l) <= SubOffset(i, l, k) /\ end(l, k) <= MipOffset(i, l + 1)
             /\ end(l, k) \in Nat /\ SubOffset(i, l, k) \in Nat
  <2>1. /\ k + 1 \in 0..i.layers /\ k \in 0..i.layers /\ 0 <= k /\ k + 1 <= i.layers
        /\ 0 \in 0..i.layers /\ i.layers \in 0..i.layers
    BY <1>2
  <2>2. end(l, k) = SubOffset(i, l, k + 1)
    BY <1>1, Layers
  <2>3. SubOffset(i, l, 0) <= SubOffset(i, l, k) /\ SubOffset(i, l, k + 1) <= SubOffset(i, l, i.layers)
    BY <1>1, <2>1, Layers
  <2>4. SubOffset(i, l, 0) = MipOffset(i, l) /\ SubOffset(i, l, i.layers) = MipOffset(i, l + 1)
        /\ SubOffset(i, l, k) \in Nat /\ SubOffset(i, l, k + 1) \in Nat
    BY <1>1, <2>1, Layers
  <2> HIDE DEF end
  <2> QED BY <2>1, <2>2, <2>3, <2>4
<1>4. ASSUME NEW l \in 0..i.mips - 1
      PROVE  l + 1 \in 0..i.mips /\ l \in 0..i.mips /\ MipOffset(i, l + 1) \in Nat
             /\ MipOffset(i, l) \in Nat
  <2>1. l + 1 \in 0..i.mips /\ l \in 0..i.mips
    BY <1>2
  <2> QED BY <1>1, <2>1, Levels
<1>5. ASSUME NEW k \in 0..i.mips, NEW l \in 0..i.mips, k <= l
      PROVE  MipOffset(i, k) <= MipOffset(i, l)
  BY <1>1, <1>5, Levels
<1>6. ASSUME NEW l \in 0..i.mips - 1, NEW k \in 0..i.layers - 1,
             NEW m \in 0..i.mips - 1, NEW j \in 0..i.layers - 1,
             l < m \/ (l = m /\ k < j)
      PROVE  end(l, k) <= SubOffset(i, m, j)
  <2>1. CASE l < m
    <3>1. l + 1 <= m
      BY <2>1
    <3>2. MipOffset(i, l + 1) <= MipOffset(i, m)
      BY <1>4, <1>5, <3>1
    <3> HIDE DEF end
    <3> QED BY <1>3, <1>4, <3>2
  <2>2. CASE l = m /\ k < j
    <3>1. k + 1 <= j
      BY <2>2
    <3>2. SubOffset(i, l, k + 1) <= SubOffset(i, l, j)
      BY <1>1, <1>3, <3>1, Layers
    <3> HIDE DEF end
    <3> QED BY <1>3, <2>2, <3>2
  <2> QED BY <1>6, <2>1, <2>2
<1>7. a \in 0..i.mips - 1 /\ b \in 0..i.layers - 1 /\ c \in 0..i.mips - 1 /\ d \in 0..i.layers - 1
  BY DEF i
<1>8. end(a, b) <= things[n].size
  <2>1. a + 1 <= i.mips /\ i.mips \in 0..i.mips /\ MipOffset(i, i.mips) \in Nat
    BY <1>1, <1>2, <1>7, Levels
  <2>2. MipOffset(i, a + 1) <= MipOffset(i, i.mips)
    BY <1>4, <1>5, <1>7, <2>1
  <2> HIDE DEF end
  <2> QED BY <1>1, <1>3, <1>4, <1>7, <2>1, <2>2
<1>9. ASSUME <<a, b>> # <<c, d>> PROVE end(a, b) <= SubOffset(i, c, d) \/ end(c, d) <= SubOffset(i, a, b)
  <2>1. (a < c \/ (a = c /\ b < d)) \/ (c < a \/ (c = a /\ d < b))
    BY <1>2, <1>7, <1>9
  <2> HIDE DEF end
  <2> QED BY <1>6, <1>7, <2>1
<1> QED BY <1>8, <1>9 DEF i

\* d slices of h rows of n bytes, from the x-th byte of the y-th row on, end at most as far
\* past a level that has H rows and D slices as a row of them ends past a row of it.
LEMMA Placed ==
  ASSUME NEW x \in Nat, NEW y \in Nat, NEW h \in Nat \ {0}, NEW d \in Nat \ {0}, NEW n \in Nat,
         NEW row \in Nat, NEW slice \in Nat, NEW H \in Nat, NEW D \in Nat,
         NEW more \in Nat, y + h <= H, x + n <= row + more, H * row <= slice, d <= D
  PROVE  /\ y * row + x \in Nat /\ (d - 1) * slice + (h - 1) * row + n \in Nat
         /\ y * row + x + ((d - 1) * slice + (h - 1) * row + n) <= slice * D + more
<1> DEFINE a == y * row
           b == (h - 1) * row
           c == (d - 1) * slice
<1>1. h - 1 \in Nat /\ d - 1 \in Nat /\ y + h \in Nat
  OBVIOUS
<1>2. a \in Nat /\ b \in Nat /\ c \in Nat /\ H * row \in Nat
  BY <1>1, Products
<1>3. (y + h) * row = a + b + row
  <2>1. y + h = y + (h - 1) + 1
    OBVIOUS
  <2>2. \A p \in Nat : (y + p + 1) * row = y * row + p * row + row
    OBVIOUS
  <2> QED BY <1>1, <2>1, <2>2
<1>4. (y + h) * row <= H * row
  BY <1>1, Products
<1>5. c + slice = d * slice
  <2>1. \A p \in Nat : p * slice + slice = (p + 1) * slice
    OBVIOUS
  <2>2. (d - 1) + 1 = d
    OBVIOUS
  <2> QED BY <1>1, <2>1, <2>2
<1>6. d * slice <= D * slice /\ D * slice = slice * D /\ slice * D \in Nat /\ d * slice \in Nat
  BY Products
<1> HIDE DEF a, b, c
<1>7. a + b + row <= slice
  BY <1>2, <1>3, <1>4
<1>8. c + slice <= slice * D
  BY <1>5, <1>6
<1>9. a + x + (c + b + n) <= slice * D + more
  BY <1>2, <1>6, <1>7, <1>8
<1> QED BY <1>2, <1>9 DEF a, b, c

\* A thing's record of its write, without what it means.
Recorded(by, n, from, level, layer) ==
  /\ write'.by = by /\ write'.to = n /\ write'.from = from
  /\ write'.level = level /\ write'.layer = layer

\* What Span says of the write it records.
LEMMA SpanRecords ==
  ASSUME NEW by, NEW to, NEW level, NEW layer, NEW from, NEW start, NEW row, NEW slice,
         NEW h, NEW d, NEW n, Span(by, to, level, layer, from, start, row, slice, h, d, n)
  PROVE  /\ Recorded(by, to, from, level, layer)
         /\ write'.lo = start
         /\ write'.hi = start + (d - 1) * slice + (h - 1) * row + n
  BY DEF Span, Recorded

\* Where a write to an image belongs, and how far it may get.
LEMMA ImageLimit ==
  ASSUME things' = things, NEW n \in Numbers("image"), NEW by, NEW from, NEW level, NEW layer,
         n \notin Numbers("buffer"), Recorded(by, n, from, level, layer)
  PROVE  /\ Home' = [lo |-> Base(n, level, layer), hi |-> Base(n, level, layer + 1)]
         /\ by \in {"upload", "copy", "clear"} => Limit' = Base(n, level, layer + 1)
         /\ by = "blit" =>
              Limit' = Base(n, level, layer + 1)
                         + Mip(Shape(n).w, level) * (Most(Shape(from).bpp, Shape(n).bpp) - Shape(n).bpp)
         /\ by = "target" =>
              Limit' = Base(n, level, layer + 1)
                         + (Align(Shape(n).h, 16) - Shape(n).h) * RowPitch(Shape(n), 0)
<1>1. Home' = [lo |-> Base(n, level, layer), hi |-> Base(n, level, layer + 1)]
  BY DEF Home, Recorded, Numbers, Base, Shape
<1> QED BY <1>1 DEF Limit, Recorded, Shape

\* The same for a buffer.
LEMMA BufferLimit ==
  ASSUME things' = things, NEW n \in Numbers("buffer"), NEW by, NEW from, NEW level, NEW layer,
         Recorded(by, n, from, level, layer)
  PROVE  /\ Home' = [lo |-> things[n].at, hi |-> things[n].at + things[n].size]
         /\ by \in {"download", "buffer", "fill"} => Limit' = things[n].at + things[n].size
         /\ by = "loose" =>
              Limit' = Most(things[n].at + things[n].size,
                            things[n].at + SlicePitch(Shape(from), level) * Depth(Shape(from), level))
<1>1. Home' = [lo |-> things[n].at, hi |-> things[n].at + things[n].size]
  BY DEF Home, Recorded, Numbers
<1> QED BY <1>1 DEF Limit, Recorded, Shape

\* A write keeps the invariant if it stays between its home and its limit.
LEMMA WriteKeeps ==
  ASSUME MemoryInv, things' = things, NEW n \in 1..Len(things), NEW by, NEW from,
         NEW level, NEW layer, Recorded(by, n, from, level, layer), write'.lo <= write'.hi,
         ~Astray' => Home'.lo <= write'.lo /\ write'.hi <= Limit'
  PROVE  MemoryInv'
<1>1. MemoryTypeOK'
  <2>1. n \in 0..Len(things)
    OBVIOUS
  <2> QED BY <2>1 DEF MemoryInv, MemoryTypeOK, Recorded
<1>2. NoSpill'
  BY DEF NoSpill
<1> QED BY <1>1, <1>2 DEF MemoryInv, Shape

\* What is true of the image, the level and the layer that a write names.
LEMMA Target ==
  ASSUME MemoryInv, NEW n \in Numbers("image"), NEW level \in 0..Shape(n).mips - 1,
         NEW layer \in 0..Shape(n).layers - 1
  PROVE  /\ Extent(Shape(n), level)
         /\ Base(n, level, layer) \in Nat
         /\ Base(n, level, layer + 1)
              = Base(n, level, layer) + SlicePitch(Shape(n), level) * Depth(Shape(n), level)
<1>1. Shape(n) \in Images /\ things[n].at \in Nat
  BY Shapes
<1>2. Shape(n).mips \in Nat \ {0} /\ Shape(n).layers \in Nat \ {0}
  BY <1>1, ImagesAssumption DEF ImagesAssumption, Extents
<1>3. level \in Nat /\ layer \in 0..Shape(n).layers
  BY <1>2
<1>4. Extent(Shape(n), level)
  BY <1>1, <1>3, Pitches
<1> DEFINE i == Shape(n)
           size == SlicePitch(i, level) * Depth(i, level)
<1> HIDE DEF i
<1>5. /\ SubOffset(i, level, layer) \in Nat /\ size \in Nat
      /\ SubOffset(i, level, layer + 1) = SubOffset(i, level, layer) + size
  BY <1>1, <1>3, Layers DEF i
<1> HIDE DEF size
<1>6. /\ Base(n, level, layer) = things[n].at + SubOffset(i, level, layer)
      /\ Base(n, level, layer + 1) = things[n].at + SubOffset(i, level, layer + 1)
  BY DEF Base, i
<1>7. Base(n, level, layer) \in Nat /\ Base(n, level, layer + 1) = Base(n, level, layer) + size
  BY <1>1, <1>5, <1>6
<1> QED BY <1>4, <1>7 DEF size, i

\* Where a level and layer ends.
LEMMA TopInNat ==
  ASSUME MemoryInv, NEW n \in Numbers("image"), NEW level \in 0..Shape(n).mips - 1,
         NEW layer \in 0..Shape(n).layers - 1
  PROVE  Base(n, level, layer + 1) \in Nat
<1> DEFINE base == Base(n, level, layer)
           slice == SlicePitch(Shape(n), level)
           dd == Depth(Shape(n), level)
<1>1. /\ base \in Nat /\ slice \in Nat /\ dd \in Nat
      /\ Base(n, level, layer + 1) = base + slice * dd
  BY Target DEF Extent
<1> HIDE DEF base, slice, dd
<1>2. slice * dd \in Nat
  BY <1>1, Products
<1> QED BY <1>1, <1>2

\* A write of rows that lie in the level, or end as far past it as they may, keeps the
\* invariant.
LEMMA ToImageKeeps ==
  ASSUME MemoryInv, things' = things, NEW n \in Numbers("image"),
         NEW level \in 0..Shape(n).mips - 1, NEW layer \in 0..Shape(n).layers - 1, NEW by, NEW from,
         NEW x \in Nat, NEW y \in Nat, NEW h \in Nat \ {0}, NEW d \in Nat \ {0}, NEW bytes \in Nat,
         ToImage(by, n, level, layer, from, x, y, h, d, bytes),
         NEW more \in Nat, y + h <= Mip(Shape(n).h, level),
         x + bytes <= RowPitch(Shape(n), level) + more, d <= Depth(Shape(n), level),
         Recorded(by, n, from, level, layer) => Limit' = Base(n, level, layer + 1) + more
  PROVE  MemoryInv'
<1> DEFINE i == Shape(n)
           row == RowPitch(i, level)
           slice == SlicePitch(i, level)
           base == Base(n, level, layer)
           start == base + y * row + x
           H == Mip(i.h, level)
           D == Depth(i, level)
<1>1. /\ row \in Nat /\ slice \in Nat /\ H \in Nat /\ D \in Nat /\ H * row <= slice
      /\ base \in Nat /\ Base(n, level, layer + 1) = base + slice * D
  BY Target DEF Extent
<1>2. /\ Recorded(by, n, from, level, layer)
      /\ write'.lo = start
      /\ write'.hi = start + (d - 1) * slice + (h - 1) * row + bytes
  <2>1. Span(by, n, level, layer, from, start, row, slice, h, d, bytes)
    BY DEF ToImage
  <2> HIDE DEF i, row, slice, start
  <2> QED BY <2>1, SpanRecords
<1>3. y + h <= H /\ x + bytes <= row + more /\ d <= D
  OBVIOUS
<1> DEFINE left == y * row + x
           length == (d - 1) * slice + (h - 1) * row + bytes
<1> HIDE DEF i, row, slice, base, H, D
<1>4. left \in Nat /\ length \in Nat
  <2>1. d - 1 \in Nat /\ h - 1 \in Nat
    OBVIOUS
  <2>2. y * row \in Nat /\ (d - 1) * slice \in Nat /\ (h - 1) * row \in Nat
    BY <1>1, <2>1, Products
  <2> QED BY <2>2
<1>5. write'.lo = base + left /\ write'.hi = base + left + length
  <2>1. d - 1 \in Nat /\ h - 1 \in Nat
    OBVIOUS
  <2>2. y * row \in Nat /\ (d - 1) * slice \in Nat /\ (h - 1) * row \in Nat
    BY <1>1, <2>1, Products
  <2> QED BY <1>1, <1>2, <2>2
<1>6. left + length <= slice * D + more
  BY <1>1, <1>3, Placed
<1> HIDE DEF left, length
<1>7. write'.lo <= write'.hi
  BY <1>1, <1>4, <1>5
<1>8. base <= write'.lo /\ write'.hi <= base + slice * D + more
  <2>1. slice * D \in Nat
    BY <1>1, Products
  <2> QED BY <1>1, <1>4, <1>5, <1>6, <2>1
<1>9. n \in 1..Len(things) /\ n \notin Numbers("buffer")
  BY Shapes
<1>10. Home'.lo = base /\ Limit' = base + slice * D + more
  <2>1. Home' = [lo |-> Base(n, level, layer), hi |-> Base(n, level, layer + 1)]
    BY <1>2, <1>9, ImageLimit
  <2> QED BY <1>1, <1>2, <2>1 DEF base
<1> QED BY <1>2, <1>7, <1>8, <1>9, <1>10, WriteKeeps

\* A region that a command names lies in its level.
LEMMA RegionFits ==
  ASSUME NEW i \in Images, NEW level \in Nat, NEW r \in Regions(i, level)
  PROVE  /\ r.x \in Nat /\ r.y \in Nat /\ r.w \in Nat \ {0} /\ r.h \in Nat \ {0}
         /\ r.d = Depth(i, level) /\ r.d \in Nat \ {0} /\ i.bpp \in Nat \ {0}
         /\ r.x + r.w = Mip(i.w, level) /\ r.y + r.h = Mip(i.h, level)
         /\ r.x * i.bpp \in Nat /\ r.w * i.bpp \in Nat
         /\ r.x * i.bpp + r.w * i.bpp <= RowPitch(i, level)
         /\ r.w * i.bpp <= RowPitch(i, level)
<1> DEFINE mw == Mip(i.w, level)
           mh == Mip(i.h, level)
<1>1. /\ mw \in Nat \ {0} /\ mh \in Nat \ {0} /\ Depth(i, level) \in Nat \ {0} /\ i.bpp \in Nat \ {0}
      /\ mw * i.bpp <= RowPitch(i, level) /\ RowPitch(i, level) \in Nat
  BY Pitches DEF Extent
<1>2. PICK x \in {0, mw \div 2}, y \in {0, mh \div 2} :
        r = [x |-> x, y |-> y, w |-> mw - x, h |-> mh - y, d |-> Depth(i, level)]
  BY DEF Regions
<1>3. r.x = x /\ r.y = y /\ r.w = mw - x /\ r.h = mh - y /\ r.d = Depth(i, level)
  BY <1>2
<1> HIDE DEF mw, mh
<1>4. \A v \in Nat \ {0} : v \div 2 \in Nat /\ v \div 2 < v
  OBVIOUS
<1>5. x \in Nat /\ y \in Nat /\ x < mw /\ y < mh
  BY <1>1, <1>2, <1>4
<1>6. /\ r.x \in Nat /\ r.y \in Nat /\ r.w \in Nat \ {0} /\ r.h \in Nat \ {0}
      /\ r.x + r.w = mw /\ r.y + r.h = mh
  BY <1>1, <1>3, <1>5
<1>7. r.x * i.bpp \in Nat /\ r.w * i.bpp \in Nat
  BY <1>1, <1>6, Products
<1>8. r.x * i.bpp + r.w * i.bpp = mw * i.bpp
  BY <1>1, <1>6
<1> QED BY <1>1, <1>3, <1>6, <1>7, <1>8 DEF mw, mh

\* An image has a texel size.
LEMMA Bpps ==
  ASSUME MemoryInv, NEW n \in Numbers("image")
  PROVE  Shape(n).bpp \in Nat \ {0} /\ Shape(n) \in Images
  BY Shapes, ImagesAssumption DEF ImagesAssumption, Extents

\* Where an image is rendered to, whole tiles of 32-bit pixels end past its first level by
\* no more than the rows of the last tiles that it does not have, if its pixels are as large.
LEMMA TilesFit ==
  ASSUME NEW i \in Images, i.bpp >= 4
  PROVE  /\ (Align(i.h, 16) - i.h) * RowPitch(i, 0) \in Nat
         /\ Align(i.w, 16) * Align(i.h, 16) * 4
              <= SlicePitch(i, 0) * Depth(i, 0) + (Align(i.h, 16) - i.h) * RowPitch(i, 0)
<1>1. i.w \in Nat \ {0} /\ i.h \in Nat \ {0} /\ i.bpp \in Nat \ {0}
  BY ImagesAssumption DEF ImagesAssumption, Extents
<1>2. Mip(i.w, 0) = i.w /\ Mip(i.h, 0) = i.h
  BY <1>1, MipExtent
<1>3. /\ RowPitch(i, 0) \in Nat /\ SlicePitch(i, 0) \in Nat /\ Depth(i, 0) \in Nat \ {0}
      /\ i.h * RowPitch(i, 0) <= SlicePitch(i, 0)
  BY <1>2, Pitches DEF Extent
<1> DEFINE w == i.w
           h == i.h
           p == w * i.bpp
           q == (w + 15) \div 16
           k == (p + 63) \div 64
           g == Align(i.h, 16)
<1>4. RowPitch(i, 0) = k * 64
  <2>1. p + 64 - 1 = p + 63
    BY <1>1, Products
  <2> QED BY <1>2, <2>1 DEF RowPitch, Align
<1>5. Align(i.w, 16) = q * 16
  <2>1. w + 16 - 1 = w + 15
    BY <1>1
  <2> QED BY <2>1 DEF Align
<1>6. Align(i.h, 16) \in Nat /\ i.h <= Align(i.h, 16)
  <2>1. 16 \in Nat \ {0} /\ i.h \in Nat
    BY <1>1
  <2> QED BY <2>1, Aligned
<1>7. p \in Nat /\ 4 * w <= p
  BY <1>1, Products
<1>8. w \in Nat /\ h \in Nat
  BY <1>1
<1> HIDE DEF w, h, p
<1>9. q <= k /\ q \in Nat /\ k \in Nat
  BY <1>7, <1>8
<1> HIDE DEF q, k
<1>18. g \in Nat /\ h <= g /\ g - h \in Nat
  BY <1>6, <1>8 DEF h
<1> HIDE DEF g
<1>10. (q * 16) * g * 4 = (q * 64) * g
  BY <1>9, <1>18
<1>11. (q * 64) * g <= (k * 64) * g
  <2>1. q * 64 \in Nat /\ k * 64 \in Nat /\ q * 64 <= k * 64
    BY <1>9
  <2> QED BY <1>18, <2>1, Products
<1>12. /\ (k * 64) * g = h * (k * 64) + (g - h) * (k * 64)
       /\ h * (k * 64) \in Nat /\ (g - h) * (k * 64) \in Nat /\ (k * 64) * g \in Nat
  <2>1. k * 64 \in Nat
    BY <1>9
  <2> DEFINE m == k * 64
  <2> HIDE DEF m
  <2>2. m \in Nat
    BY <2>1 DEF m
  <2>3. m * g = h * m + (g - h) * m
    BY <1>8, <1>18, <2>2
  <2>4. h * m \in Nat /\ (g - h) * m \in Nat /\ m * g \in Nat
    BY <1>8, <1>18, <2>2, Products
  <2> QED BY <2>3, <2>4 DEF m
<1>13. SlicePitch(i, 0) <= SlicePitch(i, 0) * Depth(i, 0)
  <2>1. 1 <= Depth(i, 0) /\ 1 \in Nat /\ SlicePitch(i, 0) * 1 = SlicePitch(i, 0)
    BY <1>3
  <2> QED BY <1>3, <2>1, Products
<1>14. h * (k * 64) <= SlicePitch(i, 0)
  BY <1>3, <1>4 DEF h
<1>15. SlicePitch(i, 0) * Depth(i, 0) \in Nat
  BY <1>3, Products
<1>16. Align(i.w, 16) * Align(i.h, 16) * 4 = (q * 64) * g
  BY <1>5, <1>10 DEF g
<1>17. (q * 64) * g \in Nat
  <2>1. q * 64 \in Nat
    BY <1>9
  <2> QED BY <1>18, <2>1, Products
<1>19. (q * 64) * g <= SlicePitch(i, 0) * Depth(i, 0) + (g - h) * (k * 64)
  BY <1>3, <1>11, <1>12, <1>13, <1>14, <1>15, <1>17
<1> QED BY <1>4, <1>12, <1>16, <1>19 DEF g, h

\* Nothing is bound yet, and nothing was written.
LEMMA MemoryStart == MemoryInit => MemoryInv
  BY BuffersAssumption DEF MemoryInit, MemoryInv, MemoryTypeOK, NoSpill, NoWrite, BuffersAssumption

\* An image or a buffer gets its place.
LEMMA BindKeeps ==
  ASSUME MemoryInv, Bind
  PROVE  MemoryInv'
<1>1. Len(things) \in Nat /\ things \in Seq(Thing) /\ \A n \in 1..Len(things) : things[n] \in Thing
  BY Shapes DEF MemoryInv
<1>2. End \in Nat
  <2>1. CASE things = <<>>
    BY <2>1 DEF End
  <2>2. CASE things # <<>>
    <3>1. Len(things) \in 1..Len(things)
      BY <1>1, <2>2
    <3>2. things[Len(things)] \in Thing
      BY <1>1, <3>1
    <3> QED BY <2>2, <3>2 DEF End, Thing
  <2> QED BY <2>1, <2>2
<1> DEFINE Fit(new) == /\ things' = Append(things, new) /\ new \in Thing /\ new.at % 64 = 0
                       /\ new.image # <<>> =>
                            new.size = MipOffset(new.image[1], new.image[1].mips)
<1>3. PICK new : Fit(new)
  <2>1. ASSUME NEW i \in Images,
               things' = Append(things, [image |-> <<i>>, size |-> MipOffset(i, i.mips),
                                         at |-> Align(End, 4096)])
        PROVE  \E new : Fit(new)
    <3> DEFINE new == [image |-> <<i>>, size |-> MipOffset(i, i.mips), at |-> Align(End, 4096)]
    <3>1. i.mips \in Nat \ {0}
      BY ImagesAssumption DEF ImagesAssumption, Extents
    <3>2. MipOffset(i, i.mips) \in Nat \ {0}
      BY <3>1, Levels
    <3>3. Align(End, 4096) \in Nat /\ Align(End, 4096) % 64 = 0
      <4> DEFINE k == (End + 4096 - 1) \div 4096
      <4>1. k \in Nat
        BY <1>2
      <4>2. Align(End, 4096) = k * 4096
        BY DEF Align
      <4> HIDE DEF k
      <4> QED BY <4>1, <4>2
    <3>4. new \in Thing /\ new.at % 64 = 0 /\ new.size = MipOffset(i, i.mips) /\ new.image[1] = i
      BY <3>2, <3>3 DEF Thing
    <3>5. things' = Append(things, new)
      BY <2>1
    <3>6. Fit(new)
      BY <3>4, <3>5
    <3> HIDE DEF new, Fit
    <3> QED BY <3>6
  <2>2. ASSUME NEW n \in Buffers,
               things' = Append(things, [image |-> <<>>, size |-> n, at |-> Align(End, 64)])
        PROVE  \E new : Fit(new)
    <3> DEFINE new == [image |-> <<>>, size |-> n, at |-> Align(End, 64)]
    <3>1. n \in Nat \ {0}
      BY BuffersAssumption DEF BuffersAssumption
    <3>2. Align(End, 64) \in Nat /\ Align(End, 64) % 64 = 0
      <4>1. 64 \in Nat \ {0}
        OBVIOUS
      <4>2. PICK k \in Nat : Align(End, 64) = 64 * k
        BY <1>2, <4>1, Aligned
      <4> QED BY <4>2
    <3>3. new \in Thing /\ new.at % 64 = 0 /\ new.image = <<>>
      BY <3>1, <3>2 DEF Thing
    <3>4. things' = Append(things, new)
      BY <2>2
    <3>5. Fit(new)
      BY <3>3, <3>4
    <3> HIDE DEF new, Fit
    <3> QED BY <3>5
  <2> DEFINE ofImage == \E i \in Images :
               things' = Append(things, [image |-> <<i>>, size |-> MipOffset(i, i.mips),
                                         at |-> Align(End, 4096)])
             ofBuffer == \E n \in Buffers :
               things' = Append(things, [image |-> <<>>, size |-> n, at |-> Align(End, 64)])
             found == \E new : Fit(new)
  <2>3. ofImage \/ ofBuffer
    BY DEF Bind
  <2> HIDE DEF Fit
  <2>4. ofImage => found
    BY <2>1
  <2>5. ofBuffer => found
    BY <2>2
  <2>6. found
    <3> HIDE DEF ofImage, ofBuffer, found
    <3> QED BY <2>3, <2>4, <2>5
  <2> QED BY <2>6
<1>4. /\ things' \in Seq(Thing) /\ Len(things') = Len(things) + 1
      /\ \A n \in 1..Len(things) + 1 : things'[n] = IF n = Len(things) + 1 THEN new ELSE things[n]
  BY <1>1, <1>3
<1>5. Len(things) < MaxBound /\ write' = NoWrite
  BY DEF Bind
<1>6. \A n \in 1..Len(things) + 1 : n # Len(things) + 1 => n \in 1..Len(things)
  BY <1>1
<1>7. ASSUME NEW n \in 1..Len(things'), things'[n].image # <<>>
      PROVE  things'[n].size = MipOffset(Shape(n)', Shape(n)'.mips)
  <2>1. CASE n = Len(things) + 1
    BY <1>3, <1>4, <1>7, <2>1 DEF Shape
  <2>2. CASE n # Len(things) + 1
    BY <1>4, <1>6, <1>7, <2>2 DEF MemoryInv, Shape
  <2> QED BY <2>1, <2>2
<1>8. \A n \in 1..Len(things') : things'[n].size > 0 /\ things'[n].at % 64 = 0
  <2> SUFFICES ASSUME NEW n \in 1..Len(things') PROVE things'[n].size > 0 /\ things'[n].at % 64 = 0
    OBVIOUS
  <2>1. CASE n = Len(things) + 1
    BY <1>3, <1>4, <2>1 DEF Thing
  <2>2. CASE n # Len(things) + 1
    BY <1>4, <1>6, <2>2 DEF MemoryInv, MemoryTypeOK
  <2> QED BY <2>1, <2>2
<1>9. MemoryTypeOK'
  <2>1. Len(things') <= MaxBound
    BY <1>1, <1>4, <1>5, BuffersAssumption DEF BuffersAssumption
  <2>2. write'.to = 0 /\ write'.lo = 0 /\ write'.hi = 0 /\ 0 \in 0..Len(things')
    BY <1>1, <1>4, <1>5 DEF NoWrite
  <2> QED BY <1>8, <2>1, <2>2 DEF MemoryTypeOK
<1>10. NoSpill'
  BY <1>5 DEF NoSpill, NoWrite
<1> QED BY <1>4, <1>7, <1>9, <1>10 DEF MemoryInv

\* What a write into a level and layer is made of.
LEMMA Named ==
  ASSUME MemoryInv, NEW n \in Numbers("image"), NEW level \in 0..Shape(n).mips - 1,
         NEW r \in Regions(Shape(n), level)
  PROVE  /\ Shape(n) \in Images /\ level \in Nat /\ Shape(n).bpp \in Nat \ {0}
         /\ r.x \in Nat /\ r.y \in Nat /\ r.w \in Nat \ {0} /\ r.h \in Nat \ {0}
         /\ r.d = Depth(Shape(n), level) /\ r.d \in Nat \ {0}
         /\ r.x + r.w = Mip(Shape(n).w, level) /\ r.y + r.h = Mip(Shape(n).h, level)
         /\ r.x * Shape(n).bpp \in Nat /\ r.w * Shape(n).bpp \in Nat
         /\ r.x * Shape(n).bpp + r.w * Shape(n).bpp <= RowPitch(Shape(n), level)
         /\ r.w * Shape(n).bpp <= RowPitch(Shape(n), level)
<1>1. Shape(n) \in Images
  BY Shapes
<1>2. Shape(n).mips \in Nat
  BY <1>1, ImagesAssumption DEF ImagesAssumption, Extents
<1>3. level \in Nat
  BY <1>2
<1> QED BY <1>1, <1>3, RegionFits

\* vkCmdCopyBufferToImage keeps the invariant.
LEMMA UploadKeeps ==
  ASSUME MemoryInv, things' = things, NEW n \in Numbers("image"),
         NEW level \in 0..Shape(n).mips - 1, NEW layer \in 0..Shape(n).layers - 1,
         NEW r \in Regions(Shape(n), level), CopyBufferToImage(n, level, layer, r)
  PROVE  MemoryInv'
<1> DEFINE bytes == r.w * Shape(n).bpp
<1>1. /\ r.h \in Nat \ {0} /\ r.d \in Nat \ {0} /\ bytes \in Nat
      /\ 0 + r.h <= Mip(Shape(n).h, level) /\ 0 + bytes <= RowPitch(Shape(n), level)
      /\ r.d <= Depth(Shape(n), level) /\ 0 \in Nat
  BY Named
<1>2. ToImage("upload", n, level, layer, 0, 0, 0, r.h, r.d, bytes)
  BY DEF CopyBufferToImage
<1>3. RowPitch(Shape(n), level) \in Nat
  BY Target DEF Extent
<1>4. Recorded("upload", n, 0, level, layer) => Limit' = Base(n, level, layer + 1) + 0
  <2>1. n \notin Numbers("buffer") /\ Base(n, level, layer + 1) \in Nat
    BY Shapes, TopInNat
  <2> QED BY <2>1, ImageLimit
<1> HIDE DEF bytes
<1>5. 0 + bytes <= RowPitch(Shape(n), level) + 0
  BY <1>1, <1>3
<1> QED BY <1>1, <1>2, <1>4, <1>5, ToImageKeeps

\* vkCmdCopyImage does: it copies with the smaller of the two texel sizes.
LEMMA CopyKeeps ==
  ASSUME MemoryInv, things' = things, NEW n \in Numbers("image"),
         NEW level \in 0..Shape(n).mips - 1, NEW layer \in 0..Shape(n).layers - 1,
         NEW r \in Regions(Shape(n), level), CopyImage(n, level, layer, r)
  PROVE  MemoryInv'
<1>1. PICK s \in Numbers("image") \ {n} :
        ToImage("copy", n, level, layer, s, r.x * Shape(n).bpp, r.y, r.h, r.d,
                r.w * Least(Shape(s).bpp, Shape(n).bpp))
  BY DEF CopyImage
<1> DEFINE bpp == Shape(n).bpp
           least == Least(Shape(s).bpp, bpp)
           x == r.x * bpp
           bytes == r.w * least
<1>2. Shape(s).bpp \in Nat \ {0}
  BY Bpps
<1>3. /\ r.y \in Nat /\ r.w \in Nat /\ r.h \in Nat \ {0} /\ r.d \in Nat \ {0} /\ x \in Nat /\ bpp \in Nat
      /\ r.y + r.h <= Mip(Shape(n).h, level) /\ x + r.w * bpp <= RowPitch(Shape(n), level)
      /\ r.d <= Depth(Shape(n), level) /\ r.w * bpp \in Nat
  BY Named
<1>4. least \in Nat /\ least <= bpp
  BY <1>2, <1>3 DEF Least
<1>5. ToImage("copy", n, level, layer, s, x, r.y, r.h, r.d, bytes)
  BY <1>1
<1>6. RowPitch(Shape(n), level) \in Nat
  BY Target DEF Extent
<1> HIDE DEF least, x, bpp
<1>7. bytes \in Nat /\ bytes <= r.w * bpp
  BY <1>3, <1>4, Products
<1> HIDE DEF bytes
<1>8. x + bytes <= RowPitch(Shape(n), level) + 0 /\ 0 \in Nat
  BY <1>3, <1>6, <1>7
<1>9. Recorded("copy", n, s, level, layer) => Limit' = Base(n, level, layer + 1) + 0
  <2>1. n \notin Numbers("buffer") /\ Base(n, level, layer + 1) \in Nat
    BY Shapes, TopInNat
  <2> QED BY <2>1, ImageLimit
<1> QED BY <1>3, <1>5, <1>7, <1>8, <1>9, ToImageKeeps

\* vkCmdBlitImage does: from larger texels a row of it ends past the row it is for.
LEMMA BlitKeeps ==
  ASSUME MemoryInv, things' = things, NEW n \in Numbers("image"),
         NEW level \in 0..Shape(n).mips - 1, NEW layer \in 0..Shape(n).layers - 1,
         NEW r \in Regions(Shape(n), level), BlitImage(n, level, layer, r)
  PROVE  MemoryInv'
<1>1. PICK s \in Numbers("image") \ {n} :
        ToImage("blit", n, level, layer, s, r.x * Most(Shape(s).bpp, Shape(n).bpp), r.y, r.h, 1,
                (r.w - 1) * Most(Shape(s).bpp, Shape(n).bpp) + Shape(s).bpp)
  BY DEF BlitImage
<1> DEFINE bpp == Shape(n).bpp
           from == Shape(s).bpp
           most == Most(from, bpp)
           x == r.x * most
           bytes == (r.w - 1) * most + from
<1>2. from \in Nat \ {0}
  BY Bpps
<1>3. /\ r.x \in Nat /\ r.y \in Nat /\ r.w \in Nat \ {0} /\ r.h \in Nat \ {0} /\ bpp \in Nat
      /\ r.y + r.h <= Mip(Shape(n).h, level) /\ r.x * bpp + r.w * bpp <= RowPitch(Shape(n), level)
      /\ r.x * bpp \in Nat /\ r.w * bpp \in Nat
  BY Named
<1>4. 1 <= Depth(Shape(n), level) /\ RowPitch(Shape(n), level) \in Nat
  BY Target DEF Extent
<1>5. ToImage("blit", n, level, layer, s, x, r.y, r.h, 1, bytes)
  BY <1>1
<1>6. most \in Nat /\ r.w - 1 \in Nat
  BY <1>2, <1>3 DEF Most
<1> HIDE DEF bpp, from, most
<1>7. x \in Nat /\ bytes \in Nat
  <2>1. r.x * most \in Nat /\ (r.w - 1) * most \in Nat
    BY <1>3, <1>6, Products
  <2> QED BY <1>2, <2>1
<1> DEFINE mw == Mip(Shape(n).w, level)
           more == mw * (most - bpp)
<1>8. mw \in Nat /\ r.x + r.w = mw /\ mw * bpp <= RowPitch(Shape(n), level)
  BY Target, Named DEF Extent, bpp
<1> HIDE DEF mw
<1>10. most - bpp \in Nat /\ from <= most
  BY <1>2, <1>3 DEF Most, most
<1>11. more \in Nat
  BY <1>8, <1>10, Products
<1>12. x + bytes <= RowPitch(Shape(n), level) + more
  <2>1. x + (r.w - 1) * most + most = (r.x + r.w) * most
    BY <1>3, <1>6
  <2>2. mw * most = mw * bpp + more
    BY <1>3, <1>6, <1>8
  <2>3. bytes <= (r.w - 1) * most + most /\ (r.w - 1) * most \in Nat
    <3>1. (r.w - 1) * most \in Nat
      BY <1>6, Products
    <3> QED BY <1>2, <1>6, <1>10, <3>1
  <2>4. mw * bpp \in Nat /\ mw * most \in Nat
    BY <1>3, <1>6, <1>8, Products
  <2> DEFINE rest == (r.w - 1) * most
  <2> HIDE DEF x, bytes, more, rest
  <2>5. x + rest + most = mw * most /\ bytes <= rest + most /\ rest \in Nat
    BY <1>8, <2>1, <2>3 DEF rest
  <2> QED BY <1>4, <1>6, <1>7, <1>8, <1>11, <2>2, <2>4, <2>5
<1>13. Recorded("blit", n, s, level, layer) => Limit' = Base(n, level, layer + 1) + more
  <2>1. n \notin Numbers("buffer")
    BY Shapes
  <2> QED BY <2>1, ImageLimit DEF more, mw, most, from, bpp
<1>9. 1 \in Nat \ {0}
  OBVIOUS
<1> HIDE DEF x, bytes, more
<1> QED BY <1>3, <1>4, <1>5, <1>7, <1>9, <1>11, <1>12, <1>13, ToImageKeeps

\* vkCmdClearColorImage does: it clears a row up to its 4096th texel.
LEMMA ClearKeeps ==
  ASSUME MemoryInv, things' = things, NEW n \in Numbers("image"),
         NEW level \in 0..Shape(n).mips - 1, NEW layer \in 0..Shape(n).layers - 1,
         ClearColorImage(n, level, layer)
  PROVE  MemoryInv'
<1> DEFINE i == Shape(n)
           mw == Mip(i.w, level)
           mh == Mip(i.h, level)
           dd == Depth(i, level)
           least == Least(mw, 4096)
           bytes == least * i.bpp
<1>1. /\ mw \in Nat \ {0} /\ mh \in Nat \ {0} /\ dd \in Nat \ {0} /\ i.bpp \in Nat
      /\ mw * i.bpp <= RowPitch(i, level) /\ RowPitch(i, level) \in Nat
  BY Target DEF Extent
<1>2. ToImage("clear", n, level, layer, 0, 0, 0, mh, dd, bytes)
  BY DEF ClearColorImage
<1>3. least \in Nat /\ least <= mw
  BY <1>1 DEF Least
<1> HIDE DEF mw, least
<1>4. bytes \in Nat /\ bytes <= mw * i.bpp /\ mw * i.bpp \in Nat
  BY <1>1, <1>3, Products
<1> HIDE DEF bytes
<1>5. 0 + bytes <= RowPitch(i, level) + 0 /\ 0 + mh <= mh /\ dd <= dd /\ 0 \in Nat
  BY <1>1, <1>4
<1>6. Recorded("clear", n, 0, level, layer) => Limit' = Base(n, level, layer + 1) + 0
  <2>1. n \notin Numbers("buffer") /\ Base(n, level, layer + 1) \in Nat
    BY Shapes, TopInNat
  <2> QED BY <2>1, ImageLimit
<1> QED BY <1>1, <1>2, <1>4, <1>5, <1>6, ToImageKeeps

\* Rendering to an image does: its tiles end past it by the rows that it does not have.
LEMMA TargetKeeps ==
  ASSUME MemoryInv, things' = things, NEW n \in Numbers("image"), SetRenderTarget(n)
  PROVE  MemoryInv'
<1> DEFINE i == Shape(n)
           area == Align(i.w, 16) * Align(i.h, 16) * 4
           room == SlicePitch(i, 0) * Depth(i, 0)
           more == (Align(i.h, 16) - i.h) * RowPitch(i, 0)
<1>1. i \in Images /\ things[n].at \in Nat
  BY Shapes
<1>2. i.mips \in Nat \ {0} /\ i.layers \in Nat \ {0} /\ i.w \in Nat /\ i.h \in Nat
  BY <1>1, ImagesAssumption DEF ImagesAssumption, Extents
<1>3. 0 \in 0..i.mips - 1 /\ 0 \in 0..i.layers - 1
  BY <1>2
<1>4. Base(n, 0, 0) \in Nat /\ Base(n, 0, 0 + 1) = Base(n, 0, 0) + room
  BY <1>3, Target
<1>5. Base(n, 0, 0) = things[n].at
  <2>1. SubOffset(i, 0, 0) = MipOffset(i, 0) /\ MipOffset(i, 0) = 0
    BY <1>1, <1>3, Layers, Levels
  <2> QED BY <1>1, <2>1 DEF Base
<1>6. area \in Nat
  <2> DEFINE a == Align(i.w, 16)
             b == Align(i.h, 16)
  <2>1. a \in Nat /\ b \in Nat
    <3>1. \A v \in Nat : ((v + 16 - 1) \div 16) * 16 \in Nat
      OBVIOUS
    <3> QED BY <1>2, <3>1 DEF Align
  <2> HIDE DEF a, b
  <2>2. a * b \in Nat
    BY <2>1, Products
  <2>3. a * b * 4 \in Nat
    BY <2>2
  <2> QED BY <2>3 DEF a, b
<1>7. Recorded("target", n, 0, 0, 0) /\ write'.lo = 0 /\ write'.hi = 0 + (1 - 1) * 0 + (1 - 1) * 0 + area
  <2>1. Span("target", n, 0, 0, 0, 0, 0, 0, 1, 1, area)
    BY DEF SetRenderTarget
  <2> HIDE DEF area
  <2> QED BY <2>1, SpanRecords
<1>8. ASSUME ~Astray' PROVE things[n].at = 0 /\ area <= room + more /\ more \in Nat
  <2>1. things[n].at = 0 /\ ~(i.bpp < 4)
    BY <1>7, <1>8 DEF Astray, Recorded, Shape
  <2>2. i.bpp >= 4
    BY <1>1, <2>1, ImagesAssumption DEF ImagesAssumption, Extents
  <2> QED BY <1>1, <2>1, <2>2, TilesFit
<1>14. n \in 1..Len(things) /\ n \notin Numbers("buffer")
  BY Shapes
<1>15. /\ Home' = [lo |-> Base(n, 0, 0), hi |-> Base(n, 0, 0 + 1)]
       /\ Limit' = Base(n, 0, 0 + 1) + more
  BY <1>7, <1>14, ImageLimit
<1>9. room \in Nat
  BY <1>1, Pitches, Products DEF Extent
<1> HIDE DEF area, room, more
<1>10. write'.lo = 0 /\ write'.hi = area
  BY <1>6, <1>7
<1>11. write'.lo <= write'.hi
  BY <1>6, <1>10
<1>12. ASSUME ~Astray' PROVE Home'.lo <= write'.lo /\ write'.hi <= Limit'
  BY <1>4, <1>5, <1>6, <1>8, <1>9, <1>10, <1>12, <1>15
<1> QED BY <1>7, <1>11, <1>12, <1>14, WriteKeeps

\* vkCmdCopyImageToBuffer does: its rows are packed, or as far apart as in the image.
LEMMA DownloadKeeps ==
  ASSUME MemoryInv, things' = things, NEW n \in Numbers("image"),
         NEW level \in 0..Shape(n).mips - 1, NEW r \in Regions(Shape(n), level),
         CopyImageToBuffer(n, level, r)
  PROVE  MemoryInv'
<1> DEFINE bytes == r.w * Shape(n).bpp
           row(tight) == IF tight THEN bytes ELSE RowPitch(Shape(n), level)
           by(tight) == IF tight \/ row(tight) = bytes THEN "download" ELSE "loose"
<1>1. PICK b \in Numbers("buffer"), tight \in BOOLEAN :
        /\ bytes * r.h * r.d <= things[b].size
        /\ Span(by(tight), b, level, 0, n, things[b].at, row(tight), r.h * row(tight), r.h, r.d, bytes)
  BY DEF CopyImageToBuffer
<1> DEFINE rows == row(tight)
           kind == by(tight)
           at == things[b].at
<1>2. /\ r.h \in Nat \ {0} /\ r.d \in Nat \ {0} /\ bytes \in Nat
      /\ RowPitch(Shape(n), level) \in Nat
  <2>1. Shape(n) \in Images /\ level \in Nat
    BY Named
  <2>2. Extent(Shape(n), level)
    BY <2>1, Pitches
  <2> QED BY <2>2, Named DEF Extent
<1>3. rows \in Nat /\ at \in Nat /\ things[b].size \in Nat
  BY <1>2, Shapes
<1>4. /\ Recorded(kind, b, n, level, 0) /\ write'.lo = at
      /\ write'.hi = at + (r.d - 1) * (r.h * rows) + (r.h - 1) * rows + bytes
  <2>1. Span(kind, b, level, 0, n, at, rows, r.h * rows, r.h, r.d, bytes)
    BY <1>1
  <2> HIDE DEF kind, at, rows, bytes
  <2> QED BY <2>1, SpanRecords
<1>5. \/ kind = "download" /\ rows = bytes
      \/ kind = "loose" /\ rows = RowPitch(Shape(n), level)
  <2> HIDE DEF bytes
  <2>1. CASE tight
    <3>1. rows = bytes /\ kind = "download"
      BY <2>1, Zenon
    <3> HIDE DEF rows, kind
    <3> QED BY <3>1
  <2>2. CASE ~tight
    <3>1. rows = RowPitch(Shape(n), level)
      BY <2>2, Zenon
    <3> HIDE DEF row
    <3>2. kind = IF rows = bytes THEN "download" ELSE "loose"
      BY <2>2, Zenon
    <3> HIDE DEF rows, kind
    <3> QED BY <3>1, <3>2
  <2> QED BY <2>1, <2>2
<1>7. bytes * r.h * r.d <= things[b].size
  BY <1>1
<1> HIDE DEF bytes, rows, kind, at
<1> DEFINE slices == (r.d - 1) * (r.h * rows)
           before == (r.h - 1) * rows
<1>8. slices \in Nat /\ before \in Nat
  <2>1. r.d - 1 \in Nat /\ r.h - 1 \in Nat /\ r.h \in Nat
    BY <1>2
  <2>2. r.h * rows \in Nat
    BY <1>3, <2>1, Products
  <2> QED BY <1>3, <2>1, <2>2, Products
<1>9. ASSUME rows = bytes PROVE slices + before + bytes = bytes * r.h * r.d
  <2> DEFINE h == r.h
             d == r.d - 1
  <2>1. d \in Nat /\ h \in Nat /\ r.d = d + 1
    BY <1>2
  <2>2. before + bytes = h * bytes
    BY <1>2, <1>9
  <2>3. slices = d * (h * bytes)
    BY <1>9
  <2>4. bytes * h * (d + 1) = d * (h * bytes) + h * bytes
    <3> HIDE DEF d, h
    <3> QED BY <1>2, <2>1
  <2> HIDE DEF slices, before
  <2>5. slices + before + bytes = slices + (before + bytes)
    BY <1>2, <1>8
  <2> QED BY <2>1, <2>2, <2>3, <2>4, <2>5
<1>10. write'.hi = at + (slices + before + bytes)
  <2>1. write'.hi = at + slices + before + bytes
    BY <1>4
  <2> HIDE DEF slices, before
  <2> QED BY <1>2, <1>3, <1>8, <2>1
<1> HIDE DEF slices, before
<1>11. write'.lo <= write'.hi
  BY <1>2, <1>3, <1>4, <1>8, <1>10
<1> DEFINE room == SlicePitch(Shape(n), level) * Depth(Shape(n), level)
<1>12. ASSUME rows = RowPitch(Shape(n), level) PROVE slices + before + bytes <= room
  <2> DEFINE slice == SlicePitch(Shape(n), level)
             dd == Depth(Shape(n), level)
             mh == Mip(Shape(n).h, level)
  <2>1. /\ slice \in Nat /\ dd \in Nat /\ mh \in Nat /\ mh * rows <= slice
        /\ r.h <= mh /\ r.d = dd /\ bytes <= rows
    <3>1. Shape(n) \in Images /\ level \in Nat /\ r.y \in Nat /\ r.y + r.h = mh
      BY Named
    <3>2. Extent(Shape(n), level)
      BY <3>1, Pitches
    <3>3. r.d = dd /\ bytes <= RowPitch(Shape(n), level)
      BY Named DEF bytes
    <3> QED BY <1>2, <1>12, <3>1, <3>2, <3>3 DEF Extent
  <2> HIDE DEF slice, dd, mh
  <2> DEFINE h == r.h
             d == r.d - 1
             all == h * rows
  <2>2. d \in Nat /\ h \in Nat /\ r.d = d + 1 /\ h <= mh
    BY <1>2, <2>1
  <2>3. before + rows = all
    BY <1>3, <2>2 DEF before
  <2>4. all \in Nat /\ all <= slice
    <3>1. h * rows <= mh * rows /\ h * rows \in Nat /\ mh * rows \in Nat
      BY <1>3, <2>1, <2>2, Products
    <3> QED BY <2>1, <3>1
  <2>5. slices = d * all
    BY DEF slices
  <2> HIDE DEF all, d, h
  <2>6. d * all + all = (d + 1) * all
    BY <2>2, <2>4
  <2>7. (d + 1) * all <= dd * slice /\ (d + 1) * all \in Nat /\ dd * slice = slice * dd
    <3>1. d + 1 \in Nat /\ d + 1 <= dd
      BY <2>1, <2>2
    <3> QED BY <2>1, <2>4, <3>1, Products
  <2>8. slices + before + bytes <= slices + all /\ slice * dd \in Nat
    BY <1>2, <1>3, <1>8, <2>1, <2>3, <2>4, Products
  <2> QED BY <1>2, <1>8, <2>1, <2>4, <2>5, <2>6, <2>7, <2>8 DEF slice, dd
<1>13. room \in Nat
  <2>1. Shape(n) \in Images /\ level \in Nat
    BY Named
  <2> QED BY <2>1, Pitches, Products DEF Extent
<1>14. b \in 1..Len(things)
  BY Shapes
<1>15. /\ Home' = [lo |-> at, hi |-> at + things[b].size]
       /\ kind = "download" => Limit' = at + things[b].size
       /\ kind = "loose" => Limit' = Most(at + things[b].size, at + room)
  <2> HIDE DEF room
  <2> QED BY <1>4, BufferLimit DEF at, room
<1> HIDE DEF room
<1>16. Home'.lo <= write'.lo /\ write'.hi <= Limit'
  <2>1. CASE kind = "download"
    <3>1. rows = bytes
      BY <1>5, <2>1
    <3>2. slices + before + bytes <= things[b].size
      BY <1>7, <1>9, <3>1
    <3> QED BY <1>2, <1>3, <1>4, <1>8, <1>10, <1>15, <2>1, <3>2
  <2>2. CASE kind = "loose" /\ rows = RowPitch(Shape(n), level)
    <3>1. slices + before + bytes <= room
      BY <1>12, <2>2
    <3>2. at + room <= Most(at + things[b].size, at + room)
      BY <1>3, <1>13 DEF Most
    <3>3. Limit' \in Int
      BY <1>3, <1>13, <1>15, <2>2 DEF Most
    <3> QED BY <1>2, <1>3, <1>4, <1>8, <1>10, <1>13, <1>15, <2>2, <3>1, <3>2, <3>3
  <2> QED BY <1>5, <2>1, <2>2
<1> QED BY <1>4, <1>11, <1>14, <1>16, WriteKeeps

\* A write to a part of a buffer does, or is the fill that has no end.
LEMMA PartKeeps ==
  ASSUME MemoryInv, things' = things, NEW b \in Numbers("buffer"), NEW by, NEW bytes,
         Part(b, by, bytes),
         \/ by \in {"buffer", "fill"} /\ bytes = things[b].size
         \/ by = "endless" /\ bytes = things[b].size + 1
  PROVE  MemoryInv'
<1>1. PICK first \in {0, things[b].size - 1} :
        Span(by, b, 0, 0, 0, things[b].at + first, 0, 0, 1, 1, bytes - first)
  BY DEF Part
<1> DEFINE start == things[b].at + first
           length == bytes - first
<1>3. /\ things[b].size \in Nat \ {0} /\ things[b].at \in Nat /\ first \in Nat /\ length \in Nat
      /\ start \in Nat /\ b \in 1..Len(things)
  BY Shapes
<1>4. /\ Recorded(by, b, 0, 0, 0) /\ write'.lo = start
      /\ write'.hi = start + (1 - 1) * 0 + (1 - 1) * 0 + length
  <2>1. Span(by, b, 0, 0, 0, start, 0, 0, 1, 1, length)
    BY <1>1
  <2> HIDE DEF start, length
  <2> QED BY <2>1, SpanRecords
<1>5. write'.hi = start + length
  <2> HIDE DEF start, length
  <2> QED BY <1>3, <1>4
<1>6. /\ things[b].at <= start /\ start <= start + length
      /\ by # "endless" => start + length = things[b].at + things[b].size
  <2>1. by # "endless" => bytes = things[b].size
    OBVIOUS
  <2>2. things[b].at <= start /\ start <= start + length
    BY <1>3
  <2>3. ASSUME bytes = things[b].size PROVE start + length = things[b].at + things[b].size
    BY <1>3, <2>3
  <2> QED BY <2>1, <2>2, <2>3
<1>7. ASSUME ~Astray' PROVE by # "endless"
  BY <1>4, <1>7 DEF Astray, Recorded
<1>8. /\ Home' = [lo |-> things[b].at, hi |-> things[b].at + things[b].size]
      /\ by # "endless" => Limit' = things[b].at + things[b].size
  BY <1>4, BufferLimit
<1> HIDE DEF start, length
<1>9. write'.lo <= write'.hi
  BY <1>4, <1>5, <1>6
<1>10. ASSUME ~Astray' PROVE Home'.lo <= write'.lo /\ write'.hi <= Limit'
  <2>1. start + length <= start + length
    BY <1>3
  <2> QED BY <1>4, <1>5, <1>6, <1>7, <1>8, <1>10, <2>1
<1> QED BY <1>3, <1>4, <1>9, <1>10, WriteKeeps

\* vkCmdCopyBuffer and vkCmdUpdateBuffer do.
LEMMA WriteBufferKeeps ==
  ASSUME MemoryInv, WriteBuffer
  PROVE  MemoryInv'
<1>1. PICK b \in Numbers("buffer") : Part(b, "buffer", things[b].size)
  BY DEF WriteBuffer
<1>2. things' = things
  BY DEF WriteBuffer
<1> QED BY <1>1, <1>2, PartKeeps

\* vkCmdFillBuffer does.
LEMMA FillBufferKeeps ==
  ASSUME MemoryInv, FillBuffer
  PROVE  MemoryInv'
<1>1. PICK b \in Numbers("buffer") :
        Part(b, "fill", things[b].size) \/ Part(b, "endless", things[b].size + 1)
  BY DEF FillBuffer
<1>2. things' = things
  BY DEF FillBuffer
<1>3. CASE Part(b, "fill", things[b].size)
  BY <1>2, <1>3, PartKeeps
<1>4. CASE Part(b, "endless", things[b].size + 1)
  BY <1>2, <1>4, PartKeeps
<1> QED BY <1>1, <1>3, <1>4

\* Every step of the memory keeps the invariant.
LEMMA MemoryStep == MemoryInv /\ [MemoryNext]_memory => MemoryInv'
<1> SUFFICES ASSUME MemoryInv, [MemoryNext]_memory PROVE MemoryInv'
  OBVIOUS
<1>1. CASE Bind
  BY <1>1, BindKeeps
<1>2. CASE Write
  <2>1. things' = things
    BY <1>2 DEF Write
  <2> DEFINE command(n, level, layer, r) ==
             \/ CopyBufferToImage(n, level, layer, r)
             \/ CopyImageToBuffer(n, level, r)
             \/ CopyImage(n, level, layer, r)
             \/ BlitImage(n, level, layer, r)
             \/ ClearColorImage(n, level, layer)
             \/ SetRenderTarget(n)
  <2>9. PICK n \in Numbers("image") : \E level \in 0..Shape(n).mips - 1 :
          \E layer \in 0..Shape(n).layers - 1, r \in Regions(Shape(n), level) :
            command(n, level, layer, r)
    BY <1>2 DEF Write
  <2>10. PICK level \in 0..Shape(n).mips - 1 :
          \E layer \in 0..Shape(n).layers - 1, r \in Regions(Shape(n), level) :
            command(n, level, layer, r)
    <3> HIDE DEF command
    <3> QED BY <2>9
  <2>2. PICK layer \in 0..Shape(n).layers - 1, r \in Regions(Shape(n), level) :
          command(n, level, layer, r)
    <3> HIDE DEF command
    <3> QED BY <2>10
  <2>3. CASE CopyBufferToImage(n, level, layer, r)
    BY <2>1, <2>3, UploadKeeps
  <2>4. CASE CopyImageToBuffer(n, level, r)
    BY <2>1, <2>4, DownloadKeeps
  <2>5. CASE CopyImage(n, level, layer, r)
    BY <2>1, <2>5, CopyKeeps
  <2>6. CASE BlitImage(n, level, layer, r)
    BY <2>1, <2>6, BlitKeeps
  <2>7. CASE ClearColorImage(n, level, layer)
    BY <2>1, <2>7, ClearKeeps
  <2>8. CASE SetRenderTarget(n)
    BY <2>1, <2>8, TargetKeeps
  <2> QED BY <2>2, <2>3, <2>4, <2>5, <2>6, <2>7, <2>8
<1>3. CASE WriteBuffer
  BY <1>3, WriteBufferKeeps
<1>4. CASE FillBuffer
  BY <1>4, FillBufferKeeps
<1>5. CASE UNCHANGED memory
  <2>1. Home' = Home /\ Limit' = Limit /\ Astray' = Astray
    BY <1>5 DEF memory, Home, Limit, Astray, Numbers, Base, Shape
  <2> QED BY <1>5, <2>1 DEF memory, MemoryInv, MemoryTypeOK, NoSpill, Shape
<1> QED BY <1>1, <1>2, <1>3, <1>4, <1>5 DEF MemoryNext

========================================================================
