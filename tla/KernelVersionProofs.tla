------------------------- MODULE KernelVersionProofs -------------------------
(* Less is a strict total order of the lists of numbers: what sort.Sort needs *)
(* to sort at all, and what makes "later kernels" of a sorted list later.     *)
EXTENDS KernelVersion, WellFoundedInduction, TLAPS

\* A non-empty set of naturals has a least element.
LEMMA LeastNatural ==
  ASSUME NEW S \in SUBSET Nat, S # {}
  PROVE  \E m \in S : \A n \in S : m <= n
<1>1. IsWellFoundedOn(OpToRel(<, Nat), Nat)
  BY NatLessThanWellFounded
<1>2. \E m \in S : \A n \in S : <<n, m>> \notin OpToRel(<, Nat)
  BY <1>1, WFMin
<1>3. PICK m \in S : \A n \in S : <<n, m>> \notin OpToRel(<, Nat)
  BY <1>2
<1>4. ASSUME NEW n \in S PROVE m <= n
  <2>1. <<n, m>> \notin {ss \in Nat \X Nat : ss[1] < ss[2]}
    BY <1>3 DEF OpToRel
  <2> QED BY <2>1
<1> QED
  BY <1>4

\* splitIntoInts returns a list of numbers, the longest prefix of the tokens that is one.
LEMMA SplitIsSequence ==
  ASSUME NEW tokens \in Seq(Int)
  PROVE  SplitIntoInts(tokens) \in Seq(Int)
<1> DEFINE Stop(n) == n = Len(tokens) \/ tokens[n + 1] = NotANumber
           Numbers(n) == \A i \in 1 .. n : tokens[i] # NotANumber
           Stops == {n \in 0 .. Len(tokens) : Stop(n)}
           n0 == CHOOSE n \in 0 .. Len(tokens) : Numbers(n) /\ Stop(n)
<1>1. Stops \subseteq Nat /\ Len(tokens) \in Stops /\ Len(tokens) \in Nat
  OBVIOUS
<1>2. PICK m \in Stops : \A n \in Stops : m <= n
  <2>1. \E m \in Stops : \A n \in Stops : m <= n
    <3> HIDE DEF Stops
    <3> QED BY <1>1, LeastNatural
  <2> QED BY <2>1
<1>3. Numbers(m)
  <2> SUFFICES ASSUME NEW i \in 1 .. m, tokens[i] = NotANumber PROVE FALSE
    OBVIOUS
  <2>1. i - 1 \in 0 .. Len(tokens) /\ (i - 1) + 1 = i /\ i - 1 < m
    BY <1>1
  <2>2. i - 1 \in Stops
    BY <2>1
  <2>3. m <= i - 1 /\ m \in Nat
    <3> HIDE DEF Stops
    <3> QED BY <1>1, <1>2, <2>2
  <2> QED BY <2>1, <2>3
<1>4. n0 \in 0 .. Len(tokens)
  BY <1>2, <1>3
<1>5. SplitIntoInts(tokens) = SubSeq(tokens, 1, n0)
  BY DEF SplitIntoInts
<1> HIDE DEF n0
<1> QED BY <1>1, <1>4, <1>5

\* Two lists that differ have a first place where they do.
LEMMA FirstDifference ==
  ASSUME NEW v, NEW w, NEW x \in Nat \ {0}, v[x] # w[x]
  PROVE  \E y \in 1 .. x : v[y] # w[y] /\ SameUpTo(v, w, y - 1)
<1> DEFINE Differ == {y \in 1 .. x : v[y] # w[y]}
<1>1. Differ \in SUBSET Nat /\ x \in Differ
  OBVIOUS
<1>2. PICK y \in Differ : \A z \in Differ : y <= z
  <2> HIDE DEF Differ
  <2> QED BY <1>1, LeastNatural
<1>3. ASSUME NEW z \in 1 .. y - 1 PROVE v[z] = w[z]
  <2>1. z \in 1 .. x /\ ~(y <= z)
    BY <1>1
  <2>2. z \notin Differ
    BY <1>2, <2>1
  <2> QED BY <2>1, <2>2
<1> QED BY <1>3 DEF SameUpTo

\* Of two lists in order, the second is not the smaller one at a place unless it is the
\* greater one at an earlier place.
LEMMA NotLess ==
  ASSUME NEW v \in Seq(Int), NEW w \in Seq(Int), ~Less(w, v),
         NEW x \in DOMAIN v \cap DOMAIN w, v[x] > w[x]
  PROVE  \E y \in 1 .. x - 1 : v[y] < w[y]
<1>1. x \in Nat \ {0} /\ x <= Len(v) /\ x <= Len(w) /\ Len(v) \in Nat /\ Len(w) \in Nat
  OBVIOUS
<1>2. \A y \in 1 .. x : v[y] \in Int /\ w[y] \in Int
  <2>1. \A y \in 1 .. x : y \in 1 .. Len(v) /\ y \in 1 .. Len(w)
    BY <1>1
  <2> QED BY <2>1
<1>3. v[x] # w[x]
  BY <1>1, <1>2
<1>4. PICK y \in 1 .. x : v[y] # w[y] /\ SameUpTo(v, w, y - 1)
  BY <1>1, <1>3, FirstDifference
<1>5. SameUpTo(w, v, y - 1)
  BY <1>4 DEF SameUpTo
<1>6. y \in DOMAIN w \cap DOMAIN v
  BY <1>1
<1>7. ~(w[y] < v[y])
  BY <1>5, <1>6 DEF Less
<1>8. v[y] < w[y]
  BY <1>2, <1>4, <1>7
<1>9. y # x
  BY <1>1, <1>2, <1>8
<1> QED BY <1>1, <1>8, <1>9

\* No version is less than itself.
THEOREM LessIrreflexive ==
  ASSUME NEW u \in Seq(Int)
  PROVE  ~Less(u, u)
BY DEF Less

\* Of three versions in order the first is less than the last.
THEOREM LessTransitive ==
  ASSUME NEW u \in Seq(Int), NEW v \in Seq(Int), NEW w \in Seq(Int),
         Less(u, v), Less(v, w)
  PROVE  Less(u, w)
<1> DEFINE Below(a, b, x) == /\ x \in 1 .. Len(a) /\ x \in 1 .. Len(b)
                             /\ SameUpTo(a, b, x - 1)
                             /\ a[x] < b[x]
           Shorter(a, b)  == Len(a) < Len(b) /\ SameUpTo(a, b, Len(a))
<1>0. /\ \A i \in 1 .. Len(u) : u[i] \in Int
      /\ \A i \in 1 .. Len(v) : v[i] \in Int
      /\ \A i \in 1 .. Len(w) : w[i] \in Int
      /\ Len(u) \in Nat /\ Len(v) \in Nat /\ Len(w) \in Nat
  OBVIOUS
<1>1. CASE \E x \in Nat, y \in Nat : Below(u, v, x) /\ Below(v, w, y)
  <2>1. PICK x \in Nat, y \in Nat : Below(u, v, x) /\ Below(v, w, y)
    BY <1>1
  <2>2. CASE x <= y
    <3>1. SameUpTo(u, w, x - 1)
      <4>1. \A i \in 1 .. x - 1 : i \in 1 .. y - 1
        BY <2>2
      <4> QED BY <2>1, <4>1 DEF SameUpTo
    <3>3. x \in 1 .. Len(w)
      BY <1>0, <2>1, <2>2
    <3>2. v[x] = w[x] \/ v[x] < w[x]
      <4>1. CASE x = y
        BY <2>1, <4>1
      <4>2. CASE x < y
        <5>1. x \in 1 .. y - 1
          BY <2>1, <4>2
        <5> QED BY <2>1, <5>1 DEF SameUpTo
      <4> QED BY <2>2, <4>1, <4>2
    <3>6. u[x] \in Int /\ v[x] \in Int /\ w[x] \in Int
      BY <1>0, <2>1, <3>3
    <3>4. u[x] < w[x]
      BY <2>1, <3>2, <3>6
    <3>5. Below(u, w, x)
      BY <2>1, <3>1, <3>3, <3>4
    <3> QED BY <3>5 DEF Less
  <2>3. CASE y < x
    <3>1. \A i \in 1 .. y - 1 : i \in 1 .. x - 1
      BY <2>3
    <3>2. SameUpTo(u, w, y - 1)
      BY <2>1, <3>1 DEF SameUpTo
    <3>3. y \in 1 .. x - 1 /\ y \in 1 .. Len(u)
      BY <1>0, <2>1, <2>3
    <3>4. u[y] = v[y]
      BY <2>1, <3>3 DEF SameUpTo
    <3>5. Below(u, w, y)
      BY <2>1, <3>2, <3>3, <3>4
    <3> QED BY <3>5 DEF Less
  <2> QED BY <2>1, <2>2, <2>3
<1>2. CASE \E x \in Nat : Below(u, v, x) /\ Shorter(v, w)
  <2>1. PICK x \in Nat : Below(u, v, x) /\ Shorter(v, w)
    BY <1>2
  <2>2. Below(u, w, x)
    BY <2>1 DEF SameUpTo
  <2> QED BY <2>2 DEF Less
<1>3. CASE \E y \in Nat : Shorter(u, v) /\ Below(v, w, y)
  <2>1. PICK y \in Nat : Shorter(u, v) /\ Below(v, w, y)
    BY <1>3
  <2>2. CASE y <= Len(u)
    <3>1. Below(u, w, y)
      BY <2>1, <2>2 DEF SameUpTo
    <3> QED BY <3>1 DEF Less
  <2>3. CASE y > Len(u)
    <3>1. Shorter(u, w)
      BY <2>1, <2>3 DEF SameUpTo
    <3> QED BY <3>1 DEF Less
  <2> QED BY <2>1, <2>2, <2>3
<1>4. CASE Shorter(u, v) /\ Shorter(v, w)
  <2>1. Shorter(u, w)
    BY <1>4 DEF SameUpTo
  <2> QED BY <2>1 DEF Less
<1>5. /\ Shorter(u, v) \/ \E x \in Nat : Below(u, v, x)
      /\ Shorter(v, w) \/ \E y \in Nat : Below(v, w, y)
  <2>1. ASSUME NEW a \in Seq(Int), NEW b \in Seq(Int), Less(a, b)
        PROVE  Shorter(a, b) \/ \E x \in Nat : Below(a, b, x)
    <3>1. DOMAIN a = 1 .. Len(a) /\ DOMAIN b = 1 .. Len(b)
      OBVIOUS
    <3>2. ASSUME NEW x \in DOMAIN a \cap DOMAIN b,
                 SameUpTo(a, b, x - 1), a[x] < b[x]
          PROVE  x \in Nat /\ Below(a, b, x)
      <4>1. x \in Nat
        BY <3>1
      <4> QED BY <3>1, <3>2, <4>1
    <3> QED BY <2>1, <3>2 DEF Less
  <2> QED BY <2>1
<1> QED
  BY <1>1, <1>2, <1>3, <1>4, <1>5

\* Two versions of which neither is less have the same numbers: sort.Sort, which
\* is not stable, leaves only the order of such packages open.
THEOREM LessTotal ==
  ASSUME NEW u \in Seq(Int), NEW v \in Seq(Int), ~Less(u, v), ~Less(v, u)
  PROVE  u = v
<1> DEFINE Differ == {x \in DOMAIN u \cap DOMAIN v : u[x] # v[x]}
<1>1. CASE Differ # {}
  <2>1. PICK x \in DOMAIN u \cap DOMAIN v : u[x] # v[x]
    BY <1>1
  <2>2. x \in Nat \ {0} /\ x <= Len(u) /\ x <= Len(v) /\ Len(u) \in Nat /\ Len(v) \in Nat
    OBVIOUS
  <2>3. PICK y \in 1 .. x : u[y] # v[y] /\ SameUpTo(u, v, y - 1)
    BY <2>1, <2>2, FirstDifference
  <2>4. y \in DOMAIN u \cap DOMAIN v
    BY <2>2
  <2>5. u[y] < v[y] \/ v[y] < u[y]
    BY <2>3, <2>4
  <2>6. SameUpTo(v, u, y - 1)
    BY <2>3 DEF SameUpTo
  <2> QED BY <2>3, <2>4, <2>5, <2>6 DEF Less
<1>2. CASE Differ = {}
  <2>1. Len(u) = Len(v)
    BY <1>2 DEF Less, SameUpTo
  <2> QED BY <1>2, <2>1
<1> QED BY <1>1, <1>2
=============================================================================
