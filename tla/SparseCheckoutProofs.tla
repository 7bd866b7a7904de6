------------------------- MODULE SparseCheckoutProofs -------------------------
(***************************************************************************)
(* Proofs about tools/archive-sparse-checkout.sh, for any repository, any   *)
(* calls and any length of the pattern file. The inductive invariant says   *)
(* of every step within a call what the file will select once the lines     *)
(* that are still to write are written.                                     *)
(***************************************************************************)
EXTENDS SparseCheckout, WellFoundedInduction, TLAPS

\* A pattern line, as add_pattern and the loop over the custom patterns write it.
Line == [exclude : BOOLEAN, pattern : Patterns, append : BOOLEAN]

\* The files that a list of lines names, whether to include or to exclude them.
Named(ls) == {path \in RepoFiles : \E i \in DOMAIN ls : Matches(ls[i].pattern, path)}

-----------------------------------------------------------------------------
(* Lemmas about sequences of lines *)

\* A set of positions that is not empty has a last one.
LEMMA LastIndex ==
  ASSUME NEW n \in Nat, NEW S \in SUBSET (1 .. n), S # {}
  PROVE  \E m \in S : \A i \in S : i <= m
<1> DEFINE T == {n - i : i \in S}
<1>0. \A i \in S : i \in Nat /\ i <= n /\ n - i \in Nat
  OBVIOUS
<1>1. T # {} /\ T \subseteq Nat
  BY <1>0
<1>2. IsWellFoundedOn(OpToRel(<, Nat), Nat)
  BY NatLessThanWellFounded
<1>3. \E k \in T : \A l \in T : <<l, k>> \notin OpToRel(<, Nat)
  <2> HIDE DEF T
  <2> QED BY <1>1, <1>2, WFMin
<1>4. PICK k \in T : \A l \in T : <<l, k>> \notin OpToRel(<, Nat)
  BY <1>3
<1>5. \A l \in T : k <= l
  <2>1. ASSUME NEW l \in T PROVE ~(l < k)
    <3>1. <<l, k>> \notin {ss \in Nat \X Nat : ss[1] < ss[2]}
      BY <1>4 DEF OpToRel
    <3>2. l \in Nat /\ k \in Nat
      BY <1>1, <2>1
    <3> QED BY <3>1, <3>2
  <2>2. ASSUME NEW l \in T PROVE k <= l
    <3>1. l \in Nat /\ k \in Nat
      BY <1>1
    <3> QED BY <3>1, <2>1
  <2> QED BY <2>2
<1>6. PICK m \in S : k = n - m
  BY <1>4
<1>7. ASSUME NEW i \in S PROVE i <= m
  <2>1. k <= n - i
    BY <1>5
  <2> QED BY <2>1, <1>6, <1>0
<1> QED BY <1>7

\* The positions of a concatenation.
LEMMA Concat ==
  ASSUME NEW S, NEW s \in Seq(S), NEW t \in Seq(S)
  PROVE  /\ s \o t \in Seq(S)
         /\ DOMAIN s = 1 .. Len(s) /\ DOMAIN t = 1 .. Len(t)
         /\ DOMAIN (s \o t) = 1 .. Len(s) + Len(t)
         /\ \A i \in DOMAIN s : (s \o t)[i] = s[i]
         /\ \A i \in DOMAIN t : (s \o t)[Len(s) + i] = t[i]
         /\ \A i \in DOMAIN (s \o t) :
              \/ i \in DOMAIN s
              \/ i > Len(s) /\ i - Len(s) \in DOMAIN t /\ (s \o t)[i] = t[i - Len(s)]
  OBVIOUS

\* A function on 1 .. k is a list of k elements.
LEMMA ListOf ==
  ASSUME NEW k \in Nat, NEW S, NEW f \in [1 .. k -> S]
  PROVE  f \in Seq(S) /\ Len(f) = k
OBVIOUS

\* Lines that exclude take what they name from the selection.
LEMMA Excluding ==
  ASSUME NEW file \in Seq(Line), NEW ls \in Seq(Line),
         \A i \in DOMAIN ls : ls[i].exclude
  PROVE  SelectedBy(file \o ls) = SelectedBy(file) \ Named(ls)
<1> DEFINE all == file \o ls
           Hit(s, i, path) == Matches(s[i].pattern, path)
<1>1. /\ DOMAIN file = 1 .. Len(file) /\ DOMAIN ls = 1 .. Len(ls)
      /\ Len(file) \in Nat /\ Len(ls) \in Nat
      /\ DOMAIN all = 1 .. Len(file) + Len(ls)
      /\ \A i \in DOMAIN file : all[i] = file[i]
      /\ \A i \in DOMAIN ls : all[Len(file) + i] = ls[i]
      /\ \A i \in DOMAIN all : \/ i \in DOMAIN file
                              \/ /\ i > Len(file) /\ i - Len(file) \in DOMAIN ls
                                 /\ all[i] = ls[i - Len(file)]
  BY Concat
<1> HIDE DEF all
<1>2. ASSUME NEW path \in SelectedBy(all)
      PROVE  path \in SelectedBy(file) \ Named(ls)
  <2>1. PICK i \in DOMAIN all : /\ Hit(all, i, path) /\ ~all[i].exclude
                                /\ \A j \in DOMAIN all : j > i => ~Hit(all, j, path)
    BY <1>2 DEF SelectedBy
  <2>2. i \in DOMAIN file
    BY <2>1, <1>1
  <2>3. \A j \in DOMAIN file : j > i => ~Hit(file, j, path)
    BY <2>1, <1>1
  <2>4. \A j \in DOMAIN ls : ~Hit(ls, j, path)
    <3>1. ASSUME NEW j \in DOMAIN ls PROVE ~Hit(ls, j, path)
      <4>1. Len(file) + j \in DOMAIN all /\ Len(file) + j > i
        BY <1>1, <2>2
      <4> QED BY <4>1, <2>1, <1>1
    <3> QED BY <3>1
  <2> QED BY <1>1, <1>2, <2>1, <2>2, <2>3, <2>4 DEF SelectedBy, Named
<1>3. ASSUME NEW path \in SelectedBy(file) \ Named(ls)
      PROVE  path \in SelectedBy(all)
  <2>1. PICK i \in DOMAIN file : /\ Hit(file, i, path) /\ ~file[i].exclude
                                 /\ \A j \in DOMAIN file : j > i => ~Hit(file, j, path)
    BY <1>3 DEF SelectedBy
  <2>2. \A j \in DOMAIN all : j > i => ~Hit(all, j, path)
    BY <1>1, <1>3, <2>1 DEF Named, SelectedBy
  <2>3. i \in DOMAIN all /\ all[i] = file[i]
    BY <1>1
  <2> QED BY <1>3, <2>1, <2>2, <2>3 DEF SelectedBy
<1> QED BY <1>2, <1>3 DEF all

\* Lines that include add what they name to it.
LEMMA Including ==
  ASSUME NEW file \in Seq(Line), NEW ls \in Seq(Line),
         \A i \in DOMAIN ls : ~ls[i].exclude
  PROVE  SelectedBy(file \o ls) = SelectedBy(file) \cup Named(ls)
<1> DEFINE all == file \o ls
           Hit(s, i, path) == Matches(s[i].pattern, path)
<1>1. /\ DOMAIN file = 1 .. Len(file) /\ DOMAIN ls = 1 .. Len(ls)
      /\ Len(file) \in Nat /\ Len(ls) \in Nat
      /\ DOMAIN all = 1 .. Len(file) + Len(ls)
      /\ \A i \in DOMAIN file : all[i] = file[i]
      /\ \A i \in DOMAIN ls : all[Len(file) + i] = ls[i]
      /\ \A i \in DOMAIN all : \/ i \in DOMAIN file
                              \/ /\ i > Len(file) /\ i - Len(file) \in DOMAIN ls
                                 /\ all[i] = ls[i - Len(file)]
  BY Concat
<1> HIDE DEF all
<1>2. ASSUME NEW path \in SelectedBy(all), path \notin Named(ls)
      PROVE  path \in SelectedBy(file)
  <2>1. PICK i \in DOMAIN all : /\ Hit(all, i, path) /\ ~all[i].exclude
                                /\ \A j \in DOMAIN all : j > i => ~Hit(all, j, path)
    BY <1>2 DEF SelectedBy
  <2>2. i \in DOMAIN file
    BY <2>1, <1>1, <1>2 DEF Named, SelectedBy
  <2>3. \A j \in DOMAIN file : j > i => ~Hit(file, j, path)
    BY <2>1, <1>1
  <2> QED BY <1>1, <1>2, <2>1, <2>2, <2>3 DEF SelectedBy
<1>3. ASSUME NEW path \in SelectedBy(file), path \notin Named(ls)
      PROVE  path \in SelectedBy(all)
  <2>1. PICK i \in DOMAIN file : /\ Hit(file, i, path) /\ ~file[i].exclude
                                 /\ \A j \in DOMAIN file : j > i => ~Hit(file, j, path)
    BY <1>3 DEF SelectedBy
  <2>2. \A j \in DOMAIN all : j > i => ~Hit(all, j, path)
    BY <1>1, <1>3, <2>1 DEF Named, SelectedBy
  <2>3. i \in DOMAIN all /\ all[i] = file[i]
    BY <1>1
  <2> QED BY <1>3, <2>1, <2>2, <2>3 DEF SelectedBy
<1>4. ASSUME NEW path \in Named(ls)
      PROVE  path \in SelectedBy(all)
  <2> DEFINE S == {i \in DOMAIN ls : Hit(ls, i, path)}
  <2>1. S \subseteq 1 .. Len(ls) /\ S # {}
    BY <1>1, <1>4 DEF Named
  <2>2. PICK m \in S : \A i \in S : i <= m
    <3> HIDE DEF S
    <3> QED BY <2>1, <1>1, LastIndex
  <2>3. Len(file) + m \in DOMAIN all /\ all[Len(file) + m] = ls[m]
    BY <1>1
  <2>4. \A j \in DOMAIN all : j > Len(file) + m => ~Hit(all, j, path)
    <3>1. ASSUME NEW j \in DOMAIN all, j > Len(file) + m, Hit(all, j, path) PROVE FALSE
      <4>1. j - Len(file) \in DOMAIN ls /\ all[j] = ls[j - Len(file)]
        BY <3>1, <1>1
      <4>2. j - Len(file) \in S
        BY <4>1, <3>1
      <4> QED BY <4>2, <2>2, <3>1, <1>1
    <3> QED BY <3>1
  <2> QED BY <1>4, <2>2, <2>3, <2>4 DEF SelectedBy, Named
<1> QED BY <1>2, <1>3, <1>4 DEF all, SelectedBy, Named

-----------------------------------------------------------------------------
(* The lines of a call *)

\* The files of a call's distributions, architectures and version, and those of
\* its custom patterns: the two sets that Asked speaks of.
Own(c) == {path \in RepoFiles :
  /\ {path.distro, Star} \cap ToSet(c.distros) # {}
  /\ {path.arch, Star} \cap ToSet(c.archs) # {}
  /\ {path.release, Star} \cap ToSet(<<c.version>>) # {}}
Custom(c) == {path \in RepoFiles : \E pat \in ToSet(c.custom) : Matches(pat, path)}

\* Division with remainder, which counts Generated's pairs.
LEMMA Division ==
  ASSUME NEW n \in Nat \ {0}, NEW a \in Nat, NEW b \in 0 .. n - 1
  PROVE  (a * n + b) \div n = a /\ (a * n + b) % n = b
OBVIOUS

\* The row and the column of a cell of an a by n table.
LEMMA Quotient ==
  ASSUME NEW n \in Nat \ {0}, NEW a \in Nat, NEW x \in 0 .. a * n - 1
  PROVE  x \div n \in 0 .. a - 1 /\ x % n \in 0 .. n - 1
OBVIOUS

\* Generated has a pattern for each pair of a distribution and an architecture,
\* and no other.
LEMMA PairsGenerated ==
  ASSUME NEW c \in Calls, ~OnlyCustom(c)
  PROVE  /\ Generated(c) \in Seq(Patterns)
         /\ \A i \in DOMAIN Generated(c) :
              \E d \in ToSet(c.distros), a \in ToSet(c.archs) :
                Generated(c)[i] = Pattern(d, c.version, a)
         /\ \A d \in ToSet(c.distros), a \in ToSet(c.archs) :
              \E i \in DOMAIN Generated(c) : Generated(c)[i] = Pattern(d, c.version, a)
<1> DEFINE n == Len(c.archs)
           m == Len(c.distros)
           G == [i \in 1 .. m * n |->
                  Pattern(c.distros[((i - 1) \div n) + 1], c.version, c.archs[((i - 1) % n) + 1])]
<1>1. /\ c.distros \in Seq(Words) /\ c.archs \in Seq(Words) /\ c.version \in Words
      /\ c.distros # <<>> /\ c.archs # <<>>
  BY CallsAssumption DEF CallType
<1>2. n \in Nat \ {0} /\ m \in Nat \ {0} /\ m * n \in Nat
  <2>1. n \in Nat \ {0}
    BY <1>1
  <2>2. m \in Nat \ {0}
    BY <1>1
  <2> HIDE DEF m, n
  <2> QED BY <2>1, <2>2
<1>3. Generated(c) = G
  BY DEF Generated
<1>4. /\ ToSet(c.distros) = {c.distros[i] : i \in 1 .. m}
      /\ ToSet(c.archs) = {c.archs[i] : i \in 1 .. n}
      /\ \A i \in 1 .. m : c.distros[i] \in Words
      /\ \A i \in 1 .. n : c.archs[i] \in Words
  BY <1>1 DEF ToSet
<1>5. ASSUME NEW i \in 1 .. m * n
      PROVE  /\ ((i - 1) \div n) + 1 \in 1 .. m
             /\ ((i - 1) % n) + 1 \in 1 .. n
  <2> HIDE DEF m, n
  <2>1. i - 1 \in 0 .. m * n - 1
    BY <1>2
  <2>2. (i - 1) \div n \in 0 .. m - 1 /\ (i - 1) % n \in 0 .. n - 1
    BY <2>1, <1>2, Quotient
  <2> QED BY <2>2, <1>2
<1>6. ASSUME NEW i \in 1 .. m * n
      PROVE  /\ G[i] \in Patterns
             /\ \E d \in ToSet(c.distros), a \in ToSet(c.archs) :
                  G[i] = Pattern(d, c.version, a)
  <2>1. PICK x \in 1 .. m : x = ((i - 1) \div n) + 1
    BY <1>5
  <2>2. PICK y \in 1 .. n : y = ((i - 1) % n) + 1
    BY <1>5
  <2>3. G[i] = Pattern(c.distros[x], c.version, c.archs[y])
    BY <2>1, <2>2
  <2>4. Star \in Words
    BY CallsAssumption
  <2>5. c.distros[x] \in ToSet(c.distros) /\ c.archs[y] \in ToSet(c.archs)
    BY <1>4
  <2>6. G[i] \in Patterns
    <3> HIDE DEF G
    <3> QED BY <2>3, <2>4, <1>1, <1>4 DEF Pattern, Patterns
  <2> QED BY <2>3, <2>5, <2>6
<1>7. ASSUME NEW d \in ToSet(c.distros), NEW a \in ToSet(c.archs)
      PROVE  \E i \in 1 .. m * n : G[i] = Pattern(d, c.version, a)
  <2>1. PICK x \in 1 .. m, y \in 1 .. n : c.distros[x] = d /\ c.archs[y] = a
    BY <1>4
  <2> DEFINE k == (x - 1) * n + (y - 1)
  <2>2. k \in Nat /\ k + 1 \in 1 .. m * n
    <3> HIDE DEF m, n
    <3>1. x - 1 \in Nat /\ x - 1 <= m - 1 /\ y - 1 \in 0 .. n - 1
      BY <1>2
    <3>2. (x - 1) * n \in Nat /\ (x - 1) * n <= (m - 1) * n
      BY <3>1, <1>2
    <3>3. (m - 1) * n = m * n - n
      BY <1>2
    <3> QED BY <3>1, <3>2, <3>3, <1>2
  <2>3. k \div n = x - 1 /\ k % n = y - 1
    <3> HIDE DEF m, n
    <3>1. x - 1 \in Nat /\ y - 1 \in 0 .. n - 1
      BY <1>2
    <3> QED BY <3>1, <1>2, Division
  <2>4. (k + 1) - 1 = k
    BY <2>2
  <2>5. G[k + 1] = Pattern(c.distros[x], c.version, c.archs[y])
    <3>1. ((((k + 1) - 1) \div n) + 1) = x /\ ((((k + 1) - 1) % n) + 1) = y
      <4> HIDE DEF k, m, n
      <4> QED BY <2>3, <2>4, <1>2
    <3> HIDE DEF k, m, n
    <3> QED BY <2>2, <3>1
  <2> QED BY <2>1, <2>2, <2>5
<1>8. G \in Seq(Patterns) /\ DOMAIN G = 1 .. m * n
  <2> HIDE DEF m, n
  <2>1. \A i \in 1 .. m * n : G[i] \in Patterns
    BY <1>6
  <2>2. G \in [1 .. m * n -> Patterns]
    BY <2>1
  <2> HIDE DEF G
  <2> QED BY <2>2, <1>2, ListOf
<1> HIDE DEF G, m, n
<1> QED BY <1>3, <1>6, <1>7, <1>8

\* What Lines writes: lines of one kind, which name what the call is about, and of
\* which at most the first overwrites the file.
LEMMA LinesOfCall ==
  ASSUME NEW c \in Calls
  PROVE  /\ Lines(c) \in Seq(Line)
         /\ \A i \in DOMAIN Lines(c) : Lines(c)[i].exclude = c.exclude
         /\ \A i \in DOMAIN Lines(c) :
              ~Lines(c)[i].append => i = 1 /\ ~c.incremental
         /\ Named(Lines(c)) = (IF OnlyCustom(c) THEN {} ELSE Own(c))
                              \cup (IF c.exclude THEN Custom(c) ELSE {})
<1> DEFINE g == Generated(c)
           G == [i \in DOMAIN g |->
                   [exclude |-> c.exclude, pattern |-> g[i],
                    append |-> c.incremental \/ i > 1]]
           C == IF c.exclude
                  THEN [i \in DOMAIN c.custom |->
                         [exclude |-> TRUE, pattern |-> c.custom[i], append |-> TRUE]]
                  ELSE <<>>
<1>1. /\ c.incremental \in BOOLEAN /\ c.exclude \in BOOLEAN
      /\ c.custom \in Seq(Patterns)
  BY CallsAssumption DEF CallType
<1>2. g \in Seq(Patterns)
  <2>1. CASE OnlyCustom(c)
    BY <2>1 DEF Generated
  <2>2. CASE ~OnlyCustom(c)
    BY <2>2, PairsGenerated
  <2> QED BY <2>1, <2>2
<1> HIDE DEF g
<1>3. G \in Seq(Line) /\ DOMAIN G = DOMAIN g /\ Len(G) \in Nat
  <2>1. DOMAIN g = 1 .. Len(g) /\ Len(g) \in Nat /\ \A i \in DOMAIN g : g[i] \in Patterns
    BY <1>2
  <2>2. G \in [1 .. Len(g) -> Line]
    BY <2>1, <1>1 DEF Line
  <2>3. DOMAIN G = DOMAIN g
    OBVIOUS
  <2> HIDE DEF G
  <2> QED BY <2>1, <2>2, <2>3, ListOf
<1>4. C \in Seq(Line) /\ Len(C) \in Nat
  <2>1. CASE c.exclude
    <3>1. /\ DOMAIN c.custom = 1 .. Len(c.custom) /\ Len(c.custom) \in Nat
          /\ \A i \in DOMAIN c.custom : c.custom[i] \in Patterns
      BY <1>1
    <3>2. C \in [1 .. Len(c.custom) -> Line]
      BY <2>1, <3>1 DEF Line
    <3> HIDE DEF C
    <3> QED BY <3>1, <3>2, ListOf
  <2>2. CASE ~c.exclude
    BY <2>2
  <2> QED BY <2>1, <2>2
<1>5. /\ \A i \in DOMAIN G : /\ G[i].exclude = c.exclude
                             /\ G[i].pattern = g[i]
                             /\ ~G[i].append => i = 1 /\ ~c.incremental
      /\ \A i \in DOMAIN C : C[i].exclude = c.exclude /\ C[i].append
  <2>1. ASSUME NEW i \in DOMAIN G
        PROVE  /\ G[i].exclude = c.exclude
               /\ G[i].pattern = g[i]
               /\ ~G[i].append => i = 1 /\ ~c.incremental
    <3>1. i \in DOMAIN g /\ i \in Nat /\ i >= 1
      BY <1>2
    <3>2. G[i] = [exclude |-> c.exclude, pattern |-> g[i],
                  append |-> c.incremental \/ i > 1]
      BY <3>1
    <3>3. G[i].append = (c.incremental \/ i > 1)
      BY <3>2
    <3>4. ~G[i].append => ~c.incremental /\ ~(i > 1)
      BY <3>3, <1>1
    <3> QED BY <3>1, <3>2, <3>4
  <2>2. ASSUME NEW i \in DOMAIN C
        PROVE  C[i].exclude = c.exclude /\ C[i].append
    <3>1. CASE c.exclude
      <4>1. i \in DOMAIN c.custom
        BY <3>1
      <4>2. C[i] = [exclude |-> TRUE, pattern |-> c.custom[i], append |-> TRUE]
        BY <3>1, <4>1
      <4> QED BY <3>1, <4>2, <1>1
    <3>2. CASE ~c.exclude
      BY <3>2
    <3> QED BY <3>1, <3>2
  <2> QED BY <2>1, <2>2
<1>6. Lines(c) = G \o C
  BY DEF Lines, g
<1>7. Named(C) = IF c.exclude THEN Custom(c) ELSE {}
  <2>1. CASE c.exclude
    <3>1. /\ DOMAIN C = DOMAIN c.custom
          /\ \A i \in DOMAIN C : C[i].pattern = c.custom[i]
      BY <2>1
    <3>2. ToSet(c.custom) = {c.custom[i] : i \in DOMAIN c.custom}
      BY DEF ToSet
    <3> HIDE DEF C
    <3> QED BY <2>1, <3>1, <3>2 DEF Named, Custom
  <2>2. CASE ~c.exclude
    BY <2>2 DEF Named
  <2> QED BY <2>1, <2>2
<1>8. Named(G) = IF OnlyCustom(c) THEN {} ELSE Own(c)
  <2>1. CASE OnlyCustom(c)
    <3>1. DOMAIN G = {}
      BY <2>1 DEF g, Generated
    <3> QED BY <2>1, <3>1 DEF Named
  <2>2. CASE ~OnlyCustom(c)
    <3> DEFINE Meets(d, a, path) == Matches(Pattern(d, c.version, a), path)
    <3>1. \A path \in RepoFiles : path \in Named(G) <=>
             \E d \in ToSet(c.distros), a \in ToSet(c.archs) : Meets(d, a, path)
      <4>1. /\ \A i \in DOMAIN g : \E d \in ToSet(c.distros), a \in ToSet(c.archs) :
                 g[i] = Pattern(d, c.version, a)
            /\ \A d \in ToSet(c.distros), a \in ToSet(c.archs) :
                 \E i \in DOMAIN g : g[i] = Pattern(d, c.version, a)
        BY <2>2, PairsGenerated DEF g
      <4>2. ASSUME NEW path \in Named(G)
            PROVE  \E d \in ToSet(c.distros), a \in ToSet(c.archs) : Meets(d, a, path)
        <5>1. PICK i \in DOMAIN g : Matches(g[i], path)
          <6> HIDE DEF G
          <6> QED BY <1>3, <1>5 DEF Named
        <5> QED BY <4>1, <5>1
      <4>3. ASSUME NEW path \in RepoFiles, NEW d \in ToSet(c.distros),
                   NEW a \in ToSet(c.archs), Meets(d, a, path)
            PROVE  path \in Named(G)
        <5>1. PICK i \in DOMAIN g : g[i] = Pattern(d, c.version, a)
          BY <4>1
        <5>2. i \in DOMAIN G /\ G[i].pattern = g[i]
          <6> HIDE DEF G
          <6> QED BY <1>3, <1>5
        <5>3. Matches(G[i].pattern, path)
          BY <5>1, <5>2, <4>3
        <5> HIDE DEF G
        <5> QED BY <5>2, <5>3 DEF Named
      <4> HIDE DEF Meets, G
      <4> QED BY <4>2, <4>3
    <3>2. ASSUME NEW path \in RepoFiles, NEW d, NEW a
          PROVE  Meets(d, a, path) <=> /\ d \in {path.distro, Star}
                                       /\ c.version \in {path.release, Star}
                                       /\ a \in {path.arch, Star}
      <4>1. path \in Patterns
        BY CallsAssumption
      <4>2. DOMAIN path = {"distro", "release", "arch", "kernel"}
        BY <4>1 DEF Patterns
      <4> QED BY <4>2 DEF Matches, Pattern
    <3>3. ToSet(<<c.version>>) = {c.version}
      BY DEF ToSet
    <3>4. Named(G) \subseteq RepoFiles /\ Own(c) \subseteq RepoFiles
      BY DEF Named, Own
    <3>5. ASSUME NEW path \in RepoFiles
          PROVE  path \in Own(c) <=>
                   \E d \in ToSet(c.distros), a \in ToSet(c.archs) : Meets(d, a, path)
      <4> HIDE DEF Meets
      <4> QED BY <3>2, <3>3 DEF Own
    <3> HIDE DEF Meets, G
    <3> QED BY <2>2, <3>1, <3>4, <3>5
  <2> QED BY <2>1, <2>2
<1> HIDE DEF G, C
<1>9. /\ G \o C \in Seq(Line)
      /\ DOMAIN G = 1 .. Len(G) /\ DOMAIN C = 1 .. Len(C)
      /\ DOMAIN (G \o C) = 1 .. Len(G) + Len(C)
      /\ \A i \in DOMAIN G : (G \o C)[i] = G[i]
      /\ \A i \in DOMAIN C : (G \o C)[Len(G) + i] = C[i]
      /\ \A i \in DOMAIN (G \o C) :
           \/ i \in DOMAIN G
           \/ /\ i > Len(G) /\ i - Len(G) \in DOMAIN C
              /\ (G \o C)[i] = C[i - Len(G)]
  BY <1>3, <1>4, Concat
<1>10. Named(G \o C) = Named(G) \cup Named(C)
  <2>1. ASSUME NEW path \in RepoFiles, NEW i \in DOMAIN (G \o C),
               Matches((G \o C)[i].pattern, path)
        PROVE  path \in Named(G) \cup Named(C)
    BY <2>1, <1>9 DEF Named
  <2>2. ASSUME NEW path \in RepoFiles, NEW i \in DOMAIN G, Matches(G[i].pattern, path)
        PROVE  path \in Named(G \o C)
    BY <2>2, <1>9, <1>3, <1>4 DEF Named
  <2>3. ASSUME NEW path \in RepoFiles, NEW i \in DOMAIN C, Matches(C[i].pattern, path)
        PROVE  path \in Named(G \o C)
    <3>1. Len(G) + i \in DOMAIN (G \o C)
      BY <1>9, <1>3, <1>4
    <3> QED BY <2>3, <3>1, <1>9 DEF Named
  <2> QED BY <2>1, <2>2, <2>3 DEF Named
<1>11. \A i \in DOMAIN (G \o C) : (G \o C)[i].exclude = c.exclude
  BY <1>5, <1>9
<1>12. \A i \in DOMAIN (G \o C) : ~(G \o C)[i].append => i = 1 /\ ~c.incremental
  BY <1>5, <1>9
<1> QED BY <1>6, <1>7, <1>8, <1>9, <1>10, <1>11, <1>12

\* So a call's lines make of the selection what the call asks for.
LEMMA LinesMeanAsked ==
  ASSUME NEW c \in Calls, ~c.applyOnly, NEW file \in Seq(Line), NEW before,
         c.incremental => before = SelectedBy(file)
  PROVE  SelectedBy((IF c.incremental THEN file ELSE <<>>) \o Lines(c)) = Asked(c, before)
<1> DEFINE base == IF c.incremental THEN file ELSE <<>>
<1>1. base \in Seq(Line)
  OBVIOUS
<1>2. SelectedBy(base) = IF c.incremental THEN before ELSE {}
  BY DEF SelectedBy
<1>3. Asked(c, before) =
        LET b == IF c.incremental THEN before ELSE {}
        IN  IF ~c.exclude THEN b \cup Own(c)
            ELSE (IF OnlyCustom(c) THEN b ELSE b \ Own(c)) \ Custom(c)
  BY DEF Asked, Own, Custom
<1>4. c.exclude \in BOOLEAN
  BY CallsAssumption DEF CallType
<1>5. ~c.exclude => ~OnlyCustom(c)
  BY DEF OnlyCustom
<1> HIDE DEF base
<1>6. CASE c.exclude
  <2>1. SelectedBy(base \o Lines(c)) = SelectedBy(base) \ Named(Lines(c))
    BY <1>1, <1>6, LinesOfCall, Excluding
  <2> QED BY <1>2, <1>3, <1>6, <2>1, LinesOfCall DEF base
<1>7. CASE ~c.exclude
  <2>1. SelectedBy(base \o Lines(c)) = SelectedBy(base) \cup Named(Lines(c))
    BY <1>1, <1>7, LinesOfCall, Including
  <2> QED BY <1>2, <1>3, <1>5, <1>7, <2>1, LinesOfCall DEF base
<1> QED BY <1>6, <1>7

-----------------------------------------------------------------------------
(* The inductive invariant *)

Endings == {"none", "died", "recorded", "applied", "killed"}

TypeInv ==
  /\ cloned \in BOOLEAN /\ indexed \in BOOLEAN /\ intact \in BOOLEAN
  /\ patterns \in Seq(Line) /\ todo \in Seq(Line)
  /\ call \in Calls \cup {NoCall}
  /\ at \in Endings \cup {"clone", "clear", "write", "reset"}

\* Where a call is, and what it has still to write there.
PhaseInv ==
  /\ Over <=> at \in Endings
  /\ at \in Endings \cup {"reset"} => todo = <<>>
  /\ ~Over => (call.applyOnly => todo = <<>>)
  /\ at = "clone" => ~cloned
  /\ ~cloned => patterns = <<>>

\* The file as it is once the call in execution has cleared it, if it is to.
Cleared ==
  IF at \in {"clone", "clear"} /\ ~call.incremental /\ ~call.applyOnly
    THEN <<>> ELSE patterns

\* Only a first line, into an empty file, is written without -a.
AppendInv == \A i \in DOMAIN todo : ~todo[i].append => i = 1 /\ Cleared = <<>>

\* While the history is intact, the file with the lines that are to come selects
\* what the calls ask for, and nothing is written where there is no repository.
PromiseInv ==
  intact => /\ SelectedBy(Cleared \o todo) = want
            /\ at \in {"clear", "write"} /\ todo # <<>> => cloned

\* Reapply has done the work of a reset that may fail.
TreeInv == indexed /\ at \in {"reset", "applied"} => tree = Selected

SparseInv == TypeInv /\ PhaseInv /\ AppendInv /\ PromiseInv /\ TreeInv

\* SparseInv holds at first.
LEMMA SparseInit == Init => SparseInv
<1> SUFFICES ASSUME Init PROVE SparseInv
  OBVIOUS
<1>1. TypeInv /\ PhaseInv /\ AppendInv /\ TreeInv
  <2>0. <<>> \in Seq(Line)
    OBVIOUS
  <2>1. TypeInv
    <3>1. cloned \in BOOLEAN /\ indexed \in BOOLEAN /\ intact \in BOOLEAN
      BY DEF Init
    <3>2. at \in Endings
      BY DEF Init, Endings
    <3>3. patterns \in Seq(Line) /\ todo \in Seq(Line) /\ call \in Calls \cup {NoCall}
      BY <2>0 DEF Init
    <3> QED BY <3>1, <3>2, <3>3 DEF TypeInv
  <2>2. PhaseInv
    BY DEF Init, PhaseInv, Over, Endings
  <2>3. AppendInv /\ TreeInv
    BY DEF Init, AppendInv, TreeInv
  <2> QED BY <2>1, <2>2, <2>3
<1>2. Cleared \o todo = <<>>
  BY DEF Init, Cleared
<1>3. PromiseInv
  BY <1>2 DEF Init, PromiseInv, SelectedBy
<1> QED BY <1>1, <1>3 DEF SparseInv

\* A call has its flags, and is not the absence of one.
LEMMA CallIsNotNoCall ==
  \A c \in Calls :
    /\ c # NoCall
    /\ c.incremental \in BOOLEAN /\ c.applyOnly \in BOOLEAN /\ c.noApply \in BOOLEAN
<1> SUFFICES ASSUME NEW c \in Calls
             PROVE  /\ c # NoCall
                    /\ c.incremental \in BOOLEAN /\ c.applyOnly \in BOOLEAN
                    /\ c.noApply \in BOOLEAN
  OBVIOUS
<1>1. c \in CallType
  BY CallsAssumption
<1>2. DOMAIN c # DOMAIN NoCall
  <2>1. "over" \notin DOMAIN c
    BY <1>1 DEF CallType
  <2>2. "over" \in DOMAIN NoCall
    BY DEF NoCall
  <2> QED BY <2>1, <2>2
<1> QED BY <1>1, <1>2 DEF CallType

\* To append nothing changes nothing.
LEMMA EmptyTail ==
  ASSUME NEW s \in Seq(Line)
  PROVE  s \o <<>> = s /\ <<>> \o s = s /\ <<>> \in Seq(Line)
OBVIOUS

\* Begin: the promise of the new call.
LEMMA BeginKeeps ==
  ASSUME SparseInv, NEW c \in Calls, Begin(c)
  PROVE  SparseInv'
<1> USE DEF SparseInv
<1>1. /\ Over /\ call' = c /\ at' = (IF cloned THEN "clear" ELSE "clone")
      /\ todo' = (IF c.applyOnly THEN <<>> ELSE Lines(c))
      /\ intact' = (intact \/ (~c.incremental /\ ~c.applyOnly))
      /\ want' = (IF intact' THEN Asked(c, want) ELSE {})
      /\ UNCHANGED <<cloned, patterns, indexed, tree>>
  BY DEF Begin
<1>2. at \in Endings /\ todo = <<>> /\ Cleared = patterns /\ patterns \in Seq(Line)
  BY <1>1 DEF PhaseInv, TypeInv, Cleared, Endings
<1>3. /\ c # NoCall /\ c.incremental \in BOOLEAN /\ c.applyOnly \in BOOLEAN
      /\ ~Over'
  BY <1>1, CallIsNotNoCall DEF Over
<1>4. Cleared' = IF c.incremental \/ c.applyOnly THEN patterns ELSE <<>>
  BY <1>1, <1>3 DEF Cleared
<1>5. intact => SelectedBy(patterns) = want
  BY <1>2, EmptyTail DEF PromiseInv
<1>6. TypeInv'
  BY <1>1, LinesOfCall DEF TypeInv
<1>7. PhaseInv'
  BY <1>1, <1>3, <1>2 DEF PhaseInv, TypeInv, Endings
<1>8. AppendInv'
  <2>1. ~c.applyOnly =>
          \A i \in DOMAIN Lines(c) : ~Lines(c)[i].append => i = 1 /\ ~c.incremental
    BY LinesOfCall
  <2> QED BY <1>1, <1>4, <2>1 DEF AppendInv
<1>9. ASSUME intact'
      PROVE  SelectedBy(Cleared' \o todo') = want'
  <2>1. CASE c.applyOnly
    <3>1. Asked(c, want) = want
      BY <2>1 DEF Asked
    <3>2. intact
      BY <1>1, <1>9, <2>1
    <3>3. Cleared' \o todo' = patterns
      BY <1>1, <1>2, <1>4, <2>1, EmptyTail
    <3> QED BY <1>1, <1>5, <1>9, <3>1, <3>2, <3>3
  <2>2. CASE ~c.applyOnly
    <3>1. c.incremental => want = SelectedBy(patterns)
      BY <1>1, <1>5, <1>9
    <3>2. SelectedBy((IF c.incremental THEN patterns ELSE <<>>) \o Lines(c)) = Asked(c, want)
      BY <1>2, <2>2, <3>1, LinesMeanAsked
    <3>3. Cleared' \o todo' = (IF c.incremental THEN patterns ELSE <<>>) \o Lines(c)
      BY <1>1, <1>4, <2>2
    <3> QED BY <1>1, <1>9, <3>2, <3>3
  <2> QED BY <2>1, <2>2
<1>10. PromiseInv'
  <2>1. at' \in {"clear", "write"} => cloned'
    BY <1>1
  <2>2. (Cleared \o todo)' = Cleared' \o todo'
    OBVIOUS
  <2>3. SelectedBy(Cleared \o todo)' = SelectedBy(Cleared' \o todo')
    BY DEF SelectedBy
  <2> QED BY <1>9, <2>1, <2>3 DEF PromiseInv
<1>11. TreeInv'
  BY <1>1 DEF TreeInv
<1> QED BY <1>6, <1>7, <1>8, <1>10, <1>11

\* AddPattern: a line goes from those to come to the end of the file.
LEMMA AddPatternKeeps ==
  ASSUME SparseInv, AddPattern
  PROVE  SparseInv'
<1> USE DEF SparseInv
<1>1. /\ at = "write" /\ todo # <<>>
      /\ patterns' = (IF ~cloned THEN patterns
                      ELSE IF Head(todo).append THEN Append(patterns, Head(todo))
                      ELSE <<Head(todo)>>)
      /\ todo' = Tail(todo)
      /\ UNCHANGED <<cloned, indexed, tree, call, at, want, intact>>
  BY DEF AddPattern, history
<1>2. /\ Cleared = patterns /\ Cleared' = patterns'
      /\ patterns \in Seq(Line) /\ todo \in Seq(Line)
  BY <1>1 DEF Cleared, TypeInv
<1>3. /\ Head(todo) = todo[1] /\ Head(todo) \in Line /\ Tail(todo) \in Seq(Line)
      /\ 1 \in DOMAIN todo
      /\ \A i \in DOMAIN Tail(todo) : i + 1 \in DOMAIN todo /\ i + 1 # 1 /\ Tail(todo)[i] = todo[i + 1]
      /\ todo = <<Head(todo)>> \o Tail(todo)
  BY <1>1, <1>2
<1>4. TypeInv'
  BY <1>1, <1>2, <1>3 DEF TypeInv
<1>5. PhaseInv'
  BY <1>1 DEF PhaseInv, Over, Endings
<1>6. AppendInv'
  BY <1>1, <1>3 DEF AppendInv
<1>7. PromiseInv'
  <2>1. SUFFICES ASSUME intact PROVE SelectedBy(patterns' \o todo') = want /\ cloned
    <3>1. SelectedBy(Cleared \o todo)' = SelectedBy(Cleared' \o todo')
      BY DEF SelectedBy
    <3> QED BY <1>1, <1>2, <3>1 DEF PromiseInv
  <2>2. cloned /\ SelectedBy(patterns \o todo) = want
    BY <1>1, <1>2, <2>1 DEF PromiseInv
  <2>3. patterns' \o todo' = patterns \o todo
    <3>1. CASE Head(todo).append
      <4>1. patterns' = Append(patterns, Head(todo)) /\ todo' = Tail(todo)
        BY <1>1, <2>2, <3>1
      <4> QED BY <1>2, <1>3, <4>1
    <3>2. CASE ~Head(todo).append
      <4>1. patterns = <<>>
        BY <1>2, <1>3, <3>2 DEF AppendInv
      <4>2. patterns' = <<Head(todo)>> /\ todo' = Tail(todo)
        BY <1>1, <2>2, <3>2
      <4> QED BY <1>2, <1>3, <4>1, <4>2, EmptyTail
    <3> QED BY <3>1, <3>2
  <2> QED BY <2>2, <2>3
<1>8. TreeInv'
  BY <1>1 DEF TreeInv
<1> QED BY <1>4, <1>5, <1>6, <1>7, <1>8

\* Every other step leaves the file with the lines to come as it is, or marks the
\* history as broken.
LEMMA OthersKeep ==
  ASSUME SparseInv,
         \/ \E c \in Calls : Refuse(c)
         \/ Clone \/ ClearPatterns \/ EndNoApply
         \/ Reapply \/ ReapplyFails \/ Reset \/ ResetFails \/ Kill
         \/ UNCHANGED vars
  PROVE  SparseInv'
<1> USE DEF SparseInv
<1>0. SelectedBy(Cleared \o todo)' = SelectedBy(Cleared' \o todo')
  BY DEF SelectedBy
<1>1. ~Over => call.incremental \in BOOLEAN /\ call.applyOnly \in BOOLEAN
  BY CallIsNotNoCall DEF TypeInv, Over
<1>2. /\ patterns \in Seq(Line) /\ todo \in Seq(Line)
      /\ patterns \o <<>> = patterns /\ <<>> \in Seq(Line)
  BY EmptyTail DEF TypeInv
<1>3. ASSUME NEW c \in Calls, Refuse(c) PROVE SparseInv'
  <2>1. /\ Over /\ at' = "died"
        /\ UNCHANGED <<cloned, patterns, indexed, tree, call, todo, want, intact>>
    BY <1>3 DEF Refuse, history
  <2>2. at \in Endings /\ Cleared = patterns /\ Cleared' = patterns /\ todo = <<>>
    BY <2>1 DEF PhaseInv, Cleared, Endings
  <2> QED BY <1>0, <2>1, <2>2 DEF TypeInv, PhaseInv, AppendInv, PromiseInv, TreeInv, Over, Endings
<1>4. CASE Clone
  <2>1. /\ at = "clone" /\ cloned' \in BOOLEAN /\ at' = "clear"
        /\ intact' = (intact /\ (cloned' \/ call.applyOnly))
        /\ want' = (IF intact' THEN want ELSE {})
        /\ UNCHANGED <<patterns, indexed, tree, call, todo>>
    BY <1>4 DEF Clone, Keep
  <2>2. ~Over /\ ~cloned /\ patterns = <<>> /\ Cleared' = Cleared
    BY <2>1 DEF PhaseInv, Cleared, Endings
  <2>3. TypeInv'
    BY <2>1, <1>1, <2>2 DEF TypeInv
  <2>4. PhaseInv' /\ AppendInv' /\ TreeInv'
    BY <2>1, <2>2 DEF PhaseInv, AppendInv, TreeInv, Over, Endings
  <2>5. PromiseInv'
    BY <1>0, <2>1, <2>2 DEF PromiseInv, PhaseInv
  <2> QED BY <2>3, <2>4, <2>5
<1>5. CASE ClearPatterns
  <2>1. /\ at = "clear" /\ at' = "write"
        /\ patterns' = (IF call.incremental \/ call.applyOnly THEN patterns ELSE <<>>)
        /\ UNCHANGED <<cloned, indexed, tree, call, todo, want, intact>>
    BY <1>5 DEF ClearPatterns, history
  <2>2. ~Over /\ Cleared' = Cleared /\ patterns' = Cleared
    BY <2>1 DEF PhaseInv, Cleared, Endings
  <2>3. TypeInv'
    BY <2>1, <1>2 DEF TypeInv
  <2>4. PhaseInv' /\ AppendInv' /\ TreeInv'
    BY <2>1, <2>2 DEF PhaseInv, AppendInv, TreeInv, Over, Endings
  <2>5. PromiseInv'
    BY <1>0, <2>1, <2>2 DEF PromiseInv
  <2> QED BY <2>3, <2>4, <2>5
<1>6. CASE EndNoApply \/ ReapplyFails
  <2>1. /\ at = "write" /\ todo = <<>> /\ call' = NoCall
        /\ at' \in {"recorded", "died"}
        /\ UNCHANGED <<cloned, patterns, indexed, tree, todo, want, intact>>
    BY <1>6 DEF EndNoApply, ReapplyFails, End, history
  <2>2. Cleared' = Cleared /\ Over'
    BY <2>1 DEF Cleared, Over
  <2>3. TypeInv' /\ PhaseInv' /\ AppendInv' /\ TreeInv'
    BY <2>1, <2>2 DEF TypeInv, PhaseInv, AppendInv, TreeInv, Endings
  <2>4. PromiseInv'
    BY <1>0, <2>1, <2>2 DEF PromiseInv
  <2> QED BY <2>3, <2>4
<1>7. CASE Reapply
  <2>1. /\ at = "write" /\ todo = <<>> /\ at' = "reset"
        /\ tree' = (IF indexed THEN Selected ELSE tree)
        /\ UNCHANGED <<cloned, patterns, indexed, call, todo, want, intact>>
    BY <1>7 DEF Reapply, history
  <2>2. Cleared' = Cleared /\ Selected' = Selected
    BY <2>1 DEF Cleared, Selected, SelectedBy
  <2>3. TypeInv' /\ PhaseInv' /\ AppendInv' /\ TreeInv'
    BY <2>1, <2>2 DEF TypeInv, PhaseInv, AppendInv, TreeInv, Over, Endings
  <2>4. PromiseInv'
    BY <1>0, <2>1, <2>2 DEF PromiseInv
  <2> QED BY <2>3, <2>4
<1>8. CASE Reset \/ ResetFails
  <2>1. /\ at = "reset" /\ call' = NoCall /\ at' = "applied"
        /\ \/ tree' = Selected /\ indexed' = TRUE
           \/ UNCHANGED <<tree, indexed>>
        /\ UNCHANGED <<cloned, patterns, todo, want, intact>>
    BY <1>8 DEF Reset, ResetFails, End, history
  <2>2. Cleared' = Cleared /\ Selected' = Selected /\ todo = <<>> /\ Over'
    BY <2>1 DEF Cleared, Selected, SelectedBy, PhaseInv, Over
  <2>3. TypeInv'
    <3>1. indexed' \in BOOLEAN
      BY <2>1 DEF TypeInv
    <3>2. at' \in Endings /\ call' \in Calls \cup {NoCall}
      BY <2>1 DEF Endings
    <3> QED BY <2>1, <3>1, <3>2 DEF TypeInv
  <2>4. PhaseInv' /\ AppendInv'
    BY <2>1, <2>2 DEF PhaseInv, AppendInv, Endings
  <2>5. TreeInv'
    BY <2>1, <2>2 DEF TreeInv
  <2>6. PromiseInv'
    BY <1>0, <2>1, <2>2 DEF PromiseInv
  <2> QED BY <2>3, <2>4, <2>5, <2>6
<1>9. CASE Kill
  <2>1. /\ ~Over /\ call' = NoCall /\ at' = "killed" /\ todo' = <<>>
        /\ intact' = (intact /\ call.applyOnly)
        /\ want' = (IF intact' THEN want ELSE {})
        /\ UNCHANGED <<cloned, patterns, indexed, tree>>
    BY <1>9 DEF Kill, End, Keep
  <2>2. /\ Cleared' = patterns /\ Over'
        /\ call.applyOnly => Cleared = patterns /\ todo = <<>>
    BY <2>1 DEF Cleared, Over, PhaseInv
  <2>3. TypeInv'
    BY <2>1, <1>1, <1>2 DEF TypeInv, Endings
  <2>4. PhaseInv'
    BY <2>1, <2>2 DEF PhaseInv, Endings
  <2>5. AppendInv' /\ TreeInv'
    BY <2>1 DEF AppendInv, TreeInv
  <2>6. PromiseInv'
    BY <1>0, <2>1, <2>2 DEF PromiseInv
  <2> QED BY <2>3, <2>4, <2>5, <2>6
<1>10. CASE UNCHANGED vars
  <2>1. Cleared' = Cleared /\ Selected' = Selected
    BY <1>10 DEF vars, Cleared, Selected, SelectedBy
  <2> QED BY <1>0, <1>10, <2>1 DEF vars, TypeInv, PhaseInv, AppendInv, PromiseInv, TreeInv, Over
<1> QED BY <1>3, <1>4, <1>5, <1>6, <1>7, <1>8, <1>9, <1>10

\* SparseInv holds of every call and between calls.
THEOREM SparseInvariance == Spec => []SparseInv
<1>1. SparseInv /\ [Next]_vars => SparseInv'
  BY BeginKeeps, AddPatternKeeps, OthersKeep DEF Next
<1> QED BY <1>1, SparseInit, PTL DEF Spec

\* The selection of the file is what the calls so far ask for, for any sequence of
\* calls, each ended in any way.
THEOREM SelectionCorrect == Spec => []SelectionIsAsked
<1>1. SparseInv => SelectionIsAsked
  <2> SUFFICES ASSUME SparseInv, Over, intact PROVE Selected = want
    BY DEF SelectionIsAsked
  <2>1. todo = <<>> /\ Cleared = patterns /\ patterns \in Seq(Line)
    BY DEF SparseInv, PhaseInv, TypeInv, Cleared, Endings
  <2> QED BY <2>1, EmptyTail DEF SparseInv, PromiseInv, Selected
<1> QED BY <1>1, SparseInvariance, PTL

\* And when a call has applied it, the working tree has these files and no other.
THEOREM TreeCorrect == Spec => []TreeIsAsked
<1>1. SparseInv => TreeIsAsked
  <2> SUFFICES ASSUME SparseInv, at = "applied", indexed, intact PROVE tree = want
    BY DEF TreeIsAsked
  <2>1. todo = <<>> /\ Cleared = patterns /\ patterns \in Seq(Line)
    BY DEF SparseInv, PhaseInv, TypeInv, Cleared, Endings
  <2> QED BY <2>1, EmptyTail DEF SparseInv, PromiseInv, TreeInv, Selected
<1> QED BY <1>1, SparseInvariance, PTL
=============================================================================
