-------------------------- MODULE UbuntuListingProofs --------------------------
(***************************************************************************)
(* Proofs about Ubuntu's listing, for package lists of any length and any   *)
(* content, any kernels and flavours: the parser makes of each stanza the   *)
(* package it describes, the two selections and their merge keep one package *)
(* of each file name, and the slices hold what was kept, in version order.   *)
(***************************************************************************)
EXTENDS UbuntuListing, KernelVersionProofs, FiniteSetTheorems

-----------------------------------------------------------------------------
(* The inductive invariant *)

\* What the first n lines of a stanza make of a new package.
FieldBy(st, n, field) ==
  LET I == {i \in 1 .. n : st[i].field = field}
  IN  IF I = {} THEN NewPackage[field] ELSE st[Max(I)].value

PackageBy(st, n) == [field \in DOMAIN NewPackage |-> FieldBy(st, n, field)]

PackageOf(st) == PackageBy(st, Len(st))

InputInv ==
  /\ lists \in [main : MainLists, debug : DebugLists]
  /\ at \in Repositories \cup {"kernels", "dbgsyms", "group", "listed", "failed"}
  /\ todo \subseteq KernelTypes

\* The package that is read is what the lines of its stanza so far make it.
ScanInv ==
  /\ at \in Repositories =>
       \/ stanza = 1 /\ Len(lists[at]) = 0 /\ line = 1 /\ pkg = NewPackage
       \/ /\ stanza \in 1 .. Len(lists[at])
          /\ line \in 1 .. Len(lists[at][stanza]) + 1
          /\ pkg = PackageBy(lists[at][stanza], line - 1)
  /\ at \in {"kernels", "dbgsyms"} => stanza = 1 /\ line = 1 /\ pkg = NewPackage

\* How many stanzas of a list have been read to their end.
StanzasRead(r) ==
  IF at = r THEN stanza - 1
  ELSE IF at = "main" \/ (at = "kernels" /\ r = "debug") THEN 0
  ELSE Len(lists[r])

KernelPackages(r, n) ==
  {p \in {PackageOf(lists[r][i]) : i \in 1 .. n} : IsKernelPackage(p)}

ParsedInv ==
  /\ DOMAIN kernelPkgs = Repositories
  /\ \A r \in Repositories :
       /\ kernelPkgs[r] \in Seq(KernelPackages(r, StanzasRead(r)))
       /\ \A p \in KernelPackages(r, StanzasRead(r)) :
            \E i \in DOMAIN kernelPkgs[r] : kernelPkgs[r][i] = p

\* The packages of either list that a run processes, of the given types.
Images(types) ==
  {p \in ToSet(kernelPkgs["main"]) : \E t \in types : Matches(p, t, FALSE)}
DebugImages(types) ==
  {p \in ToSet(kernelPkgs["debug"]) :
    p.Size >= MinSize /\ \E t \in types : Matches(p, t, TRUE)}

KernelsIn(ps) == {p.Package.kernel : p \in ps}

\* The map has one package for each kernel of the set.
Holds(map, ps) ==
  /\ DOMAIN map = KernelsIn(ps)
  /\ \A k \in DOMAIN map : map[k] \in ps /\ map[k].Package.kernel = k

\* A map in which the kernels that have no debug package are Launchpad's.
Merged ==
  LET map == filteredKernelDbgPkgMap
      ps == DebugImages(KernelTypes)
  IN  /\ DOMAIN map = KernelsIn(ps) \cup DOMAIN filteredKernelPkgs
      /\ \A k \in KernelsIn(ps) : map[k] \in ps /\ map[k].Package.kernel = k
      /\ \A k \in DOMAIN map \ KernelsIn(ps) : map[k] = Launchpad(filteredKernelPkgs[k])

MapInv ==
  /\ at = "main" => Holds(filteredKernelPkgs, {})
  /\ at = "kernels" => Holds(filteredKernelPkgs, Images(KernelTypes \ todo))
  /\ at \in {"debug", "dbgsyms", "group", "listed"} =>
       Holds(filteredKernelPkgs, Images(KernelTypes))
  /\ at \in {"main", "kernels", "debug"} => Holds(filteredKernelDbgPkgMap, {})
  /\ at = "dbgsyms" => Holds(filteredKernelDbgPkgMap, DebugImages(KernelTypes \ todo))
  /\ at \in {"group", "listed"} => Merged

SliceInv ==
  IF at = "listed"
    THEN /\ DOMAIN pkgsByKernelFlavor = Flavors
         /\ \A fl \in Flavors : pkgsByKernelFlavor[fl] \in Sorted(fl)
    ELSE pkgsByKernelFlavor = <<>>

UbuntuInv ==
  /\ InputInv
  /\ SliceInv
  /\ at # "failed" => ScanInv /\ ParsedInv /\ MapInv

-----------------------------------------------------------------------------
(* The parser *)

\* A package list is a list of stanzas, and a stanza of lines.
LEMMA ListsAreLists ==
  ASSUME InputInv, NEW r \in Repositories
  PROVE  /\ lists[r] \in Seq(Seq(Line))
         /\ \A i \in DOMAIN lists[r] : lists[r][i] \in Seq(Line)
<1>1. lists[r] \in MainLists \cup DebugLists
  BY DEF InputInv, Repositories
<1>2. lists[r] \in Seq(Seq(Line))
  BY <1>1, ListsAssumption
<1> QED BY <1>2

\* The next line sets its field, or none.
LEMMA NextField ==
  ASSUME NEW st \in Seq(Line), NEW n \in Nat, n < Len(st),
         NEW field \in DOMAIN NewPackage
  PROVE  FieldBy(st, n + 1, field) =
           IF st[n + 1].field = field THEN st[n + 1].value ELSE FieldBy(st, n, field)
<1> DEFINE I == {i \in 1 .. n : st[i].field = field}
           J == {i \in 1 .. n + 1 : st[i].field = field}
<1>1. CASE st[n + 1].field = field
  <2>1. n + 1 \in J /\ \A i \in J : i <= n + 1 /\ i \in Nat
    BY <1>1
  <2>2. Max(J) = n + 1
    <3> HIDE DEF J
    <3> QED BY <2>1 DEF Max
  <2> QED BY <1>1, <2>1, <2>2 DEF FieldBy
<1>2. CASE st[n + 1].field # field
  <2>1. J = I
    BY <1>2
  <2> QED BY <1>2, <2>1 DEF FieldBy
<1> QED BY <1>1, <1>2

\* So the scanner's step is the next of PackageBy.
LEMMA NextLine ==
  ASSUME NEW st \in Seq(Line), NEW n \in Nat, n < Len(st)
  PROVE  PackageBy(st, n + 1) =
           IF st[n + 1].field \in DOMAIN NewPackage
             THEN [PackageBy(st, n) EXCEPT ![st[n + 1].field] = st[n + 1].value]
             ELSE PackageBy(st, n)
BY NextField DEF PackageBy

\* Before its first line a package is new.
LEMMA FirstLine ==
  ASSUME NEW st
  PROVE  PackageBy(st, 0) = NewPackage
<1>1. \A field \in DOMAIN NewPackage : FieldBy(st, 0, field) = NewPackage[field]
  BY DEF FieldBy
<1>2. NewPackage = [field \in DOMAIN NewPackage |-> NewPackage[field]]
  BY DEF NewPackage
<1> QED BY <1>1, <1>2 DEF PackageBy

\* A field that some line sets has the value of one of these lines, the last.
LEMMA LastCounts ==
  ASSUME NEW st \in Seq(Line), NEW field \in DOMAIN NewPackage
  PROVE  /\ (\A i \in DOMAIN st : st[i].field # field) => PackageOf(st)[field] = NewPackage[field]
         /\ (\E i \in DOMAIN st : st[i].field = field) =>
              /\ PackageOf(st)[field] = LastValue(st, field)
              /\ \E i \in DOMAIN st : st[i].field = field /\ LastValue(st, field) = st[i].value
<1> DEFINE I == {i \in 1 .. Len(st) : st[i].field = field}
<1>0. DOMAIN st = 1 .. Len(st) /\ Len(st) \in Nat
  OBVIOUS
<1>1. PackageOf(st)[field] = IF I = {} THEN NewPackage[field] ELSE st[Max(I)].value
  BY DEF PackageOf, PackageBy, FieldBy
<1>2. I # {} => LastValue(st, field) = st[Max(I)].value
  BY DEF LastValue, SelectLastInSeq
<1>3. ASSUME I # {} PROVE Max(I) \in I
  <2> DEFINE S == {Len(st) - i : i \in I}
  <2>1. S \subseteq Nat /\ S # {}
    BY <1>0, <1>3
  <2>2. \E m \in S : \A k \in S : m <= k
    <3> HIDE DEF S
    <3> QED BY <2>1, LeastNatural
  <2>3. PICK m \in I : \A k \in S : Len(st) - m <= k
    BY <2>2
  <2>4. \A i \in I : m >= i
    <3> SUFFICES ASSUME NEW i \in I PROVE m >= i
      OBVIOUS
    <3>1. Len(st) - i \in S /\ i \in Nat /\ m \in Nat
      BY <1>0
    <3>2. Len(st) - m <= Len(st) - i
      BY <2>3, <3>1
    <3> QED BY <1>0, <3>1, <3>2
  <2> HIDE DEF I
  <2> QED BY <2>3, <2>4 DEF Max
<1> QED BY <1>0, <1>1, <1>2, <1>3

\* The fields of a package that has been read.
LEMMA PackageTyped ==
  ASSUME NEW st \in Seq(Line), NEW p, p = PackageOf(st)
  PROVE  /\ p.Package \in Name \cup {NoName}
         /\ p.Version \in Seq(Int)
         /\ p.Filename \in URLs \cup {""}
         /\ p.Size \in Nat
<1> DEFINE Sets(field) == \E i \in DOMAIN st : st[i].field = field
<1>1. \A field \in DOMAIN NewPackage :
        \/ p[field] = NewPackage[field]
        \/ \E i \in DOMAIN st : st[i].field = field /\ p[field] = st[i].value
  BY LastCounts
<1>2. \A i \in DOMAIN st : st[i] \in Line
  OBVIOUS
<1>3. /\ \A l \in Line : l.field = "Package" => l.value \in Name
      /\ \A l \in Line : l.field = "Version" => l.value \in Seq(Int)
      /\ \A l \in Line : l.field = "Filename" => l.value \in URLs
      /\ \A l \in Line : l.field = "Size" => l.value \in Nat
  BY DEF Line, OtherLine
<1> HIDE DEF Sets
<1>4. /\ DOMAIN NewPackage = {"Package", "Version", "Filename", "Size"}
      /\ NewPackage["Package"] = NoName /\ NewPackage["Version"] = <<>>
      /\ NewPackage["Filename"] = "" /\ NewPackage["Size"] = 0
  BY DEF NewPackage
<1>5. p["Package"] \in Name \cup {NoName}
  <2>1. \/ p["Package"] = NoName
        \/ \E i \in DOMAIN st : st[i].field = "Package" /\ p["Package"] = st[i].value
    BY <1>1, <1>4
  <2> QED BY <2>1, <1>2, <1>3
<1>6. p["Version"] \in Seq(Int)
  <2>1. <<>> \in Seq(Int)
    OBVIOUS
  <2> QED BY <2>1, <1>1, <1>2, <1>3, <1>4
<1>7. p["Filename"] \in URLs \cup {""}
  BY <1>1, <1>2, <1>3, <1>4
<1>8. p["Size"] \in Nat
  <2>1. 0 \in Nat
    OBVIOUS
  <2> QED BY <2>1, <1>1, <1>2, <1>3, <1>4
<1> QED BY <1>5, <1>6, <1>7, <1>8

\* What the parser has saved is what the stanzas behind it describe.
LEMMA SavedPackages ==
  ASSUME NEW r \in Repositories, NEW n \in Nat, NEW p, p = PackageOf(lists[r][n + 1]),
         NEW found \in Seq(KernelPackages(r, n)),
         \A q \in KernelPackages(r, n) : \E i \in DOMAIN found : found[i] = q
  PROVE  /\ Save(found, p) \in Seq(KernelPackages(r, n + 1))
         /\ \A q \in KernelPackages(r, n + 1) :
              \E i \in DOMAIN Save(found, p) : Save(found, p)[i] = q
<1> DEFINE S == KernelPackages(r, n)
           T == KernelPackages(r, n + 1)
<1>1. T = IF IsKernelPackage(p) THEN S \cup {p} ELSE S
  <2>1. {PackageOf(lists[r][i]) : i \in 1 .. n + 1} =
          {PackageOf(lists[r][i]) : i \in 1 .. n} \cup {p}
    <3>1. 1 .. n + 1 = (1 .. n) \cup {n + 1}
      OBVIOUS
    <3> QED BY <3>1
  <2> QED BY <2>1 DEF KernelPackages
<1> HIDE DEF S, T
<1>2. found \in Seq(S) /\ \A q \in S : \E i \in DOMAIN found : found[i] = q
  BY DEF S
<1>3. CASE ~IsKernelPackage(p)
  BY <1>1, <1>2, <1>3 DEF Save, S, T
<1>4. CASE IsKernelPackage(p)
  <2>1. Save(found, p) = Append(found, p) /\ T = S \cup {p}
    BY <1>1, <1>4 DEF Save
  <2>2. found \in Seq(T) /\ p \in T
    BY <1>2, <2>1
  <2>3. Append(found, p) \in Seq(T)
    BY <2>2
  <2>4. /\ \A i \in DOMAIN found : i \in DOMAIN Append(found, p) /\ Append(found, p)[i] = found[i]
        /\ Len(found) + 1 \in DOMAIN Append(found, p)
        /\ Append(found, p)[Len(found) + 1] = p
    BY <2>2
  <2>5. \A q \in T : \E i \in DOMAIN Append(found, p) : Append(found, p)[i] = q
    BY <1>2, <2>1, <2>4
  <2> QED BY <2>1, <2>3, <2>5 DEF T
<1> QED BY <1>3, <1>4

\* Where the scanner is behind a stanza, the package is what the stanza describes.
LEMMA StanzaIsRead ==
  ASSUME InputInv, ScanInv, BehindStanza, stanza \in DOMAIN lists[at]
  PROVE  pkg = PackageOf(lists[at][stanza])
<1>1. at \in Repositories /\ lists[at] \in Seq(Seq(Line)) /\ lists[at][stanza] \in Seq(Line)
  BY ListsAreLists DEF BehindStanza
<1>2. stanza \in 1 .. Len(lists[at]) /\ line \notin DOMAIN lists[at][stanza]
  BY <1>1 DEF BehindStanza, InStanza
<1>3. line \in 1 .. Len(lists[at][stanza]) + 1 /\ pkg = PackageBy(lists[at][stanza], line - 1)
  BY <1>1, <1>2 DEF ScanInv
<1>4. line - 1 = Len(lists[at][stanza])
  BY <1>1, <1>2, <1>3
<1> QED BY <1>3, <1>4 DEF PackageOf

\* The scanner begins a stanza, or an empty list, with a new package.
LEMMA ScanBegins ==
  ASSUME InputInv, NEW r \in Repositories, NEW i \in Nat, NEW l, l = 1, NEW p, p = NewPackage,
         i \in 1 .. Len(lists[r]) \/ (i = 1 /\ Len(lists[r]) = 0)
  PROVE  \/ i = 1 /\ Len(lists[r]) = 0 /\ l = 1 /\ p = NewPackage
         \/ /\ i \in 1 .. Len(lists[r])
            /\ l \in 1 .. Len(lists[r][i]) + 1
            /\ p = PackageBy(lists[r][i], l - 1)
<1>1. CASE i \in 1 .. Len(lists[r])
  <2>1. lists[r][i] \in Seq(Line)
    BY <1>1, ListsAreLists
  <2>2. Len(lists[r][i]) \in Nat
    BY <2>1
  <2>3. p = PackageBy(lists[r][i], 0)
    BY FirstLine
  <2> QED BY <1>1, <2>2, <2>3
<1> QED BY <1>1

\* The scanner's steps keep what is known of the lists.
LEMMA ParserStep ==
  ASSUME InputInv, ScanInv, ParsedInv, ParseLine \/ EndPackage \/ EndList
  PROVE  InputInv' /\ ScanInv' /\ ParsedInv'
<1>1. /\ at \in Repositories /\ lists[at] \in Seq(Seq(Line)) /\ lists' = lists
      /\ \A r \in Repositories : Len(lists[r]) \in Nat
  BY ListsAreLists DEF ParseLine, EndPackage, EndList, InStanza, BehindStanza, inputs
<1>2. \A r, n : KernelPackages(r, n)' = KernelPackages(r, n)
  BY <1>1 DEF KernelPackages
<1>3. CASE ParseLine
  <2> DEFINE st == lists[at][stanza]
             l == st[line]
  <2>1. /\ at' = at /\ stanza' = stanza /\ line' = line + 1 /\ todo' = todo
        /\ kernelPkgs' = kernelPkgs
        /\ pkg' = IF l.field \in DOMAIN NewPackage THEN [pkg EXCEPT ![l.field] = l.value]
                  ELSE pkg
    BY <1>3 DEF ParseLine
  <2>2. stanza \in 1 .. Len(lists[at]) /\ st \in Seq(Line) /\ line \in 1 .. Len(st)
    BY <1>1, <1>3, ListsAreLists DEF ParseLine, InStanza
  <2>3. pkg = PackageBy(st, line - 1)
    BY <1>1, <2>2 DEF ScanInv
  <2>4. line - 1 \in Nat /\ line - 1 < Len(st) /\ (line - 1) + 1 = line
        /\ line' - 1 = line /\ line' \in 1 .. Len(st) + 1
    BY <2>1, <2>2
  <2>5. pkg' = PackageBy(st, line)
    <3>1. l = st[(line - 1) + 1]
      BY <2>4
    <3> HIDE DEF st, l
    <3>2. PackageBy(st, (line - 1) + 1) =
            IF l.field \in DOMAIN NewPackage THEN [pkg EXCEPT ![l.field] = l.value] ELSE pkg
      BY <2>2, <2>3, <2>4, <3>1, NextLine
    <3> QED BY <2>1, <2>4, <3>2
  <2>6. ScanInv'
    BY <1>1, <2>1, <2>2, <2>4, <2>5 DEF ScanInv, Repositories
  <2>7. \A r : StanzasRead(r)' = StanzasRead(r)
    BY <1>1, <2>1 DEF StanzasRead
  <2>8. ParsedInv'
    BY <1>2, <2>1, <2>7 DEF ParsedInv
  <2> QED BY <1>1, <2>1, <2>6, <2>8 DEF InputInv
<1>4. CASE EndPackage
  <2>1. /\ BehindStanza /\ stanza < Len(lists[at])
        /\ kernelPkgs' = [kernelPkgs EXCEPT ![at] = Save(@, pkg)]
        /\ pkg' = NewPackage /\ stanza' = stanza + 1 /\ line' = 1
        /\ at' = at /\ todo' = todo
    BY <1>4 DEF EndPackage
  <2>2. stanza \in 1 .. Len(lists[at]) /\ stanza \in DOMAIN lists[at]
    BY <1>1, <2>1 DEF ScanInv
  <2>3. pkg = PackageOf(lists[at][stanza])
    BY <2>1, <2>2, StanzaIsRead
  <2>4. ScanInv'
    <3>1. stanza' \in Nat /\ stanza' \in 1 .. Len(lists[at])
      BY <1>1, <2>1, <2>2
    <3>2. /\ stanza' \in 1 .. Len(lists[at])
          /\ line' \in 1 .. Len(lists[at][stanza']) + 1
          /\ pkg' = PackageBy(lists[at][stanza'], line' - 1)
      BY <1>1, <2>1, <3>1, ScanBegins
    <3> QED BY <1>1, <2>1, <3>2 DEF ScanInv, Repositories
  <2>5. ASSUME NEW r \in Repositories
        PROVE  /\ kernelPkgs'[r] \in Seq(KernelPackages(r, StanzasRead(r)'))
               /\ \A p \in KernelPackages(r, StanzasRead(r)') :
                    \E i \in DOMAIN kernelPkgs'[r] : kernelPkgs'[r][i] = p
    <3>1. CASE r = at
      <4>1. StanzasRead(r) = stanza - 1 /\ StanzasRead(r)' = (stanza - 1) + 1
            /\ stanza - 1 \in Nat /\ (stanza - 1) + 1 = stanza
        BY <1>1, <2>1, <2>2, <3>1 DEF StanzasRead
      <4>2. kernelPkgs'[r] = Save(kernelPkgs[r], pkg)
        BY <2>1, <3>1 DEF ParsedInv
      <4>3. pkg = PackageOf(lists[r][(stanza - 1) + 1])
        BY <2>3, <3>1, <4>1
      <4>4. /\ kernelPkgs[r] \in Seq(KernelPackages(r, stanza - 1))
            /\ \A p \in KernelPackages(r, stanza - 1) :
                 \E i \in DOMAIN kernelPkgs[r] : kernelPkgs[r][i] = p
        BY <4>1 DEF ParsedInv
      <4> QED BY <4>1, <4>2, <4>3, <4>4, SavedPackages
    <3>2. CASE r # at
      <4>1. StanzasRead(r)' = StanzasRead(r)
        BY <1>1, <2>1, <3>2 DEF StanzasRead
      <4>2. kernelPkgs'[r] = kernelPkgs[r]
        BY <2>1, <3>2 DEF ParsedInv
      <4> QED BY <4>1, <4>2 DEF ParsedInv
    <3> QED BY <3>1, <3>2
  <2>6. ParsedInv'
    BY <1>2, <2>1, <2>5 DEF ParsedInv
  <2> QED BY <1>1, <2>1, <2>4, <2>6 DEF InputInv
<1>5. CASE EndList
  <2>1. /\ BehindStanza /\ stanza >= Len(lists[at])
        /\ kernelPkgs' = [kernelPkgs EXCEPT ![at] = Save(@, pkg)]
        /\ pkg' = NewPackage /\ stanza' = 1 /\ line' = 1
        /\ at' = (IF at = "main" THEN "kernels" ELSE "dbgsyms") /\ todo' = KernelTypes
    BY <1>5 DEF EndList
  <2>2. \/ stanza = 1 /\ Len(lists[at]) = 0 /\ pkg = NewPackage
        \/ stanza = Len(lists[at]) /\ stanza \in DOMAIN lists[at] /\ stanza \in Nat \ {0}
    BY <1>1, <2>1 DEF ScanInv
  <2>3. ScanInv'
    BY <2>1 DEF ScanInv, Repositories
  <2>4. ASSUME NEW r \in Repositories
        PROVE  /\ kernelPkgs'[r] \in Seq(KernelPackages(r, StanzasRead(r)'))
               /\ \A p \in KernelPackages(r, StanzasRead(r)') :
                    \E i \in DOMAIN kernelPkgs'[r] : kernelPkgs'[r][i] = p
    <3>1. CASE r # at
      <4>1. StanzasRead(r)' = StanzasRead(r)
        BY <1>1, <2>1, <3>1 DEF StanzasRead, Repositories
      <4>2. kernelPkgs'[r] = kernelPkgs[r]
        BY <2>1, <3>1 DEF ParsedInv
      <4> QED BY <4>1, <4>2 DEF ParsedInv
    <3>2. CASE r = at
      <4>1. StanzasRead(r) = stanza - 1 /\ StanzasRead(r)' = Len(lists[r])
        BY <1>1, <2>1, <3>2 DEF StanzasRead, Repositories
      <4>2. kernelPkgs'[r] = Save(kernelPkgs[r], pkg)
        BY <2>1, <3>2 DEF ParsedInv
      <4>3. CASE stanza = 1 /\ Len(lists[at]) = 0 /\ pkg = NewPackage
        <5>1. Save(kernelPkgs[r], pkg) = kernelPkgs[r]
          BY <4>3 DEF Save, IsKernelPackage, NewPackage
        <5>2. StanzasRead(r)' = StanzasRead(r)
          BY <3>2, <4>1, <4>3
        <5> QED BY <4>2, <5>1, <5>2 DEF ParsedInv
      <4>4. CASE stanza = Len(lists[at]) /\ stanza \in DOMAIN lists[at] /\ stanza \in Nat \ {0}
        <5>1. stanza - 1 \in Nat /\ (stanza - 1) + 1 = stanza
          BY <4>4
        <5>2. pkg = PackageOf(lists[r][(stanza - 1) + 1])
          BY <2>1, <3>2, <4>4, <5>1, StanzaIsRead
        <5>3. /\ kernelPkgs[r] \in Seq(KernelPackages(r, stanza - 1))
              /\ \A p \in KernelPackages(r, stanza - 1) :
                   \E i \in DOMAIN kernelPkgs[r] : kernelPkgs[r][i] = p
          BY <4>1 DEF ParsedInv
        <5>4. StanzasRead(r)' = (stanza - 1) + 1
          BY <3>2, <4>1, <4>4, <5>1
        <5> QED BY <4>2, <5>1, <5>2, <5>3, <5>4, SavedPackages
      <4> QED BY <2>2, <4>3, <4>4
    <3> QED BY <3>1, <3>2
  <2>5. ParsedInv'
    BY <1>2, <2>1, <2>4 DEF ParsedInv
  <2> QED BY <1>1, <2>1, <2>3, <2>5 DEF InputInv, Repositories
<1> QED BY <1>3, <1>4, <1>5

-----------------------------------------------------------------------------
(* The maps *)

\* Of the packages entered under a name there is a first.
LEMMA FirstOfName ==
  ASSUME NEW ps, NEW sel \in SUBSET Nat, NEW k, \E i \in sel : ps[i].Package.kernel = k
  PROVE  LET first == CHOOSE i \in sel :
               ps[i].Package.kernel = k /\ \A j \in sel : ps[j].Package.kernel = k => i <= j
         IN  first \in sel /\ ps[first].Package.kernel = k
<1> DEFINE S == {i \in sel : ps[i].Package.kernel = k}
<1>1. S \subseteq Nat /\ S # {}
  OBVIOUS
<1>2. \E m \in S : \A n \in S : m <= n
  <2> HIDE DEF S
  <2> QED BY <1>1, LeastNatural
<1> QED BY <1>2

\* A map that has one package for each kernel still has after more are entered.
LEMMA EnterHolds ==
  ASSUME NEW map, NEW qs, Holds(map, qs), NEW ps, NEW sel \in SUBSET Nat, NEW rs,
         rs = qs \cup {ps[i] : i \in sel}
  PROVE  Holds(Enter(map, ps, sel), rs)
<1> DEFINE new == {ps[i].Package.kernel : i \in sel}
           entries == [k \in new |->
             ps[CHOOSE i \in sel :
                  ps[i].Package.kernel = k /\ \A j \in sel : ps[j].Package.kernel = k => i <= j]]
           out == Enter(map, ps, sel)
<1>1. \A k \in new : entries[k] \in {ps[i] : i \in sel} /\ entries[k].Package.kernel = k
  <2> SUFFICES ASSUME NEW k \in new
               PROVE  entries[k] \in {ps[i] : i \in sel} /\ entries[k].Package.kernel = k
    OBVIOUS
  <2> DEFINE first == CHOOSE i \in sel :
               ps[i].Package.kernel = k /\ \A j \in sel : ps[j].Package.kernel = k => i <= j
  <2>0. \E i \in sel : ps[i].Package.kernel = k
    <3> HIDE DEF entries, out, first
    <3> QED OBVIOUS
  <2>1. first \in sel /\ ps[first].Package.kernel = k
    <3> HIDE DEF new, entries, out
    <3> QED BY <2>0, FirstOfName
  <2>2. entries[k] = ps[first]
    OBVIOUS
  <2> HIDE DEF first, entries
  <2> QED BY <2>1, <2>2
<1>2. KernelsIn(rs) = KernelsIn(qs) \cup new
  BY DEF KernelsIn
<1>3. DOMAIN entries = new
  OBVIOUS
<1>4. out = [k \in DOMAIN map \cup DOMAIN entries |->
               IF k \in DOMAIN map THEN map[k] ELSE entries[k]]
  BY DEF Enter, AddNew
<1> HIDE DEF entries, new, out
<1>5. DOMAIN out = KernelsIn(rs)
  BY <1>2, <1>3, <1>4 DEF Holds
<1>6. \A k \in DOMAIN out : out[k] \in rs /\ out[k].Package.kernel = k
  BY <1>1, <1>3, <1>4 DEF Holds
<1> QED BY <1>5, <1>6 DEF Holds, out

\* The packages of a list that match one more type.
LEMMA OneMoreType ==
  ASSUME ParsedInv, NEW t, NEW types
  PROVE  /\ LET ps == kernelPkgs["main"]
                sel == {i \in DOMAIN ps : Matches(ps[i], t, FALSE)}
            IN  sel \in SUBSET Nat /\ Images(types \cup {t}) = Images(types) \cup {ps[i] : i \in sel}
         /\ LET ps == kernelPkgs["debug"]
                sel == {i \in DOMAIN ps : Matches(ps[i], t, TRUE) /\ ps[i].Size >= MinSize}
            IN  /\ sel \in SUBSET Nat
                /\ DebugImages(types \cup {t}) = DebugImages(types) \cup {ps[i] : i \in sel}
<1>1. \A r \in Repositories : /\ DOMAIN kernelPkgs[r] \subseteq Nat
                              /\ ToSet(kernelPkgs[r]) = {kernelPkgs[r][i] : i \in DOMAIN kernelPkgs[r]}
  BY DEF ParsedInv, ToSet
<1>2. "main" \in Repositories /\ "debug" \in Repositories
  BY DEF Repositories
<1> QED BY <1>1, <1>2 DEF Images, DebugImages

\* The selections and the merge keep what is known of the maps.
LEMMA MapStep ==
  ASSUME InputInv, ParsedInv, MapInv,
         \/ \E t \in KernelTypes : SelectKernels(t) \/ SelectDebug(t)
         \/ AddMissing
  PROVE  MapInv'
<1>1. lists' = lists /\ kernelPkgs' = kernelPkgs /\ have' = have /\ force' = force
  BY DEF SelectKernels, SelectDebug, AddMissing, inputs
<1>2. \A p, t, d : Matches(p, t, d)' = Matches(p, t, d)
  BY <1>1 DEF Matches
<1>3. /\ \A types : Images(types)' = Images(types)
      /\ \A types : DebugImages(types)' = DebugImages(types)
  BY <1>1, <1>2 DEF Images, DebugImages
<1>4. ASSUME NEW t \in KernelTypes, SelectKernels(t) PROVE MapInv'
  <2> DEFINE ps == kernelPkgs["main"]
             sel == {i \in DOMAIN ps : Matches(ps[i], t, FALSE)}
  <2>1. /\ at = "kernels" /\ at' = "kernels" /\ t \in todo /\ todo' = todo \ {t}
        /\ filteredKernelPkgs' = Enter(filteredKernelPkgs, ps, sel)
        /\ filteredKernelDbgPkgMap' = filteredKernelDbgPkgMap
    BY <1>4 DEF SelectKernels
  <2>2. todo \subseteq KernelTypes
    BY DEF InputInv
  <2>3. /\ sel \in SUBSET Nat
        /\ Images(KernelTypes \ (todo \ {t})) =
             Images(KernelTypes \ todo) \cup {ps[i] : i \in sel}
    <3>1. (KernelTypes \ todo) \cup {t} = KernelTypes \ (todo \ {t})
      BY <2>1, <2>2
    <3>2. sel \in SUBSET Nat /\ Images((KernelTypes \ todo) \cup {t}) =
                                 Images(KernelTypes \ todo) \cup {ps[i] : i \in sel}
      BY OneMoreType
    <3> QED BY <3>1, <3>2
  <2> HIDE DEF ps, sel
  <2>4. Holds(filteredKernelPkgs, Images(KernelTypes \ todo))
    BY <2>1 DEF MapInv
  <2>5. Holds(Enter(filteredKernelPkgs, ps, sel), Images(KernelTypes \ (todo \ {t})))
    BY <2>3, <2>4, EnterHolds
  <2>6. Holds(filteredKernelPkgs, Images(KernelTypes \ todo))'
    BY <1>3, <2>1, <2>5 DEF Holds
  <2>7. Holds(filteredKernelDbgPkgMap, {})'
    BY <2>1 DEF MapInv, Holds
  <2> QED BY <2>1, <2>6, <2>7 DEF MapInv
<1>5. ASSUME NEW t \in KernelTypes, SelectDebug(t) PROVE MapInv'
  <2> DEFINE ps == kernelPkgs["debug"]
             sel == {i \in DOMAIN ps : Matches(ps[i], t, TRUE) /\ ps[i].Size >= MinSize}
  <2>1. /\ at = "dbgsyms" /\ at' = "dbgsyms" /\ t \in todo /\ todo' = todo \ {t}
        /\ filteredKernelDbgPkgMap' = Enter(filteredKernelDbgPkgMap, ps, sel)
        /\ filteredKernelPkgs' = filteredKernelPkgs
    BY <1>5 DEF SelectDebug
  <2>2. todo \subseteq KernelTypes
    BY DEF InputInv
  <2>3. /\ sel \in SUBSET Nat
        /\ DebugImages(KernelTypes \ (todo \ {t})) =
             DebugImages(KernelTypes \ todo) \cup {ps[i] : i \in sel}
    <3>1. (KernelTypes \ todo) \cup {t} = KernelTypes \ (todo \ {t})
      BY <2>1, <2>2
    <3>2. sel \in SUBSET Nat /\ DebugImages((KernelTypes \ todo) \cup {t}) =
                                 DebugImages(KernelTypes \ todo) \cup {ps[i] : i \in sel}
      BY OneMoreType
    <3> QED BY <3>1, <3>2
  <2> HIDE DEF ps, sel
  <2>4. Holds(filteredKernelDbgPkgMap, DebugImages(KernelTypes \ todo))
    BY <2>1 DEF MapInv
  <2>5. Holds(Enter(filteredKernelDbgPkgMap, ps, sel), DebugImages(KernelTypes \ (todo \ {t})))
    BY <2>3, <2>4, EnterHolds
  <2>6. Holds(filteredKernelDbgPkgMap, DebugImages(KernelTypes \ todo))'
    BY <1>3, <2>1, <2>5 DEF Holds
  <2>7. Holds(filteredKernelPkgs, Images(KernelTypes))'
    BY <1>3, <2>1 DEF MapInv, Holds
  <2> QED BY <2>1, <2>6, <2>7 DEF MapInv
<1>6. CASE AddMissing
  <2> DEFINE map == filteredKernelDbgPkgMap
             missing == [k \in DOMAIN filteredKernelPkgs |-> Launchpad(filteredKernelPkgs[k])]
  <2>1. /\ at = "dbgsyms" /\ at' = "group" /\ todo = {}
        /\ filteredKernelDbgPkgMap' = AddNew(filteredKernelDbgPkgMap, missing)
        /\ filteredKernelPkgs' = filteredKernelPkgs
    BY <1>6 DEF AddMissing
  <2>2. DOMAIN missing = DOMAIN filteredKernelPkgs
    OBVIOUS
  <2>3. filteredKernelDbgPkgMap' =
          [k \in DOMAIN map \cup DOMAIN missing |-> IF k \in DOMAIN map THEN map[k] ELSE missing[k]]
    BY <2>1 DEF AddNew
  <2>4. Holds(map, DebugImages(KernelTypes))
    <3>1. KernelTypes \ todo = KernelTypes
      BY <2>1
    <3> QED BY <2>1, <3>1 DEF MapInv
  <2>5. Merged'
    BY <1>3, <2>1, <2>2, <2>3, <2>4 DEF Merged, Holds
  <2>6. Holds(filteredKernelPkgs, Images(KernelTypes))'
    BY <1>3, <2>1 DEF MapInv, Holds
  <2> QED BY <2>1, <2>5, <2>6 DEF MapInv
<1> QED BY <1>4, <1>5, <1>6

-----------------------------------------------------------------------------
(* The slices *)

\* A function on 1 .. k is a sequence of length k.
LEMMA ListOf ==
  ASSUME NEW k \in Nat, NEW S, NEW f \in [1 .. k -> S]
  PROVE  f \in Seq(S) /\ Len(f) = k
OBVIOUS

\* The image of a finite set is finite.
LEMMA ImageIsFinite ==
  ASSUME NEW S, IsFiniteSet(S), NEW f, S \subseteq DOMAIN f
  PROVE  IsFiniteSet({f[x] : x \in S})
<1> DEFINE T == {f[x] : x \in S}
           g == [x \in S |-> f[x]]
<1>1. g \in Surjection(S, T)
  BY DEF Surjection
<1> HIDE DEF g, T
<1>2. IsFiniteSet(T)
  BY <1>1, FS_Surjection
<1> QED BY <1>2 DEF T

\* The packages of the map are finitely many, one for each kernel.
LEMMA PackagesAreFinite ==
  ASSUME ParsedInv, MapInv, at \in {"group", "listed"}
  PROVE  IsFiniteSet(Packages)
<1>1. ASSUME NEW r \in Repositories
      PROVE  IsFiniteSet(ToSet(kernelPkgs[r]))
  <2>1. DOMAIN kernelPkgs[r] = 1 .. Len(kernelPkgs[r]) /\ Len(kernelPkgs[r]) \in Nat
    BY DEF ParsedInv
  <2>2. IsFiniteSet(DOMAIN kernelPkgs[r])
    BY <2>1, FS_Interval
  <2>3. ToSet(kernelPkgs[r]) = {kernelPkgs[r][i] : i \in DOMAIN kernelPkgs[r]}
    BY DEF ToSet
  <2> QED BY <2>2, <2>3, ImageIsFinite
<1>2. ASSUME NEW ps, IsFiniteSet(ps) PROVE IsFiniteSet(KernelsIn(ps))
  <2> DEFINE f == [p \in ps |-> p.Package.kernel]
  <2>1. KernelsIn(ps) = {f[p] : p \in ps} /\ ps \subseteq DOMAIN f
    BY DEF KernelsIn
  <2> HIDE DEF f
  <2> QED BY <1>2, <2>1, ImageIsFinite
<1>3. IsFiniteSet(Images(KernelTypes)) /\ IsFiniteSet(DebugImages(KernelTypes))
  <2>1. Images(KernelTypes) \subseteq ToSet(kernelPkgs["main"])
    BY DEF Images
  <2>2. DebugImages(KernelTypes) \subseteq ToSet(kernelPkgs["debug"])
    BY DEF DebugImages
  <2>3. "main" \in Repositories /\ "debug" \in Repositories
    BY DEF Repositories
  <2> QED BY <1>1, <2>1, <2>2, <2>3, FS_Subset
<1>4. DOMAIN filteredKernelDbgPkgMap =
        KernelsIn(DebugImages(KernelTypes)) \cup KernelsIn(Images(KernelTypes))
  BY DEF MapInv, Merged, Holds
<1>5. IsFiniteSet(DOMAIN filteredKernelDbgPkgMap)
  BY <1>2, <1>3, <1>4, FS_Union
<1> QED BY <1>5, ImageIsFinite DEF Packages

\* A sorted slice has every package of its flavour once.
LEMMA SortedSlice ==
  ASSUME NEW fl, IsFiniteSet(Packages), NEW s \in Sorted(fl)
  PROVE  /\ s \in Seq(OfFlavor(fl)) /\ DOMAIN s = 1 .. Len(s) /\ Len(s) \in Nat
         /\ \A i, j \in DOMAIN s : s[i] = s[j] => i = j
         /\ \A p \in OfFlavor(fl) : \E i \in DOMAIN s : s[i] = p
         /\ \A i, j \in DOMAIN s : i < j => ~ByVersionLess(s[j], s[i])
<1> DEFINE ps == OfFlavor(fl)
           D == 1 .. Cardinality(ps)
<1>1. IsFiniteSet(ps) /\ Cardinality(ps) \in Nat
  <2>1. ps \subseteq Packages
    BY DEF OfFlavor
  <2>2. IsFiniteSet(ps)
    BY <2>1, FS_Subset
  <2> QED BY <2>2, FS_CardinalityType
<1>2. s \in [D -> ps] /\ \A i, j \in D : i # j => s[i] # s[j]
  BY DEF Sorted, SetToSeqs
<1>3. s \in Seq(ps) /\ Len(s) = Cardinality(ps)
  <2> HIDE DEF ps
  <2> QED BY <1>1, <1>2, ListOf
<1>4. IsFiniteSet(D) /\ Cardinality(D) = Cardinality(ps)
  BY <1>1, FS_Interval
<1>5. s \in Injection(D, ps)
  BY <1>2 DEF Injection, IsInjective
<1>6. s \in Surjection(D, ps)
  <2> HIDE DEF ps
  <2> QED BY <1>1, <1>4, <1>5, FS_Injection
<1>7. \A p \in ps : \E i \in D : s[i] = p
  BY <1>6 DEF Surjection
<1>8. \A i, j \in 1 .. Len(s) : i < j => ~ByVersionLess(s[j], s[i])
  BY DEF Sorted, IsSorted
<1> HIDE DEF ps
<1> QED BY <1>1, <1>2, <1>3, <1>7, <1>8 DEF ps

\* What the listed packages are: those of the map, each at one position, in the slice
\* of its flavour.
LEMMA ListedPackages ==
  ASSUME ParsedInv, MapInv, SliceInv, at = "listed"
  PROVE  /\ \A pos \in Positions :
              PackageAt(pos) \in Packages /\ pos[1] = Flavor[PackageAt(pos).Package.kernel]
         /\ \A p \in Packages : \E pos \in Positions : PackageAt(pos) = p
         /\ \A pos, other \in Positions : PackageAt(pos) = PackageAt(other) => pos = other
<1> DEFINE slices == pkgsByKernelFlavor
<1>1. DOMAIN slices = Flavors /\ \A fl \in Flavors : slices[fl] \in Sorted(fl)
  BY DEF SliceInv
<1>2. IsFiniteSet(Packages)
  BY PackagesAreFinite
<1>3. \A fl \in Flavors :
        /\ slices[fl] \in Seq(OfFlavor(fl)) /\ DOMAIN slices[fl] = 1 .. Len(slices[fl])
        /\ \A i, j \in DOMAIN slices[fl] : slices[fl][i] = slices[fl][j] => i = j
        /\ \A p \in OfFlavor(fl) : \E i \in DOMAIN slices[fl] : slices[fl][i] = p
  BY <1>1, <1>2, SortedSlice
<1>4. \A pos : pos \in Positions <=>
        \E fl \in Flavors : \E i \in DOMAIN slices[fl] : pos = <<fl, i>>
  BY <1>1 DEF Positions
<1>5. \A fl, i : PackageAt(<<fl, i>>) = slices[fl][i]
  BY DEF PackageAt
<1>6. ASSUME NEW fl \in Flavors, NEW i \in DOMAIN slices[fl]
      PROVE  slices[fl][i] \in Packages /\ Flavor[slices[fl][i].Package.kernel] = fl
  <2>1. slices[fl][i] \in OfFlavor(fl)
    BY <1>3
  <2> QED BY <2>1 DEF OfFlavor
<1>7. \A pos \in Positions :
        PackageAt(pos) \in Packages /\ pos[1] = Flavor[PackageAt(pos).Package.kernel]
  BY <1>4, <1>5, <1>6
<1>8. ASSUME NEW p \in Packages PROVE \E pos \in Positions : PackageAt(pos) = p
  <2> DEFINE fl == Flavor[p.Package.kernel]
  <2>1. fl \in Flavors /\ p \in OfFlavor(fl)
    BY DEF Flavors, OfFlavor
  <2>2. PICK i \in DOMAIN slices[fl] : slices[fl][i] = p
    BY <1>3, <2>1
  <2>3. <<fl, i>> \in Positions
    BY <1>4, <2>1
  <2> QED BY <1>5, <2>2, <2>3
<1>9. ASSUME NEW pos \in Positions, NEW other \in Positions, PackageAt(pos) = PackageAt(other)
      PROVE  pos = other
  <2>1. PICK fl \in Flavors : \E i \in DOMAIN slices[fl] : pos = <<fl, i>>
    BY <1>4
  <2>2. PICK i \in DOMAIN slices[fl] : pos = <<fl, i>>
    BY <2>1
  <2>3. PICK fk \in Flavors : \E j \in DOMAIN slices[fk] : other = <<fk, j>>
    BY <1>4
  <2>4. PICK j \in DOMAIN slices[fk] : other = <<fk, j>>
    BY <2>3
  <2>5. slices[fl][i] = slices[fk][j]
    BY <1>5, <1>9, <2>2, <2>4
  <2>6. fl = fk
    BY <1>6, <2>5
  <2> QED BY <1>3, <2>2, <2>4, <2>5, <2>6
<1> QED BY <1>7, <1>8, <1>9

-----------------------------------------------------------------------------
(* UbuntuInv is inductive *)

\* Before the lists are read there is nothing to list.
LEMMA UbuntuInit == Init => UbuntuInv
<1> SUFFICES ASSUME Init PROVE UbuntuInv
  OBVIOUS
<1>1. /\ lists \in [main : MainLists, debug : DebugLists] /\ at = "main"
      /\ stanza = 1 /\ line = 1 /\ pkg = NewPackage /\ todo = {}
      /\ kernelPkgs = [r \in Repositories |-> <<>>]
      /\ filteredKernelPkgs = <<>> /\ filteredKernelDbgPkgMap = <<>>
      /\ pkgsByKernelFlavor = <<>>
  BY DEF Init
<1>2. InputInv /\ SliceInv
  BY <1>1 DEF InputInv, SliceInv, Repositories
<1>3. ScanInv
  <2>1. "main" \in Repositories /\ lists["main"] \in Seq(Seq(Line))
    BY <1>2, ListsAreLists DEF Repositories
  <2>2. 1 \in 1 .. Len(lists["main"]) \/ Len(lists["main"]) = 0
    BY <2>1
  <2> QED BY <1>1, <1>2, <2>1, <2>2, ScanBegins DEF ScanInv
<1>4. ParsedInv
  <2>1. \A r \in Repositories : StanzasRead(r) = 0
    BY <1>1 DEF StanzasRead, Repositories
  <2>2. \A r : KernelPackages(r, 0) = {}
    BY DEF KernelPackages
  <2>3. <<>> \in Seq({})
    OBVIOUS
  <2> QED BY <1>1, <2>1, <2>2, <2>3 DEF ParsedInv
<1>5. MapInv
  BY <1>1 DEF MapInv, Holds, KernelsIn
<1> QED BY <1>2, <1>3, <1>4, <1>5 DEF UbuntuInv

\* While a list is parsed the maps are those of the phases before.
LEMMA ParserKeepsMaps ==
  ASSUME InputInv, ParsedInv, MapInv, ParseLine \/ EndPackage \/ EndList
  PROVE  MapInv'
<1>1. /\ at \in Repositories /\ lists' = lists /\ have' = have /\ force' = force
      /\ filteredKernelPkgs' = filteredKernelPkgs
      /\ filteredKernelDbgPkgMap' = filteredKernelDbgPkgMap
      /\ kernelPkgs' = kernelPkgs \/ kernelPkgs' = [kernelPkgs EXCEPT ![at] = Save(@, pkg)]
      /\ \/ at' = at
         \/ at = "main" /\ at' = "kernels" /\ todo' = KernelTypes
         \/ at = "debug" /\ at' = "dbgsyms" /\ todo' = KernelTypes
  BY DEF ParseLine, EndPackage, EndList, InStanza, BehindStanza, inputs, filtered, Repositories
<1>2. \A p, t, d : Matches(p, t, d)' = Matches(p, t, d)
  BY <1>1 DEF Matches
<1>3. at = "debug" => Images(KernelTypes)' = Images(KernelTypes)
  <2>1. at = "debug" => kernelPkgs'["main"] = kernelPkgs["main"]
    BY <1>1 DEF ParsedInv, Repositories
  <2> QED BY <1>2, <2>1 DEF Images
<1>4. Images({})' = {} /\ DebugImages({})' = {}
  BY DEF Images, DebugImages
<1>5. KernelTypes \ KernelTypes = {}
  OBVIOUS
<1> QED BY <1>1, <1>3, <1>4, <1>5 DEF MapInv, Holds, Repositories

\* Steps behind a list leave the scanner and the parsed lists alone.
LEMMA ListsStayParsed ==
  ASSUME ScanInv, ParsedInv, UNCHANGED <<inputs, scanner, kernelPkgs>>,
         \/ at \in {"kernels", "dbgsyms"} /\ at' = at
         \/ at \in {"dbgsyms", "group"} /\ at' \in {"group", "listed"}
  PROVE  ScanInv' /\ ParsedInv'
<1>1. \A r, n : KernelPackages(r, n)' = KernelPackages(r, n)
  BY DEF KernelPackages, inputs
<1>2. \A r \in Repositories : StanzasRead(r)' = StanzasRead(r)
  BY DEF StanzasRead, Repositories, inputs
<1>3. ParsedInv'
  BY <1>1, <1>2 DEF ParsedInv
<1> QED BY <1>3 DEF ScanInv, Repositories, scanner

\* The orders in which a slice may be left depend on the packages only.
LEMMA OrdersStay ==
  ASSUME Packages' = Packages
  PROVE  Flavors' = Flavors /\ \A fl : Sorted(fl)' = Sorted(fl)
BY DEF Flavors, Sorted, OfFlavor, ByVersionLess, IsSorted

\* UbuntuInv holds in every state.
THEOREM UbuntuInvariance == Spec => []UbuntuInv
<1>1. UbuntuInv /\ Next => UbuntuInv'
  <2> SUFFICES ASSUME UbuntuInv, Next PROVE UbuntuInv'
    OBVIOUS
  <2>1. InputInv /\ SliceInv
    BY DEF UbuntuInv
  <2>2. ASSUME ParseLine \/ EndPackage \/ EndList PROVE UbuntuInv'
    <3>1. /\ at \in Repositories /\ at' # "listed" /\ pkgsByKernelFlavor' = pkgsByKernelFlavor
      BY <2>2 DEF ParseLine, EndPackage, EndList, InStanza, BehindStanza, Repositories
    <3>2. ScanInv /\ ParsedInv /\ MapInv
      BY <3>1 DEF UbuntuInv, Repositories
    <3>3. InputInv' /\ ScanInv' /\ ParsedInv' /\ MapInv'
      BY <2>1, <2>2, <3>2, ParserStep, ParserKeepsMaps
    <3>4. SliceInv'
      BY <2>1, <3>1 DEF SliceInv, Repositories
    <3> QED BY <3>3, <3>4 DEF UbuntuInv
  <2>3. CASE ListFails
    BY <2>1, <2>3 DEF ListFails, UbuntuInv, InputInv, SliceInv, Repositories, inputs
  <2>4. ASSUME NEW t \in KernelTypes, SelectKernels(t) \/ SelectDebug(t) PROVE UbuntuInv'
    <3>1. /\ at \in {"kernels", "dbgsyms"} /\ at' = at /\ todo' \subseteq KernelTypes
          /\ UNCHANGED <<inputs, scanner, kernelPkgs, pkgsByKernelFlavor>>
      BY <2>1, <2>4 DEF SelectKernels, SelectDebug, InputInv
    <3>2. ScanInv /\ ParsedInv /\ MapInv
      BY <3>1 DEF UbuntuInv
    <3>3. ScanInv' /\ ParsedInv'
      BY <3>1, <3>2, ListsStayParsed
    <3>4. MapInv'
      BY <2>1, <2>4, <3>2, MapStep
    <3>5. InputInv' /\ SliceInv'
      BY <2>1, <3>1 DEF InputInv, SliceInv, inputs
    <3> QED BY <3>3, <3>4, <3>5 DEF UbuntuInv
  <2>5. CASE FetchDebug
    <3>1. /\ at = "kernels" /\ at' = "debug" /\ todo = {} /\ todo' = todo
          /\ UNCHANGED <<inputs, scanner, kernelPkgs, filtered, pkgsByKernelFlavor>>
      BY <2>5 DEF FetchDebug
    <3>2. ScanInv /\ ParsedInv /\ MapInv
      BY <3>1 DEF UbuntuInv
    <3>3. lists' = lists /\ have' = have /\ force' = force /\ kernelPkgs' = kernelPkgs
          /\ stanza' = 1 /\ line' = 1 /\ pkg' = NewPackage /\ stanza = 1
      BY <3>1, <3>2 DEF ScanInv, inputs, scanner
    <3>4. ScanInv'
      <4>1. "debug" \in Repositories /\ lists["debug"] \in Seq(Seq(Line))
        BY <2>1, ListsAreLists DEF Repositories
      <4>2. 1 \in 1 .. Len(lists["debug"]) \/ Len(lists["debug"]) = 0
        BY <4>1
      <4>3. \/ 1 = 1 /\ Len(lists["debug"]) = 0 /\ line' = 1 /\ pkg' = NewPackage
            \/ /\ 1 \in 1 .. Len(lists["debug"])
               /\ line' \in 1 .. Len(lists["debug"][1]) + 1
               /\ pkg' = PackageBy(lists["debug"][1], line' - 1)
        BY <2>1, <3>3, <4>1, <4>2, ScanBegins
      <4> QED BY <3>1, <3>3, <4>3 DEF ScanInv
    <3>5. ParsedInv'
      <4>1. \A r, n : KernelPackages(r, n)' = KernelPackages(r, n)
        BY <3>3 DEF KernelPackages
      <4>2. \A r \in Repositories : StanzasRead(r)' = StanzasRead(r)
        BY <3>1, <3>3 DEF StanzasRead, Repositories
      <4> QED BY <3>2, <3>3, <4>1, <4>2 DEF ParsedInv
    <3>6. MapInv'
      <4>1. \A p, t, d : Matches(p, t, d)' = Matches(p, t, d)
        BY <3>3 DEF Matches
      <4>2. Images(KernelTypes)' = Images(KernelTypes)
        BY <3>3, <4>1 DEF Images
      <4>3. KernelTypes \ todo = KernelTypes
        BY <3>1
      <4>4. Holds(filteredKernelPkgs, Images(KernelTypes)) /\ Holds(filteredKernelDbgPkgMap, {})
        BY <3>1, <3>2, <4>3 DEF MapInv
      <4> QED BY <3>1, <4>2, <4>4 DEF MapInv, Holds, filtered
    <3>7. InputInv' /\ SliceInv'
      BY <2>1, <3>1, <3>3 DEF InputInv, SliceInv, Repositories
    <3> QED BY <3>4, <3>5, <3>6, <3>7 DEF UbuntuInv
  <2>6. CASE AddMissing
    <3>1. /\ at = "dbgsyms" /\ at' = "group" /\ todo' = todo
          /\ UNCHANGED <<inputs, scanner, kernelPkgs, pkgsByKernelFlavor>>
      BY <2>6 DEF AddMissing
    <3>2. ScanInv /\ ParsedInv /\ MapInv
      BY <3>1 DEF UbuntuInv
    <3>3. ScanInv' /\ ParsedInv'
      BY <3>1, <3>2, ListsStayParsed
    <3>4. MapInv'
      BY <2>1, <2>6, <3>2, MapStep
    <3>5. InputInv' /\ SliceInv'
      BY <2>1, <3>1 DEF InputInv, SliceInv, inputs
    <3> QED BY <3>3, <3>4, <3>5 DEF UbuntuInv
  <2>7. CASE GroupByFlavor
    <3>1. /\ at = "group" /\ at' = "listed" /\ todo' = todo
          /\ UNCHANGED <<inputs, scanner, kernelPkgs, filtered>>
      BY <2>7 DEF GroupByFlavor
    <3>2. ScanInv /\ ParsedInv /\ MapInv
      BY <3>1 DEF UbuntuInv
    <3>3. ScanInv' /\ ParsedInv'
      BY <3>1, <3>2, ListsStayParsed
    <3>4. MapInv'
      <4>1. \A p, t, d : Matches(p, t, d)' = Matches(p, t, d)
        BY <3>1 DEF Matches, inputs
      <4>2. /\ Images(KernelTypes)' = Images(KernelTypes)
            /\ DebugImages(KernelTypes)' = DebugImages(KernelTypes)
        BY <3>1, <4>1 DEF Images, DebugImages
      <4> QED BY <3>1, <3>2, <4>2 DEF MapInv, Holds, Merged, filtered
    <3>5. SliceInv'
      <4>1. Packages' = Packages
        BY <3>1 DEF Packages, filtered
      <4>2. Flavors' = Flavors /\ \A fl : Sorted(fl)' = Sorted(fl)
        BY <4>1, OrdersStay
      <4>3. PICK slices \in [Flavors -> UNION {Sorted(fl) : fl \in Flavors}] :
              /\ \A fl \in Flavors : slices[fl] \in Sorted(fl)
              /\ pkgsByKernelFlavor' = slices
        BY <2>7 DEF GroupByFlavor
      <4>4. DOMAIN pkgsByKernelFlavor' = Flavors
        BY <4>3
      <4> QED BY <3>1, <4>2, <4>3, <4>4 DEF SliceInv
    <3>6. InputInv'
      BY <2>1, <3>1 DEF InputInv, inputs
    <3> QED BY <3>3, <3>4, <3>5, <3>6 DEF UbuntuInv
  <2> QED BY <2>2, <2>3, <2>4, <2>5, <2>6, <2>7 DEF Next
<1>2. UbuntuInv /\ UNCHANGED vars => UbuntuInv'
  <2> SUFFICES ASSUME UbuntuInv, UNCHANGED vars PROVE UbuntuInv'
    OBVIOUS
  <2>1. /\ UNCHANGED <<lists, have, force, at, stanza, line, pkg, todo, kernelPkgs>>
        /\ UNCHANGED <<filteredKernelPkgs, filteredKernelDbgPkgMap, pkgsByKernelFlavor>>
    BY DEF vars, inputs, scanner, filtered
  <2>2. InputInv' = InputInv /\ ScanInv' = ScanInv
    BY <2>1 DEF InputInv, ScanInv
  <2>3. ParsedInv' = ParsedInv
    BY <2>1 DEF ParsedInv, KernelPackages, StanzasRead
  <2>4. MapInv' = MapInv
    BY <2>1 DEF MapInv, Holds, Merged, Images, DebugImages, Matches
  <2>5. SliceInv' = SliceInv
    <3>1. Packages' = Packages
      BY <2>1 DEF Packages
    <3>2. Flavors' = Flavors /\ \A fl : Sorted(fl)' = Sorted(fl)
      BY <3>1, OrdersStay
    <3> QED BY <2>1, <3>2 DEF SliceInv
  <2> QED BY <2>1, <2>2, <2>3, <2>4, <2>5 DEF UbuntuInv
<1> QED BY <1>1, <1>2, UbuntuInit, PTL DEF Spec

-----------------------------------------------------------------------------
(* The properties *)

\* A stanza describes a package that is wanted exactly when the parser makes a kernel
\* package of it that one of the regular expressions matches.
LEMMA WantedIsMatched ==
  ASSUME NEW st \in Seq(Line), NEW d \in BOOLEAN
  PROVE  /\ Wanted(st, d) <=> /\ IsKernelPackage(PackageOf(st))
                              /\ \E t \in KernelTypes : Matches(PackageOf(st), t, d)
         /\ Wanted(st, d) => PackageOf(st).Package = LastValue(st, "Package")
         /\ PackageOf(st).Size >= MinSize <=>
              /\ \E i \in DOMAIN st : st[i].field = "Size"
              /\ LastValue(st, "Size") >= MinSize
<1> DEFINE p == PackageOf(st)
           Sets(field) == \E i \in DOMAIN st : st[i].field = field
<1>1. DOMAIN NewPackage = {"Package", "Version", "Filename", "Size"}
      /\ NewPackage["Package"] = NoName /\ NewPackage["Version"] = <<>>
      /\ NewPackage["Filename"] = "" /\ NewPackage["Size"] = 0
  BY DEF NewPackage
<1>2. \A field \in DOMAIN NewPackage :
        p[field] = IF Sets(field) THEN LastValue(st, field) ELSE NewPackage[field]
  BY LastCounts
<1>3. /\ p.Package = IF Sets("Package") THEN LastValue(st, "Package") ELSE NoName
      /\ p.Version = IF Sets("Version") THEN LastValue(st, "Version") ELSE <<>>
      /\ p.Size = IF Sets("Size") THEN LastValue(st, "Size") ELSE 0
  <2> HIDE DEF p, Sets
  <2> QED BY <1>1, <1>2
<1>4. p.Filename # "" <=> Sets("Filename")
  <2>1. p["Filename"] = IF Sets("Filename") THEN LastValue(st, "Filename") ELSE ""
    <3> HIDE DEF p, Sets
    <3> QED BY <1>1, <1>2
  <2>2. Sets("Filename") => \E i \in DOMAIN st :
          st[i].field = "Filename" /\ LastValue(st, "Filename") = st[i].value
    <3>1. "Filename" \in DOMAIN NewPackage
      BY <1>1
    <3> HIDE DEF p
    <3> QED BY <3>1, LastCounts
  <2>3. \A i \in DOMAIN st : st[i].field = "Filename" => st[i].value \in URLs
    <3>1. \A i \in DOMAIN st : st[i] \in Line
      OBVIOUS
    <3>2. \A l \in Line : l.field = "Filename" => l.value \in URLs
      BY DEF Line, OtherLine
    <3> QED BY <3>1, <3>2
  <2>4. "" \notin URLs
    BY ListsAssumption
  <2> QED BY <2>1, <2>2, <2>3, <2>4
<1> HIDE DEF p
<1>5. {"Package", "Version", "Filename"} \subseteq {st[i].field : i \in DOMAIN st} <=>
        Sets("Package") /\ Sets("Version") /\ Sets("Filename")
  OBVIOUS
<1>6. NoName.type \notin KernelTypes
  BY DEF NoName, KernelTypes
<1>7. IsKernelPackage(p) /\ (\E t \in KernelTypes : Matches(p, t, d)) <=>
        /\ p.Package.type \in KernelTypes /\ p.Version # <<>> /\ p.Filename # ""
        /\ p.Package.dbgsym = d /\ Flavor[p.Package.kernel] # NoFlavor
        /\ force \/ p.Package.kernel \notin have
  BY DEF IsKernelPackage, Matches
<1> DEFINE name == LastValue(st, "Package")
<1>8. Wanted(st, d) <=>
        /\ Sets("Package") /\ Sets("Version") /\ Sets("Filename")
        /\ LastValue(st, "Version") # <<>>
        /\ name.type \in KernelTypes /\ name.dbgsym = d
        /\ Flavor[name.kernel] # NoFlavor
        /\ force \/ name.kernel \notin have
  BY <1>5 DEF Wanted
<1> HIDE DEF Sets, name
<1>9. Wanted(st, d) <=> IsKernelPackage(p) /\ \E t \in KernelTypes : Matches(p, t, d)
  <2>1. CASE Sets("Package") /\ Sets("Version") /\ Sets("Filename")
    <3>1. p.Package = name /\ p.Version = LastValue(st, "Version") /\ p.Filename # ""
      BY <1>3, <1>4, <2>1 DEF name
    <3> QED BY <1>7, <1>8, <2>1, <3>1
  <2>2. CASE ~Sets("Package")
    <3>1. p.Package = NoName
      BY <1>3, <2>2
    <3> QED BY <1>6, <1>7, <1>8, <2>2, <3>1
  <2>3. CASE ~Sets("Version")
    <3>1. p.Version = <<>>
      BY <1>3, <2>3
    <3> QED BY <1>7, <1>8, <2>3, <3>1
  <2>4. CASE ~Sets("Filename")
    BY <1>4, <1>7, <1>8, <2>4
  <2> QED BY <2>1, <2>2, <2>3, <2>4
<1>10. Wanted(st, d) => p.Package = name
  BY <1>3, <1>8 DEF name
<1>11. p.Size >= MinSize <=> Sets("Size") /\ LastValue(st, "Size") >= MinSize
  BY <1>3 DEF MinSize
<1> QED BY <1>9, <1>10, <1>11 DEF p, Sets, name

\* So the kernels that the two selections find are those of the stanzas.
LEMMA KernelsFound ==
  ASSUME InputInv, ParsedInv, at \in {"group", "listed"}
  PROVE  /\ KernelsIn(Images(KernelTypes)) = InMain
         /\ KernelsIn(DebugImages(KernelTypes)) = InDebug
<1>1. ASSUME NEW r \in Repositories
      PROVE  /\ ToSet(kernelPkgs[r]) =
                  {p \in {PackageOf(st) : st \in ToSet(lists[r])} : IsKernelPackage(p)}
             /\ ToSet(lists[r]) \subseteq Seq(Line)
  <2>1. lists[r] \in Seq(Seq(Line)) /\ StanzasRead(r) = Len(lists[r])
    BY ListsAreLists DEF StanzasRead, Repositories
  <2>2. /\ kernelPkgs[r] \in Seq(KernelPackages(r, Len(lists[r])))
        /\ \A p \in KernelPackages(r, Len(lists[r])) :
             \E i \in DOMAIN kernelPkgs[r] : kernelPkgs[r][i] = p
    BY <2>1 DEF ParsedInv
  <2>3. ToSet(kernelPkgs[r]) = KernelPackages(r, Len(lists[r]))
    <3> DEFINE S == KernelPackages(r, Len(lists[r]))
    <3> HIDE DEF S
    <3>1. kernelPkgs[r] \in Seq(S) /\ \A p \in S : \E i \in DOMAIN kernelPkgs[r] : kernelPkgs[r][i] = p
      BY <2>2 DEF S
    <3>2. \A i \in DOMAIN kernelPkgs[r] : kernelPkgs[r][i] \in S
      BY <3>1
    <3> QED BY <3>1, <3>2 DEF ToSet, S
  <2>4. {PackageOf(lists[r][i]) : i \in 1 .. Len(lists[r])} =
          {PackageOf(st) : st \in ToSet(lists[r])}
    <3>1. ToSet(lists[r]) = {lists[r][i] : i \in 1 .. Len(lists[r])}
      BY <2>1 DEF ToSet
    <3> QED BY <3>1
  <2>5. ToSet(lists[r]) \subseteq Seq(Line)
    BY <2>1 DEF ToSet
  <2> QED BY <2>3, <2>4, <2>5 DEF KernelPackages
<1>2. "main" \in Repositories /\ "debug" \in Repositories
      /\ lists.main = lists["main"] /\ lists.debug = lists["debug"]
  BY DEF Repositories
<1>3. KernelsIn(Images(KernelTypes)) = InMain
  <2> DEFINE L == ToSet(lists["main"])
  <2>1. /\ ToSet(kernelPkgs["main"]) = {p \in {PackageOf(st) : st \in L} : IsKernelPackage(p)}
        /\ L \subseteq Seq(Line)
    BY <1>1, <1>2
  <2> HIDE DEF L
  <2>2. ASSUME NEW st \in L
        PROVE  /\ Wanted(st, FALSE) <=> PackageOf(st) \in Images(KernelTypes)
               /\ Wanted(st, FALSE) => PackageOf(st).Package = LastValue(st, "Package")
    <3>1. st \in Seq(Line)
      BY <2>1
    <3>2. PackageOf(st) \in Images(KernelTypes) <=>
            /\ IsKernelPackage(PackageOf(st))
            /\ \E t \in KernelTypes : Matches(PackageOf(st), t, FALSE)
      BY <2>1 DEF Images
    <3> QED BY <3>1, <3>2, WantedIsMatched
  <2>3. \A p \in Images(KernelTypes) : \E st \in L : p = PackageOf(st)
    BY <2>1 DEF Images
  <2>4. InMain = {LastValue(st, "Package").kernel : st \in {st \in L : Wanted(st, FALSE)}}
    BY <1>2 DEF InMain, KernelsOf, L
  <2>5. KernelsIn(Images(KernelTypes)) \subseteq InMain
    BY <2>2, <2>3, <2>4 DEF KernelsIn
  <2>6. InMain \subseteq KernelsIn(Images(KernelTypes))
    BY <2>2, <2>4 DEF KernelsIn
  <2> QED BY <2>5, <2>6
<1>4. KernelsIn(DebugImages(KernelTypes)) = InDebug
  <2> DEFINE L == ToSet(lists["debug"])
             Big(st) == /\ \E i \in DOMAIN st : st[i].field = "Size"
                        /\ LastValue(st, "Size") >= MinSize
  <2>1. /\ ToSet(kernelPkgs["debug"]) = {p \in {PackageOf(st) : st \in L} : IsKernelPackage(p)}
        /\ L \subseteq Seq(Line)
    BY <1>1, <1>2
  <2> HIDE DEF L
  <2>2. ASSUME NEW st \in L
        PROVE  /\ Wanted(st, TRUE) /\ Big(st) <=> PackageOf(st) \in DebugImages(KernelTypes)
               /\ Wanted(st, TRUE) => PackageOf(st).Package = LastValue(st, "Package")
    <3>1. st \in Seq(Line)
      BY <2>1
    <3>2. PackageOf(st) \in DebugImages(KernelTypes) <=>
            /\ IsKernelPackage(PackageOf(st))
            /\ PackageOf(st).Size >= MinSize
            /\ \E t \in KernelTypes : Matches(PackageOf(st), t, TRUE)
      BY <2>1 DEF DebugImages
    <3> QED BY <3>1, <3>2, WantedIsMatched
  <2>3. \A p \in DebugImages(KernelTypes) : \E st \in L : p = PackageOf(st)
    BY <2>1 DEF DebugImages
  <2>4. InDebug = {LastValue(st, "Package").kernel : st \in {st \in L : Wanted(st, TRUE) /\ Big(st)}}
    BY <1>2 DEF InDebug, KernelsOf, L
  <2> HIDE DEF Big
  <2>5. KernelsIn(DebugImages(KernelTypes)) \subseteq InDebug
    BY <2>2, <2>3, <2>4 DEF KernelsIn
  <2>6. InDebug \subseteq KernelsIn(DebugImages(KernelTypes))
    BY <2>2, <2>4 DEF KernelsIn
  <2> QED BY <2>5, <2>6
<1> QED BY <1>3, <1>4

\* What the parser has saved of a list that has been read is typed as its lines are.
LEMMA KernelPackageTyped ==
  ASSUME InputInv, ParsedInv, at \in {"group", "listed"},
         NEW r \in Repositories, NEW p \in ToSet(kernelPkgs[r])
  PROVE  /\ DOMAIN p = DOMAIN NewPackage
         /\ p.Package \in Name
         /\ p.Version \in Seq(Int)
         /\ p.Filename \in URLs
         /\ p.Size \in Nat
<1>1. lists[r] \in Seq(Seq(Line)) /\ StanzasRead(r) = Len(lists[r])
  BY ListsAreLists DEF StanzasRead, Repositories
<1>2. p \in KernelPackages(r, Len(lists[r]))
  <2> DEFINE S == KernelPackages(r, Len(lists[r]))
  <2>1. kernelPkgs[r] \in Seq(S)
    BY <1>1 DEF ParsedInv
  <2> HIDE DEF S
  <2>2. \A i \in DOMAIN kernelPkgs[r] : kernelPkgs[r][i] \in S
    BY <2>1
  <2> QED BY <2>2 DEF ToSet, S
<1>3. PICK i \in 1 .. Len(lists[r]) : p = PackageOf(lists[r][i])
  BY <1>2 DEF KernelPackages
<1>4. IsKernelPackage(p)
  BY <1>2 DEF KernelPackages
<1>5. lists[r][i] \in Seq(Line)
  BY <1>1
<1>6. DOMAIN p = DOMAIN NewPackage
  BY <1>3 DEF PackageOf, PackageBy
<1>7. /\ p.Package \in Name \cup {NoName}
      /\ p.Version \in Seq(Int)
      /\ p.Filename \in URLs \cup {""}
      /\ p.Size \in Nat
  BY <1>3, <1>5, PackageTyped
<1>8. p.Package.type \in KernelTypes /\ p.Filename # ""
  BY <1>4 DEF IsKernelPackage
<1>9. p.Package # NoName
  <2>1. NoName.type \notin KernelTypes
    BY DEF NoName, KernelTypes
  <2> QED BY <1>8, <2>1
<1> QED BY <1>6, <1>7, <1>8, <1>9

\* A kernel that has a debug package of a plausible size is listed as that package, any
\* other as a Launchpad package, under its own name.
LEMMA MapPackages ==
  ASSUME InputInv, ParsedInv, MapInv, at = "listed", NEW k \in DOMAIN filteredKernelDbgPkgMap
  PROVE  LET p == filteredKernelDbgPkgMap[k] IN
         /\ p.Package.kernel = k
         /\ k \in KernelsIn(DebugImages(KernelTypes)) <=> p.Filename # "pull-lp-ddebs"
         /\ p.Size >= MinSize
         /\ p.Version \in Seq(Int)
<1> DEFINE p == filteredKernelDbgPkgMap[k]
<1>1. Merged /\ Holds(filteredKernelPkgs, Images(KernelTypes))
  BY DEF MapInv
<1>2. CASE k \in KernelsIn(DebugImages(KernelTypes))
  <2>1. p \in DebugImages(KernelTypes) /\ p.Package.kernel = k
    BY <1>1, <1>2 DEF Merged
  <2>2. p \in ToSet(kernelPkgs["debug"]) /\ p.Size >= MinSize /\ "debug" \in Repositories
    BY <2>1 DEF DebugImages, Repositories
  <2>3. p.Filename \in URLs /\ p.Version \in Seq(Int)
    BY <2>2, KernelPackageTyped
  <2> QED BY <1>2, <2>1, <2>2, <2>3, ListsAssumption
<1>3. CASE k \notin KernelsIn(DebugImages(KernelTypes))
  <2> DEFINE q == filteredKernelPkgs[k]
  <2>1. p = Launchpad(q) /\ k \in DOMAIN filteredKernelPkgs
    BY <1>1, <1>3 DEF Merged
  <2>2. q \in Images(KernelTypes) /\ q.Package.kernel = k
    BY <1>1, <2>1 DEF Holds
  <2>3. q \in ToSet(kernelPkgs["main"]) /\ "main" \in Repositories
    BY <2>2 DEF Images, Repositories
  <2>4. DOMAIN q = DOMAIN NewPackage /\ q.Package \in Name /\ q.Version \in Seq(Int)
    BY <2>3, KernelPackageTyped
  <2> HIDE DEF p, q
  <2>5. DOMAIN q = {"Package", "Version", "Filename", "Size"}
    BY <2>4 DEF NewPackage
  <2>6. /\ Launchpad(q).Filename = "pull-lp-ddebs" /\ Launchpad(q).Size = MaxSize
        /\ Launchpad(q).Version = q.Version
        /\ Launchpad(q).Package.kernel = q.Package.kernel
    BY <2>4, <2>5 DEF Launchpad, Name
  <2>7. p.Size >= MinSize
    BY <2>1, <2>6 DEF MinSize, MaxSize
  <2> QED BY <1>3, <2>1, <2>2, <2>4, <2>6, <2>7 DEF p
<1> QED BY <1>2, <1>3

\* Every kernel of either list that matches and has no tarball yet is listed in its
\* flavour, as its debug package or as Launchpad's, and nothing else is, for any two
\* lists and any order of the map iterations (GetKernelPackages, ParseAPTPackages).
THEOREM EveryKernelListed == Spec => []NoKernelLost
<1>1. UbuntuInv => NoKernelLost
  <2> SUFFICES ASSUME UbuntuInv, at = "listed"
               PROVE  /\ {PackageAt(pos).Package.kernel : pos \in Positions} = InMain \cup InDebug
                      /\ \A pos \in Positions :
                           LET p == PackageAt(pos) IN
                           /\ pos[1] = Flavor[p.Package.kernel]
                           /\ p.Package.kernel \in InDebug <=> p.Filename # "pull-lp-ddebs"
                           /\ p.Size >= MinSize
    BY DEF NoKernelLost
  <2> DEFINE map == filteredKernelDbgPkgMap
  <2>1. InputInv /\ ParsedInv /\ MapInv /\ SliceInv
    BY DEF UbuntuInv
  <2>2. /\ \A pos \in Positions :
             PackageAt(pos) \in Packages /\ pos[1] = Flavor[PackageAt(pos).Package.kernel]
        /\ \A p \in Packages : \E pos \in Positions : PackageAt(pos) = p
    BY <2>1, ListedPackages
  <2>3. KernelsIn(Images(KernelTypes)) = InMain /\ KernelsIn(DebugImages(KernelTypes)) = InDebug
    BY <2>1, KernelsFound
  <2>4. \A k \in DOMAIN map :
          /\ map[k].Package.kernel = k
          /\ k \in InDebug <=> map[k].Filename # "pull-lp-ddebs"
          /\ map[k].Size >= MinSize
    BY <2>1, <2>3, MapPackages
  <2>5. DOMAIN map = InMain \cup InDebug
    BY <2>1, <2>3 DEF MapInv, Merged, Holds
  <2>6. \A p : p \in Packages <=> \E k \in DOMAIN map : p = map[k]
    BY DEF Packages
  <2>7. {PackageAt(pos).Package.kernel : pos \in Positions} \subseteq DOMAIN map
    BY <2>2, <2>4, <2>6
  <2>8. ASSUME NEW k \in DOMAIN map PROVE \E pos \in Positions : PackageAt(pos).Package.kernel = k
    <3>1. map[k] \in Packages /\ map[k].Package.kernel = k
      BY <2>4, <2>6
    <3> QED BY <2>2, <3>1
  <2>9. ASSUME NEW pos \in Positions
        PROVE  /\ pos[1] = Flavor[PackageAt(pos).Package.kernel]
               /\ PackageAt(pos).Package.kernel \in InDebug <=> PackageAt(pos).Filename # "pull-lp-ddebs"
               /\ PackageAt(pos).Size >= MinSize
    BY <2>2, <2>4, <2>6
  <2> HIDE DEF map
  <2> QED BY <2>5, <2>7, <2>8, <2>9
<1> QED BY <1>1, UbuntuInvariance, PTL

\* No two listed packages have one file name (GetKernelPackages).
THEOREM FilesAreDistinct == Spec => []OneEntryPerFile
<1>1. UbuntuInv => OneEntryPerFile
  <2> SUFFICES ASSUME UbuntuInv, NEW pos \in Positions, NEW other \in Positions,
                      PackageAt(pos).Package.kernel = PackageAt(other).Package.kernel
               PROVE  pos = other
    BY DEF OneEntryPerFile
  <2> DEFINE map == filteredKernelDbgPkgMap
  <2>1. at = "listed"
    BY DEF UbuntuInv, SliceInv, Positions
  <2>2. InputInv /\ ParsedInv /\ MapInv /\ SliceInv
    BY <2>1 DEF UbuntuInv
  <2>3. /\ PackageAt(pos) \in Packages /\ PackageAt(other) \in Packages
        /\ PackageAt(pos) = PackageAt(other) => pos = other
    BY <2>1, <2>2, ListedPackages
  <2>4. PICK k \in DOMAIN map, l \in DOMAIN map : PackageAt(pos) = map[k] /\ PackageAt(other) = map[l]
    BY <2>3 DEF Packages
  <2>5. map[k].Package.kernel = k /\ map[l].Package.kernel = l
    BY <2>1, <2>2, MapPackages
  <2> QED BY <2>3, <2>4, <2>5
<1> QED BY <1>1, UbuntuInvariance, PTL

\* In the slice of a flavour no kernel is behind one that is newer, which processPackage
\* relies on when it skips the rest of a loop (sort.Sort(ByVersion), Less).
THEOREM SlicesAreOrdered == Spec => []LaterIsNewer
<1>1. UbuntuInv => LaterIsNewer
  <2> SUFFICES ASSUME UbuntuInv, NEW fl \in DOMAIN pkgsByKernelFlavor,
                      NEW i \in DOMAIN pkgsByKernelFlavor[fl],
                      NEW j \in DOMAIN pkgsByKernelFlavor[fl], i < j
               PROVE  LET V(n) == SplitIntoInts(pkgsByKernelFlavor[fl][n].Version) IN
                      \A x \in DOMAIN V(i) \cap DOMAIN V(j) :
                        V(i)[x] > V(j)[x] => \E y \in 1 .. x - 1 : V(i)[y] < V(j)[y]
    BY DEF LaterIsNewer
  <2> DEFINE s == pkgsByKernelFlavor[fl]
  <2>1. at = "listed"
    BY DEF UbuntuInv, SliceInv
  <2>2. InputInv /\ ParsedInv /\ MapInv /\ SliceInv
    BY <2>1 DEF UbuntuInv
  <2>3. s \in Sorted(fl) /\ IsFiniteSet(Packages)
    BY <2>1, <2>2, PackagesAreFinite DEF SliceInv
  <2>4. /\ s \in Seq(OfFlavor(fl)) /\ DOMAIN s = 1 .. Len(s)
        /\ ~ByVersionLess(s[j], s[i])
    BY <2>3, SortedSlice
  <2>5. s[i] \in Packages /\ s[j] \in Packages
    <3>1. s[i] \in OfFlavor(fl) /\ s[j] \in OfFlavor(fl)
      BY <2>4
    <3> QED BY <3>1 DEF OfFlavor
  <2>6. \A p \in Packages : p.Version \in Seq(Int)
    <3>1. \A k \in DOMAIN filteredKernelDbgPkgMap :
            filteredKernelDbgPkgMap[k].Version \in Seq(Int)
      BY <2>1, <2>2, MapPackages
    <3> QED BY <3>1 DEF Packages
  <2>7. SplitIntoInts(s[i].Version) \in Seq(Int) /\ SplitIntoInts(s[j].Version) \in Seq(Int)
    BY <2>5, <2>6, SplitIsSequence
  <2>8. ~Less(SplitIntoInts(s[j].Version), SplitIntoInts(s[i].Version))
    BY <2>4 DEF ByVersionLess
  <2> QED BY <2>7, <2>8, NotLess
<1> QED BY <1>1, UbuntuInvariance, PTL
=============================================================================
