---------------------------- MODULE UbuntuListing ----------------------------
(***************************************************************************)
(* How UbuntuRepo.GetKernelPackages (pkg/repo/ubuntu.go) turns the package  *)
(* lists of the main and the debug repository into one package loop per     *)
(* kernel flavour, with ParseAPTPackages (pkg/pkg/utils.go). Both loops     *)
(* over kernelTypes range over a Go map, so their order is open; sort.Sort  *)
(* is not stable, so the order of packages with equal versions is too.      *)
(*                                                                         *)
(* A list is a sequence of stanzas, a stanza a sequence of lines, and a     *)
(* line its field and value. A package name is the part that the regular    *)
(* expressions of kernelTypes tell apart: "signed" (linux-image-K),         *)
(* "unsigned" (linux-image-unsigned-K) or "other"; the kernel K, which is   *)
(* what Filename() returns; and whether it ends in -dbgsym.                 *)
(***************************************************************************)
EXTENDS KernelVersion, SequencesExt

CONSTANTS
  Kernels,      \* values of NameOfFile, such as 5.4.0-42-generic
  Flavor,       \* what the regular expressions match in one: generic, aws, ...
  URLs,         \* where packages are, as the lists' Filename lines say
  MainLists,    \* the lists the main repository may have
  DebugLists,   \* the lists the debug repository may have
  Archives      \* sets of kernels that have a tarball before the run

NoFlavor == "no flavor"
KernelTypes == {"signed", "unsigned"}
MinSize == 10     \* 10_000_000 bytes, in millions
MaxSize == 1000   \* more than any package has: math.MaxUint64

Name == [type : KernelTypes \cup {"other"}, kernel : Kernels, dbgsym : BOOLEAN]

\* A line that the parser passes over, or sets a field with that nothing tests.
OtherLine == [field |-> "other"]
Line ==
  [field : {"Package"}, value : Name] \cup [field : {"Version"}, value : Seq(Int)]
  \cup [field : {"Filename"}, value : URLs] \cup [field : {"Size"}, value : Nat]
  \cup {OtherLine}

\* A URL has the repository's before the value of the Filename line.
ASSUME ListsAssumption ==
  /\ MainLists \cup DebugLists \subseteq Seq(Seq(Line))
  /\ URLs \cap {"", "pull-lp-ddebs"} = {}

VARIABLES
  lists,        \* the package lists of the two repositories
  have,         \* kernels with a tarball
  force,        \* the flag -f
  at,           \* the step GetKernelPackages is at; the list it is parsing
  stanza, line, \* the line the scanner comes to
  pkg,          \* the package that is read
  todo,         \* kernel types the current loop has not come to
  kernelPkgs,   \* the packages of each list
  filteredKernelPkgs,       \* kernels to look for in the debug repo
  filteredKernelDbgPkgMap,  \* map[filename]package
  pkgsByKernelFlavor        \* the sorted slices

inputs == <<lists, have, force>>
scanner == <<stanza, line, pkg>>
filtered == <<filteredKernelPkgs, filteredKernelDbgPkgMap>>
vars == <<inputs, at, scanner, todo, kernelPkgs, filtered, pkgsByKernelFlavor>>

-----------------------------------------------------------------------------
Repositories == {"main", "debug"}

NoName == [type |-> "none", kernel |-> "", dbgsym |-> FALSE]
NewPackage == [Package |-> NoName, Version |-> <<>>, Filename |-> "", Size |-> 0]

Init ==
  /\ lists \in [main : MainLists, debug : DebugLists]
  /\ have \in Archives /\ force \in BOOLEAN
  /\ at = "main"
  /\ stanza = 1 /\ line = 1 /\ pkg = NewPackage
  /\ todo = {}
  /\ kernelPkgs = [r \in Repositories |-> <<>>]
  /\ filteredKernelPkgs = <<>>
  /\ filteredKernelDbgPkgMap = <<>>
  /\ pkgsByKernelFlavor = <<>>

-----------------------------------------------------------------------------
(* ParseAPTPackages *)

IsKernelPackage(p) ==
  /\ p.Package.type \in KernelTypes
  /\ p.Version # <<>>
  /\ p.Filename # ""

Save(found, p) == IF IsKernelPackage(p) THEN Append(found, p) ELSE found

\* The scanner is at a line of a stanza, or behind the last.
InStanza ==
  /\ at \in Repositories
  /\ stanza \in DOMAIN lists[at]
  /\ line \in DOMAIN lists[at][stanza]

BehindStanza == at \in Repositories /\ ~InStanza

\* A known field is set, so that its last value counts; any other line is passed over.
ParseLine ==
  /\ InStanza
  /\ LET l == lists[at][stanza][line] IN
       pkg' = IF l.field \in DOMAIN NewPackage THEN [pkg EXCEPT ![l.field] = l.value]
              ELSE pkg
  /\ line' = line + 1
  /\ UNCHANGED <<inputs, at, stanza, todo, kernelPkgs, filtered, pkgsByKernelFlavor>>

Mut_EndPackage ==
  /\ BehindStanza
  /\ stanza < Len(lists[at])
  /\ kernelPkgs' = [kernelPkgs EXCEPT ![at] = Save(@, pkg)]
  /\ pkg' = pkg
  /\ stanza' = stanza + 1 /\ line' = 1
  /\ UNCHANGED <<inputs, at, todo, filtered, pkgsByKernelFlavor>>

\* The blank line that follows every stanza but the last.
EndPackage ==
  /\ BehindStanza
  /\ stanza < Len(lists[at])
  /\ kernelPkgs' = [kernelPkgs EXCEPT ![at] = Save(@, pkg)]
  /\ pkg' = NewPackage
  /\ stanza' = stanza + 1 /\ line' = 1
  /\ UNCHANGED <<inputs, at, todo, filtered, pkgsByKernelFlavor>>

\* The last package, which no blank line ends.
EndList ==
  /\ BehindStanza
  /\ stanza >= Len(lists[at])
  /\ kernelPkgs' = [kernelPkgs EXCEPT ![at] = Save(@, pkg)]
  /\ pkg' = NewPackage
  /\ stanza' = 1 /\ line' = 1
  /\ at' = IF at = "main" THEN "kernels" ELSE "dbgsyms"
  /\ todo' = KernelTypes
  /\ UNCHANGED <<inputs, filtered, pkgsByKernelFlavor>>

\* One of the three parts of a list cannot be fetched, or a line is too long.
ListFails ==
  /\ at \in Repositories
  /\ at' = "failed"
  /\ UNCHANGED <<inputs, scanner, todo, kernelPkgs, filtered, pkgsByKernelFlavor>>

-----------------------------------------------------------------------------
(* Selection *)

\* The regular expression of type t matches, and there is work to do.
Matches(p, t, dbgsym) ==
  /\ p.Package.type = t
  /\ p.Package.dbgsym = dbgsym
  /\ Flavor[p.Package.kernel] # NoFlavor
  /\ force \/ p.Package.kernel \notin have

\* What is in the map stays: if _, ok := map[k]; !ok { map[k] = new[k] }
AddNew(map, new) ==
  [k \in DOMAIN map \cup DOMAIN new |-> IF k \in DOMAIN map THEN map[k] ELSE new[k]]

Mut_Enter(map, ps, sel) == AddNew(map,
  [n \in {ps[i].Package : i \in sel} |->
     ps[CHOOSE i \in sel : ps[i].Package = n /\ \A j \in sel : ps[j].Package = n => i <= j]])

\* Packages are entered under their file names in the order of the list; the first
\* of a name stays.
Enter(map, ps, sel) == AddNew(map,
  [k \in {ps[i].Package.kernel : i \in sel} |->
     ps[CHOOSE i \in sel :
          ps[i].Package.kernel = k /\ \A j \in sel : ps[j].Package.kernel = k => i <= j]])

\* Of the kernel packages with one file name the first is kept, which is all that
\* AddMissing looks at.
SelectKernels(t) ==
  /\ at = "kernels"
  /\ t \in todo
  /\ todo' = todo \ {t}
  /\ LET ps == kernelPkgs["main"] IN
       filteredKernelPkgs' =
         Enter(filteredKernelPkgs, ps, {i \in DOMAIN ps : Matches(ps[i], t, FALSE)})
  /\ UNCHANGED <<inputs, at, scanner, kernelPkgs, filteredKernelDbgPkgMap,
                 pkgsByKernelFlavor>>

FetchDebug ==
  /\ at = "kernels"
  /\ todo = {}
  /\ at' = "debug"
  /\ UNCHANGED <<inputs, scanner, todo, kernelPkgs, filtered, pkgsByKernelFlavor>>

\* Packages under 10 MB are ignored: of signed and unsigned one is empty.
SelectDebug(t) ==
  /\ at = "dbgsyms"
  /\ t \in todo
  /\ todo' = todo \ {t}
  /\ LET ps == kernelPkgs["debug"] IN
       filteredKernelDbgPkgMap' =
         Enter(filteredKernelDbgPkgMap, ps,
               {i \in DOMAIN ps : Matches(ps[i], t, TRUE) /\ ps[i].Size >= MinSize})
  /\ UNCHANGED <<inputs, at, scanner, kernelPkgs, filteredKernelPkgs,
                 pkgsByKernelFlavor>>

\* What stands for a kernel that has no debug package: pull-lp-ddebs gets it.
Launchpad(p) ==
  [p EXCEPT !.Package = [@ EXCEPT !.type = "unsigned", !.dbgsym = TRUE],
            !.Filename = "pull-lp-ddebs", !.Size = MaxSize]

AddMissing ==
  /\ at = "dbgsyms"
  /\ todo = {}
  /\ at' = "group"
  /\ filteredKernelDbgPkgMap' = AddNew(filteredKernelDbgPkgMap,
       [k \in DOMAIN filteredKernelPkgs |-> Launchpad(filteredKernelPkgs[k])])
  /\ UNCHANGED <<inputs, scanner, todo, kernelPkgs, filteredKernelPkgs,
                 pkgsByKernelFlavor>>

-----------------------------------------------------------------------------
(* Slices *)

\* ByVersion.Less
ByVersionLess(p, q) == Less(SplitIntoInts(p.Version), SplitIntoInts(q.Version))

Packages == {filteredKernelDbgPkgMap[k] : k \in DOMAIN filteredKernelDbgPkgMap}

Flavors == {Flavor[p.Package.kernel] : p \in Packages}

OfFlavor(fl) == {p \in Packages : Flavor[p.Package.kernel] = fl}

Mut_Sorted(fl) == SetToSeqs(OfFlavor(fl))

\* The orders in which sort.Sort may leave the packages of a flavour.
Sorted(fl) ==
  {s \in SetToSeqs(OfFlavor(fl)) : IsSorted(s, LAMBDA p, q : ~ByVersionLess(q, p))}

GroupByFlavor ==
  /\ at = "group"
  /\ at' = "listed"
  /\ \E slices \in [Flavors -> UNION {Sorted(fl) : fl \in Flavors}] :
       /\ \A fl \in Flavors : slices[fl] \in Sorted(fl)
       /\ pkgsByKernelFlavor' = slices
  /\ UNCHANGED <<inputs, scanner, todo, kernelPkgs, filtered>>

Next ==
  \/ ParseLine \/ EndPackage \/ EndList \/ ListFails
  \/ \E t \in KernelTypes : SelectKernels(t) \/ SelectDebug(t)
  \/ FetchDebug \/ AddMissing \/ GroupByFlavor

Spec == Init /\ [][Next]_vars

-----------------------------------------------------------------------------
(* Properties, stated on the stanzas *)

LastValue(st, field) ==
  st[SelectLastInSeq(st, LAMBDA l : l.field = field)].value

\* The stanza describes a kernel package that a run is to process.
Wanted(st, dbgsym) ==
  /\ {"Package", "Version", "Filename"} \subseteq {st[i].field : i \in DOMAIN st}
  /\ LastValue(st, "Version") # <<>>
  /\ LET name == LastValue(st, "Package") IN
       /\ name.type \in KernelTypes
       /\ name.dbgsym = dbgsym
       /\ Flavor[name.kernel] # NoFlavor
       /\ force \/ name.kernel \notin have

KernelsOf(stanzas) == {LastValue(st, "Package").kernel : st \in stanzas}

InMain  == KernelsOf({st \in ToSet(lists.main) : Wanted(st, FALSE)})
InDebug == KernelsOf({st \in ToSet(lists.debug) :
  /\ Wanted(st, TRUE)
  /\ \E i \in DOMAIN st : st[i].field = "Size"
  /\ LastValue(st, "Size") >= MinSize})

\* The positions of the slices, and the package at one of them.
Positions == UNION {{fl} \X DOMAIN pkgsByKernelFlavor[fl] : fl \in DOMAIN pkgsByKernelFlavor}
PackageAt(pos) == pkgsByKernelFlavor[pos[1]][pos[2]]

\* Every kernel of either list that matches and has no tarball yet is in the loop
\* of its flavour, as its debug package where the debug repository has one of a
\* plausible size and as a Launchpad package otherwise, and nothing else is
\* listed: whatever the order of the map iterations, whichever stanzas are
\* repeated, incomplete or empty (GetKernelPackages, ParseAPTPackages).
NoKernelLost ==
  at = "listed" =>
    /\ {PackageAt(pos).Package.kernel : pos \in Positions} = InMain \cup InDebug
    /\ \A pos \in Positions :
         LET p == PackageAt(pos) IN
         /\ pos[1] = Flavor[p.Package.kernel]
         /\ p.Package.kernel \in InDebug <=> p.Filename # "pull-lp-ddebs"
         /\ p.Size >= MinSize

\* No two listed packages have the same Filename(), so no two jobs of one producer
\* use the same files of the work directory.
OneEntryPerFile ==
  \A pos, other \in Positions :
    PackageAt(pos).Package.kernel = PackageAt(other).Package.kernel => pos = other

\* "so kernels can be skipped if previous has BTF already": behind a kernel there
\* is none with a lower number in the first place where their versions differ.
LaterIsNewer ==
  \A fl \in DOMAIN pkgsByKernelFlavor :
    LET v == [i \in DOMAIN pkgsByKernelFlavor[fl] |->
                SplitIntoInts(pkgsByKernelFlavor[fl][i].Version)]
    IN  \A i, j \in DOMAIN v : i < j =>
          \A x \in DOMAIN v[i] \cap DOMAIN v[j] :
            v[i][x] > v[j][x] => \E y \in 1 .. x - 1 : v[i][y] < v[j][y]
=============================================================================
