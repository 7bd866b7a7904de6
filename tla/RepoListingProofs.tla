--------------------------- MODULE RepoListingProofs ---------------------------
(***************************************************************************)
(* Proofs about the listings of all distributions but Ubuntu, for any       *)
(* number of producers on one host, any content of their sources and any    *)
(* repositories. The inductive invariant says of each producer what it has  *)
(* read and listed, and what of the host's state it may rely on although    *)
(* the others go on changing it.                                            *)
(***************************************************************************)
EXTENDS RepoListing, KernelVersionProofs, FiniteSetTheorems

Labels == {"begin", "aliases", "search", "parse", "listed", "failed"}

-----------------------------------------------------------------------------
(* The inductive invariant *)

\* The state of the host, and one value of each producer's variables for each.
HostInv ==
  /\ selected \in Selections
  /\ page \in [SourcesOf(selected) -> Seq(Entries)]
  /\ \A q \in selected : page \in [SourcesOf(selected) -> Pages[q.distro]]
  /\ enabled \subseteq HostRepos
  /\ DOMAIN at = selected /\ DOMAIN nxt = selected /\ DOMAIN aliases = selected
  /\ DOMAIN found = selected /\ DOMAIN skipped = selected
  /\ DOMAIN lists = selected /\ DOMAIN done = selected

\* What a producer's position says of the host: once it has set its release, the
\* release is that of some producer; repositories that it has enabled stay so; the
\* aliases it has read are those of all repositories.
PlaceInv(q) ==
  /\ at[q] \in Labels /\ nxt[q] \in 1 .. Len(Repos(q)) + 1
  /\ at[q] = "begin" => nxt[q] <= Len(Repos(q))
  /\ q.distro = "rhel" =>
       /\ at[q] # "aliases"
       /\ at[q] \in {"search", "parse", "listed"} =>
            \E r \in selected : r.distro = "rhel" /\ rhsm = ReleaseVersion(r)
  /\ q.distro = "sles" =>
       /\ \A i \in 1 .. nxt[q] - 1 : Repos(q)[i] \in enabled
       /\ at[q] \in Labels \ {"begin", "failed"} => nxt[q] = Len(Repos(q)) + 1
       /\ at[q] \in {"search", "parse", "listed"} => aliases[q] = HostRepos
  /\ q.distro \notin {"rhel", "sles"} =>
       /\ at[q] \notin {"aliases", "search"}
       /\ at[q] = "parse" => nxt[q] = Len(Repos(q)) + 1
       /\ at[q] = "parse" => ~NoARM(q)

\* The lines that a producer has read are lines of sources that are its own, or
\* that it shares.
FoundInv(q) ==
  /\ IsFiniteSet(found[q])
  /\ \A f \in found[q] :
       /\ f \in Read(f.from) /\ f.from \in SourcesOf(selected)
       /\ q.distro = "rhel" /\ Undisturbed(q) => f.from \in ToSet(Repos(q))
       /\ q.distro = "sles" => f.from \in enabled /\ ToSet(Repos(q)) \subseteq enabled
       /\ q.distro \notin {"rhel", "sles"} => f.from \in ToSet(Repos(q))
  /\ q.distro = "rhel" => \A f, g \in found[q] : f.from = g.from

\* And they are all the lines of its own sources that it could read.
ReadInv(q) ==
  /\ q.distro \notin {"rhel", "sles"} =>
       \A i \in 1 .. nxt[q] - 1 :
         Repos(q)[i] \in skipped[q] \/ Read(Repos(q)[i]) \subseteq found[q]
  /\ at[q] \in {"parse", "listed"} /\ ~NoARM(q) /\ Undisturbed(q) =>
       \A src \in ToSet(Repos(q)) \ skipped[q] : Read(src) \subseteq found[q]

\* The lists are the kernels among these lines, by flavour.
OfFlavor(ks, fl) == {f \in ks : f.entry.flavor = fl}

ListInv(q) ==
  LET ks == Kernels(q, found[q]) IN
  \/ /\ lists[q] = <<>>
     /\ at[q] = "listed" => NoARM(q)
  \/ /\ at[q] \in {"listed", "failed"}
     /\ DOMAIN lists[q] = {f.entry.flavor : f \in ks}
     /\ DOMAIN done[q] = DOMAIN lists[q]
     /\ \A fl \in DOMAIN lists[q] :
          lists[q][fl] \in Sorted(OfFlavor(ks, fl)) /\ done[q][fl] \in Nat

ProducerInv(q) == PlaceInv(q) /\ FoundInv(q) /\ ReadInv(q) /\ ListInv(q)

RepoInv ==
  /\ HostInv
  /\ \A q \in selected : ProducerInv(q)
  /\ \A rf \in refused : ~Undisturbed(rf[1])

-----------------------------------------------------------------------------
(* Lemmas about sources and lists *)

\* With a SUSE producer, whatever zypper may have enabled is a source.
LEMMA HostSources ==
  ASSUME NEW sel, NEW q \in sel, q.distro = "sles"
  PROVE  HostRepos \subseteq SourcesOf(sel)
<1>1. SUFFICES ASSUME NEW src \in HostRepos
               PROVE  src \in SourcesOf(sel)
  OBVIOUS
<1>2. src \in {x \in HostRepos : \E r \in sel : r.distro = "sles"}
  OBVIOUS
<1> QED BY <1>2 DEF SourcesOf

\* A function on 1 .. k is a sequence of length k.
LEMMA ListOf ==
  ASSUME NEW k \in Nat, NEW S, NEW f \in [1 .. k -> S]
  PROVE  f \in Seq(S) /\ Len(f) = k
OBVIOUS

\* A producer has one source, or up to three, and the package managers of RHEL and
\* Amazon answer for all of the host's repositories at once.
LEMMA ReposOfProducer ==
  ASSUME NEW q
  PROVE  /\ Len(Repos(q)) \in 1 .. 3 /\ DOMAIN Repos(q) = 1 .. Len(Repos(q))
         /\ ToSet(Repos(q)) = {Repos(q)[i] : i \in 1 .. Len(Repos(q))}
         /\ q.distro \in {"rhel", "amzn"} => Len(Repos(q)) = 1
         /\ q.distro = "rhel" => Repos(q)[1] = <<"rhel", ReleaseVersion(q)>>
         /\ \A i, j \in DOMAIN Repos(q) : q.distro = "sles" /\ i # j => Repos(q)[i] # Repos(q)[j]
<1> DEFINE n == CASE q.distro = "debian" -> IF q.release = "stretch" THEN 1 ELSE 3
                  [] q.distro \in {"fedora", "sles"} -> 2
                  [] OTHER -> 1
           S == {Repo(q, i) : i \in 1 .. 3}
<1>1. n \in 1 .. 3 /\ (q.distro \in {"rhel", "amzn"} => n = 1)
  <2>1. CASE q.distro = "debian"
    BY <2>1
  <2>2. CASE q.distro \in {"fedora", "sles"}
    BY <2>2
  <2>3. CASE q.distro \notin {"debian", "fedora", "sles"}
    BY <2>3
  <2> QED BY <2>1, <2>2, <2>3
<1>2. Repos(q) = [i \in 1 .. n |-> Repo(q, i)]
  BY DEF Repos
<1> HIDE DEF n
<1>3. Repos(q) \in [1 .. n -> S] /\ n \in Nat
  BY <1>1, <1>2
<1>4. Len(Repos(q)) = n
  <2> HIDE DEF S
  <2> QED BY <1>3, ListOf
<1>5. \A i \in 1 .. n : Repos(q)[i] = Repo(q, i)
  BY <1>2
<1>6. q.distro = "rhel" => Repo(q, 1) = <<"rhel", ReleaseVersion(q)>>
  BY DEF Repo
<1>7. q.distro = "sles" => \A i, j \in 1 .. 3 : i # j => Repo(q, i) # Repo(q, j)
  BY DEF Repo
<1> QED BY <1>1, <1>3, <1>4, <1>5, <1>6, <1>7 DEF ToSet

\* A producer's repositories are sources of the run.
LEMMA OwnSources ==
  ASSUME NEW q \in selected
  PROVE  ToSet(Repos(q)) \subseteq SourcesOf(selected)
BY DEF SourcesOf

\* A sorted list has every element of the set once.
LEMMA SortedList ==
  ASSUME NEW fs, IsFiniteSet(fs), NEW s \in Sorted(fs)
  PROVE  /\ Cardinality(fs) \in Nat /\ s \in Seq(fs)
         /\ DOMAIN s = 1 .. Len(s) /\ Len(s) = Cardinality(fs)
         /\ \A i, j \in DOMAIN s : s[i] = s[j] => i = j
         /\ \A f \in fs : \E i \in DOMAIN s : s[i] = f
<1> DEFINE D == 1 .. Cardinality(fs)
<1>1. Cardinality(fs) \in Nat
  BY FS_CardinalityType
<1>2. s \in [D -> fs] /\ \A i, j \in D : i # j => s[i] # s[j]
  BY DEF Sorted, SetToSeqs
<1>3. s \in Seq(fs) /\ Len(s) = Cardinality(fs)
  BY <1>1, <1>2, ListOf
<1>4. IsFiniteSet(D) /\ Cardinality(D) = Cardinality(fs)
  BY <1>1, FS_Interval
<1>5. s \in Injection(D, fs)
  BY <1>2 DEF Injection, IsInjective
<1>6. s \in Surjection(D, fs)
  BY <1>4, <1>5, FS_Injection
<1>7. \A f \in fs : \E i \in D : s[i] = f
  BY <1>6 DEF Surjection
<1> QED BY <1>1, <1>2, <1>3, <1>7

\* The image of a finite set is finite.
LEMMA ImageIsFinite ==
  ASSUME NEW S, IsFiniteSet(S), NEW f, S \subseteq DOMAIN f
  PROVE  IsFiniteSet({f[x] : x \in S})
<1> DEFINE T == {f[x] : x \in S}
           g == [x \in S |-> f[x]]
<1>1. g \in Surjection(S, T)
  BY DEF Surjection
<1> HIDE DEF g, T
<1>2. IsFiniteSet(T)
  BY <1>1, FS_Surjection
<1> QED BY <1>2 DEF T

\* What is taken from an answer was in it.
LEMMA KernelsAreRead ==
  ASSUME NEW q, NEW fs
  PROVE  Kernels(q, fs) \subseteq fs
<1>1. \A ks : ByName(ks) \subseteq ks
  BY DEF ByName
<1>2. CASE q.distro = "rhel"
  <2>1. Kernels(q, fs) = ParseYumPackages(q, fs)
    BY <1>2 DEF Kernels
  <2> QED BY <1>1, <2>1 DEF ParseYumPackages
<1>3. CASE q.distro = "amzn"
  <2>1. Kernels(q, fs) = ParseRepoqueryPackages(q, fs)
    BY <1>3 DEF Kernels
  <2> QED BY <1>1, <2>1 DEF ParseRepoqueryPackages
<1>4. CASE q.distro = "sles"
  <2>1. Kernels(q, fs) = ParseZypperPackages(q, fs)
    BY <1>4 DEF Kernels
  <2> QED BY <2>1 DEF ParseZypperPackages
<1>5. CASE q.distro = "debian"
  <2>1. Kernels(q, fs) = MatchDebs(fs)
    BY <1>5 DEF Kernels
  <2> QED BY <2>1 DEF MatchDebs
<1>6. CASE q.distro \notin {"rhel", "amzn", "sles", "debian"}
  <2>1. Kernels(q, fs) = MatchLinks(q, fs)
    BY <1>6 DEF Kernels
  <2> QED BY <2>1 DEF MatchLinks
<1> QED BY <1>2, <1>3, <1>4, <1>5, <1>6

\* What a source offers can be read in finitely many lines.
LEMMA ReadIsFinite ==
  ASSUME HostInv, NEW src \in SourcesOf(selected)
  PROVE  /\ IsFiniteSet(Read(src))
         /\ page[src] \in Seq(Entries)
         /\ \A f \in Read(src) : /\ f.from = src /\ f.line \in DOMAIN page[src]
                                 /\ f.line \in Nat
                                 /\ f.entry = page[src][f.line] /\ f.entry \in Entries
<1>1. page[src] \in Seq(Entries)
  BY DEF HostInv
<1>2. DOMAIN page[src] = 1 .. Len(page[src]) /\ Len(page[src]) \in Nat
  BY <1>1
<1>3. IsFiniteSet(DOMAIN page[src])
  BY <1>2, FS_Interval
<1> DEFINE g == [i \in DOMAIN page[src] |->
                  [from |-> src, line |-> i, entry |-> page[src][i]]]
<1>4. Read(src) = {g[i] : i \in DOMAIN page[src]}
  BY DEF Read
<1>5. DOMAIN g = DOMAIN page[src]
  OBVIOUS
<1>6. IsFiniteSet(Read(src))
  <2> HIDE DEF g
  <2> QED BY <1>3, <1>4, <1>5, ImageIsFinite
<1> QED BY <1>1, <1>2, <1>6 DEF Read

-----------------------------------------------------------------------------
(* What a step of one producer leaves to the others *)

\* The step leaves q's own variables.
Same(q) ==
  /\ at'[q] = at[q] /\ nxt'[q] = nxt[q] /\ aliases'[q] = aliases[q]
  /\ found'[q] = found[q] /\ skipped'[q] = skipped[q]
  /\ lists'[q] = lists[q] /\ done'[q] = done[q]

\* A step of producer p: it may enable repositories and set its own release.
LEMMA StepOfOne ==
  ASSUME HostInv, NEW p \in selected, ProducerStep(p)
  PROVE  /\ HostInv'
         /\ selected' = selected /\ page' = page
         /\ enabled \subseteq enabled'
         /\ rhsm' = rhsm \/ (p.distro = "rhel" /\ rhsm' = ReleaseVersion(p))
         /\ \A q \in selected : q # p => Same(q)
<1> DEFINE Doms == /\ DOMAIN at' = selected /\ DOMAIN nxt' = selected
                   /\ DOMAIN aliases' = selected /\ DOMAIN found' = selected
                   /\ DOMAIN skipped' = selected /\ DOMAIN lists' = selected
                   /\ DOMAIN done' = selected
           Goal == /\ selected' = selected /\ page' = page
                   /\ enabled \subseteq enabled' /\ enabled' \subseteq HostRepos
                   /\ rhsm' = rhsm \/ (p.distro = "rhel" /\ rhsm' = ReleaseVersion(p))
                   /\ \A q \in selected : q # p => Same(q)
                   /\ Doms
<1> USE DEF HostInv, Same
<1>1. CASE NoPackages(p)
  BY <1>1 DEF NoPackages, Go
<1>2. CASE SetRelease(p)
  BY <1>2 DEF SetRelease, Go
<1>3. CASE YumSearch(p)
  BY <1>3 DEF YumSearch, Go
<1>4. CASE EnableRepo(p)
  BY <1>4 DEF EnableRepo, Go
<1>5. CASE GetRepoAliases(p)
  BY <1>5 DEF GetRepoAliases, Go
<1>6. CASE ZypperSearch(p)
  BY <1>6 DEF ZypperSearch, Go
<1>7. CASE ReadRepo(p)
  BY <1>7 DEF ReadRepo, Go
<1>8. CASE SkipRepo(p)
  BY <1>8 DEF SkipRepo, Go
<1>9. CASE QueryFails(p)
  BY <1>9 DEF QueryFails, Go
<1>10. CASE ListKernels(p)
  <2>1. /\ \E ls : lists' = [lists EXCEPT ![p] = ls]
        /\ \E d : done' = [done EXCEPT ![p] = d]
        /\ at' = [at EXCEPT ![p] = "listed"]
        /\ UNCHANGED <<selected, page, rhsm, enabled, nxt, aliases, found, skipped>>
    BY <1>10 DEF ListKernels, Go
  <2> QED BY <2>1
<1>11. ASSUME NEW fl \in DOMAIN lists[p], DownloadPackage(p, fl) PROVE Goal
  <2>1. /\ \E d : done' = [done EXCEPT ![p] = d]
        /\ UNCHANGED <<selected, page, rhsm, enabled, at, nxt, aliases, found, skipped, lists>>
    BY <1>11 DEF DownloadPackage
  <2> QED BY <2>1
<1>12. ASSUME NEW fl \in DOMAIN lists[p], DownloadRefused(p, fl) PROVE Goal
  <2>1. /\ \E d : done' = [done EXCEPT ![p] = d]
        /\ \E label : at' = [at EXCEPT ![p] = label]
        /\ UNCHANGED <<selected, page, rhsm, enabled, nxt, aliases, found, skipped, lists>>
    BY <1>12 DEF DownloadRefused, Go
  <2> QED BY <2>1
<1>13. Goal
  BY <1>1, <1>2, <1>3, <1>4, <1>5, <1>6, <1>7, <1>8, <1>9, <1>10, <1>11, <1>12
     DEF ProducerStep
<1> QED BY <1>13

\* A producer's invariant stands when another one takes a step: this is where the
\* premise of an undisturbed release, and enabling without disabling, are needed.
LEMMA OthersUndisturbed ==
  ASSUME HostInv, NEW p \in selected, NEW q \in selected, Same(q), ProducerInv(q),
         selected' = selected, page' = page, enabled \subseteq enabled',
         rhsm' = rhsm \/ (p.distro = "rhel" /\ rhsm' = ReleaseVersion(p))
  PROVE  ProducerInv(q)'
<1>1. Undisturbed(q)' = Undisturbed(q)
  BY DEF Undisturbed
<1>2. \A src : Read(src)' = Read(src)
  BY DEF Read
<1>3. SourcesOf(selected)' = SourcesOf(selected)
  BY DEF SourcesOf
<1>4. PlaceInv(q)'
  <2>1. (\E r \in selected : r.distro = "rhel" /\ rhsm = ReleaseVersion(r)) =>
          \E r \in selected : r.distro = "rhel" /\ rhsm' = ReleaseVersion(r)
    OBVIOUS
  <2> QED BY <2>1 DEF ProducerInv, PlaceInv, Same
<1>5. FoundInv(q)'
  <2>1. found'[q] = found[q]
    BY DEF Same
  <2> QED BY <1>1, <1>2, <1>3, <2>1 DEF ProducerInv, FoundInv
<1>6. ReadInv(q)'
  BY <1>1, <1>2 DEF ProducerInv, ReadInv, Same
<1>7. ListInv(q)'
  BY DEF ProducerInv, ListInv, Same
<1> QED BY <1>4, <1>5, <1>6, <1>7 DEF ProducerInv

-----------------------------------------------------------------------------
(* What a producer's own step does to it *)

\* Steps of the listing: from the first query to the answer of the last.
LEMMA ListingStep ==
  ASSUME HostInv, NEW p \in selected, ProducerInv(p),
         \/ NoPackages(p)
         \/ SetRelease(p) \/ YumSearch(p)
         \/ EnableRepo(p) \/ GetRepoAliases(p) \/ ZypperSearch(p)
         \/ ReadRepo(p) \/ SkipRepo(p)
         \/ QueryFails(p)
  PROVE  ProducerInv(p)'
<1> DEFINE R == Repos(p)
           n == Len(Repos(p))
<1>0. /\ n \in 1 .. 3 /\ DOMAIN R = 1 .. n /\ ToSet(R) = {R[i] : i \in 1 .. n}
      /\ p.distro = "rhel" => n = 1 /\ R[1] = <<"rhel", ReleaseVersion(p)>>
  BY ReposOfProducer
<1>1. selected' = selected /\ page' = page
  BY DEF NoPackages, SetRelease, YumSearch, EnableRepo, GetRepoAliases, ZypperSearch,
         ReadRepo, SkipRepo, QueryFails
<1>2. /\ Undisturbed(p)' = Undisturbed(p)
      /\ \A src : Read(src)' = Read(src)
      /\ SourcesOf(selected)' = SourcesOf(selected)
  BY <1>1 DEF Undisturbed, Read, SourcesOf
<1>3. ToSet(R) \subseteq SourcesOf(selected)
  BY OwnSources
<1>4. /\ p \in DOMAIN at /\ p \in DOMAIN nxt /\ p \in DOMAIN aliases
      /\ p \in DOMAIN found /\ p \in DOMAIN skipped
  BY DEF HostInv
<1>5. nxt[p] \in 1 .. n + 1 /\ nxt[p] \in Nat
  BY <1>0 DEF ProducerInv, PlaceInv
<1> HIDE DEF R, n
<1>6. lists' = lists /\ done' = done
  BY DEF NoPackages, SetRelease, YumSearch, EnableRepo, GetRepoAliases, ZypperSearch,
         ReadRepo, SkipRepo, QueryFails
<1>7. lists[p] = <<>> /\ at[p] \notin {"listed", "failed"}
  <2>1. at[p] \in {"begin", "aliases", "search", "parse"}
    BY DEF NoPackages, SetRelease, YumSearch, EnableRepo, GetRepoAliases, ZypperSearch,
           ReadRepo, SkipRepo, QueryFails
  <2> QED BY <2>1 DEF ProducerInv, ListInv
<1>8. ASSUME at'[p] = "listed" => NoARM(p) PROVE ListInv(p)'
  BY <1>6, <1>7, <1>8 DEF ListInv
<1>9. ASSUME NEW label, at' = [at EXCEPT ![p] = label],
             label = "failed" \/ (label = "listed" /\ NoARM(p)),
             UNCHANGED <<rhsm, enabled, nxt, aliases, found, skipped>>
      PROVE  ProducerInv(p)'
  <2>1. at'[p] = label /\ (NoARM(p) => p.distro = "fedora")
    BY <1>4, <1>9 DEF NoARM
  <2>2. PlaceInv(p)'
    BY <1>1, <1>9, <2>1 DEF ProducerInv, PlaceInv, Labels
  <2>3. FoundInv(p)'
    BY <1>2, <1>9 DEF ProducerInv, FoundInv
  <2>4. ReadInv(p)'
    BY <1>2, <1>9, <2>1 DEF ProducerInv, ReadInv
  <2>5. ListInv(p)'
    BY <1>8, <1>9, <2>1
  <2> QED BY <2>2, <2>3, <2>4, <2>5 DEF ProducerInv
<1>10. CASE NoPackages(p)
  BY <1>9, <1>10 DEF NoPackages, Go
<1>11. CASE QueryFails(p)
  BY <1>9, <1>11 DEF QueryFails, Go
<1>12. CASE SetRelease(p)
  <2>1. /\ at[p] = "begin" /\ p.distro = "rhel" /\ at'[p] = "search"
        /\ rhsm' = ReleaseVersion(p)
        /\ UNCHANGED <<enabled, nxt, aliases, found, skipped>>
    BY <1>4, <1>12 DEF SetRelease, Go
  <2>2. PlaceInv(p)'
    BY <1>1, <2>1 DEF ProducerInv, PlaceInv, Labels
  <2>3. FoundInv(p)'
    BY <1>2, <2>1 DEF ProducerInv, FoundInv
  <2>4. ReadInv(p)'
    BY <1>2, <2>1 DEF ProducerInv, ReadInv
  <2> QED BY <1>8, <2>1, <2>2, <2>3, <2>4 DEF ProducerInv
<1>13. CASE YumSearch(p)
  <2>1. /\ at[p] = "search" /\ p.distro = "rhel" /\ at'[p] = "parse"
        /\ found'[p] = Read(<<"rhel", rhsm>>)
        /\ UNCHANGED <<rhsm, enabled, nxt, aliases, skipped>>
    BY <1>4, <1>13 DEF YumSearch, Go
  <2>2. PlaceInv(p)'
    BY <1>1, <2>1 DEF ProducerInv, PlaceInv, Labels
  <2>3. Undisturbed(p) => <<"rhel", rhsm>> = R[1] /\ ToSet(R) = {R[1]}
    BY <1>0, <2>1 DEF ProducerInv, PlaceInv, Undisturbed
  <2>4. <<"rhel", rhsm>> \in SourcesOf(selected)
    <3>1. PICK r \in selected : r.distro = "rhel" /\ rhsm = ReleaseVersion(r)
      BY <2>1 DEF ProducerInv, PlaceInv
    <3>2. <<"rhel", rhsm>> \in ToSet(Repos(r))
      <4>1. /\ Len(Repos(r)) = 1 /\ Repos(r)[1] = <<"rhel", rhsm>>
            /\ ToSet(Repos(r)) = {Repos(r)[i] : i \in 1 .. Len(Repos(r))}
        BY <3>1, ReposOfProducer
      <4> QED BY <4>1
    <3> QED BY <3>2, OwnSources
  <2>5. FoundInv(p)'
    <3>1. IsFiniteSet(found'[p])
      BY <2>1, <2>4, ReadIsFinite
    <3>2. \A f \in found'[p] : f.from = <<"rhel", rhsm>> /\ f \in Read(f.from)
      BY <2>1, <2>4, ReadIsFinite
    <3> QED BY <1>2, <2>1, <2>3, <2>4, <3>1, <3>2 DEF FoundInv, R
  <2>6. ReadInv(p)'
    BY <1>2, <2>1, <2>3 DEF ReadInv, R
  <2> QED BY <1>8, <2>1, <2>2, <2>5, <2>6 DEF ProducerInv
<1>14. CASE EnableRepo(p)
  <2>1. /\ at[p] = "begin" /\ p.distro = "sles" /\ R[nxt[p]] \in HostRepos
        /\ enabled' = enabled \cup {R[nxt[p]]}
        /\ nxt'[p] = nxt[p] + 1
        /\ at'[p] = (IF nxt[p] = n THEN "aliases" ELSE "begin")
        /\ UNCHANGED <<rhsm, aliases, found, skipped>>
    BY <1>4, <1>14 DEF EnableRepo, Go, R, n
  <2>2. PlaceInv(p)'
    <3>1. nxt[p] <= n /\ \A i \in 1 .. nxt[p] - 1 : R[i] \in enabled
      BY <2>1 DEF ProducerInv, PlaceInv, R, n
    <3>2. \A i \in 1 .. nxt'[p] - 1 : R[i] \in enabled'
      BY <1>5, <2>1, <3>1
    <3>3. nxt'[p] \in 1 .. n + 1 /\ (at'[p] = "begin" => nxt'[p] <= n)
          /\ (at'[p] # "begin" => nxt'[p] = n + 1)
      BY <1>0, <1>5, <2>1, <3>1
    <3> QED BY <1>1, <2>1, <3>2, <3>3 DEF PlaceInv, Labels, R, n
  <2>3. FoundInv(p)'
    BY <1>2, <2>1 DEF ProducerInv, FoundInv
  <2>4. ReadInv(p)'
    BY <1>2, <2>1 DEF ProducerInv, ReadInv
  <2> QED BY <1>8, <2>1, <2>2, <2>3, <2>4 DEF ProducerInv
<1>15. CASE GetRepoAliases(p)
  <2>1. /\ at[p] = "aliases" /\ at'[p] = "search" /\ aliases'[p] = HostRepos
        /\ UNCHANGED <<rhsm, enabled, nxt, found, skipped>>
    BY <1>4, <1>15 DEF GetRepoAliases, Go
  <2>2. p.distro = "sles"
    BY <2>1 DEF ProducerInv, PlaceInv
  <2>3. PlaceInv(p)'
    BY <1>1, <2>1, <2>2 DEF ProducerInv, PlaceInv, Labels
  <2>4. FoundInv(p)'
    BY <1>2, <2>1 DEF ProducerInv, FoundInv
  <2>5. ReadInv(p)'
    BY <1>2, <2>1, <2>2 DEF ProducerInv, ReadInv
  <2> QED BY <1>8, <2>1, <2>3, <2>4, <2>5 DEF ProducerInv
<1>16. CASE ZypperSearch(p)
  <2> DEFINE fs == UNION {Read(src) : src \in enabled}
  <2>1. /\ at[p] = "search" /\ p.distro = "sles" /\ at'[p] = "parse"
        /\ found'[p] = fs
        /\ UNCHANGED <<rhsm, enabled, nxt, aliases, skipped>>
    BY <1>4, <1>16 DEF ZypperSearch, Go
  <2>2. enabled \subseteq SourcesOf(selected)
    <3>1. enabled \subseteq HostRepos
      BY DEF HostInv
    <3> QED BY <2>1, <3>1, HostSources
  <2>3. PlaceInv(p)'
    BY <1>1, <2>1 DEF ProducerInv, PlaceInv, Labels
  <2>4. IsFiniteSet(fs)
    <3> DEFINE g == [src \in enabled |-> Read(src)]
               Rs == {g[src] : src \in enabled}
    <3>1. IsFiniteSet(HostRepos) /\ enabled \subseteq HostRepos
      BY SelectionAssumption DEF HostInv
    <3>2. IsFiniteSet(enabled)
      BY <3>1, FS_Subset
    <3>3. enabled = DOMAIN g
      OBVIOUS
    <3>4. \A T \in Rs : IsFiniteSet(T)
      BY <2>2, ReadIsFinite
    <3>5. fs = UNION Rs
      OBVIOUS
    <3> HIDE DEF g
    <3>6. IsFiniteSet(Rs)
      BY <3>2, <3>3, ImageIsFinite
    <3> HIDE DEF Rs, fs
    <3> QED BY <3>4, <3>5, <3>6, FS_UNION
  <2>5. \A f \in fs : f \in Read(f.from) /\ f.from \in enabled /\ f.from \in SourcesOf(selected)
    BY <2>2, ReadIsFinite
  <2>6. ToSet(R) \subseteq enabled
    <3>1. nxt[p] = n + 1 /\ \A i \in 1 .. nxt[p] - 1 : R[i] \in enabled
      BY <2>1 DEF ProducerInv, PlaceInv, Labels, R, n
    <3> QED BY <1>0, <3>1
  <2>7. FoundInv(p)'
    <3> HIDE DEF fs
    <3> QED BY <1>2, <2>1, <2>4, <2>5, <2>6 DEF FoundInv, R
  <2>8. \A src \in ToSet(R) : Read(src) \subseteq fs
    BY <2>6
  <2>9. ReadInv(p)'
    <3> HIDE DEF fs
    <3> QED BY <1>2, <2>1, <2>8 DEF ReadInv, R
  <2> QED BY <1>8, <2>1, <2>3, <2>7, <2>9 DEF ProducerInv
<1>17. CASE ReadRepo(p)
  <2>1. /\ at[p] = "begin" /\ p.distro \notin {"rhel", "sles"} /\ ~NoARM(p)
        /\ found'[p] = found[p] \cup Read(R[nxt[p]])
        /\ nxt'[p] = nxt[p] + 1
        /\ at'[p] = (IF nxt[p] = n THEN "parse" ELSE "begin")
        /\ UNCHANGED <<rhsm, enabled, aliases, skipped>>
    BY <1>4, <1>17 DEF ReadRepo, Go, R, n
  <2>2. nxt[p] \in 1 .. n
    BY <1>5, <2>1 DEF ProducerInv, PlaceInv, R, n
  <2>3. nxt'[p] \in 1 .. n + 1 /\ (at'[p] = "begin" => nxt'[p] <= n)
        /\ (at'[p] # "begin" => nxt'[p] = n + 1)
    BY <1>0, <1>5, <2>1, <2>2
  <2>4. PlaceInv(p)'
    BY <1>1, <2>1, <2>3 DEF PlaceInv, Labels, R, n
  <2>5. R[nxt[p]] \in ToSet(R) /\ R[nxt[p]] \in SourcesOf(selected)
    BY <1>0, <1>3, <2>2
  <2>6. FoundInv(p)'
    <3>1. IsFiniteSet(Read(R[nxt[p]])) /\ IsFiniteSet(found[p])
      BY <2>5, ReadIsFinite DEF ProducerInv, FoundInv
    <3>2. IsFiniteSet(found'[p])
      <4> DEFINE old == found[p]
                 new == Read(R[nxt[p]])
      <4>1. IsFiniteSet(old) /\ IsFiniteSet(new) /\ found'[p] = old \cup new
        BY <2>1, <3>1
      <4> HIDE DEF old, new
      <4>2. IsFiniteSet(old \cup new)
        BY <4>1, FS_Union
      <4> QED BY <4>1, <4>2
    <3>3. \A f \in Read(R[nxt[p]]) : f.from = R[nxt[p]]
      BY <2>5, ReadIsFinite
    <3> QED BY <1>2, <2>1, <2>5, <3>2, <3>3 DEF ProducerInv, FoundInv, R
  <2>7. \A i \in 1 .. nxt'[p] - 1 : R[i] \in skipped'[p] \/ Read(R[i]) \subseteq found'[p]
    <3>1. \A i \in 1 .. nxt[p] - 1 : R[i] \in skipped[p] \/ Read(R[i]) \subseteq found[p]
      BY <2>1 DEF ProducerInv, ReadInv, R
    <3> QED BY <1>5, <2>1, <2>2, <3>1
  <2>8. at'[p] = "parse" =>
          \A src \in ToSet(R) \ skipped'[p] : Read(src) \subseteq found'[p]
    BY <1>0, <2>1, <2>3, <2>7
  <2>9. ReadInv(p)'
    BY <1>2, <2>1, <2>7, <2>8 DEF ReadInv, R
  <2> QED BY <1>8, <2>1, <2>4, <2>6, <2>9 DEF ProducerInv
<1>18. CASE SkipRepo(p)
  <2>1. /\ at[p] = "begin" /\ p.distro = "fedora" /\ ~NoARM(p)
        /\ skipped'[p] = skipped[p] \cup {R[nxt[p]]}
        /\ nxt'[p] = nxt[p] + 1
        /\ at'[p] = (IF nxt[p] = n THEN "parse" ELSE "begin")
        /\ UNCHANGED <<rhsm, enabled, aliases, found>>
    BY <1>4, <1>18 DEF SkipRepo, Go, R, n
  <2>2. nxt[p] \in 1 .. n
    BY <1>5, <2>1 DEF ProducerInv, PlaceInv, R, n
  <2>3. nxt'[p] \in 1 .. n + 1 /\ (at'[p] = "begin" => nxt'[p] <= n)
        /\ (at'[p] # "begin" => nxt'[p] = n + 1)
    BY <1>0, <1>5, <2>1, <2>2
  <2>4. PlaceInv(p)'
    BY <1>1, <2>1, <2>3 DEF PlaceInv, Labels, R, n
  <2>5. FoundInv(p)'
    BY <1>2, <2>1 DEF ProducerInv, FoundInv
  <2>6. \A i \in 1 .. nxt'[p] - 1 : R[i] \in skipped'[p] \/ Read(R[i]) \subseteq found'[p]
    <3>1. \A i \in 1 .. nxt[p] - 1 : R[i] \in skipped[p] \/ Read(R[i]) \subseteq found[p]
      BY <2>1 DEF ProducerInv, ReadInv, R
    <3> QED BY <1>5, <2>1, <2>2, <3>1
  <2>7. at'[p] = "parse" =>
          \A src \in ToSet(R) \ skipped'[p] : Read(src) \subseteq found'[p]
    BY <1>0, <2>1, <2>3, <2>6
  <2>8. ReadInv(p)'
    BY <1>2, <2>1, <2>6, <2>7 DEF ReadInv, R
  <2> QED BY <1>8, <2>1, <2>4, <2>5, <2>8 DEF ProducerInv
<1> QED BY <1>10, <1>11, <1>12, <1>13, <1>14, <1>15, <1>16, <1>17, <1>18

\* ListKernels, and the downloads.
LEMMA LoopStep ==
  ASSUME HostInv, NEW p \in selected, ProducerInv(p),
         \/ ListKernels(p)
         \/ \E fl \in DOMAIN lists[p] : DownloadPackage(p, fl) \/ DownloadRefused(p, fl)
  PROVE  ProducerInv(p)'
<1>1. selected' = selected /\ page' = page
  BY DEF ListKernels, DownloadPackage, DownloadRefused
<1>2. /\ Undisturbed(p)' = Undisturbed(p)
      /\ \A src : Read(src)' = Read(src)
      /\ SourcesOf(selected)' = SourcesOf(selected)
  BY <1>1 DEF Undisturbed, Read, SourcesOf
<1>3. p \in DOMAIN at /\ p \in DOMAIN lists /\ p \in DOMAIN done
  BY DEF HostInv
<1>4. CASE ListKernels(p)
  <2> DEFINE ks == Kernels(p, found[p])
             flavors == {f.entry.flavor : f \in ks}
  <2>1. PICK ls \in [flavors -> UNION {Sorted(OfFlavor(ks, fl)) : fl \in flavors}] :
          /\ \A fl \in flavors : ls[fl] \in Sorted(OfFlavor(ks, fl))
          /\ lists' = [lists EXCEPT ![p] = ls]
    BY <1>4 DEF ListKernels, OfFlavor
  <2>2. done' = [done EXCEPT ![p] = [fl \in flavors |-> 0]]
    BY <1>4 DEF ListKernels
  <2>3. /\ at[p] = "parse" /\ at'[p] = "listed"
        /\ UNCHANGED <<rhsm, enabled, nxt, aliases, found, skipped>>
    BY <1>3, <1>4 DEF ListKernels, Go
  <2>4. PlaceInv(p)'
    BY <1>1, <2>3 DEF ProducerInv, PlaceInv, Labels
  <2>5. FoundInv(p)'
    BY <1>2, <2>3 DEF ProducerInv, FoundInv
  <2>6. ReadInv(p)'
    BY <1>2, <2>3 DEF ProducerInv, ReadInv
  <2>7. ListInv(p)'
    <3>1. lists'[p] = ls /\ done'[p] = [fl \in flavors |-> 0] /\ DOMAIN ls = flavors
      BY <1>3, <2>1, <2>2
    <3>2. Kernels(p, found'[p]) = ks
      BY <2>3
    <3>3. \A fl \in flavors : ls[fl] \in Sorted(OfFlavor(ks, fl)) /\ done'[p][fl] \in Nat
      BY <2>1, <3>1
    <3>4. DOMAIN done'[p] = flavors
      BY <3>1
    <3> HIDE DEF ks
    <3> QED BY <2>3, <3>1, <3>2, <3>3, <3>4 DEF ListInv
  <2> QED BY <2>4, <2>5, <2>6, <2>7 DEF ProducerInv
<1>5. ASSUME NEW fl \in DOMAIN lists[p], DownloadPackage(p, fl) \/ DownloadRefused(p, fl)
      PROVE  ProducerInv(p)'
  <2>1. /\ at[p] = "listed"
        /\ at'[p] = "listed" \/ (at'[p] = "failed" /\ p.distro = "rhel")
        /\ done' = [done EXCEPT ![p][fl] = @ + 1]
        /\ UNCHANGED <<rhsm, enabled, nxt, aliases, found, skipped, lists>>
    BY <1>3, <1>5 DEF DownloadPackage, DownloadRefused, Go
  <2>2. PlaceInv(p)'
    BY <1>1, <2>1 DEF ProducerInv, PlaceInv, Labels
  <2>3. FoundInv(p)'
    BY <1>2, <2>1 DEF ProducerInv, FoundInv
  <2>4. ReadInv(p)'
    BY <1>2, <2>1 DEF ProducerInv, ReadInv
  <2>5. ListInv(p)'
    <3>1. lists[p] # <<>>
      OBVIOUS
    <3>2. done'[p] = [done[p] EXCEPT ![fl] = @ + 1]
      BY <1>3, <2>1
    <3> QED BY <2>1, <3>1, <3>2 DEF ProducerInv, ListInv
  <2> QED BY <2>2, <2>3, <2>4, <2>5 DEF ProducerInv
<1> QED BY <1>4, <1>5

\* RepoInv holds at first.
LEMMA RepoInit == Init => RepoInv
<1> SUFFICES ASSUME Init PROVE RepoInv
  OBVIOUS
<1>1. HostInv
  <2>1. PICK q \in selected : page \in [SourcesOf(selected) -> Pages[q.distro]]
    BY DEF Init
  <2>2. Pages[q.distro] \subseteq Seq(Entries)
    BY PagesAssumption DEF Init
  <2>3. page \in [SourcesOf(selected) -> Seq(Entries)]
    BY <2>1, <2>2
  <2>4. enabled \subseteq HostRepos
    BY SelectionAssumption DEF Init
  <2>5. \A r \in selected : page \in [SourcesOf(selected) -> Pages[r.distro]]
    BY <2>1, SelectionAssumption DEF Init
  <2> QED BY <2>3, <2>4, <2>5 DEF Init, HostInv
<1>2. ASSUME NEW q \in selected PROVE ProducerInv(q)
  <2>1. /\ at[q] = "begin" /\ nxt[q] = 1 /\ found[q] = {} /\ lists[q] = <<>>
    BY DEF Init
  <2>2. Len(Repos(q)) \in 1 .. 3
    BY ReposOfProducer
  <2>3. PlaceInv(q)
    BY <2>1, <2>2 DEF PlaceInv, Labels
  <2>4. FoundInv(q)
    BY <2>1, FS_EmptySet DEF FoundInv
  <2>5. ReadInv(q)
    BY <2>1 DEF ReadInv
  <2>6. ListInv(q)
    BY <2>1 DEF ListInv
  <2> QED BY <2>3, <2>4, <2>5, <2>6 DEF ProducerInv
<1>3. refused = {}
  BY DEF Init
<1> QED BY <1>1, <1>2, <1>3 DEF RepoInv

-----------------------------------------------------------------------------
(* What the invariant says of a list *)

\* A position of a list has a kernel that its producer has read, and no kernel has
\* two positions.
LEMMA ListedKernels ==
  ASSUME NEW q \in selected, FoundInv(q), ListInv(q)
  PROVE  /\ \A pos \in Positions(q) :
              /\ ListedAt(q, pos) \in Kernels(q, found[q])
              /\ pos = <<ListedAt(q, pos).entry.flavor, pos[2]>>
         /\ \A pos, other \in Positions(q) :
              ListedAt(q, pos) = ListedAt(q, other) => pos = other
         /\ at[q] = "listed" /\ ~NoARM(q) =>
              \A f \in Kernels(q, found[q]) : \E pos \in Positions(q) : ListedAt(q, pos) = f
<1> DEFINE ks == Kernels(q, found[q])
<1>1. CASE lists[q] = <<>>
  <2>1. Positions(q) = {}
    BY <1>1 DEF Positions
  <2>2. at[q] = "listed" /\ ~NoARM(q) => DOMAIN lists[q] = {f.entry.flavor : f \in ks}
    BY DEF ListInv
  <2>3. DOMAIN lists[q] = {}
    BY <1>1
  <2>4. at[q] = "listed" /\ ~NoARM(q) => ks = {}
    BY <2>2, <2>3
  <2> QED BY <2>1, <2>4
<1>2. CASE lists[q] # <<>>
  <2>1. /\ DOMAIN lists[q] = {f.entry.flavor : f \in ks}
        /\ \A fl \in DOMAIN lists[q] : lists[q][fl] \in Sorted(OfFlavor(ks, fl))
    BY <1>2 DEF ListInv
  <2>2. ks \subseteq found[q]
    BY KernelsAreRead
  <2> HIDE DEF ks
  <2>3. ASSUME NEW fl \in DOMAIN lists[q]
        PROVE  /\ \A i \in DOMAIN lists[q][fl] :
                    lists[q][fl][i] \in ks /\ lists[q][fl][i].entry.flavor = fl
               /\ \A i, j \in DOMAIN lists[q][fl] :
                    lists[q][fl][i] = lists[q][fl][j] => i = j
               /\ \A f \in ks : f.entry.flavor = fl =>
                    \E i \in DOMAIN lists[q][fl] : lists[q][fl][i] = f
    <3> DEFINE fs == OfFlavor(ks, fl)
               s == lists[q][fl]
    <3>1. IsFiniteSet(fs)
      BY <2>2, FS_Subset DEF OfFlavor, FoundInv
    <3>2. s \in Sorted(fs)
      BY <2>1
    <3> HIDE DEF fs, s
    <3>3. /\ s \in Seq(fs)
          /\ \A i, j \in DOMAIN s : s[i] = s[j] => i = j
          /\ \A f \in fs : \E i \in DOMAIN s : s[i] = f
      BY <3>1, <3>2, SortedList
    <3>4. \A i \in DOMAIN s : s[i] \in fs
      BY <3>3
    <3> QED BY <3>3, <3>4 DEF fs, s, OfFlavor
  <2>4. \A pos : pos \in Positions(q) <=>
          \E fl \in DOMAIN lists[q] : \E i \in DOMAIN lists[q][fl] : pos = <<fl, i>>
    BY DEF Positions
  <2>5. \A fl \in DOMAIN lists[q] : \A i \in DOMAIN lists[q][fl] :
          /\ <<fl, i>> \in Positions(q)
          /\ ListedAt(q, <<fl, i>>) = lists[q][fl][i]
    BY <2>4 DEF ListedAt
  <2>6. ASSUME NEW pos \in Positions(q)
        PROVE  /\ ListedAt(q, pos) \in ks
               /\ pos = <<ListedAt(q, pos).entry.flavor, pos[2]>>
               /\ pos[1] \in DOMAIN lists[q] /\ pos[2] \in DOMAIN lists[q][pos[1]]
    <3>1. PICK fl \in DOMAIN lists[q] : \E i \in DOMAIN lists[q][fl] : pos = <<fl, i>>
      BY <2>4
    <3>2. PICK i \in DOMAIN lists[q][fl] : pos = <<fl, i>>
      BY <3>1
    <3> QED BY <2>3, <2>5, <3>2
  <2>7. ASSUME NEW pos \in Positions(q), NEW other \in Positions(q),
               ListedAt(q, pos) = ListedAt(q, other)
        PROVE  pos = other
    <3>1. pos[1] = other[1]
      BY <2>6, <2>7
    <3>2. pos[2] = other[2]
      BY <2>3, <2>6, <2>7, <3>1 DEF ListedAt
    <3> QED BY <2>6, <2>7, <3>2
  <2>8. ASSUME NEW f \in ks PROVE \E pos \in Positions(q) : ListedAt(q, pos) = f
    <3>1. f.entry.flavor \in DOMAIN lists[q]
      BY <2>1
    <3>2. PICK i \in DOMAIN lists[q][f.entry.flavor] : lists[q][f.entry.flavor][i] = f
      BY <2>3, <3>1
    <3> QED BY <2>5, <3>1, <3>2
  <2> QED BY <2>6, <2>7, <2>8 DEF ks
<1> QED BY <1>1, <1>2

-----------------------------------------------------------------------------
(* The theorems *)

\* What an undisturbed producer has listed is still there when its turn comes.
LEMMA ListedIsOffered ==
  ASSUME HostInv, NEW p \in selected, ProducerInv(p), Undisturbed(p), at[p] = "listed",
         NEW fl \in DOMAIN lists[p], done[p][fl] < Len(lists[p][fl])
  PROVE  NextOf(p, fl) \in Offered(p)
<1> DEFINE ks == Kernels(p, found[p])
           f == lists[p][fl][done[p][fl] + 1]
<1>1. lists[p][fl] \in Sorted(OfFlavor(ks, fl)) /\ done[p][fl] \in Nat
  BY DEF ProducerInv, ListInv
<1>2. OfFlavor(ks, fl) \subseteq found[p] /\ IsFiniteSet(OfFlavor(ks, fl))
  <2>1. OfFlavor(ks, fl) \subseteq found[p]
    BY KernelsAreRead DEF OfFlavor
  <2>2. IsFiniteSet(found[p])
    BY DEF ProducerInv, FoundInv
  <2> HIDE DEF ks
  <2> QED BY <2>1, <2>2, FS_Subset
<1> HIDE DEF ks
<1>3. f \in found[p]
  <2>1. lists[p][fl] \in Seq(OfFlavor(ks, fl))
    BY <1>1, <1>2, SortedList
  <2>2. done[p][fl] + 1 \in 1 .. Len(lists[p][fl])
    BY <1>1, <2>1
  <2> QED BY <1>2, <2>1, <2>2
<1> HIDE DEF f
<1>4. /\ f \in Read(f.from) /\ f.from \in SourcesOf(selected)
      /\ p.distro = "rhel" => f.from \in ToSet(Repos(p))
      /\ p.distro = "sles" => f.from \in enabled
  BY <1>3 DEF ProducerInv, FoundInv
<1>5. f.entry \in ToSet(page[f.from]) /\ f.from \in DOMAIN page
  BY <1>4, ReadIsFinite DEF ToSet, HostInv
<1>6. NextOf(p, fl) = f.entry
  BY DEF NextOf, f
<1>7. CASE p.distro = "rhel"
  <2>1. rhsm = ReleaseVersion(p)
    BY <1>7 DEF ProducerInv, PlaceInv, Undisturbed
  <2>2. f.from = <<"rhel", rhsm>>
    <3>1. /\ Len(Repos(p)) = 1 /\ Repos(p)[1] = <<"rhel", ReleaseVersion(p)>>
          /\ ToSet(Repos(p)) = {Repos(p)[i] : i \in 1 .. Len(Repos(p))}
      BY <1>7, ReposOfProducer
    <3> QED BY <1>4, <1>7, <2>1, <3>1
  <2>3. Offered(p) = ToSet(page[<<"rhel", rhsm>>])
    BY <1>7 DEF Offered
  <2> QED BY <1>5, <1>6, <2>2, <2>3
<1>8. CASE p.distro = "sles"
  <2>1. Offered(p) = UNION {ToSet(page[src]) : src \in enabled}
    BY <1>8 DEF Offered
  <2> QED BY <1>4, <1>5, <1>6, <1>8, <2>1
<1>9. CASE p.distro \notin {"rhel", "sles"}
  <2>1. Offered(p) = {g.entry : g \in found[p]}
    BY <1>9 DEF Offered
  <2> QED BY <1>3, <1>6, <2>1
<1> QED BY <1>7, <1>8, <1>9

\* RepoInv holds in every state, of every producer of the run.
THEOREM RepoInvariance == Spec => []RepoInv
<1>1. RepoInv /\ Next => RepoInv'
  <2> SUFFICES ASSUME RepoInv, NEW p \in selected, ProducerStep(p) PROVE RepoInv'
    BY DEF Next
  <2>1. HostInv /\ \A q \in selected : ProducerInv(q)
    BY DEF RepoInv
  <2>2. /\ HostInv'
        /\ selected' = selected /\ page' = page
        /\ enabled \subseteq enabled'
        /\ rhsm' = rhsm \/ (p.distro = "rhel" /\ rhsm' = ReleaseVersion(p))
        /\ \A q \in selected : q # p => Same(q)
    BY <2>1, StepOfOne
  <2>3. ProducerInv(p)'
    BY <2>1, ListingStep, LoopStep DEF ProducerStep
  <2>4. \A q \in selected : q # p => ProducerInv(q)'
    BY <2>1, <2>2, OthersUndisturbed
  <2>5. \A q : Undisturbed(q)' = Undisturbed(q)
    BY <2>2 DEF Undisturbed
  <2>6. \A rf \in refused' : ~Undisturbed(rf[1])
    <3>1. CASE \E fl \in DOMAIN lists[p] : DownloadRefused(p, fl)
      <4>1. PICK fl \in DOMAIN lists[p] : DownloadRefused(p, fl)
        BY <3>1
      <4>2. /\ at[p] = "listed" /\ done[p][fl] < Len(lists[p][fl])
            /\ NextOf(p, fl) \notin Offered(p)
            /\ refused' = refused \cup {<<p, NextOf(p, fl)>>}
        BY <4>1 DEF DownloadRefused
      <4>3. ~Undisturbed(p)
        BY <2>1, <4>2, ListedIsOffered
      <4> QED BY <4>2, <4>3 DEF RepoInv
    <3>2. CASE ~\E fl \in DOMAIN lists[p] : DownloadRefused(p, fl)
      <4>1. refused' = refused
        BY <3>2 DEF ProducerStep, NoPackages, SetRelease, YumSearch, EnableRepo,
           GetRepoAliases, ZypperSearch, ReadRepo, SkipRepo, QueryFails, ListKernels,
           DownloadPackage
      <4> QED BY <4>1 DEF RepoInv
    <3> QED BY <3>1, <3>2
  <2> QED BY <2>2, <2>3, <2>4, <2>5, <2>6 DEF RepoInv
<1>2. RepoInv /\ UNCHANGED vars => RepoInv'
  <2> SUFFICES ASSUME RepoInv, UNCHANGED vars PROVE RepoInv'
    OBVIOUS
  <2>1. HostInv' /\ selected' = selected /\ refused' = refused
    BY DEF RepoInv, HostInv, vars
  <2>2. ASSUME NEW q \in selected PROVE ProducerInv(q)'
    <3>1. HostInv /\ ProducerInv(q)
      BY DEF RepoInv
    <3>2. /\ Same(q) /\ selected' = selected /\ page' = page /\ enabled \subseteq enabled'
          /\ rhsm' = rhsm
      BY DEF vars, Same
    <3> QED BY <3>1, <3>2, OthersUndisturbed
  <2>3. \A q : Undisturbed(q)' = Undisturbed(q)
    BY <2>1 DEF Undisturbed
  <2> QED BY <2>1, <2>2, <2>3 DEF RepoInv
<1> QED BY <1>1, <1>2, RepoInit, PTL DEF Spec

\* However the producers that share zypper interleave, a SUSE producer knows the
\* repository of every kernel that its search returns.
THEOREM AliasesAreKnown == Spec => []AliasesSuffice
<1>1. RepoInv => AliasesSuffice
  BY DEF RepoInv, HostInv, ProducerInv, PlaceInv, FoundInv, AliasesSuffice, UnknownRepo
<1> QED BY <1>1, RepoInvariance, PTL

\* A listed package can be downloaded, unless another producer has set the release.
THEOREM ListedStaysOffered == Spec => []StaysOffered
<1>1. RepoInv => StaysOffered
  BY DEF RepoInv, StaysOffered
<1> QED BY <1>1, RepoInvariance, PTL

\* The package managers that repeat a name are listed with it once, whatever release
\* they answered for.
THEOREM NamesAreUnique == Spec => []OnePackagePerName
<1>1. RepoInv => OnePackagePerName
  <2> SUFFICES ASSUME RepoInv, NEW q \in selected, q.distro \in {"rhel", "amzn"},
                      NEW pos \in Positions(q), NEW other \in Positions(q),
                      ListedAt(q, pos).entry = ListedAt(q, other).entry
               PROVE  pos = other
    BY DEF OnePackagePerName
  <2> DEFINE f == ListedAt(q, pos)
             g == ListedAt(q, other)
  <2>1. HostInv /\ FoundInv(q) /\ ListInv(q)
    BY DEF RepoInv, ProducerInv
  <2>2. f \in Kernels(q, found[q]) /\ g \in Kernels(q, found[q])
    BY <2>1, ListedKernels
  <2>3. f \in found[q] /\ g \in found[q]
    BY <2>2, KernelsAreRead
  <2>4. f = g => pos = other
    BY <2>1, ListedKernels
  <2> HIDE DEF f, g
  <2>5. \E X : Kernels(q, found[q]) = ByName(X)
    <3>1. CASE q.distro = "rhel"
      BY <3>1 DEF Kernels, ParseYumPackages
    <3>2. CASE q.distro = "amzn"
      BY <3>2 DEF Kernels, ParseRepoqueryPackages
    <3> QED BY <3>1, <3>2
  <2>6. f.entry = g.entry
    BY DEF f, g
  <2>7. f.line <= g.line /\ g.line <= f.line
    BY <2>2, <2>5, <2>6 DEF ByName
  <2>8. f \in Read(f.from) /\ f.from \in SourcesOf(selected)
        /\ g \in Read(g.from) /\ g.from \in SourcesOf(selected)
    BY <2>1, <2>3 DEF FoundInv
  <2>9. f.line \in Nat /\ g.line \in Nat
    BY <2>1, <2>8, ReadIsFinite
  <2>10. f.from = g.from
    <3>1. CASE q.distro = "rhel"
      BY <2>1, <2>3, <3>1 DEF FoundInv
    <3>2. CASE q.distro = "amzn"
      <4>1. Len(Repos(q)) = 1 /\ ToSet(Repos(q)) = {Repos(q)[i] : i \in 1 .. Len(Repos(q))}
        BY <3>2, ReposOfProducer
      <4>2. f.from \in ToSet(Repos(q)) /\ g.from \in ToSet(Repos(q))
        BY <2>1, <2>3, <3>2 DEF FoundInv
      <4> QED BY <4>1, <4>2
    <3> QED BY <3>1, <3>2
  <2>11. f = g
    <3>1. f = [from |-> f.from, line |-> f.line, entry |-> f.entry]
      BY <2>8 DEF Read
    <3>2. g = [from |-> g.from, line |-> g.line, entry |-> g.entry]
      BY <2>8 DEF Read
    <3>3. f.line = g.line
      BY <2>7, <2>9
    <3> QED BY <2>6, <2>10, <3>1, <3>2, <3>3
  <2> QED BY <2>4, <2>11
<1> QED BY <1>1, RepoInvariance, PTL

\* Of the lines with one name, ByName keeps one.
LEMMA NameIsKept ==
  ASSUME NEW fs, NEW f \in fs, \A g \in fs : g.line \in Nat
  PROVE  \E g \in ByName(fs) : g.entry = f.entry
<1> DEFINE S == {g.line : g \in {g \in fs : g.entry = f.entry}}
<1>1. S \subseteq Nat /\ S # {}
  OBVIOUS
<1>2. \E m \in S : \A k \in S : m <= k
  <2> HIDE DEF S
  <2> QED BY <1>1, LeastNatural
<1>3. PICK g \in fs : g.entry = f.entry /\ \A k \in S : g.line <= k
  BY <1>2
<1>4. \A h \in fs : h.entry = g.entry => g.line <= h.line
  BY <1>3
<1> QED BY <1>3, <1>4 DEF ByName

\* When a producer has listed its kernels, every wanted kernel of its own sources is
\* listed: for any number of producers of the host, in any interleaving.
THEOREM AllKernelsListed ==
  ASSUME ZypperNames
  PROVE  Spec => []NoKernelMissed
<1>1. RepoInv => NoKernelMissed
  <2> SUFFICES ASSUME RepoInv, NEW q \in selected,
                      at[q] = "listed", ~NoARM(q), Undisturbed(q),
                      NEW src \in ToSet(Repos(q)) \ skipped[q],
                      NEW e \in ToSet(page[src]), Wanted(q, e)
               PROVE  \E pos \in Positions(q) :
                        ListedAt(q, pos).from = src /\ ListedAt(q, pos).entry = e
    BY DEF NoKernelMissed
  <2>1. HostInv /\ FoundInv(q) /\ ReadInv(q) /\ ListInv(q)
    BY DEF RepoInv, ProducerInv
  <2>2. PICK i \in DOMAIN page[src] : e = page[src][i]
    BY DEF ToSet
  <2> DEFINE f == [from |-> src, line |-> i, entry |-> e]
             fs == found[q]
  <2>3. f \in fs
    <3>1. f \in Read(src)
      BY <2>2 DEF Read
    <3>2. Read(src) \subseteq fs
      BY <2>1 DEF ReadInv
    <3> QED BY <3>1, <3>2
  <2>4. f.from = src /\ f.entry = e
    OBVIOUS
  <2>5. /\ e.kind = "debug" \/ (e.kind = "uek" /\ q.distro = "ol")
        /\ e.arch = AltArch(q) /\ e.flavor # "preempt" /\ ~TooOld(q, e)
    BY DEF Wanted
  <2>6. \A g \in fs : g.line \in Nat
    BY <2>1, ReadIsFinite DEF FoundInv
  <2> HIDE DEF f
  <2>7. ASSUME NEW X, X \subseteq fs, f \in X, q.distro \in {"rhel", "amzn"}
        PROVE  \E g \in ByName(X) : g.from = src /\ g.entry = e
    <3>1. PICK g \in ByName(X) : g.entry = e
      BY <2>4, <2>6, <2>7, NameIsKept
    <3>2. g \in fs
      BY <2>7, <3>1 DEF ByName
    <3>3. g.from \in ToSet(Repos(q))
      BY <2>1, <2>7, <3>2 DEF FoundInv
    <3>4. Len(Repos(q)) = 1 /\ ToSet(Repos(q)) = {Repos(q)[k] : k \in 1 .. Len(Repos(q))}
      BY <2>7, ReposOfProducer
    <3> QED BY <3>1, <3>3, <3>4
  <2>8. \E g \in Kernels(q, fs) : g.from = src /\ g.entry = e
    <3>1. CASE q.distro = "rhel"
      <4>1. Kernels(q, fs) = ByName({g \in fs : g.entry.kind = "debug" /\ ~TooOld(q, g.entry)})
        BY <3>1 DEF Kernels, ParseYumPackages
      <4> QED BY <2>3, <2>4, <2>5, <2>7, <3>1, <4>1
    <3>2. CASE q.distro = "amzn"
      <4>1. Kernels(q, fs) =
              ByName({g \in fs : g.entry.arch = AltArch(q) /\ g.entry.kind = "debug"})
        BY <3>2 DEF Kernels, ParseRepoqueryPackages
      <4> QED BY <2>3, <2>4, <2>5, <2>7, <3>2, <4>1
    <3>3. CASE q.distro = "sles"
      <4>1. q.arch = AltArch(q)
        BY <2>1, <3>3 DEF HostInv, ZypperNames
      <4>2. Kernels(q, fs) =
              {g \in fs : IsZypperKernel(q, g) /\ g.entry.flavor # "preempt"}
        BY <3>3 DEF Kernels, ParseZypperPackages
      <4> QED BY <2>3, <2>4, <2>5, <3>3, <4>1, <4>2 DEF IsZypperKernel
    <3>4. CASE q.distro = "debian"
      <4>1. Kernels(q, fs) = {g \in fs : g.entry.kind = "debug"}
        BY <3>4 DEF Kernels, MatchDebs
      <4> QED BY <2>3, <2>4, <2>5, <3>4, <4>1
    <3>5. CASE q.distro \notin {"rhel", "amzn", "sles", "debian"}
      <4>1. Kernels(q, fs) = MatchLinks(q, fs)
        BY <3>5 DEF Kernels
      <4>2. f \in MatchLinks(q, fs)
        BY <2>3, <2>4, <2>5 DEF MatchLinks
      <4> QED BY <2>4, <4>1, <4>2
    <3> QED BY <3>1, <3>2, <3>3, <3>4, <3>5
  <2>9. \A g \in Kernels(q, fs) : \E pos \in Positions(q) : ListedAt(q, pos) = g
    BY <2>1, ListedKernels
  <2> QED BY <2>8, <2>9
<1> QED BY <1>1, RepoInvariance, PTL

\* A repository of a producer is that of some number.
LEMMA OwnRepo ==
  ASSUME NEW q, NEW src \in ToSet(Repos(q))
  PROVE  \E i \in 1 .. 3 : src = Repo(q, i)
<1>1. PICK i \in DOMAIN Repos(q) : src = Repos(q)[i]
  BY DEF ToSet
<1>2. i \in 1 .. 3
  BY <1>1, ReposOfProducer
<1>3. Repos(q)[i] = Repo(q, i)
  BY <1>1 DEF Repos
<1> QED BY <1>1, <1>2, <1>3

\* What names the repositories of a producer: its release, and but for those that
\* answer for both, its architecture.
LEMMA RepoNames ==
  ASSUME NEW q, NEW i \in 1 .. 3
  PROVE  /\ Repo(q, i)[2] = Repo(q, 1)[2]
         /\ q.distro = "ol" => Repo(q, i) = <<"ol", q.release>>
         /\ q.distro = "sles" => Repo(q, i)[2] = q.release
         /\ q.distro \notin {"ol", "amzn", "rhel", "sles"} =>
              Repo(q, i) = <<q.distro, q.release, AltArch(q), i>>
<1>1. CASE q.distro = "ol"
  BY <1>1 DEF Repo
<1>2. CASE q.distro = "amzn"
  BY <1>2 DEF Repo
<1>3. CASE q.distro = "rhel"
  BY <1>3 DEF Repo
<1>4. CASE q.distro = "sles"
  BY <1>4 DEF Repo
<1>5. CASE q.distro \notin {"ol", "amzn", "rhel", "sles"}
  BY <1>5 DEF Repo
<1> QED BY <1>1, <1>2, <1>3, <1>4, <1>5

\* Where an answer is for both architectures, a filter compares them.
LEMMA KernelsAreFiltered ==
  ASSUME NEW q, NEW fs, NEW f \in Kernels(q, fs)
  PROVE  /\ q.distro \in {"amzn", "ol"} => f.entry.arch = AltArch(q)
         /\ q.distro = "sles" => f.entry.arch = q.arch
<1>1. CASE q.distro = "amzn"
  <2>1. f \in ParseRepoqueryPackages(q, fs)
    BY <1>1 DEF Kernels
  <2> QED BY <1>1, <2>1 DEF ParseRepoqueryPackages, ByName
<1>2. CASE q.distro = "ol"
  <2>1. f \in MatchLinks(q, fs)
    BY <1>2 DEF Kernels
  <2> QED BY <1>2, <2>1 DEF MatchLinks
<1>3. CASE q.distro = "sles"
  <2>1. f \in ParseZypperPackages(q, fs)
    BY <1>3 DEF Kernels
  <2> QED BY <1>3, <2>1 DEF ParseZypperPackages, IsZypperKernel
<1> QED BY <1>1, <1>2, <1>3

\* A producer is known by its distribution, release and architecture.
LEMMA SameProducer ==
  ASSUME HostInv, NEW q \in selected, NEW r \in selected, q.release = r.release,
         AltArch(q) = AltArch(r) \/ q.arch = r.arch
  PROVE  q = r
<1>1. /\ selected \in Selections
      /\ q.distro = r.distro
      /\ q = [distro |-> q.distro, release |-> q.release, arch |-> q.arch]
      /\ r = [distro |-> r.distro, release |-> r.release, arch |-> r.arch]
      /\ q.arch \in {"x86_64", "arm64"} /\ r.arch \in {"x86_64", "arm64"}
  BY SelectionAssumption DEF HostInv
<1>2. q.arch = r.arch
  BY <1>1 DEF AltArch
<1> QED BY <1>1, <1>2

\* A kernel goes to the directory of its release and architecture and to no other,
\* where the host answers for that producer alone: for any number of producers and
\* whatever their sources have in common.
THEOREM KernelsHaveOneDirectory == Spec => []OneDirectory
<1>1. RepoInv => OneDirectory
  <2> SUFFICES ASSUME RepoInv, NEW q \in selected, OwnHost(q), NEW pos \in Positions(q)
               PROVE  /\ ListedAt(q, pos).from[2] = Repo(q, 1)[2]
                      /\ \A r \in selected \ {q} : \A other \in Positions(r) :
                           ListedAt(r, other) # ListedAt(q, pos)
    BY DEF OneDirectory
  <2> DEFINE f == ListedAt(q, pos)
  <2>1. HostInv /\ \A r \in selected : FoundInv(r) /\ ListInv(r)
    BY DEF RepoInv, ProducerInv
  <2>2. ASSUME NEW r \in selected, NEW other \in Positions(r)
        PROVE  /\ ListedAt(r, other) \in Kernels(r, found[r])
               /\ ListedAt(r, other) \in found[r]
    BY <2>1, ListedKernels, KernelsAreRead
  <2>3. f \in Kernels(q, found[q]) /\ f \in found[q]
    BY <2>2
  <2> HIDE DEF f
  <2>4. q.distro # "sles" => f.from \in ToSet(Repos(q))
    <3>1. q.distro = "rhel" => Undisturbed(q)
      BY DEF OwnHost, Undisturbed
    <3> QED BY <2>1, <2>3, <3>1 DEF FoundInv
  <2>5. f.from[2] = Repo(q, 1)[2]
    <3>1. CASE q.distro = "sles"
      <4>1. f.from \in enabled
        BY <2>1, <2>3, <3>1 DEF FoundInv
      <4>2. f.from[2] = q.release
        BY <3>1, <4>1 DEF OwnHost
      <4>3. Repo(q, 1)[2] = q.release
        BY <3>1 DEF Repo
      <4> QED BY <4>2, <4>3
    <3>2. CASE q.distro # "sles"
      <4>1. PICK i \in 1 .. 3 : f.from = Repo(q, i)
        BY <2>4, <3>2, OwnRepo
      <4>2. Repo(q, i)[2] = Repo(q, 1)[2]
        BY RepoNames
      <4> QED BY <4>1, <4>2
    <3> QED BY <3>1, <3>2
  <2>6. ASSUME NEW r \in selected \ {q}, NEW other \in Positions(r), ListedAt(r, other) = f
        PROVE  FALSE
    <3>1. f \in Kernels(r, found[r]) /\ f \in found[r]
      BY <2>2, <2>6
    <3>2. q.distro = r.distro
      BY <2>1, SelectionAssumption DEF HostInv
    <3>3. q.release = r.release /\ AltArch(q) = AltArch(r) => FALSE
      BY <2>1, <2>6, SameProducer
    <3>4. q.release = r.release /\ q.arch = r.arch => FALSE
      BY <2>1, <2>6, SameProducer
    <3>5. CASE q.distro = "rhel"
      BY <2>6, <3>5 DEF OwnHost
    <3>6. CASE q.distro = "amzn"
      <4>1. q.release = r.release
        BY <3>6 DEF OwnHost
      <4>2. f.entry.arch = AltArch(q) /\ f.entry.arch = AltArch(r)
        BY <2>3, <3>1, <3>2, <3>6, KernelsAreFiltered
      <4> QED BY <3>3, <4>1, <4>2
    <3>7. CASE q.distro = "sles"
      <4>1. ToSet(Repos(r)) \subseteq enabled
        BY <2>1, <3>1, <3>2, <3>7 DEF FoundInv
      <4>2. Repos(r)[1] \in ToSet(Repos(r))
        BY ReposOfProducer
      <4>3. PICK i \in 1 .. 3 : Repos(r)[1] = Repo(r, i)
        BY <4>2, OwnRepo
      <4>4. Repos(r)[1][2] = r.release
        BY <3>2, <3>7, <4>3, RepoNames
      <4>5. q.release = r.release
        BY <3>7, <4>1, <4>2, <4>4 DEF OwnHost
      <4>6. f.entry.arch = q.arch /\ f.entry.arch = r.arch
        BY <2>3, <3>1, <3>2, <3>7, KernelsAreFiltered
      <4> QED BY <3>4, <4>5, <4>6
    <3>8. CASE q.distro \notin {"rhel", "amzn", "sles"}
      <4>1. f.from \in ToSet(Repos(r))
        BY <2>1, <3>1, <3>2, <3>8 DEF FoundInv
      <4>2. PICK i \in 1 .. 3 : f.from = Repo(q, i)
        BY <2>4, <3>8, OwnRepo
      <4>3. PICK j \in 1 .. 3 : f.from = Repo(r, j)
        BY <4>1, OwnRepo
      <4>4. CASE q.distro = "ol"
        <5>1. f.from = <<"ol", q.release>>
          BY <4>2, <4>4, RepoNames
        <5>2. f.from = <<"ol", r.release>>
          BY <3>2, <4>3, <4>4, RepoNames
        <5>3. q.release = r.release
          BY <5>1, <5>2
        <5>4. f.entry.arch = AltArch(q) /\ f.entry.arch = AltArch(r)
          BY <2>3, <3>1, <3>2, <4>4, KernelsAreFiltered
        <5> QED BY <3>3, <5>3, <5>4
      <4>5. CASE q.distro # "ol"
        <5>1. q.distro \notin {"ol", "amzn", "rhel", "sles"}
          BY <3>8, <4>5
        <5>2. f.from = <<q.distro, q.release, AltArch(q), i>>
          BY <4>2, <5>1, RepoNames
        <5>3. f.from = <<r.distro, r.release, AltArch(r), j>>
          BY <3>2, <4>3, <5>1, RepoNames
        <5>4. q.release = r.release /\ AltArch(q) = AltArch(r)
          BY <5>2, <5>3
        <5> QED BY <3>3, <5>4
      <4> QED BY <4>4, <4>5
    <3> QED BY <3>5, <3>6, <3>7, <3>8
  <2> QED BY <2>5, <2>6 DEF f
<1> QED BY <1>1, RepoInvariance, PTL

\* The order that sort.Sort leaves: no later element is less than an earlier one.
LEMMA SortedOrder ==
  ASSUME NEW fs, NEW s \in Sorted(fs), NEW i \in DOMAIN s, NEW j \in DOMAIN s, i < j
  PROVE  ~ByVersionLess(s[j], s[i])
BY DEF Sorted, IsSorted

\* Behind a kernel of a list there is no older one, for any versions of any number
\* of tokens, as far as Less compares them.
THEOREM ListsAreOrdered == Spec => []LaterIsNewer
<1>1. RepoInv => LaterIsNewer
  <2> SUFFICES ASSUME RepoInv, NEW q \in selected,
                      NEW pos \in Positions(q), NEW other \in Positions(q),
                      pos[1] = other[1], pos[2] < other[2]
               PROVE  LET V(k) == SplitIntoInts(ListedAt(q, k).entry.version) IN
                      \A x \in DOMAIN V(pos) \cap DOMAIN V(other) :
                        V(pos)[x] > V(other)[x] => \E y \in 1 .. x - 1 : V(pos)[y] < V(other)[y]
    BY DEF LaterIsNewer
  <2> DEFINE ks == Kernels(q, found[q])
             s == lists[q][pos[1]]
  <2>1. HostInv /\ FoundInv(q) /\ ListInv(q)
    BY DEF RepoInv, ProducerInv
  <2>2. /\ pos[1] \in DOMAIN lists[q] /\ pos[2] \in DOMAIN s /\ other[2] \in DOMAIN s
        /\ ListedAt(q, pos) = s[pos[2]] /\ ListedAt(q, other) = s[other[2]]
    BY DEF Positions, ListedAt
  <2>3. s \in Sorted(OfFlavor(ks, pos[1]))
    <3>1. lists[q] # <<>>
      BY <2>2
    <3> QED BY <2>1, <2>2, <3>1 DEF ListInv
  <2>4. ASSUME NEW k \in Positions(q)
        PROVE  SplitIntoInts(ListedAt(q, k).entry.version) \in Seq(Int)
    <3>1. ListedAt(q, k) \in found[q]
      BY <2>1, ListedKernels, KernelsAreRead
    <3>2. ListedAt(q, k).entry \in Entries
      BY <2>1, <3>1, ReadIsFinite DEF FoundInv
    <3> QED BY <3>2, PagesAssumption, SplitIsSequence
  <2> HIDE DEF s, ks
  <2>5. ~ByVersionLess(s[other[2]], s[pos[2]])
    BY <2>2, <2>3, SortedOrder
  <2>6. ~Less(SplitIntoInts(ListedAt(q, other).entry.version),
              SplitIntoInts(ListedAt(q, pos).entry.version))
    BY <2>2, <2>5 DEF ByVersionLess
  <2> QED BY <2>4, <2>6, NotLess
<1> QED BY <1>1, RepoInvariance, PTL
=============================================================================
