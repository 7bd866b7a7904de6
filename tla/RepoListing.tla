----------------------------- MODULE RepoListing -----------------------------
(***************************************************************************)
(* How the producers of every distribution but Ubuntu get their list of     *)
(* kernel packages (GetKernelPackages in pkg/repo), and what they share     *)
(* while they do: the release that subscription-manager has set on the      *)
(* host (RHEL) and the repositories that zypper has enabled (SUSE). A       *)
(* producer then downloads what it listed, from what is set and enabled at  *)
(* that time.                                                               *)
(*                                                                         *)
(* A source is what one query reads: the page of a URL, the package list    *)
(* of a Debian archive, a zypper repository, or what yum offers under one   *)
(* release. Its content is a sequence of entries [kind, flavor, version,    *)
(* arch]: kind is what the tests of the package's name tell apart, "debug"  *)
(* (kernel-debuginfo, kernel-*-debuginfo, linux-image-*-dbg), "uek",        *)
(* "common" or "other"; flavor is "" but for SUSE. A zypper command is one  *)
(* step: RunZypperCMD holds a mutex for as long as it runs.                 *)
(***************************************************************************)
EXTENDS KernelVersion, SequencesExt

CONSTANTS
  Selections,  \* sets of producers [distro, release, arch] that -d, -r, -a select
  Entries,     \* what a line of a source may say
  Pages,       \* for each distribution, the contents its sources may have
  HostRepos,   \* zypper repositories that are defined on the host
  EnabledBefore  \* sets of them that earlier runs may have enabled

\* One run collects one distribution, or only distributions that share nothing.
ASSUME SelectionAssumption ==
  /\ \A sel \in Selections : sel # {} /\ \A q, r \in sel : q.distro = r.distro
  /\ \A sel \in Selections : \A q \in sel :
       /\ q = [distro |-> q.distro, release |-> q.release, arch |-> q.arch]
       /\ q.arch \in {"x86_64", "arm64"}
  /\ EnabledBefore \subseteq SUBSET HostRepos
  /\ IsFiniteSet(HostRepos)

ASSUME PagesAssumption ==
  /\ \A sel \in Selections : \A q \in sel : Pages[q.distro] \subseteq Seq(Entries)
  /\ \A e \in Entries : e.version \in Seq(Int)

VARIABLES
  selected,  \* the producers of this run
  page,      \* content of their sources
  rhsm,      \* the release that subscription-manager set
  enabled,   \* enabled zypper repositories
  at,        \* the step a producer is at
  nxt,       \* the repository it comes to next
  aliases,   \* repositories whose alias a SUSE producer knows
  found,     \* the lines it has read
  skipped,   \* sources that it failed to read, logged, and passed over
  lists,     \* the sorted list of each package loop
  done,      \* how many packages of each loop have been downloaded
  refused    \* history: listed packages that the package manager did not have

vars == <<selected, page, rhsm, enabled, at, nxt, aliases, found, skipped,
          lists, done, refused>>

-----------------------------------------------------------------------------
(* Where a producer looks *)

\* archs: only Debian's code and SUSE's do not use the name aarch64. (Debian's
\* amd64 is written x86_64 here.) AltArch is what the packages are for.
AltArch(q) ==
  IF q.arch = "arm64" /\ q.distro # "debian" THEN "aarch64" ELSE q.arch

\* releaseVersions
ReleaseVersion(q) ==
  CASE q.release = "8" -> "8.1"
    [] q.release = "7" /\ AltArch(q) = "x86_64"  -> "7.9"
    [] q.release = "7" /\ AltArch(q) = "aarch64" -> "7Server"

\* The repositories of a release, with their distribution and release in front:
\* Oracle has a page for all architectures, Amazon's producers of both releases
\* ask the host, and the names of SUSE's have the architecture that -a uses.
Repo(q, i) ==
  CASE q.distro = "ol"   -> <<"ol", q.release>>
    [] q.distro = "amzn" -> <<"amzn", "host">>
    [] q.distro = "rhel" -> <<"rhel", ReleaseVersion(q)>>
    [] q.distro = "sles" -> <<"sles", q.release, q.arch, i>>
    [] OTHER -> <<q.distro, q.release, AltArch(q), i>>

Repos(q) ==
  LET n == CASE q.distro = "debian" -> IF q.release = "stretch" THEN 1 ELSE 3
             [] q.distro \in {"fedora", "sles"} -> 2
             [] OTHER -> 1
  IN  [i \in 1 .. n |-> Repo(q, i)]

\* What the producers may read: their own repositories, and any that zypper has.
SourcesOf(sel) ==
  (UNION {ToSet(Repos(q)) : q \in sel})
    \cup {src \in HostRepos : \E q \in sel : q.distro = "sles"}

\* The RHEL 7 and 8, CentOS and Oracle kernels that may have BTF one day.
MinVersion(q) ==
  IF q.distro \in {"rhel", "centos", "ol"} THEN <<3, 10, 0, 957>> ELSE <<>>

TooOld(q, e) == Less(SplitIntoInts(e.version), MinVersion(q))

-----------------------------------------------------------------------------
(* What it takes from an answer *)

\* The lines of a source. Their order in the slice or the map that a producer
\* reads them into is left out: the sort at its end is not stable.
Read(src) ==
  {[from |-> src, line |-> i, entry |-> page[src][i]] : i \in DOMAIN page[src]}

Mut_ByName(fs) == fs

\* map[string]pkg.Package: the first entry of a name stays.
ByName(fs) == {f \in fs : \A g \in fs : g.entry = f.entry => f.line <= g.line}

ParseYumPackages(q, fs) ==
  ByName({f \in fs : f.entry.kind = "debug" /\ ~TooOld(q, f.entry)})

\* repoquery --archlist
ParseRepoqueryPackages(q, fs) ==
  ByName({f \in fs : f.entry.arch = AltArch(q) /\ f.entry.kind = "debug"})

\* The architecture is compared with the name that -a uses.
IsZypperKernel(q, f) == f.entry.arch = q.arch /\ f.entry.kind = "debug"

ParseZypperPackages(q, fs) ==
  {f \in fs : IsZypperKernel(q, f) /\ f.entry.flavor # "preempt"}

Mut_MatchLinks(q, fs) ==
  {f \in fs :
    /\ f.entry.kind \in {"debug"} \cup (IF q.distro = "ol" THEN {"uek"} ELSE {})
    /\ ~TooOld(q, f.entry)}

\* CentOS, Oracle and Fedora: the regular expression kre, with the architecture.
MatchLinks(q, fs) ==
  {f \in fs :
    /\ f.entry.kind \in {"debug"} \cup (IF q.distro = "ol" THEN {"uek"} ELSE {})
    /\ f.entry.arch = AltArch(q)
    /\ ~TooOld(q, f.entry)}

MatchDebs(fs) == {f \in fs : f.entry.kind = "debug"}

Kernels(q, fs) ==
  CASE q.distro = "rhel"   -> ParseYumPackages(q, fs)
    [] q.distro = "amzn"   -> ParseRepoqueryPackages(q, fs)
    [] q.distro = "sles"   -> ParseZypperPackages(q, fs)
    [] q.distro = "debian" -> MatchDebs(fs)
    [] OTHER               -> MatchLinks(q, fs)

ByVersionLess(f, g) ==
  Less(SplitIntoInts(f.entry.version), SplitIntoInts(g.entry.version))

Mut_Sorted(fs) == SetToSeqs(fs)

\* The orders in which sort.Sort may leave a list.
Sorted(fs) == {s \in SetToSeqs(fs) : IsSorted(s, LAMBDA f, g : ~ByVersionLess(g, f))}

-----------------------------------------------------------------------------
Init ==
  /\ selected \in Selections
  /\ \E q \in selected : page \in [SourcesOf(selected) -> Pages[q.distro]]
  /\ rhsm = "unset"
  /\ enabled \in EnabledBefore
  /\ at = [q \in selected |-> "begin"]
  /\ nxt = [q \in selected |-> 1]
  /\ aliases = [q \in selected |-> {}]
  /\ found = [q \in selected |-> {}]
  /\ skipped = [q \in selected |-> {}]
  /\ lists = [q \in selected |-> <<>>]
  /\ done = [q \in selected |-> <<>>]
  /\ refused = {}

Go(q, label) == at' = [at EXCEPT ![q] = label]

NoARM(q) ==
  q.distro = "fedora" /\ q.release \in {"24", "25", "26", "27"} /\ q.arch = "arm64"

\* Old Fedora releases have no arm64 packages: the producer returns.
NoPackages(q) ==
  /\ at[q] = "begin"
  /\ NoARM(q)
  /\ Go(q, "listed")
  /\ UNCHANGED <<selected, page, rhsm, enabled, nxt, aliases, found, skipped,
                 lists, done, refused>>

\* subscription-manager release --set
SetRelease(q) ==
  /\ at[q] = "begin"
  /\ q.distro = "rhel"
  /\ rhsm' = ReleaseVersion(q)
  /\ Go(q, "search")
  /\ UNCHANGED <<selected, page, enabled, nxt, aliases, found, skipped, lists,
                 done, refused>>

YumSearch(q) ==
  /\ at[q] = "search"
  /\ q.distro = "rhel"
  /\ found' = [found EXCEPT ![q] = Read(<<"rhel", rhsm>>)]
  /\ Go(q, "parse")
  /\ UNCHANGED <<selected, page, rhsm, enabled, nxt, aliases, skipped, lists,
                 done, refused>>

Mut_EnableRepo(q) ==
  /\ at[q] = "begin"
  /\ q.distro = "sles"
  /\ Repos(q)[nxt[q]] \in HostRepos
  /\ enabled' = {Repos(q)[i] : i \in 1 .. nxt[q]}
  /\ nxt' = [nxt EXCEPT ![q] = @ + 1]
  /\ Go(q, IF nxt[q] = Len(Repos(q)) THEN "aliases" ELSE "begin")
  /\ UNCHANGED <<selected, page, rhsm, aliases, found, skipped, lists, done,
                 refused>>

\* zypper modifyrepo --enable; nothing ever disables a repository.
EnableRepo(q) ==
  /\ at[q] = "begin"
  /\ q.distro = "sles"
  /\ Repos(q)[nxt[q]] \in HostRepos
  /\ enabled' = enabled \cup {Repos(q)[nxt[q]]}
  /\ nxt' = [nxt EXCEPT ![q] = @ + 1]
  /\ Go(q, IF nxt[q] = Len(Repos(q)) THEN "aliases" ELSE "begin")
  /\ UNCHANGED <<selected, page, rhsm, aliases, found, skipped, lists, done,
                 refused>>

Mut_GetRepoAliases(q) ==
  /\ at[q] = "aliases"
  /\ aliases' = [aliases EXCEPT ![q] = enabled]
  /\ Go(q, "search")
  /\ UNCHANGED <<selected, page, rhsm, enabled, nxt, found, skipped, lists,
                 done, refused>>

\* zypper repos lists the disabled repositories too.
GetRepoAliases(q) ==
  /\ at[q] = "aliases"
  /\ aliases' = [aliases EXCEPT ![q] = HostRepos]
  /\ Go(q, "search")
  /\ UNCHANGED <<selected, page, rhsm, enabled, nxt, found, skipped, lists,
                 done, refused>>

\* zypper search: whatever repository is enabled, of this release or another.
ZypperSearch(q) ==
  /\ at[q] = "search"
  /\ q.distro = "sles"
  /\ found' = [found EXCEPT ![q] = UNION {Read(src) : src \in enabled}]
  /\ Go(q, "parse")
  /\ UNCHANGED <<selected, page, rhsm, enabled, nxt, aliases, skipped, lists,
                 done, refused>>

\* Debian, CentOS, Oracle, Fedora: one page after the other; Amazon: repoquery.
ReadRepo(q) ==
  /\ at[q] = "begin"
  /\ q.distro \notin {"rhel", "sles"}
  /\ ~NoARM(q)
  /\ found' = [found EXCEPT ![q] = @ \cup Read(Repos(q)[nxt[q]])]
  /\ nxt' = [nxt EXCEPT ![q] = @ + 1]
  /\ Go(q, IF nxt[q] = Len(Repos(q)) THEN "parse" ELSE "begin")
  /\ UNCHANGED <<selected, page, rhsm, enabled, aliases, skipped, lists, done,
                 refused>>

\* Fedora logs a page that it cannot get and goes on.
SkipRepo(q) ==
  /\ at[q] = "begin"
  /\ q.distro = "fedora"
  /\ ~NoARM(q)
  /\ skipped' = [skipped EXCEPT ![q] = @ \cup {Repos(q)[nxt[q]]}]
  /\ nxt' = [nxt EXCEPT ![q] = @ + 1]
  /\ Go(q, IF nxt[q] = Len(Repos(q)) THEN "parse" ELSE "begin")
  /\ UNCHANGED <<selected, page, rhsm, enabled, aliases, found, lists, done,
                 refused>>

\* A SUSE kernel of a repository that has no alias.
UnknownRepo(q) ==
  q.distro = "sles" /\ \E f \in found[q] : IsZypperKernel(q, f) /\ f.from \notin aliases[q]

\* Any other query that fails or is cancelled fails the producer, and so does an
\* answer that cannot be parsed.
QueryFails(q) ==
  /\ at[q] \in {"begin", "aliases", "search"} \/ (at[q] = "parse" /\ UnknownRepo(q))
  /\ q.distro # "fedora"
  /\ Go(q, "failed")
  /\ UNCHANGED <<selected, page, rhsm, enabled, nxt, aliases, found, skipped,
                 lists, done, refused>>

\* The list is filtered and sorted; SUSE has one for each flavour.
ListKernels(q) ==
  /\ at[q] = "parse"
  /\ ~UnknownRepo(q)
  /\ LET ks == Kernels(q, found[q])
         flavors == {f.entry.flavor : f \in ks}
         Of(fl) == {f \in ks : f.entry.flavor = fl}
     IN  /\ \E ls \in [flavors -> UNION {Sorted(Of(fl)) : fl \in flavors}] :
              /\ \A fl \in flavors : ls[fl] \in Sorted(Of(fl))
              /\ lists' = [lists EXCEPT ![q] = ls]
         /\ done' = [done EXCEPT ![q] = [fl \in flavors |-> 0]]
  /\ Go(q, "listed")
  /\ UNCHANGED <<selected, page, rhsm, enabled, nxt, aliases, found, skipped,
                 refused>>

\* What can be downloaded now: yumdownloader sees what yum sees, zypper what is
\* enabled; a package of the other distributions has a URL of its own.
Offered(q) ==
  CASE q.distro = "rhel" -> ToSet(page[<<"rhel", rhsm>>])
    [] q.distro = "sles" -> UNION {ToSet(page[src]) : src \in enabled}
    [] OTHER -> {f.entry : f \in found[q]}

NextOf(q, fl) == lists[q][fl][done[q][fl] + 1].entry

DownloadPackage(q, fl) ==
  /\ at[q] = "listed"
  /\ done[q][fl] < Len(lists[q][fl])
  /\ NextOf(q, fl) \in Offered(q)
  /\ done' = [done EXCEPT ![q][fl] = @ + 1]
  /\ UNCHANGED <<selected, page, rhsm, enabled, at, nxt, aliases, found,
                 skipped, lists, refused>>

\* It is not there. The loop of RHEL returns the error, the loops of SUSE log it.
DownloadRefused(q, fl) ==
  /\ at[q] = "listed"
  /\ done[q][fl] < Len(lists[q][fl])
  /\ NextOf(q, fl) \notin Offered(q)
  /\ refused' = refused \cup {<<q, NextOf(q, fl)>>}
  /\ done' = [done EXCEPT ![q][fl] = @ + 1]
  /\ Go(q, IF q.distro = "rhel" THEN "failed" ELSE "listed")
  /\ UNCHANGED <<selected, page, rhsm, enabled, nxt, aliases, found, skipped,
                 lists>>

ProducerStep(q) ==
  \/ NoPackages(q)
  \/ SetRelease(q) \/ YumSearch(q)
  \/ EnableRepo(q) \/ GetRepoAliases(q) \/ ZypperSearch(q)
  \/ ReadRepo(q) \/ SkipRepo(q)
  \/ QueryFails(q)
  \/ ListKernels(q)
  \/ \E fl \in DOMAIN lists[q] : DownloadPackage(q, fl) \/ DownloadRefused(q, fl)

Next == \E q \in selected : ProducerStep(q)

Spec == Init /\ [][Next]_vars
-----------------------------------------------------------------------------
(* The premise of the theorem that no kernel is missed *)

\* No SUSE producer collects arm64: its test would never find what zypper calls
\* aarch64.
ZypperNames ==
  \A sel \in Selections : \A q \in sel : q.distro = "sles" => q.arch = AltArch(q)

-----------------------------------------------------------------------------
(* Properties *)

\* No other producer of the run sets the release that q's yum works under.
Undisturbed(q) ==
  q.distro = "rhel" => \A r \in selected : ReleaseVersion(r) = ReleaseVersion(q)

\* Of an entry of q's own repositories: what somebody who collects the kernels of
\* q's release and architecture wants.
Wanted(q, e) ==
  /\ e.kind = "debug" \/ (e.kind = "uek" /\ q.distro = "ol")
  /\ e.arch = AltArch(q)
  /\ e.flavor # "preempt"
  /\ ~TooOld(q, e)

\* The positions of q's lists, and the entry at one of them.
Positions(q) == UNION {{fl} \X DOMAIN lists[q][fl] : fl \in DOMAIN lists[q]}
ListedAt(q, pos) == lists[q][pos[1]][pos[2]]

\* However many producers query the host at the same time and whatever they
\* enable meanwhile: a kernel that q's own repositories offer is in its lists,
\* unless the failure to read its repository was logged.
NoKernelMissed ==
  \A q \in selected : at[q] = "listed" /\ ~NoARM(q) /\ Undisturbed(q) =>
    \A src \in ToSet(Repos(q)) \ skipped[q] : \A e \in ToSet(page[src]) :
      Wanted(q, e) => \E pos \in Positions(q) :
        ListedAt(q, pos).from = src /\ ListedAt(q, pos).entry = e

\* What the host answers is about q's release and for q alone: yum answers for the
\* one release that is set and one architecture, repoquery for one release,
\* zypper for all repositories that this run or an earlier one has enabled.
OwnHost(q) ==
  /\ q.distro = "rhel" => selected = {q}
  /\ q.distro = "amzn" => \A r \in selected : r.release = q.release
  /\ q.distro = "sles" => \A src \in enabled : src[2] = q.release

\* A line of an answer is made into BTF once, in the directory of its release and
\* architecture, although the two architectures of a release read one page (Oracle)
\* or ask one package manager (Amazon, SUSE), each with a filter of its own: where
\* the host answers for q alone, q lists kernels of its release, and no other
\* producer of the run lists one of them. Two that do also share a download in
\* zypper's cache, which whoever is first removes.
OneDirectory ==
  \A q \in selected : OwnHost(q) => \A pos \in Positions(q) :
    /\ ListedAt(q, pos).from[2] = Repo(q, 1)[2]
    /\ \A r \in selected \ {q} : \A other \in Positions(r) :
         ListedAt(r, other) # ListedAt(q, pos)

\* "so kernels can be skipped if previous has BTF already" (oracle.go, centos.go):
\* behind a kernel of a list there is none with a lower number in the first place
\* where their versions differ.
LaterIsNewer ==
  \A q \in selected : \A pos, other \in Positions(q) :
    pos[1] = other[1] /\ pos[2] < other[2] =>
      LET v == SplitIntoInts(ListedAt(q, pos).entry.version)
          w == SplitIntoInts(ListedAt(q, other).entry.version)
      IN  \A x \in DOMAIN v \cap DOMAIN w :
            v[x] > w[x] => \E y \in 1 .. x - 1 : v[y] < w[y]

\* RHEL and Amazon, whose package managers repeat what several of the host's
\* repositories have, list a package once. The loops of both use the files of
\* a name without looking at what another job does to them.
OnePackagePerName ==
  \A q \in selected : q.distro \in {"rhel", "amzn"} =>
    \A pos, other \in Positions(q) :
      ListedAt(q, pos).entry = ListedAt(q, other).entry => pos = other

\* The aliases that a SUSE producer has read are still those of every repository it
\* then finds kernels in, although other producers enable repositories between.
AliasesSuffice == \A q \in selected : at[q] = "parse" => ~UnknownRepo(q)

\* What was listed can still be downloaded, although the other producers set up
\* the host for their own releases meanwhile.
StaysOffered == \A rf \in refused : ~Undisturbed(rf[1])

\* main.go: "workDir example: ./archive/ubuntu/focal/x86_64": a producer collects
\* the kernels of its own release, in the directory of that release.
OwnRelease ==
  \A q \in selected : \A pos \in Positions(q) :
    ListedAt(q, pos).from \in ToSet(Repos(q))
=============================================================================
