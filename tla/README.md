# TLA+ specifications of btfhub

btfhub walks the kernel packages of eight Linux distributions, extracts the
`vmlinux` file of every kernel that has no `.BTF` section of its own, has
`pahole` generate BTF from it, and leaves one `<name>.btf.tar.xz` per kernel in
an archive directory, or an empty `<name>.hasbtf` marker for the first kernel
that does have BTF. `tools/btfgen.sh` turns that archive into tailored BTF files.

The specifications model the program's control: goroutines, channels,
cancellation, the files it creates, tests for and removes, the ways a process
can end, and what a later start makes of what it finds. Package formats, HTTP
and ELF are abstracted to the outcomes that the code distinguishes.

## 1. Inventory

| Component | State | Operations | Talks to |
|---|---|---|---|
| `cmd/btfhub/main.go` | two errgroups, root and producer contexts, `jobChan` | start workers and producers, close the channel, wait, exit | workers by `jobChan`; producers by context |
| `pkg/job/worker.go` | the job in execution | receive, run, return | jobs |
| `pkg/repo/*.go`: `GetKernelPackages`, `processPackage` | list of packages, loop position, reply channel | list, loop, skip, order extraction, wait, inspect, mark, order BTF | workers by channels, jobs by files |
| `pkg/job/extract.go`, `pkg/job/btf.go` | files of the work directory | download, extract, reply; pahole, tar, clean up | external tools |
| archive directory (`pkg/pkg/package.go`, `pkg/utils`) | `.hasbtf`, `.btf`, `.tar.xz`, vmlinux and package files | test, create, remove | every later start, the publishing workflow |
| `pkg/pkg/*.go`, `pkg/utils/{download,rpm,zypper}.go` | package files, zypper's mutex and cache | download, extract | HTTP, yum, zypper, pull-lp-ddebs |
| `pkg/pkg/utils.go` `ParseAPTPackages`, `pkg/repo/ubuntu.go` | lists and maps of packages | parse, select, merge two lists, group by flavour, sort | the package loop |
| `pkg/kernel` | none | `splitIntoInts`, `Less` | sorting of every listing |
| RPM, HTML and Debian listings (`repo/utils.go`, `amazon.go`, `suse.go`, `centos.go`, ...) | lists of packages | parse, filter, de-duplicate, sort | the package loop |
| `repo/rhel.go`, `repo/suse.go`, `utils/zypper.go` | the host's release setting and enabled repositories | set, search, download | other producers |
| `tools/btfgen.sh` | job counters, working directory, `custom-archive` | start a job, `wait -n`, extract, move, bpftool, remove | parallel jobs by the working directory |
| `tools/archive-sparse-checkout.sh`, `Makefile` (bring, take) | pattern file; rsync | incremental, exclude, apply | git, the archive |

What is hard in this code, and what makes each part correct:

* **Channels and cancellation.** A package loop sends a job, waits for its reply
  *outside* a `select`, and sends a second job it does not wait for. SIGINT and
  the first error of any producer cancel different contexts: workers see the
  root context, loops the producers'. No reply may be lost, nobody may send on
  the closed channel, and the program must end in every case.
* **Files under their final names.** Nothing is written to a temporary name, so
  existence is the only progress record, `log.Fatal` does not wait for BTF jobs,
  and the next start trusts what it finds. Inputs must stay until they are
  used, a clean exit must mean that every kernel is covered, and a published
  entry must stay.
* **Skipping.** The first kernel with BTF ends a loop. That is right only if the
  list is in version order and everything behind it has BTF.
* **Listings.** Two lists, visited in map order, merged by file name: no kernel
  may be lost or listed twice.
* **Producers share the host.** `subscription-manager` has one release set and zypper
  one set of enabled repositories, while each producer's search and downloads are
  separate commands. A list must be complete, hold what belongs in its directory, and stay
  downloadable whatever the others do between two commands.
* **Parallel shell jobs** share a working directory, and a signal may come while one is
  being started.
* **A sequence of calls of one script.** The sparse checkout script keeps its state in git's pattern
  file and checks almost none of its commands: each call must add to, or start anew,
  what the calls before it have left.

`PROJECT.json` lists every hazard at its line with the properties that cover it.

## 2. Modules

| Module | Models | Checked by | Proved in |
|---|---|---|---|
| `WorkerPool` | `run()`, workers, producers, loops, channels, cancellation, restart | `MCWorkerPool` | `WorkerPoolProofs` |
| `BtfHub` (extends `WorkerPool`) | the same with the jobs' steps and their files | `MCBtfHub`, `MCOneLoop` | `BtfHubProofs`, `ArchiveProofs` |
| `Archive` | the abstract promise: what an archive user sees of an entry, with and without `-f` | property of `MCRestart` | `ArchiveProofs` |
| `KernelVersion` | `splitIntoInts`, `Less` | through the two listings | `KernelVersionProofs` |
| `UbuntuListing` (extends `KernelVersion`) | the APT parser and Ubuntu's `GetKernelPackages` up to its loops | `MCUbuntuListing` | `UbuntuListingProofs` |
| `RepoListing` (extends `KernelVersion`) | `GetKernelPackages` of the other seven distributions up to their loops, with what their producers share on the host | `MCRepoListing` | `RepoListingProofs` |
| `BtfGen` | `tools/btfgen.sh` | `MCBtfGen` | `BtfGenProofs` |
| `SparseCheckout` | `tools/archive-sparse-checkout.sh` | `MCSparseCheckout` | `SparseCheckoutProofs` |

How they fit together: `BtfHub` refines `WorkerPool` (proved) and `Archive` (proved where packages have
file names of their own, section 4). Its step
`ListPackages` is what `UbuntuListing` and `RepoListing` model in full: their results, sorted
lists without repeated files, are the `Queue` of `BtfHub`. `BtfGen` and
`SparseCheckout` are separate programs that meet the others only in the archive directory.

### WorkerPool

`main` is where `run()` is: `producing` is `produce.Wait()`, `closed` is after
`close(jobChan)`, and `ok`, `fatal`, `killed` are the ways the process ends.
`interrupted` is the root context. `repo[p]` is a producer goroutine, `pc[s]` and
`nxt[s]` a package loop (*slice*: one per flavour for Ubuntu and SUSE, one per
producer otherwise), and `wst`, `wsl`, `wpk` a worker and its job. An unbuffered
channel is a joint step of the two sides: `SendExtraction(s, w)` and
`SendBTF(s, w)` on `jobChan`, `ReplyPath(w)` and `ReplyError(w)` on the reply
channel. A `select` with two ready cases is two enabled actions.

The differences between distributions that matter are kept: `Strict` loops (RHEL, Amazon)
return on any package error, the others log it and go on, except that a
cancelled context ends them (`PackageError`, `SendCancelled`). What a job or a
file test yields is left open here; each outcome is an action.

### BtfHub

Every action of `BtfHub` is an action of `WorkerPool` together with its effect on
the files, or a step inside a job. `disk` maps a path to `absent`, `partial`
(somebody writes it), `torn` (incomplete and its writer is gone) or `full`.
`writing[w]` is the file a worker has open; it becomes `NoFile` when somebody
removes the path, since the writer then goes on with an unlinked file.
`stage[w]` is how far the job is. `failed` is a history variable: the packages for
which this run reported an error. `DownloadName`, `VmlinuxName` and `BTFName`
are functions from packages to names, since the code computes them separately
and SUSE's BTF file name drops the build counter that the other names have.

Details that the actions carry over from the code: the marker is tested before
and without `-f`; a failed download removes the package file, a failed extraction
removes the vmlinux file and keeps the package file; a failed pahole removes the
BTF file, a failed tar the tarball; only a successful BTF job removes its inputs;
creating the marker may fail silently; `tar` truncates the tarball before it
looks at its input. `force` is the flag `-f`, chosen anew at every start and constant while the
program runs: `HubStep` is a step of the running program, `StartAgain` the next start.

### Archive

An entry is `none`, `incomplete`, `published` or `native`. `published` and `native`
are final, but for `Redo`: a run with `-f` makes a published tarball again, and may fail
to. A marker is final even then: `processPackage` tests it before `-f`, although the
help of `-f` says "regardless of existing files" (`main.go:57`). `BtfHub` implements
`Archive` under the mapping `entry`: what the marker and tarball paths of a package show.

### UbuntuListing and KernelVersion

Lists are sequences of stanzas of lines (`ListsAssumption`). The scanner is at a line of a stanza:
`ParseLine` sets a field of `pkg`, `EndPackage` is the blank line behind a stanza, `EndList` the code
behind the loop, `ListFails` a download or a scanner error. `URLs` are the values of Filename lines,
of which none is the word that stands for Launchpad. A name is the part of it that the regular
expressions tell apart. `SelectKernels` and `SelectDebug` take the kernel types in either order (Go map
iteration). `filteredKernelPkgs` is a list in the code, of which the later loop uses the first package of each
file name; the model keeps just these, by name. `Sorted` is every order that an unstable sort may leave. `SplitIntoInts` and `Less` are
pure operators over tokens; the three facts of `kernel_test.go` are an assumption of
`MCUbuntuListing` that TLC evaluates. The filter that drops kernels with a
tarball while listing is the same test that `SkipPublished` repeats later.

### RepoListing

A source is what one query reads; its content is a sequence of `Entries`, which stand for
the lines or links of the answer. What a producer has `found` is a set of lines, each with its source and
place: the order in which they were read is lost, since the sort that follows is not stable and
de-duplication keeps one of equal names. A producer goes from source to source
(`ReadRepo`, `SkipRepo`), or sets up the host and searches it (`SetRelease`, `YumSearch`;
`EnableRepo`, `GetRepoAliases`, `ZypperSearch`), parses what it found and has its lists
(`ListKernels`); then it downloads them (`DownloadPackage`, `DownloadRefused`). `zypper search` answers
for every enabled repository, the producer's own or not, and so `ZypperSearch` does. `rhsm` and
`enabled` belong to the host and all producers change them. A command is one step: the
release is read once by a `yum` process, and `RunZypperCMD` holds a mutex. `skipped` and
`refused` are history variables. A selection is of one distribution: RHEL, SUSE and Amazon are
never in the default set, and those that are share nothing.

`Wanted` are the entries of a producer's own repositories that its list must have; a list may have
others (below). Two premises say when the host's answers are about the producer that asks:

* `Undisturbed(q)`, for RHEL in `NoKernelMissed` and `StaysOffered`: no producer of this run sets another
  release. It always holds for the other distributions, and for RHEL when `-r` and `-a` are given.
* `OwnHost(q)` in `OneDirectory`: `q` is RHEL's only producer; Amazon's producers are of one release; only
  repositories of `q`'s release are enabled for zypper. CentOS, Fedora, Oracle and Debian ask nobody on the host.

Without them a producer lists kernels of another release. `MCRhelRelease` shows it for RHEL, section 3
says what SUSE and Amazon do.

### BtfGen

`main`, `todo`, `job_count`, `completed_jobs`, `failed_jobs` are the script's
variables; `job[f]` is the background process of a tarball; `workdir[n]` says whose
data the file `./n` of the shared working directory holds, and `custom[f]` whose
data the tailored file of tarball `f` was made from. `find` may list any subset
of the tarballs, in any order. `mv` is one step, as if the temporary directory were on
the file system of the working directory: a copying `mv` adds states only to the
case of shared names, which is already wrong. The script checks neither `mkdir` nor `mv`: for the
tarballs in `Unmovable` the job may go on to bpftool without having moved its file (`MoveFails`), and without
the output directory `GenerateFails`. On a signal (`Signal`) the script kills
the jobs in `background_pids`. A job is a subshell that waits for one command; the subshell
dies (`KillJob`), the command does not and still has its effect or not
(`LastCommand`). A job started but not noted yet is not killed. `rm` of the working directory's BTF files
uses a path relative to where the script was called and may miss them (`ExitCtrlC`).

### SparseCheckout

A call goes through the script's steps: clone, clear, one `tee` per pattern, reapply, reset. `Lines` is
what it will write and with which flag; a plain `tee` overwrites the file. `Selected`
is git's reading of the file: the last pattern that matches decides (`SelectedBy`). `Words` are the values of DISTRO,
ARCH and VERSION and of the parts of a path; that DISTRO and ARCH are never empty (`CallsAssumption`)
is the script's default `*`. The history
variable `want` is what the calls so far ask for, in the words of the script's usage text
(`Asked`), and `intact` whether no call that changes the file was cut short or failed to clone since the
file was last started anew. A release pattern of `--help`'s examples, `VERSION="5.4.0*"`, matches
the release directory and not the kernel version in the file name: it
selects nothing, which the models show by `kernel` being a field of its own.

## 3. Runs

Runs that must find no error:

| Run | Instance | Shows |
|---|---|---|
| `MCWorkerPool` | 2 producers (one with two loops, one strict), 3 loops of 2, 1 and 1 packages, 2 workers, 2 starts | replies match, the closed channel is quiet, exit status 0 means what it says; the program always ends |
| `MCBtfHub` | 2 producers with disjoint packages (2 and 1), 2 workers, 1 start | partial files have a writer; a clean first run leaves no intermediate file; the program with its files always ends |
| `MCRestart` | 1 loop of 3 packages, the last with BTF, 2 workers, 2 starts, each with or without `-f` | inputs are kept, kernels are covered, `Archive` is implemented |
| `MCUbuntuListing` | all pairs of lists of up to 2 stanzas out of 8 and 6, with or without `-f` and an existing tarball | no kernel lost, one entry per file name, version order |
| `MCRepoListing` | per distribution, all contents of its sources of up to 2 entries (1 for SUSE and Debian) out of 3 or 4; one or two producers at a time | no wanted kernel missed; a kernel goes to one directory, that of its release, where the host answers for one producer; version order; no repetition from yum and repoquery; aliases known; listed packages stay downloadable |
| `MCBtfGen` | 3 tarballs with distinct names, 2 jobs, a signal at any time | job counting, outputs, what survives a signal, termination |
| `MCSparseCheckout` | 9 kinds of calls over 16 files of 2 distributions, 2 releases and 2 architectures, up to 5 patterns | after any sequence of calls the file selects, and the tree holds, what they asked for |

Runs whose single property states what a comment, a flag's help or a document says,
and which TLC refutes (the `findings` of `PROJECT.json` quote the lines):

| Run | Refuted | What the code does |
|---|---|---|
| `MCWorkerPoolOneCPU` | `Termination` | one CPU and no `-workers` start no worker: the program waits for ever |
| `MCTornTarball` | `CoveredWhole` | an incomplete tarball of a process that ended early counts as published |
| `MCSharedNames` | `SuccessIsKept` | two jobs with one BTF file name: a failure removes the other's tarball |
| `MCRhelRelease` | `OwnRelease` | a producer lists the kernels of the release that another one has set: in the trace release 8's lists 7.9's |
| `MCBtfGenShared` | `OutputIsTailored` | two jobs with one BTF file name: exit status 0 with a file made from the other's data |

A torn *vmlinux* file has the same root cause as a torn tarball
(`pkg/job/extract.go:30`). It is not a separate run: the package then fails,
loudly, in every later start without `-f`. `OwnRelease` fails for SUSE too, for a reason of its own:
`zypper search` (`suse.go:75`) answers for all enabled repositories, and `parseZypperPackages`
(`suse.go:157-200`) has no filter on the release. As soon as another producer has enabled 15.4's
repositories, or an earlier run has, which nothing undoes, the producer of 15.3 lists 15.4's kernels into
`archive/sles/15.3`, contrary to the `workDir` example of `main.go:148`; with `-d sles` each producer lists what all have enabled
by then. Amazon's producers of releases 1 and 2 both ask the host, whatever release it has, and fill both directories with
the same kernels. `MCRhelRelease`, whose property it is, shows the case of RHEL; the instances of
`MCRepoListing` contain that of SUSE, where `OwnHost` is false. Two SUSE producers that list one package
also share its download in `/var/cache/zypp/packages` (`suse.go:196`), which the job of the one removes
under the other's; `DistinctNames` leaves that out.

Four more differences have no run, since each
is one line and no interleaving is needed to see it: the marker that `-f` does not
override (above); yum's answers, which are for the host's architecture whatever `-a` says
(RHEL's instances are of an x86_64 host that collects x86_64); Oracle's UEK kernels, listed by `docs/supported-distros.md:109` without BTF, that
are skipped because they sort behind RHCK kernels that have it (that every later kernel has BTF is a fact
about kernels that no property here covers); and SUSE's arm64 producer, whose lists are empty since `suse.go:170` compares zypper's
`aarch64` with `arm64`, or which fails already when it enables repositories with `arm64` in their names.

### Bounds

* `MaxRuns` is 1 or 2. What one start leaves for the next is a set of file states,
  and one start already produces each (absent, torn, full, every combination of
  files of a package); a third start finds nothing that the second did not.
* Two workers and two or three loops let two jobs run at once, a job of each kind
  run together, and a job wait because every worker is busy. Three packages per
  loop let the job of an earlier package run beside two later steps of the loop; in
  `MCRestart` the last one has BTF, so that two must be covered. `MCOneLoop` has one producer:
  a second one's failure ends the process at any step, which leaves the same files as `Kill`.
* Lists of up to two stanzas cover each pair of stanzas that can interact: repeated,
  signed and unsigned, incomplete before complete, small and large.
* `MCPages` gives every source every sequence of up to `MaxEntries` entries: two entries
  of one source, or of two, are enough for any pair to be repeated, out of order or filtered
  apart. Oracle's and Amazon's pairs of producers are of two architectures that read one page. `EnabledBefore` lets an earlier run have enabled a repository of another release. Two
  producers are enough for one to come between two steps of another.
* `MaxPatterns` ends a sequence of calls: no call begins that would make the file longer than five
  lines. Calls that start the file anew are always possible, so sequences stay unbounded
  in length; four lines are what the largest call writes.
* Two parallel jobs for three tarballs let the script reach its limit and wait in both
  of its loops. Every `mv` may fail in `MCBtfGen`; none does in `MCBtfGenShared`, whose error needs no failure.
* Deadlock checking is off where the program ends (`CHECK_DEADLOCK FALSE`); that it ends
  at all is `Termination` and `AllFilesDone`, not the deadlock check.

### Fairness

`PoolFairness` is weak fairness of every producer, loop, worker and of `run()`
itself: the Go scheduler runs every goroutine that can run, a channel operation
whose other side waits completes, and the external calls return. The last is an
assumption about tools and servers: `http.DefaultClient` has no timeout, so a server
that stalls for ever stops a worker until SIGINT. Signals and restarts are not
fair. Weak fairness suffices because a loop's choice between jobs is never taken away
by others for ever: workers return to `select` after each job. `HubFairness` states the
same of the actions with their files. `BtfGen` assumes
weak fairness of the shell and of every background job.

## 4. Proofs

All theorems hold for every value of the constants: any number of workers, producers,
loops, packages and starts, of tarballs and parallel jobs, any contents of lists and pages, any sequence
of calls. They rest only on the assumptions on the constants (`PoolAssumption`, `NoneAssumption`,
`FileAssumption`, `BtfGenAssumption`, `ListsAssumption`, `SelectionAssumption`, `PagesAssumption`,
`CallsAssumption`), which every run of their modules evaluates, and some on premises that the
theorem names: `DistinctNames` and `ListedOnce` of `BtfHub` and `ZypperNames` of
`RepoListing`, evaluated by their runs as `MCPremises`, and `DistinctNames` of `BtfGenProofs`.

* **WorkerPoolProofs.** The safety properties are not inductive alone: that the
  channel is quiet after `close` depends on what the producers that returned say of their
  loops. `PoolInv` adds `Lifecycle` (a loop has not begun before its producer has a
  list and has ended when it returned; once the channel is closed, every producer
  has) and `OkSeen` (what `consume.Wait()` saw) to `PoolTypeOK` and `ReplyMatched`. One lemma
  per group of actions shows that it is kept (`ProducerInv`, `SliceInv`,
  `WorkerInv`, `ProcessInv`). `ClosedIsQuiet` follows from `Lifecycle` and
  `ReplyMatched`: no loop waits, so no extraction job runs. `TypeCorrect`,
  `RepliesMatch`, `QuietWhenClosed` and `OkIsComplete` are the results.
* **BtfHubProofs.** `Implementation`: every step of `BtfHub` is a step of `WorkerPool` or
  leaves its variables alone, so `PoolInherited` transfers the pool's
  properties. `UnfinishedIsWritten` proves `IncompleteIsWritten` for *any* names,
  shared ones included, from `FileInv`, which adds which file a worker has open at
  which stage, that only a worker with a job is past a start, and that a dead
  process has no open file. `HubTypeCorrect` is the type invariant; `ForceIsFlag` is the
  part of it that the pool does not know.
* **ArchiveProofs.** `InputsStay`, `ArchiveImplemented`, `ExitCovers` and `NothingLeft` have two
  premises. `DistinctNames`: no two packages share a file name. `ListedOnce`: a package has one place in one list.
  A producer's files are in a directory of its own, but for SUSE's downloads: they share
  zypper's cache, so there the premise also says that no two producers list one package (`OneDirectory`). Within a directory `FilesAreDistinct` (Ubuntu) and
  `NamesAreUnique` (yum, repoquery) are what the listings contribute; pages of links must not repeat a
  name themselves. SUSE's BTF names may break the first premise, and `MCSharedNames` shows that the
  conclusions then fail. The argument goes from who is at a package to what its files are:
  `JobPackages` says that an extraction job is for the package its loop waits for, a BTF job for one
  its loop has left, and that no package has two; so nobody else removes or truncates
  what a job needs, and `FilesInHand` (what is there at every stage of a job and position of a loop, with
  `EntryFits`: a native kernel never gets a tarball, another never a marker) is inductive. The
  refinement follows step by step: `EntryMoves` says that a step changes the entry of a package in one
  of `Archive`'s ways. `CoverInv` says that what a loop has left behind is handled or in a BTF job;
  `InHand` that in a first run every intermediate file belongs to whoever is at its package, or to a
  failed one. Their conclusions are `Covered` and `NoLeftovers` when no job is left.
* **KernelVersionProofs.** `Less` on the numbers is a strict total order
  (`LessIrreflexive`, `LessTransitive`, `LessTotal`), so `sort.Sort` is given an order and
  packages that compare equal have equal leading numbers. `SplitIsSequence`: `splitIntoInts` finds such
  numbers in any version.
* **UbuntuListingProofs.** `UbuntuInv` follows the data: `ScanInv` (the package being read is what the lines
  of its stanza so far make it), `ParsedInv` (what is saved is what the stanzas behind the scanner
  describe), `MapInv` (each map has one package for each kernel of the types visited so far, in either order) and
  `SliceInv`. `WantedIsMatched` relates the parser's field-by-field result to `Wanted`, which is
  stated on stanzas. `EveryKernelListed`, `FilesAreDistinct` and `SlicesAreOrdered` follow, the last
  from the order of versions: behind a kernel whose number is greater at some place there is an earlier place
  where it is smaller.
* **RepoListingProofs.** `RepoInv` says of each producer where it is and what it may rely on while others
  change the host: repositories are only ever enabled, aliases are those of all the host's
  repositories, the release is that of some RHEL producer (`PlaceInv`); what it has found is of its own
  sources where the release is undisturbed, and complete (`FoundInv`, `ReadInv`); its lists are the wanted
  kernels among it (`ListInv`). `AliasesAreKnown`, `ListedStaysOffered`, `NamesAreUnique`,
  `KernelsHaveOneDirectory` and `ListsAreOrdered` need no premise beyond those that the properties
  state of a producer. The fourth is by distribution: from a kernel's source and the
  architecture that its filter compared follow the release and architecture of whoever lists it, so two
  producers with one kernel are the same (`SameProducer`). `AllKernelsListed` needs `ZypperNames` (no arm64 producer of
  SUSE), which excludes what the code does wrong, see section 3.
* **SparseCheckoutProofs.** `SparseInv` says of every step inside a call what the file will select once the lines
  still to write are written (`PromiseInv`), which of them overwrite the file (`AppendInv`), and what the working
  tree holds after each command (`TreeInv`). That the last matching line decides is stated without recursion
  (`SelectedBy`), so appending a line changes the selection by the paths it names, and
  no induction over the file is needed. `SelectionCorrect` and `TreeCorrect` follow for any
  sequence of calls.
* **BtfGenProofs.** Nothing in the state says how many jobs run, so `OneJobPerSlot` is proved
  with sets: `Counted` relates each counter to the cardinality of the jobs it stands for at
  every place of the main loop (one less between `&` and the line that counts it), and
  `Noted` says that the only job whose process is not noted is the one just
  started. `CountInv`, these two and the types, is inductive, one lemma per step; `TypeIsCorrect`,
  `SlotsAreCounted` and `SignalReachesJobs` follow. `OutputsAreTailored` has the premise
  `DistinctNames`, without which `MCBtfGenShared` refutes it: `Tailored`
  says that a file in the working directory has its own job's data and that this job has still
  to remove it, so no step of one job disturbs the file of another.

Only model-checked: liveness (`Termination`, `AllFilesDone`), since liveness under
fairness is outside the proof system's reach. Every other property of a passing run is a theorem.

## 5. Not modelled, and assumptions

* The Makefile's rsync targets, the CI workflows and the build scripts have no state of
  their own. Progress reporting is logging. The flags of `main.go:72-97` only select the
  producers; `RepoListing` takes the selection as a constant.
* What a line or a link looks like: entries are records, and a line that fits no entry is
  ignored by all the parsers. `GetLinks` finds only the last of several links on a line, which no page has.
* The repositories that a host defines for other distributions' use of yum, and what a
  `yum` cache would add.
* `yumdownloader`, `zypper` and `pull-lp-ddebs` are a download that fills its path, as
  `DownloadFile` does. `.failed` files appear in comments, but no code writes or
  reads them.
* Tools that run when the process ends are taken to have finished before it or to have
  left a torn file. They may in fact go on for a moment after `log.Fatal`.
* The archive starts empty; archives that earlier starts left are the states of a second
  start.
* What `wait -n` reaps in `btfgen.sh` is any job that exited. A second signal during the trap is
  left out.

## 6. Plan

Done: every component with state has a module, and every safety property that the runs check is
proved. What is left:

1. The premises of `ArchiveProofs` as theorems of the listings. `OnePackagePerName` and `OneDirectory` are
   the part of them that does not depend on file names; that the names of different entries of
   one list differ needs a model of each distribution's naming.
2. The decreasing measures behind `Termination` and `AllFilesDone` as action properties (a
   package loop never goes back, a job never repeats a stage), the part of liveness that can be proved.
3. Not planned: liveness itself, which stays with TLC.

## 7. Running

    tlc -workers 2 -config MCWorkerPool.cfg MCWorkerPool
    tlc -workers 2 -config MCRestart.cfg MCOneLoop
    tlc -workers 2 -config MCRepoListing.cfg MCRepoListing
    tlapm WorkerPoolProofs.tla        # and BtfHubProofs, ArchiveProofs, KernelVersionProofs,
    tlapm UbuntuListingProofs.tla     # RepoListingProofs, BtfGenProofs, SparseCheckoutProofs

Each `.cfg` has the name of its run, and `PROJECT.json` maps runs to modules, properties to the
mutated definitions that break them, and definitions to source lines.
