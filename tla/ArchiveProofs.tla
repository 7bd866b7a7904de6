----------------------------- MODULE ArchiveProofs -----------------------------
(***************************************************************************)
(* What BtfHub does to the archive, when no two packages share a file name  *)
(* and a package is in one place of one list: inputs stay until they are    *)
(* used, a clean exit covers every kernel and leaves nothing else behind,   *)
(* and the program implements Archive. The listings give such packages      *)
(* (OneEntryPerFile, OnePackagePerName) in directories of each producer, so *)
(* this is about all but SUSE, whose BTF file names may repeat in a list,   *)
(* see the run MCSharedNames, and whose producers share zypper's cache.     *)
(***************************************************************************)
EXTENDS BtfHubProofs

-----------------------------------------------------------------------------
(* Whose package is whose *)

\* An extraction job is for the package its loop is at, a BTF job for one the loop
\* has left behind, and there are no two BTF jobs for one package.
JobPackages ==
  /\ \A w \in Workers : wst[w] = "extract" => wpk[w] = At(wsl[w])
  /\ \A w \in Workers : wst[w] = "btf" =>
       \E s \in Slices : \E i \in DOMAIN Queue[s] : i < nxt[s] /\ wpk[w] = Queue[s][i]
  /\ \A v, w \in Workers :
       wst[v] = "btf" /\ wst[w] = "btf" /\ wpk[v] = wpk[w] => v = w

\* The loops of a producer that has its list have begun.
LoopsBegun == \A s \in Slices : repo[Owner[s]] \in {"running", "ok"} => pc[s] # "off"

-----------------------------------------------------------------------------
(* The files of a package *)

\* A job past its start has the file open that it is writing, what it needs is
\* there, and what it has made is whole.
JobFiles(w) ==
  /\ wst[w] = "extract" =>
       /\ stage[w] \in {"start", "download", "downloaded", "extract", "extracted"}
       /\ stage[w] = "download" => writing[w] = Download(wpk[w])
       /\ stage[w] = "extract" => writing[w] = Vmlinux(wpk[w])
       /\ stage[w] \in {"downloaded", "extract", "extracted"} => Exists(Download(wpk[w]))
       /\ ~force => ~Exists(Tarball(wpk[w]))
  /\ wst[w] = "btf" =>
       /\ stage[w] \in {"start", "generate", "generated", "compress", "compressed"}
       /\ wpk[w] \notin HasBTF
       /\ disk[Vmlinux(wpk[w])] = "full"
       /\ stage[w] = "generate" => writing[w] = BTF(wpk[w])
       /\ stage[w] \in {"generated", "compress", "compressed"} => disk[BTF(wpk[w])] = "full"
       /\ stage[w] = "compress" => writing[w] = Tarball(wpk[w])
       /\ stage[w] = "compressed" => disk[Tarball(wpk[w])] = "full"
       /\ ~force /\ stage[w] \in {"start", "generate", "generated"} =>
            ~Exists(Tarball(wpk[w]))

\* A loop that has looked at a vmlinux file finds it there, knows whether its kernel
\* has BTF, and without -f processes only packages that have no tarball.
LoopFiles(s) ==
  /\ pc[s] \in {"mark", "sendb"} => disk[Vmlinux(At(s))] = "full"
  /\ pc[s] = "mark" => At(s) \in HasBTF
  /\ pc[s] = "sendb" => At(s) \notin HasBTF
  /\ pc[s] \in {"sendx", "inspect", "sendb"} /\ ~force => ~Exists(Tarball(At(s)))

FilesInHand == Alive => (\A w \in Workers : JobFiles(w)) /\ (\A s \in Slices : LoopFiles(s))

\* A kernel with BTF gets no tarball, and one without it no marker.
EntryFits ==
  \A p \in Pkgs : IF p \in HasBTF THEN ~Exists(Tarball(p)) ELSE ~Exists(Marker(p))

-----------------------------------------------------------------------------
(* What becomes of the packages *)

Going == main \in {"producing", "closed", "ok"}
Uncancelled == ~interrupted /\ ~ProduceError

Handled(s, i) ==
  \/ AfterNative(s, i)
  \/ Queue[s][i] \in failed
  \/ disk[Tarball(Queue[s][i])] = "full"
  \/ ~force /\ disk[Tarball(Queue[s][i])] = "torn"

Extracts(w, p)  == wst[w] = "extract" /\ wpk[w] = p
Generates(w, p) == wst[w] = "btf" /\ wpk[w] = p

\* What a loop has left behind has what Covered promises or is in a BTF job, and a
\* loop that nobody cancelled ends with its list or at a kernel with BTF.
InCare(s, i) == Handled(s, i) \/ \E w \in Workers : Generates(w, Queue[s][i])
BehindInCare(s) == \A i \in DOMAIN Queue[s] : i < nxt[s] => InCare(s, i)
EndsForReason(s) == pc[s] = "done" /\ HasPackage(s) => AfterNative(s, nxt[s])

CoverInv ==
  Going => /\ \A s \in Slices : BehindInCare(s)
           /\ Uncancelled => \A s \in Slices : EndsForReason(s)

\* In a first run an intermediate file belongs to a package that failed, or to the
\* loop or the job that is at it.
Holds(s, p) == pc[s] \in {"inspect", "mark", "sendb"} /\ At(s) = p

PackageInHand(p) ==
  /\ Exists(Download(p)) => \E w \in Workers : Extracts(w, p) /\ stage[w] # "start"
  /\ Exists(Vmlinux(p)) =>
       \/ \E w \in Workers : Extracts(w, p) /\ stage[w] \in {"extract", "extracted"}
       \/ \E s \in Slices : Holds(s, p)
       \/ \E w \in Workers : Generates(w, p)
  /\ Exists(BTF(p)) => \E w \in Workers : Generates(w, p) /\ stage[w] # "start"

InHand == Going /\ Uncancelled /\ run = 1 => \A p \in Pkgs \ failed : PackageInHand(p)

-----------------------------------------------------------------------------
(* Whose package is whose: proofs, on the steps of the pool *)

\* The package a loop is at has a place in its list.
LEMMA AtIsListed ==
  ASSUME PoolTypeOK, NEW s \in Slices, HasPackage(s)
  PROVE  /\ nxt[s] \in DOMAIN Queue[s] /\ nxt[s] \in Nat
         /\ At(s) = Queue[s][nxt[s]] /\ At(s) \in Pkgs
BY PoolAssumption DEF PoolTypeOK, HasPackage, At

\* The packages of BTF jobs are behind the loops.
LEMMA BTFJobIsBehind ==
  ASSUME ListedOnce, PoolTypeOK, JobPackages,
         NEW s \in Slices, HasPackage(s), NEW w \in Workers, wst[w] = "btf"
  PROVE  wpk[w] # At(s)
<1>1. PICK t \in Slices : \E i \in DOMAIN Queue[t] : i < nxt[t] /\ wpk[w] = Queue[t][i]
  BY DEF JobPackages
<1>2. PICK i \in DOMAIN Queue[t] : i < nxt[t] /\ wpk[w] = Queue[t][i]
  BY <1>1
<1>3. nxt[s] \in DOMAIN Queue[s] /\ nxt[s] \in Nat /\ At(s) = Queue[s][nxt[s]]
  BY AtIsListed
<1>4. Queue[t][i] = Queue[s][nxt[s]] => t = s /\ i = nxt[s]
  BY <1>3 DEF ListedOnce
<1>5. QED
  BY <1>2, <1>3, <1>4

\* Two loops are at different packages.
LEMMA LoopsApart ==
  ASSUME ListedOnce, PoolTypeOK, NEW s \in Slices, NEW t \in Slices, s # t,
         HasPackage(s), HasPackage(t)
  PROVE  At(s) # At(t)
BY AtIsListed DEF ListedOnce

\* The loop of an extraction job waits at the job's package.
LEMMA ExtractionIsAt ==
  ASSUME PoolInv, JobPackages, NEW w \in Workers, wst[w] = "extract"
  PROVE  /\ wsl[w] \in Slices /\ pc[wsl[w]] = "wait" /\ HasPackage(wsl[w])
         /\ wpk[w] = At(wsl[w])
BY DEF PoolInv, PoolTypeOK, ReplyMatched, JobPackages

\* Two jobs are for different packages.
LEMMA JobsApart ==
  ASSUME ListedOnce, PoolInv, JobPackages, NEW v \in Workers, NEW w \in Workers, v # w,
         wst[v] \in {"extract", "btf"}, wst[w] \in {"extract", "btf"}
  PROVE  wpk[v] # wpk[w]
<1> USE DEF PoolInv
<1>1. CASE wst[v] = "extract" /\ wst[w] = "extract"
  <2>1. wsl[v] # wsl[w]
    BY <1>1 DEF ReplyMatched
  <2>2. QED
    BY <1>1, <2>1, ExtractionIsAt, LoopsApart
<1>2. CASE wst[v] = "extract" /\ wst[w] = "btf"
  BY <1>2, ExtractionIsAt, BTFJobIsBehind
<1>3. CASE wst[v] = "btf" /\ wst[w] = "extract"
  BY <1>3, ExtractionIsAt, BTFJobIsBehind
<1>4. CASE wst[v] = "btf" /\ wst[w] = "btf"
  BY <1>4 DEF JobPackages
<1>5. QED
  BY <1>1, <1>2, <1>3, <1>4

\* A job is not for the package that another loop is at, nor that its own is at
\* when it does not wait.
LEMMA JobNotAt ==
  ASSUME ListedOnce, PoolInv, JobPackages, NEW w \in Workers, NEW s \in Slices,
         wst[w] \in {"extract", "btf"}, HasPackage(s),
         wst[w] = "extract" => wsl[w] # s
  PROVE  wpk[w] # At(s)
<1> USE DEF PoolInv
<1>1. CASE wst[w] = "extract"
  BY <1>1, ExtractionIsAt, LoopsApart
<1>2. CASE wst[w] = "btf"
  BY <1>2, BTFJobIsBehind
<1>3. QED
  BY <1>1, <1>2

\* Loops go on, and those that wait stay; workers may have got rid of their jobs.
LEMMA LoopsGoOn ==
  ASSUME PoolInv, JobPackages,
         \A w \in Workers : wst'[w] \in {"extract", "btf"} =>
           wst'[w] = wst[w] /\ wsl'[w] = wsl[w] /\ wpk'[w] = wpk[w],
         \A s \in Slices : nxt'[s] \in Nat /\ nxt[s] <= nxt'[s],
         \A w \in Workers : wst'[w] = "extract" => nxt'[wsl[w]] = nxt[wsl[w]]
  PROVE  JobPackages'
<1>1. ASSUME NEW w \in Workers, wst'[w] = "extract" PROVE wpk'[w] = At(wsl[w])'
  BY <1>1 DEF JobPackages, At
<1>2. ASSUME NEW w \in Workers, wst'[w] = "btf"
      PROVE  \E s \in Slices : \E i \in DOMAIN Queue[s] : i < nxt'[s] /\ wpk'[w] = Queue[s][i]
  <2>1. PICK s \in Slices : \E i \in DOMAIN Queue[s] : i < nxt[s] /\ wpk[w] = Queue[s][i]
    BY <1>2 DEF JobPackages
  <2>2. PICK i \in DOMAIN Queue[s] : i < nxt[s] /\ wpk[w] = Queue[s][i]
    BY <2>1
  <2>3. i \in Int /\ nxt[s] \in Int /\ nxt'[s] \in Int
    BY PoolAssumption DEF PoolInv, PoolTypeOK
  <2>4. i < nxt'[s]
    BY <2>2, <2>3
  <2>5. QED
    BY <1>2, <2>2, <2>4
<1>3. QED
  BY <1>1, <1>2 DEF JobPackages

\* A loop's step keeps whose package is whose: it moves on only when no extraction
\* job is for it.
LEMMA SlicePackages ==
  ASSUME PoolInv, JobPackages, NEW s \in Slices, SliceStep(s) PROVE JobPackages'
<1>1. /\ UNCHANGED workervars /\ pc[s] # "wait"
      /\ nxt' = nxt \/ nxt' = [nxt EXCEPT ![s] = @ + 1]
  BY PackageErrorCases
     DEF SliceStep, EndOfSlice, KnownHasBTF, SkipExisting, NewExtraction, SendCancelled,
         InspectFailed, MarkHasBTF, SkipLaterKernels, NeedsBTF, AtLoop, NextPackage,
         PoolInv, workervars
<1>2. \A t \in Slices : nxt'[t] \in Nat /\ nxt[t] <= nxt'[t] /\ (t # s => nxt'[t] = nxt[t])
  BY <1>1 DEF PoolInv, PoolTypeOK
<1>3. \A w \in Workers : wst[w] = "extract" => wsl[w] \in Slices /\ wsl[w] # s
  BY <1>1 DEF PoolInv, ReplyMatched
<1>4. QED
  BY <1>1, <1>2, <1>3, LoopsGoOn DEF workervars

\* A worker's step does too: a BTF job is for a package that its loop has just left.
LEMMA WorkerPackages ==
  ASSUME ListedOnce, PoolInv, JobPackages, NEW w \in Workers, WorkerStep(w)
  PROVE  JobPackages'
<1> USE DEF PoolInv
<1>1. ASSUME NEW s \in Slices, SendExtraction(s, w) PROVE JobPackages'
  <2>1. /\ nxt' = nxt /\ wst'[w] = "extract" /\ wsl'[w] = s /\ wpk'[w] = At(s)
        /\ \A v \in Workers \ {w} : wst'[v] = wst[v] /\ wsl'[v] = wsl[v] /\ wpk'[v] = wpk[v]
    BY <1>1 DEF SendExtraction, PoolTypeOK
  <2>2. \A t : At(t)' = At(t)
    BY <2>1 DEF At
  <2>3. QED
    BY <2>1, <2>2 DEF JobPackages
<1>2. ASSUME NEW s \in Slices, SendBTF(s, w) PROVE JobPackages'
  <2>1. /\ pc[s] = "sendb" /\ HasPackage(s) /\ nxt' = [nxt EXCEPT ![s] = @ + 1]
        /\ wst'[w] = "btf" /\ wpk'[w] = At(s) /\ wsl' = wsl
        /\ \A v \in Workers \ {w} : wst'[v] = wst[v] /\ wpk'[v] = wpk[v]
    BY <1>2 DEF SendBTF, NextPackage, PoolTypeOK
  <2>2. nxt[s] \in DOMAIN Queue[s] /\ nxt[s] \in Nat /\ At(s) = Queue[s][nxt[s]]
    BY <2>1, AtIsListed
  <2>3. \A t \in Slices : nxt'[t] \in Nat /\ nxt[t] \in Nat /\ nxt[t] <= nxt'[t]
    BY <2>1 DEF PoolTypeOK
  <2>4. nxt'[s] = nxt[s] + 1 /\ \A t \in Slices : t # s => nxt'[t] = nxt[t]
    BY <2>1 DEF PoolTypeOK
  <2>5. ASSUME NEW v \in Workers, wst'[v] = "extract" PROVE wpk'[v] = At(wsl[v])'
    <3>1. v # w /\ wst[v] = "extract"
      BY <2>1, <2>5
    <3>2. wsl[v] \in Slices /\ wsl[v] # s /\ wpk[v] = At(wsl[v])
      BY <2>1, <3>1, ExtractionIsAt
    <3>3. wsl'[v] = wsl[v] /\ wpk'[v] = wpk[v] /\ nxt'[wsl[v]] = nxt[wsl[v]]
      BY <2>1, <2>4, <3>1, <3>2
    <3>4. QED
      BY <3>2, <3>3 DEF At
  <2>6. ASSUME NEW v \in Workers, wst'[v] = "btf"
        PROVE  \E t \in Slices : \E i \in DOMAIN Queue[t] : i < nxt'[t] /\ wpk'[v] = Queue[t][i]
    <3>1. CASE v = w
      <4>1. nxt[s] < nxt'[s]
        BY <2>2, <2>4
      <4>2. QED
        BY <2>1, <2>2, <3>1, <4>1
    <3>2. CASE v # w
      <4>1. PICK t \in Slices : \E i \in DOMAIN Queue[t] : i < nxt[t] /\ wpk[v] = Queue[t][i]
        BY <2>1, <2>6, <3>2 DEF JobPackages
      <4>2. PICK i \in DOMAIN Queue[t] : i < nxt[t] /\ wpk[v] = Queue[t][i]
        BY <4>1
      <4>3. i \in Int
        BY PoolAssumption
      <4>4. i < nxt'[t]
        BY <2>3, <4>2, <4>3
      <4>5. QED
        BY <2>1, <3>2, <4>2, <4>4
    <3>3. QED
      BY <3>1, <3>2
  <2>7. \A v \in Workers \ {w} : wst[v] = "btf" => wpk[v] # At(s)
    BY <2>1, BTFJobIsBehind
  <2>8. \A v, u \in Workers :
          wst'[v] = "btf" /\ wst'[u] = "btf" /\ wpk'[v] = wpk'[u] => v = u
    BY <2>1, <2>7 DEF JobPackages
  <2>9. QED
    BY <2>5, <2>6, <2>8 DEF JobPackages
<1>3. CASE ReplyPath(w) \/ ReplyError(w) \/ BTFJobEnds(w)
  <2>1. /\ GoIdle(w) /\ wst[w] \in {"extract", "btf"}
        /\ \/ nxt' = nxt
           \/ wst[w] = "extract" /\ nxt' = [nxt EXCEPT ![wsl[w]] = @ + 1]
    BY <1>3, PackageErrorCases, ExtractionIsAt
       DEF ReplyPath, ReplyError, BTFJobEnds, slicevars
  <2>2. /\ wst'[w] = "select"
        /\ \A v \in Workers \ {w} : wst'[v] = wst[v] /\ wsl'[v] = wsl[v] /\ wpk'[v] = wpk[v]
    BY <2>1 DEF GoIdle, PoolTypeOK
  <2>3. \A t \in Slices : nxt'[t] \in Nat /\ nxt[t] <= nxt'[t]
    BY <2>1 DEF PoolTypeOK
  <2>4. \A v \in Workers : wst'[v] = "extract" => nxt'[wsl[v]] = nxt[wsl[v]]
    <3>1. \A v \in Workers : wst'[v] = "extract" /\ wst[w] = "extract" =>
            wsl[v] \in Slices /\ wsl[w] # wsl[v]
      BY <2>2 DEF ReplyMatched
    <3>2. QED
      BY <2>1, <3>1 DEF PoolTypeOK
  <2>5. QED
    BY <2>2, <2>3, <2>4, LoopsGoOn
<1>4. CASE WorkerCancelled(w) \/ WorkerDone(w)
  <2>1. /\ wst'[w] \in {"ok", "failed"} /\ UNCHANGED <<nxt, wsl, wpk>>
        /\ \A v \in Workers \ {w} : wst'[v] = wst[v]
    BY <1>4 DEF WorkerCancelled, WorkerDone, slicevars, PoolTypeOK
  <2>2. \A t \in Slices : nxt'[t] \in Nat /\ nxt[t] <= nxt'[t]
    BY <2>1 DEF PoolTypeOK
  <2>3. QED
    BY <2>1, <2>2, LoopsGoOn
<1>5. QED
  BY <1>1, <1>2, <1>3, <1>4 DEF WorkerStep, Receive

\* Producers, run() and signals give nobody a job, and a new start has none.
LEMMA ProcessPackages ==
  ASSUME PoolInv, JobPackages,
         \/ \E p \in Producers : ProducerStep(p)
         \/ MainStep \/ Interrupt \/ Kill \/ Rerun \/ UNCHANGED poolvars
  PROVE  JobPackages'
<1>1. CASE Rerun
  BY <1>1 DEF Rerun, JobPackages
<1>2. CASE ~Rerun
  <2>1. UNCHANGED workervars /\ nxt' = nxt
    BY <1>2 DEF ProducerStep, ListPackages, ListFailed, ReturnProducer, MainStep, CloseJobs,
       ExitProduceError, ExitConsume, Interrupt, Kill, poolvars, slicevars, workervars
  <2>2. \A t \in Slices : nxt'[t] \in Nat /\ nxt[t] <= nxt'[t]
    BY <2>1 DEF PoolInv, PoolTypeOK
  <2>3. QED
    BY <2>1, <2>2, LoopsGoOn DEF workervars
<1>3. QED
  BY <1>1, <1>2

\* JobPackages is inductive.
LEMMA PackagesStep ==
  ListedOnce /\ PoolInv /\ JobPackages /\ [PoolNext]_poolvars => JobPackages'
BY SlicePackages, WorkerPackages, ProcessPackages DEF PoolNext

\* LoopsBegun is inductive.
LEMMA BegunStep == PoolInv /\ LoopsBegun /\ [PoolNext]_poolvars => LoopsBegun'
<1> SUFFICES ASSUME PoolInv, LoopsBegun, [PoolNext]_poolvars PROVE LoopsBegun'
  OBVIOUS
<1> USE PoolAssumption DEF PoolInv, PoolTypeOK, LoopsBegun, slicevars, workervars
<1>1. ASSUME NEW p \in Producers, ProducerStep(p) PROVE LoopsBegun'
  BY <1>1 DEF ProducerStep, ListPackages, ListFailed, ReturnProducer
<1>2. ASSUME NEW s \in Slices, SliceStep(s) PROVE LoopsBegun'
  <2>1. repo' = repo /\ pc' \in {[pc EXCEPT ![s] = l] : l \in {"loop", "sendx", "mark", "sendb",
                                                              "done", "failed"}}
    BY <1>2, PackageErrorCases
       DEF SliceStep, EndOfSlice, KnownHasBTF, SkipExisting, NewExtraction, SendCancelled,
         InspectFailed, MarkHasBTF, SkipLaterKernels, NeedsBTF, NextPackage, GoTo
  <2>2. QED
    BY <2>1
<1>3. ASSUME NEW w \in Workers, WorkerStep(w) PROVE LoopsBegun'
  <2>1. /\ repo' = repo
        /\ \/ pc' = pc
           \/ \E s \in Slices : pc' \in {[pc EXCEPT ![s] = l] :
                                           l \in {"loop", "wait", "inspect", "failed"}}
    BY <1>3, PackageErrorCases, ExtractionIsAt
       DEF WorkerStep, Receive, SendExtraction, SendBTF, ReplyPath, ReplyError, BTFJobEnds,
           WorkerCancelled, WorkerDone, NextPackage, GoTo, ReplyMatched
  <2>2. QED
    BY <2>1
<1>4. CASE MainStep \/ Interrupt \/ Kill \/ Rerun \/ UNCHANGED poolvars
  BY <1>4 DEF MainStep, CloseJobs, ExitProduceError, ExitConsume, Interrupt, Kill, Rerun,
              poolvars
<1>5. QED
  BY <1>1, <1>2, <1>3, <1>4 DEF PoolNext

-----------------------------------------------------------------------------
(* The files of a package: proofs *)

Paths(p) == {Download(p), Vmlinux(p), BTF(p), Tarball(p), Marker(p)}

HasJob(w) == wst[w] \in {"extract", "btf"}

\* What the earlier proofs give, and the invariant of the files.
Known == FileInv /\ PoolInv /\ JobPackages
FilesInv == FilesInHand /\ EntryFits

\* Packages share no file.
LEMMA PathsApart ==
  ASSUME DistinctNames, NEW p \in Pkgs, NEW q \in Pkgs, p # q, NEW f \in Paths(p)
  PROVE  f \notin Paths(q)
BY DEF DistinctNames, Paths, Download, Vmlinux, BTF, Tarball, Marker

\* The files of a package are files.
LEMMA PathsOf ==
  ASSUME NEW p \in Pkgs
  PROVE  Paths(p) \subseteq Files /\ NoFile \notin Paths(p)
<1>1. Paths(p) \subseteq Files
  BY PathsAreFiles DEF Paths
<1>2. QED
  BY <1>1, NoFileIsNone

\* Who has a file of a package open has the job for it.
LEMMA WriterHasJob ==
  ASSUME DistinctNames, Known, Alive, NEW p \in Pkgs, NEW v \in Workers,
         writing[v] \in Paths(p)
  PROVE  HasJob(v) /\ wpk[v] = p
<1>1. writing[v] # NoFile
  BY PathsOf
<1>2. stage[v] # "start" /\ writing[v] \in Paths(wpk[v])
  BY <1>1 DEF Known, FileInv, OpenFile, Paths
<1>3. HasJob(v) /\ wpk[v] \in Pkgs
  BY <1>2, JobPaths DEF Known, FileInv, StageOfJob, PoolInv, HasJob
<1>4. QED
  BY <1>2, <1>3, PathsApart

\* Everything about a job, or a loop, but what others have done stays as it is.
LEMMA JobFilesStay ==
  ASSUME NEW w \in Workers, JobFiles(w), force' = force,
         wst'[w] = wst[w], wpk'[w] = wpk[w], stage'[w] = stage[w], writing'[w] = writing[w],
         HasJob(w) => \A f \in Paths(wpk[w]) : disk'[f] = disk[f]
  PROVE  JobFiles(w)'
BY DEF JobFiles, HasJob, Paths, Exists, Download, Vmlinux, BTF, Tarball

\* A loop that stays where it is still finds its files when nobody changes them.
LEMMA LoopFilesStay ==
  ASSUME NEW s \in Slices, LoopFiles(s), force' = force,
         pc'[s] = pc[s], nxt'[s] = nxt[s],
         pc[s] \in {"sendx", "inspect", "mark", "sendb"} =>
           \A f \in Paths(At(s)) : disk'[f] = disk[f]
  PROVE  LoopFiles(s)'
BY DEF LoopFiles, At, Paths, Exists, Vmlinux, Tarball

\* A step of a job leaves the other jobs and loops what they have.
LEMMA OthersStay ==
  ASSUME DistinctNames, ListedOnce, Known, FilesInHand, Alive,
         NEW w \in Workers, HasJob(w), force' = force,
         \A f \in Files : f \notin Paths(wpk[w]) => disk'[f] = disk[f],
         \A v \in Workers \ {w} : /\ wst'[v] = wst[v] /\ wpk'[v] = wpk[v]
                                  /\ stage'[v] = stage[v] /\ writing'[v] = writing[v],
         NEW S \in SUBSET Slices,
         \A s \in S : pc'[s] = pc[s] /\ nxt'[s] = nxt[s],
         wst[w] = "extract" => wsl[w] \notin S
  PROVE  (\A v \in Workers \ {w} : JobFiles(v)') /\ (\A s \in S : LoopFiles(s)')
<1> USE DEF Known, HasJob
<1>1. wpk[w] \in Pkgs
  BY JobPaths DEF PoolInv
<1>2. ASSUME NEW q \in Pkgs, q # wpk[w] PROVE \A f \in Paths(q) : disk'[f] = disk[f]
  BY <1>1, <1>2, PathsOf, PathsApart
<1>3. ASSUME NEW v \in Workers \ {w} PROVE JobFiles(v)'
  <2>1. HasJob(v) => wpk[v] \in Pkgs /\ wpk[v] # wpk[w]
    BY JobPaths, JobsApart DEF PoolInv
  <2>2. QED
    BY <1>2, <2>1, JobFilesStay DEF FilesInHand
<1>4. ASSUME NEW s \in S PROVE LoopFiles(s)'
  <2>1. pc[s] \in {"sendx", "inspect", "mark", "sendb"} =>
          HasPackage(s) /\ At(s) \in Pkgs /\ At(s) # wpk[w]
    BY AtIsListed, JobNotAt DEF PoolInv, PoolTypeOK
  <2>2. QED
    BY <1>2, <2>1, LoopFilesStay DEF FilesInHand
<1>5. QED
  BY <1>3, <1>4

\* Creating, finishing and removing files of a package touch nothing else.
LEMMA CreateOwn ==
  ASSUME Known, NEW w \in Workers, NEW p \in Pkgs, NEW f \in Paths(p), Create(w, f)
  PROVE  /\ disk'[f] = "partial" /\ writing'[w] = f
         /\ \A g \in Files : g # f => disk'[g] = disk[g]
         /\ \A v \in Workers \ {w} : writing'[v] = writing[v]
BY PathsOf DEF Create, Known, FileInv, FileTypeOK

\* A worker that finishes a file finishes its own and touches nobody else's.
LEMMA FinishOwn ==
  ASSUME DistinctNames, ListedOnce, Known, Alive, NEW w \in Workers, HasJob(w), Finish(w)
  PROVE  /\ writing[w] \in Paths(wpk[w]) => disk'[writing[w]] = "full"
         /\ writing'[w] = NoFile
         /\ \A g \in Files : g # writing[w] => disk'[g] = disk[g]
         /\ \A v \in Workers \ {w} : writing'[v] = writing[v]
<1> USE DEF Known, FileInv, FileTypeOK
<1>1. wpk[w] \in Pkgs
  BY JobPaths DEF PoolInv, HasJob
<1>2. ASSUME writing[w] \in Paths(wpk[w]) PROVE disk'[writing[w]] = "full"
  <2>1. \A v \in Workers \ {w} : writing[v] # writing[w]
    BY <1>1, <1>2, WriterHasJob, JobsApart DEF HasJob
  <2>2. writing[w] \in Files
    BY <1>1, <1>2, PathsOf
  <2>3. QED
    BY <2>1, <2>2 DEF Finish
<1>3. QED
  BY <1>2 DEF Finish

\* A worker that removes files of its package takes nobody else's away.
LEMMA RemoveOwn ==
  ASSUME DistinctNames, ListedOnce, Known, Alive, NEW w \in Workers, HasJob(w),
         NEW fs \in SUBSET Paths(wpk[w]), RemoveAll(fs, {w})
  PROVE  /\ \A f \in fs : disk'[f] = "absent"
         /\ writing'[w] = NoFile
         /\ \A g \in Files : g \notin fs => disk'[g] = disk[g]
         /\ \A v \in Workers \ {w} : writing'[v] = writing[v]
<1> USE DEF Known, FileInv, FileTypeOK
<1>1. wpk[w] \in Pkgs /\ fs \subseteq Files
  BY JobPaths, PathsOf DEF PoolInv, HasJob
<1>2. \A v \in Workers \ {w} : writing[v] \notin fs
  BY <1>1, WriterHasJob, JobsApart DEF HasJob
<1>3. QED
  BY <1>1, <1>2 DEF RemoveAll

\* The job of w goes on, or ends: what is left to show is about w and its loop.
LEMMA JobGoesOn ==
  ASSUME DistinctNames, ListedOnce, Known, FilesInHand, Alive,
         NEW w \in Workers, HasJob(w), NEW label, Reach(w, label),
         UNCHANGED poolvars, force' = force,
         \A f \in Files : f \notin Paths(wpk[w]) => disk'[f] = disk[f],
         \A v \in Workers \ {w} : writing'[v] = writing[v],
         JobFiles(w)'
  PROVE  FilesInHand'
<1> DEFINE S == {s \in Slices : wst[w] = "extract" => s # wsl[w]}
<1>1. /\ \A v \in Workers \ {w} : wst'[v] = wst[v] /\ wpk'[v] = wpk[v] /\ stage'[v] = stage[v]
      /\ \A s \in Slices : pc'[s] = pc[s] /\ nxt'[s] = nxt[s]
  BY DEF Reach, poolvars, Known, FileInv, FileTypeOK
<1>2. (\A v \in Workers \ {w} : JobFiles(v)') /\ (\A s \in S : LoopFiles(s)')
  BY <1>1, OthersStay
<1>3. ASSUME NEW s \in Slices \ S PROVE LoopFiles(s)'
  <2>1. wst[w] = "extract" /\ s = wsl[w]
    OBVIOUS
  <2>2. pc'[s] = "wait"
    BY <1>1, <2>1, ExtractionIsAt DEF Known
  <2>3. QED
    BY <2>2 DEF LoopFiles
<1>4. QED
  BY <1>2, <1>3 DEF FilesInHand

\* When a job ends, what the other jobs and loops have stays, and the loop it replied
\* to finds what it needs.
LEMMA JobGoes ==
  ASSUME DistinctNames, ListedOnce, Known, FilesInHand, Alive,
         NEW w \in Workers, HasJob(w), Reach(w, "start"), GoIdle(w), force' = force,
         \A f \in Files : f \notin Paths(wpk[w]) => disk'[f] = disk[f],
         \A v \in Workers \ {w} : writing'[v] = writing[v],
         \A s \in Slices :
           \/ pc'[s] = pc[s] /\ nxt'[s] = nxt[s] /\ (wst[w] = "extract" => s # wsl[w])
           \/ LoopFiles(s)'
  PROVE  FilesInHand'
<1> DEFINE S == {s \in Slices : /\ pc'[s] = pc[s] /\ nxt'[s] = nxt[s]
                                /\ wst[w] = "extract" => s # wsl[w]}
<1>1. /\ \A v \in Workers \ {w} : wst'[v] = wst[v] /\ wpk'[v] = wpk[v] /\ stage'[v] = stage[v]
      /\ wst'[w] = "select"
  BY DEF Reach, GoIdle, Known, FileInv, FileTypeOK, PoolInv, PoolTypeOK
<1>2. (\A v \in Workers \ {w} : JobFiles(v)') /\ (\A s \in S : LoopFiles(s)')
  <2>1. S \in SUBSET Slices
    OBVIOUS
  <2>2. \A s \in S : pc'[s] = pc[s] /\ nxt'[s] = nxt[s]
    OBVIOUS
  <2>3. wst[w] = "extract" => wsl[w] \notin S
    OBVIOUS
  <2>4. HIDE DEF S
  <2>5. QED
    BY <1>1, <2>1, <2>2, <2>3, OthersStay
<1>3. JobFiles(w)'
  BY <1>1 DEF JobFiles
<1>4. QED
  BY <1>2, <1>3 DEF FilesInHand

\* Each step of an extraction job keeps all files in hand.
LEMMA ExtractionInHand ==
  ASSUME DistinctNames, ListedOnce, Known, FilesInHand,
         NEW w \in Workers, ExtractionStep(w), force' = force,
         NEW p, p = wpk[w], NEW s, s = wsl[w]
  PROVE  FilesInHand'
<1>1. Alive /\ wst[w] = "extract" /\ HasJob(w) /\ stage[w] \in Stages
  BY DEF ExtractionStep, ReplyExisting, ReuseDownload, BeginDownload, EndDownload,
         FailDownload, BeginExtract, EndExtract, FailExtract, ReplyExtracted, Extracting,
         HasJob, Stages
<1>2. /\ p \in Pkgs /\ Paths(p) \subseteq Files /\ NoFile \notin Paths(p)
      /\ Download(p) \in Paths(p) /\ Vmlinux(p) \in Paths(p) /\ Tarball(p) \in Paths(p)
      /\ Download(p) # Vmlinux(p) /\ Tarball(p) # Download(p) /\ Tarball(p) # Vmlinux(p)
  BY <1>1, JobPaths, PathsOf DEF Known, PoolInv, HasJob, Paths, Download, Vmlinux, Tarball
<1>3. s \in Slices /\ pc[s] = "wait" /\ p = At(s)
  BY <1>1, ExtractionIsAt DEF Known
<1>4. JobFiles(w)
  BY <1>1 DEF FilesInHand
<1>5. \A label : Reach(w, label) => stage'[w] = label
  BY DEF Reach, Known, FileInv, FileTypeOK
<1>6. ReplyPath(w) =>
        /\ GoIdle(w) /\ pc'[s] = "inspect" /\ nxt' = nxt
        /\ \A t \in Slices \ {s} : pc'[t] = pc[t]
  BY <1>3 DEF ReplyPath, GoTo, Known, PoolInv, PoolTypeOK
<1>7. ReplyError(w) =>
        /\ GoIdle(w) /\ pc'[s] \in {"loop", "failed"}
        /\ \A t \in Slices \ {s} : pc'[t] = pc[t] /\ nxt'[t] = nxt[t]
  BY <1>3, PackageErrorCases DEF ReplyError, Known, PoolInv, PoolTypeOK
<1>8. CASE ReplyExisting(w)
  <2>1. ReplyPath(w) /\ UNCHANGED filevars /\ stage[w] = "start"
    BY <1>8 DEF ReplyExisting, Extracting
  <2>2. LoopFiles(s)'
    BY <1>1, <1>3, <1>4, <1>6, <2>1 DEF LoopFiles, JobFiles, At, filevars, Exists
  <2>3. Reach(w, "start")
    BY <2>1 DEF filevars, Reach, Known, FileInv, FileTypeOK
  <2>4. QED
    BY <1>1, <1>6, <2>1, <2>2, <2>3, JobGoes DEF filevars
<1>9. CASE ReuseDownload(w)
  <2>1. JobFiles(w)'
    BY <1>1, <1>4, <1>5, <1>9 DEF ReuseDownload, JobFiles, Exists, poolvars
  <2>2. QED
    BY <1>1, <1>9, <2>1, JobGoesOn DEF ReuseDownload
<1>10. CASE BeginDownload(w)
  <2>1. /\ writing'[w] = Download(p)
        /\ \A g \in Files : g # Download(p) => disk'[g] = disk[g]
        /\ \A v \in Workers \ {w} : writing'[v] = writing[v]
    BY <1>2, <1>10, CreateOwn DEF BeginDownload
  <2>2. JobFiles(w)'
    BY <1>1, <1>2, <1>4, <1>5, <1>10, <2>1 DEF BeginDownload, JobFiles, Exists, poolvars, Download, Tarball
  <2>3. QED
    BY <1>1, <1>2, <1>10, <2>1, <2>2, JobGoesOn DEF BeginDownload
<1>11. CASE EndDownload(w)
  <2>1. stage[w] = "download" /\ writing[w] = Download(p)
    BY <1>1, <1>4, <1>11 DEF EndDownload, Extracting, JobFiles
  <2>2. /\ disk'[Download(p)] = "full"
        /\ \A g \in Files : g # Download(p) => disk'[g] = disk[g]
        /\ \A v \in Workers \ {w} : writing'[v] = writing[v]
    BY <1>1, <1>2, <1>11, <2>1, FinishOwn DEF EndDownload
  <2>3. JobFiles(w)'
    BY <1>1, <1>2, <1>4, <1>5, <1>11, <2>2 DEF EndDownload, JobFiles, Exists, poolvars, Download, Tarball
  <2>4. QED
    BY <1>1, <1>2, <1>11, <2>2, <2>3, JobGoesOn DEF EndDownload
<1>12. CASE BeginExtract(w)
  <2>1. /\ disk'[Vmlinux(p)] = "partial" /\ writing'[w] = Vmlinux(p)
        /\ \A g \in Files : g # Vmlinux(p) => disk'[g] = disk[g]
        /\ \A v \in Workers \ {w} : writing'[v] = writing[v]
    BY <1>2, <1>12, CreateOwn DEF BeginExtract
  <2>2. JobFiles(w)'
    BY <1>1, <1>2, <1>4, <1>5, <1>12, <2>1
       DEF BeginExtract, JobFiles, Exists, poolvars, Extracting, Download, Tarball, Vmlinux
  <2>3. QED
    BY <1>1, <1>2, <1>12, <2>1, <2>2, JobGoesOn DEF BeginExtract
<1>13. CASE EndExtract(w)
  <2>1. stage[w] = "extract" /\ writing[w] = Vmlinux(p)
    BY <1>1, <1>4, <1>13 DEF EndExtract, Extracting, JobFiles
  <2>2. /\ \A g \in Files : g # Vmlinux(p) => disk'[g] = disk[g]
        /\ \A v \in Workers \ {w} : writing'[v] = writing[v]
    BY <1>1, <1>2, <1>13, <2>1, FinishOwn DEF EndExtract
  <2>3. JobFiles(w)'
    BY <1>1, <1>2, <1>4, <1>5, <1>13, <2>1, <2>2
       DEF EndExtract, JobFiles, Exists, poolvars, Download, Tarball, Vmlinux
  <2>4. QED
    BY <1>1, <1>2, <1>13, <2>2, <2>3, JobGoesOn DEF EndExtract
<1>14. CASE FailDownload(w) \/ FailExtract(w)
  <2>1. PICK f \in {Download(p), Vmlinux(p)} : RemoveAll({f}, {w})
    BY <1>14 DEF FailDownload, FailExtract
  <2>2. /\ \A g \in Files : g # f => disk'[g] = disk[g]
        /\ \A v \in Workers \ {w} : writing'[v] = writing[v]
    <3>1. {f} \in SUBSET Paths(wpk[w])
      BY <1>2
    <3>2. QED
      BY <1>1, <2>1, <3>1, RemoveOwn
  <2>3. ReplyError(w) /\ Reach(w, "start")
    BY <1>14 DEF FailDownload, FailExtract
  <2>4. LoopFiles(s)'
    BY <1>7, <2>3 DEF LoopFiles
  <2>5. QED
    BY <1>1, <1>2, <1>7, <2>2, <2>3, <2>4, JobGoes
<1>15. CASE ReplyExtracted(w)
  <2>1. ReplyPath(w) /\ Reach(w, "start") /\ RemoveAll({Download(p)}, {w})
    BY <1>15 DEF ReplyExtracted
  <2>2. /\ \A g \in Files : g # Download(p) => disk'[g] = disk[g]
        /\ \A v \in Workers \ {w} : writing'[v] = writing[v]
    BY <1>1, <1>2, <2>1, RemoveOwn
  <2>3. LoopFiles(s)'
    <3>1. ~force => ~Exists(Tarball(p))
      BY <1>1, <1>4 DEF JobFiles
    <3>2. disk'[Tarball(p)] = disk[Tarball(p)]
      BY <1>2, <2>2
    <3>3. At(s)' = p
      BY <1>3, <1>6, <2>1 DEF At
    <3>4. QED
      BY <1>6, <2>1, <3>1, <3>2, <3>3 DEF LoopFiles, Exists, Tarball
  <2>4. QED
    BY <1>1, <1>2, <1>6, <2>1, <2>2, <2>3, JobGoes
<1>16. QED
  BY <1>8, <1>9, <1>10, <1>11, <1>12, <1>13, <1>14, <1>15 DEF ExtractionStep

\* Each step of a BTF job keeps them in hand.
LEMMA GenerationInHand ==
  ASSUME DistinctNames, ListedOnce, Known, FilesInHand,
         NEW w \in Workers, GenerationStep(w), force' = force,
         NEW p, p = wpk[w]
  PROVE  FilesInHand'
<1>1. Alive /\ wst[w] = "btf" /\ HasJob(w) /\ stage[w] \in Stages
  BY DEF GenerationStep, BeginGenerate, EndGenerate, FailGenerate, BeginCompress,
         EndCompress, FailCompress, RemoveInputs, Generating, HasJob, Stages
<1>2. /\ p \in Pkgs /\ Paths(p) \subseteq Files /\ NoFile \notin Paths(p)
      /\ Vmlinux(p) \in Paths(p) /\ BTF(p) \in Paths(p) /\ Tarball(p) \in Paths(p)
      /\ BTF(p) # Vmlinux(p) /\ Tarball(p) # BTF(p) /\ Tarball(p) # Vmlinux(p)
  BY <1>1, JobPaths, PathsOf DEF Known, PoolInv, HasJob, Paths, BTF, Vmlinux, Tarball
<1>3. JobFiles(w)
  BY <1>1 DEF FilesInHand
<1>4. \A label : Reach(w, label) => stage'[w] = label
  BY DEF Reach, Known, FileInv, FileTypeOK
<1>5. BTFJobEnds(w) => /\ GoIdle(w) 
                       /\ \A s \in Slices : /\ pc'[s] = pc[s] /\ nxt'[s] = nxt[s]
                                            /\ wst[w] = "extract" => s # wsl[w]
  BY <1>1 DEF BTFJobEnds, slicevars
<1>6. CASE BeginGenerate(w)
  <2>1. /\ writing'[w] = BTF(p)
        /\ \A g \in Files : g # BTF(p) => disk'[g] = disk[g]
        /\ \A v \in Workers \ {w} : writing'[v] = writing[v]
    BY <1>2, <1>6, CreateOwn DEF BeginGenerate
  <2>2. stage[w] = "start" /\ stage'[w] = "generate"
    BY <1>4, <1>6 DEF BeginGenerate, Generating
  <2>3. JobFiles(w)'
    BY <1>1, <1>2, <1>3, <1>6, <2>1, <2>2
       DEF BeginGenerate, JobFiles, Exists, poolvars, BTF, Vmlinux, Tarball
  <2>4. QED
    BY <1>1, <1>2, <1>6, <2>1, <2>3, JobGoesOn DEF BeginGenerate
<1>7. CASE EndGenerate(w)
  <2>1. stage[w] = "generate" /\ writing[w] = BTF(p) /\ stage'[w] = "generated"
    BY <1>1, <1>3, <1>4, <1>7 DEF EndGenerate, Generating, JobFiles
  <2>2. /\ disk'[BTF(p)] = "full"
        /\ \A g \in Files : g # BTF(p) => disk'[g] = disk[g]
        /\ \A v \in Workers \ {w} : writing'[v] = writing[v]
    BY <1>1, <1>2, <1>7, <2>1, FinishOwn DEF EndGenerate
  <2>3. JobFiles(w)'
    BY <1>1, <1>2, <1>3, <1>7, <2>1, <2>2
       DEF EndGenerate, JobFiles, Exists, poolvars, BTF, Vmlinux, Tarball
  <2>4. QED
    BY <1>1, <1>2, <1>7, <2>2, <2>3, JobGoesOn DEF EndGenerate
<1>8. CASE BeginCompress(w)
  <2>1. /\ writing'[w] = Tarball(p)
        /\ \A g \in Files : g # Tarball(p) => disk'[g] = disk[g]
        /\ \A v \in Workers \ {w} : writing'[v] = writing[v]
    BY <1>2, <1>8, CreateOwn DEF BeginCompress
  <2>2. stage[w] = "generated" /\ disk[BTF(p)] = "full"
    BY <1>1, <1>3, <1>8 DEF BeginCompress, Generating, JobFiles
  <2>3. stage'[w] = "compress" /\ Reach(w, "compress")
    BY <1>4, <1>8, <2>2 DEF BeginCompress
  <2>4. JobFiles(w)'
    BY <1>1, <1>2, <1>3, <1>8, <2>1, <2>2, <2>3
       DEF BeginCompress, JobFiles, Exists, poolvars, BTF, Vmlinux, Tarball
  <2>5. QED
    BY <1>1, <1>2, <1>8, <2>1, <2>3, <2>4, JobGoesOn DEF BeginCompress
<1>9. CASE EndCompress(w)
  <2>1. stage[w] = "compress" /\ writing[w] = Tarball(p) /\ stage'[w] = "compressed"
    BY <1>1, <1>3, <1>4, <1>9 DEF EndCompress, Generating, JobFiles
  <2>2. /\ disk'[Tarball(p)] = "full"
        /\ \A g \in Files : g # Tarball(p) => disk'[g] = disk[g]
        /\ \A v \in Workers \ {w} : writing'[v] = writing[v]
    BY <1>1, <1>2, <1>9, <2>1, FinishOwn DEF EndCompress
  <2>3. JobFiles(w)'
    BY <1>1, <1>2, <1>3, <1>9, <2>1, <2>2
       DEF EndCompress, JobFiles, Exists, poolvars, BTF, Vmlinux, Tarball
  <2>4. QED
    BY <1>1, <1>2, <1>9, <2>2, <2>3, JobGoesOn DEF EndCompress
<1>10. CASE FailGenerate(w) \/ FailCompress(w) \/ RemoveInputs(w)
  <2>1. PICK fs \in SUBSET Paths(p) : RemoveAll(fs, {w})
    <3>1. {BTF(p)} \in SUBSET Paths(p) /\ {Tarball(p)} \in SUBSET Paths(p)
          /\ {BTF(p), Vmlinux(p)} \in SUBSET Paths(p)
      BY <1>2
    <3>2. QED
      BY <1>10, <3>1 DEF FailGenerate, FailCompress, RemoveInputs
  <2>2. /\ \A g \in Files : g \notin Paths(p) => disk'[g] = disk[g]
        /\ \A v \in Workers \ {w} : writing'[v] = writing[v]
    BY <1>1, <2>1, RemoveOwn
  <2>3. BTFJobEnds(w) /\ Reach(w, "start")
    BY <1>10 DEF FailGenerate, FailCompress, RemoveInputs
  <2>4. QED
    BY <1>1, <1>5, <2>2, <2>3, JobGoes
<1>11. QED
  BY <1>6, <1>7, <1>8, <1>9, <1>10 DEF GenerationStep

\* A step of the loop s: what is left to show is about s.
LEMMA LoopGoesOn ==
  ASSUME DistinctNames, ListedOnce, Known, FilesInHand, Alive,
         NEW s \in Slices, pc[s] # "wait", UNCHANGED workervars,
         stage' = stage, force' = force,
         \/ disk' = disk
         \/ HasPackage(s) /\ \A f \in Files : f \notin Paths(At(s)) => disk'[f] = disk[f],
         \A v \in Workers : writing'[v] = writing[v],
         \A t \in Slices \ {s} : pc'[t] = pc[t] /\ nxt'[t] = nxt[t],
         LoopFiles(s)'
  PROVE  FilesInHand'
<1> USE DEF Known
<1>1. ASSUME NEW q \in Pkgs, HasPackage(s) => q # At(s)
      PROVE  \A f \in Paths(q) : disk'[f] = disk[f]
  BY <1>1, PathsOf, PathsApart, AtIsListed DEF PoolInv
<1>2. ASSUME NEW v \in Workers PROVE JobFiles(v)'
  <2>1. HasJob(v) => wpk[v] \in Pkgs /\ (HasPackage(s) => wpk[v] # At(s))
    <3>1. wst[v] = "extract" => wsl[v] # s
      BY DEF PoolInv, ReplyMatched
    <3>2. QED
      BY <3>1, JobPaths, JobNotAt DEF PoolInv, HasJob
  <2>2. QED
    BY <1>1, <2>1, JobFilesStay DEF FilesInHand, workervars
<1>3. ASSUME NEW t \in Slices \ {s} PROVE LoopFiles(t)'
  <2>1. pc[t] \in {"sendx", "inspect", "mark", "sendb"} =>
          At(t) \in Pkgs /\ (HasPackage(s) => At(t) # At(s))
    BY AtIsListed, LoopsApart DEF PoolInv, PoolTypeOK
  <2>2. QED
    BY <1>1, <2>1, LoopFilesStay DEF FilesInHand
<1>4. QED
  BY <1>2, <1>3 DEF FilesInHand

\* Each step of a loop keeps them in hand.
LEMMA SliceInHand ==
  ASSUME DistinctNames, ListedOnce, Known, FilesInHand,
         NEW s \in Slices, HubSliceStep(s), force' = force
  PROVE  FilesInHand'
<1>1. Alive /\ pc[s] # "wait" /\ UNCHANGED workervars /\ SliceStep(s)
  BY SliceImplements
     DEF SliceStep, EndOfSlice, KnownHasBTF, SkipExisting, NewExtraction, SendCancelled,
         InspectFailed, MarkHasBTF, SkipLaterKernels, NeedsBTF, AtLoop
<1>2. /\ LoopFiles(s)
      /\ \A l : GoTo(s, l) => pc'[s] = l /\ \A t \in Slices \ {s} : pc'[t] = pc[t]
      /\ NextPackage(s) => /\ pc'[s] = "loop"
                           /\ \A t \in Slices \ {s} : pc'[t] = pc[t] /\ nxt'[t] = nxt[t]
      /\ pc[s] \in {"sendx", "inspect", "mark", "sendb"} => HasPackage(s)
  BY <1>1 DEF FilesInHand, Known, PoolInv, PoolTypeOK, GoTo, NextPackage
<1>3. CASE /\ UNCHANGED <<disk, stage, writing>>
           /\ \A t \in Slices \ {s} : pc'[t] = pc[t] /\ nxt'[t] = nxt[t]
           /\ LoopFiles(s)'
  BY <1>1, <1>3, LoopGoesOn
<1>4. CASE \/ StopAtMarked(s) \/ SkipPublished(s) \/ RejectVmlinux(s)
           \/ GiveUp(s) \/ EndSlice(s)
  <2>1. /\ UNCHANGED <<disk, stage, writing>>
        /\ pc'[s] \in {"loop", "done", "failed"}
        /\ \A t \in Slices \ {s} : pc'[t] = pc[t] /\ nxt'[t] = nxt[t]
    <3>1. CASE StopAtMarked(s) \/ SkipPublished(s)
      BY <1>2, <3>1 DEF StopAtMarked, SkipPublished, KnownHasBTF, SkipExisting, filevars
    <3>2. CASE RejectVmlinux(s)
      <4>1. NextPackage(s) \/ (GoTo(s, "failed") /\ nxt' = nxt)
        BY <3>2 DEF RejectVmlinux, InspectFailed, PackageError
      <4>2. QED
        BY <1>2, <3>2, <4>1 DEF RejectVmlinux
    <3>3. CASE GiveUp(s) \/ EndSlice(s)
      BY <1>2, <3>3 DEF GiveUp, EndSlice, SendCancelled, EndOfSlice, filevars
    <3>4. QED
      BY <1>4, <3>1, <3>2, <3>3
  <2>2. QED
    BY <1>3, <2>1 DEF LoopFiles
<1>5. CASE StartPackage(s) \/ AcceptVmlinux(s)
  <2>1. /\ UNCHANGED <<disk, stage, writing>> /\ nxt' = nxt
        /\ \A t \in Slices \ {s} : pc'[t] = pc[t]
        /\ (pc'[s] = "sendx" \/ (pc'[s] = "sendb" /\ AcceptVmlinux(s)))
        /\ ~force => ~Exists(Tarball(At(s)))
    BY <1>2, <1>5 DEF StartPackage, AcceptVmlinux, NewExtraction, NeedsBTF, filevars, LoopFiles
  <2>2. LoopFiles(s)'
    BY <2>1 DEF LoopFiles, AcceptVmlinux, At, Exists
  <2>3. QED
    BY <1>3, <2>1, <2>2
<1>6. CASE MarkNative(s)
  <2>1. /\ HasPackage(s) /\ nxt' = nxt /\ pc'[s] = "mark" /\ disk[Vmlinux(At(s))] = "full"
        /\ UNCHANGED <<stage, writing>>
        /\ \A t \in Slices \ {s} : pc'[t] = pc[t]
        /\ \A f \in Files : f # Marker(At(s)) => disk'[f] = disk[f]
        /\ At(s) \in HasBTF
    BY <1>2, <1>6 DEF MarkNative, MarkHasBTF, Known, FileInv, FileTypeOK
  <2>2. LoopFiles(s)'
    <3>1. Vmlinux(At(s)) \in Files /\ Vmlinux(At(s)) # Marker(At(s)) /\ At(s)' = At(s)
      BY <2>1, AtIsListed, PathsAreFiles DEF Known, PoolInv, At, Vmlinux, Marker
    <3>2. Vmlinux(At(s))' = Vmlinux(At(s))
      BY <3>1 DEF Vmlinux
    <3>3. QED
      BY <2>1, <3>1, <3>2 DEF LoopFiles
  <2>3. \A f \in Files : f \notin Paths(At(s)) => disk'[f] = disk[f]
    BY <2>1 DEF Paths
  <2>4. QED
    BY <1>1, <2>1, <2>2, <2>3, LoopGoesOn
<1>7. CASE DropNative(s)
  <2>1. /\ HasPackage(s) /\ nxt' = nxt /\ pc'[s] = "done" /\ stage' = stage
        /\ RemoveAll({Vmlinux(At(s))}, {})
        /\ \A t \in Slices \ {s} : pc'[t] = pc[t]
    BY <1>2, <1>7 DEF DropNative, SkipLaterKernels
  <2>2. At(s) \in Pkgs /\ Vmlinux(At(s)) \in Paths(At(s))
    BY <2>1, AtIsListed DEF Known, PoolInv, Paths
  <2>3. ASSUME NEW v \in Workers PROVE writing[v] # Vmlinux(At(s))
    <3>1. wst[v] = "extract" => wsl[v] # s
      BY <1>1 DEF Known, PoolInv, ReplyMatched
    <3>2. HasJob(v) => wpk[v] # At(s)
      BY <2>1, <3>1, JobNotAt DEF Known, HasJob
    <3>3. QED
      BY <1>1, <2>2, <3>2, WriterHasJob
  <2>4. /\ \A v \in Workers : writing'[v] = writing[v]
        /\ \A f \in Files : f \notin Paths(At(s)) => disk'[f] = disk[f]
    BY <2>1, <2>2, <2>3 DEF RemoveAll
  <2>5. LoopFiles(s)'
    BY <2>1 DEF LoopFiles
  <2>6. QED
    BY <1>1, <2>1, <2>4, <2>5, LoopGoesOn
<1>8. QED
  BY <1>4, <1>5, <1>6, <1>7 DEF HubSliceStep

\* A job handed over has the files its loop has accepted.
LEMMA OrderInHand ==
  ASSUME Known, FilesInHand, NEW s \in Slices, NEW w \in Workers,
         OrderExtraction(s, w) \/ OrderBTF(s, w), force' = force
  PROVE  FilesInHand'
<1> USE DEF Known, PoolInv, PoolTypeOK
<1>1. /\ Alive /\ wst[w] = "select" /\ UNCHANGED filevars
      /\ \A v \in Workers \ {w} : wst'[v] = wst[v] /\ wpk'[v] = wpk[v]
      /\ \A t \in Slices \ {s} : pc'[t] = pc[t] /\ nxt'[t] = nxt[t]
      /\ wpk'[w] = At(s)
      /\ pc'[s] \in {"wait", "loop"}
  BY DEF OrderExtraction, OrderBTF, SendExtraction, SendBTF, NextPackage, GoTo
<1>2. stage[w] = "start" /\ LoopFiles(s)
  BY <1>1 DEF FilesInHand, FileInv, StageOfJob
<1>3. \/ wst'[w] = "extract" /\ pc[s] = "sendx"
      \/ wst'[w] = "btf" /\ pc[s] = "sendb"
  BY DEF OrderExtraction, OrderBTF, SendExtraction, SendBTF
<1>4. JobFiles(w)'
  BY <1>1, <1>2, <1>3 DEF JobFiles, LoopFiles, filevars, Exists
<1>5. ASSUME NEW v \in Workers \ {w} PROVE JobFiles(v)'
  BY <1>1, JobFilesStay DEF FilesInHand, filevars
<1>6. ASSUME NEW t \in Slices PROVE LoopFiles(t)'
  <2>1. CASE t = s
    BY <1>1, <2>1 DEF LoopFiles
  <2>2. CASE t # s
    BY <1>1, <2>2, LoopFilesStay DEF FilesInHand, filevars
  <2>3. QED
    BY <2>1, <2>2
<1>7. QED
  BY <1>4, <1>5, <1>6 DEF FilesInHand

\* A worker that returns has no file.
LEMMA StopInHand ==
  ASSUME Known, FilesInHand, NEW w \in Workers, StopWorker(w), force' = force
  PROVE  FilesInHand'
<1>1. /\ Alive /\ UNCHANGED filevars /\ wst'[w] \in {"ok", "failed"}
      /\ \A v \in Workers \ {w} : wst'[v] = wst[v] /\ wpk'[v] = wpk[v]
      /\ UNCHANGED slicevars
  BY DEF StopWorker, WorkerCancelled, WorkerDone, Alive, Known, PoolInv, PoolTypeOK
<1>2. ASSUME NEW v \in Workers PROVE JobFiles(v)'
  BY <1>1, JobFilesStay DEF FilesInHand, filevars, JobFiles
<1>3. \A t \in Slices : LoopFiles(t)'
  BY <1>1, LoopFilesStay DEF FilesInHand, filevars, slicevars
<1>4. QED
  BY <1>2, <1>3 DEF FilesInHand

\* The process ends with nothing in hand, and starts with nothing in hand.
LEMMA ProcessInHand ==
  ASSUME Known, FilesInHand,
         \/ \E p \in Producers : HubProducerStep(p) /\ force' = force
         \/ (CloseJobs \/ ExitConsume \/ Interrupt) /\ UNCHANGED filevars /\ force' = force
         \/ FatalExit \/ Killed \/ StartAgain \/ UNCHANGED hubvars
  PROVE  FilesInHand'
<1>1. CASE StartAgain
  BY <1>1 DEF StartAgain, Rerun, FilesInHand, JobFiles, LoopFiles
<1>2. CASE FatalExit \/ Killed \/ (ExitConsume /\ UNCHANGED filevars)
  BY <1>2 DEF FatalExit, Killed, ExitProduceError, Kill, ExitConsume, FilesInHand, Alive
<1>3. CASE \/ \E p \in Producers : HubProducerStep(p) /\ force' = force
           \/ (CloseJobs \/ Interrupt) /\ UNCHANGED filevars /\ force' = force
           \/ UNCHANGED hubvars
  <2>1. /\ UNCHANGED filevars /\ UNCHANGED workervars /\ force' = force /\ nxt' = nxt
        /\ Alive' => Alive
        /\ \A s \in Slices : pc'[s] = pc[s] \/ pc'[s] = "loop"
    BY <1>3 DEF HubProducerStep, ProducerStep, ListPackages, ListFailed, ReturnProducer,
       CloseJobs, Interrupt, hubvars, filevars, workervars, slicevars, Alive, Known, PoolInv,
       PoolTypeOK
  <2>2. ASSUME Alive', NEW v \in Workers PROVE JobFiles(v)'
    BY <2>1, <2>2, JobFilesStay DEF FilesInHand, filevars, workervars
  <2>3. ASSUME Alive', NEW t \in Slices PROVE LoopFiles(t)'
    <3>1. CASE pc'[t] = pc[t]
      BY <2>1, <2>3, <3>1, LoopFilesStay DEF FilesInHand, filevars
    <3>2. CASE pc'[t] = "loop"
      BY <3>2 DEF LoopFiles
    <3>3. QED
      BY <2>1, <3>1, <3>2
  <2>4. QED
    BY <2>2, <2>3 DEF FilesInHand
<1>4. QED
  BY <1>1, <1>2, <1>3

\* FilesInHand is inductive.
LEMMA InHandStep ==
  ASSUME DistinctNames, ListedOnce, Known, FilesInHand, [HubNext]_hubvars
  PROVE  FilesInHand'
BY SliceInHand, OrderInHand, ExtractionInHand, GenerationInHand, StopInHand, ProcessInHand
   DEF HubNext, HubStep

-----------------------------------------------------------------------------
(* The entries of the archive *)

\* A step changes no tarball and no marker.
EntriesStay ==
  \A p \in Pkgs : disk'[Tarball(p)] = disk[Tarball(p)] /\ disk'[Marker(p)] = disk[Marker(p)]

\* The steps that do change one, while the process lives.
ChangesEntry ==
  \/ \E s \in Slices : MarkNative(s)
  \/ \E w \in Workers : BeginCompress(w) \/ EndCompress(w) \/ FailCompress(w)

\* Intermediate files are neither tarballs nor markers.
LEMMA KindsApart ==
  \A p, q \in Pkgs :
    /\ Tarball(p) \in Files /\ Marker(p) \in Files /\ Tarball(p) # Marker(q)
    /\ \A f \in {Download(q), Vmlinux(q), BTF(q), NoFile} : f # Tarball(p) /\ f # Marker(p)
<1>1. \A p \in Pkgs : Tarball(p) \in Files /\ Marker(p) \in Files /\ NoFile # Tarball(p)
                    /\ NoFile # Marker(p)
  BY PathsAreFiles, NoFileIsNone
<1>2. \A p, q \in Pkgs :
        /\ Tarball(p) # Marker(q)
        /\ \A f \in {Download(q), Vmlinux(q), BTF(q)} : f # Tarball(p) /\ f # Marker(p)
  BY DEF Download, Vmlinux, BTF, Tarball, Marker
<1>3. QED
  BY <1>1, <1>2

\* To create an intermediate file leaves tarballs and markers alone.
LEMMA CreateInput ==
  ASSUME Known, NEW w \in Workers, NEW q \in Pkgs, NEW f \in {Download(q), Vmlinux(q), BTF(q)},
         Create(w, f)
  PROVE  EntriesStay
BY KindsApart DEF Create, EntriesStay, Known, FileInv, FileTypeOK

\* To remove some of them does too.
LEMMA RemoveInput ==
  ASSUME Known, NEW ws, NEW q \in Pkgs, NEW fs \in SUBSET {Download(q), Vmlinux(q), BTF(q)},
         RemoveAll(fs, ws)
  PROVE  EntriesStay
BY KindsApart DEF RemoveAll, EntriesStay, Known, FileInv, FileTypeOK

\* To finish one does too.
LEMMA FinishInput ==
  ASSUME Known, NEW w \in Workers, HasJob(w),
         stage[w] \notin {"compress", "hopeless"}, Finish(w)
  PROVE  EntriesStay
<1>1. wpk[w] \in Pkgs
  BY JobPaths DEF Known, PoolInv, HasJob
<1>2. writing[w] \in {Download(wpk[w]), Vmlinux(wpk[w]), BTF(wpk[w]), NoFile}
  BY DEF Known, FileInv, OpenFile
<1>3. QED
  BY <1>1, <1>2, KindsApart DEF Finish, EntriesStay, Known, FileInv, FileTypeOK

\* Only the two ends of tar, the marker and the end of the process change an entry.
LEMMA OtherStepsKeepEntries ==
  ASSUME Known, [HubNext]_hubvars
  PROVE  EntriesStay \/ ChangesEntry \/ FatalExit \/ Killed
<1>1. UNCHANGED disk => EntriesStay
  BY DEF EntriesStay
<1>2. ASSUME NEW s \in Slices, HubSliceStep(s) PROVE EntriesStay \/ ChangesEntry
  <2>1. CASE DropNative(s)
    <3>1. RemoveAll({Vmlinux(At(s))}, {}) /\ At(s) \in Pkgs
      BY <2>1, AtIsListed DEF DropNative, SkipLaterKernels, Known, PoolInv, PoolTypeOK
    <3>2. QED
      BY <3>1, RemoveInput
  <2>2. CASE MarkNative(s)
    BY <2>2 DEF ChangesEntry
  <2>3. CASE ~DropNative(s) /\ ~MarkNative(s)
    BY <1>1, <1>2, <2>3
       DEF HubSliceStep, StopAtMarked, SkipPublished, StartPackage, RejectVmlinux, AcceptVmlinux,
           GiveUp, EndSlice, filevars
  <2>4. QED
    BY <2>1, <2>2, <2>3
<1>3. ASSUME NEW w \in Workers, ExtractionStep(w) PROVE EntriesStay
  <2> USE DEF Extracting
  <2>1. wst[w] = "extract" /\ HasJob(w) /\ wpk[w] \in Pkgs
    BY <1>3, JobPaths
       DEF ExtractionStep, ReplyExisting, ReuseDownload, BeginDownload, EndDownload,
           FailDownload, BeginExtract, EndExtract, FailExtract, ReplyExtracted, Known,
           PoolInv, HasJob
  <2>2. CASE ReplyExisting(w) \/ ReuseDownload(w)
    BY <1>1, <2>2 DEF ReplyExisting, ReuseDownload, filevars
  <2>3. CASE BeginDownload(w) \/ BeginExtract(w)
    BY <2>1, <2>3, CreateInput DEF BeginDownload, BeginExtract
  <2>4. CASE EndDownload(w) \/ EndExtract(w)
    BY <2>1, <2>4, FinishInput DEF EndDownload, EndExtract
  <2>5. CASE FailDownload(w) \/ FailExtract(w) \/ ReplyExtracted(w)
    <3>1. \E fs \in SUBSET {Download(wpk[w]), Vmlinux(wpk[w]), BTF(wpk[w])} : RemoveAll(fs, {w})
      BY <2>5 DEF FailDownload, FailExtract, ReplyExtracted
    <3>2. QED
      BY <2>1, <3>1, RemoveInput
  <2>6. QED
    BY <1>3, <2>2, <2>3, <2>4, <2>5 DEF ExtractionStep
<1>4. ASSUME NEW w \in Workers, GenerationStep(w) PROVE EntriesStay \/ ChangesEntry
  <2> USE DEF Generating
  <2>1. wst[w] = "btf" /\ HasJob(w) /\ wpk[w] \in Pkgs
    BY <1>4, JobPaths
       DEF GenerationStep, BeginGenerate, EndGenerate, FailGenerate, BeginCompress,
           EndCompress, FailCompress, RemoveInputs, Known, PoolInv, HasJob
  <2>2. CASE BeginGenerate(w)
    BY <2>1, <2>2, CreateInput DEF BeginGenerate
  <2>3. CASE EndGenerate(w)
    BY <2>1, <2>3, FinishInput DEF EndGenerate
  <2>4. CASE FailGenerate(w) \/ RemoveInputs(w)
    <3>1. \E fs \in SUBSET {Download(wpk[w]), Vmlinux(wpk[w]), BTF(wpk[w])} : RemoveAll(fs, {w})
      BY <2>4 DEF FailGenerate, RemoveInputs
    <3>2. QED
      BY <2>1, <3>1, RemoveInput
  <2>5. CASE BeginCompress(w) \/ EndCompress(w) \/ FailCompress(w)
    BY <2>5 DEF ChangesEntry
  <2>6. QED
    BY <1>4, <2>2, <2>3, <2>4, <2>5 DEF GenerationStep
<1>5. CASE \/ \E p \in Producers : HubProducerStep(p)
           \/ \E s \in Slices, w \in Workers : OrderExtraction(s, w) \/ OrderBTF(s, w)
           \/ \E w \in Workers : StopWorker(w)
           \/ (CloseJobs \/ ExitConsume \/ Interrupt) /\ UNCHANGED filevars
           \/ StartAgain \/ UNCHANGED hubvars
  BY <1>1, <1>5
     DEF HubProducerStep, OrderExtraction, OrderBTF, StopWorker, StartAgain, filevars, hubvars
<1>6. QED
  BY <1>2, <1>3, <1>4, <1>5 DEF HubNext, HubStep

\* What a step that makes, finishes or removes a tarball does to it.
LEMMA CompressSteps ==
  ASSUME DistinctNames, ListedOnce, Known, FilesInv,
         NEW w \in Workers, BeginCompress(w) \/ EndCompress(w) \/ FailCompress(w)
  PROVE  /\ Alive /\ wst[w] = "btf" /\ wpk[w] \in Pkgs \ HasBTF
         /\ \A f \in Files : f # Tarball(wpk[w]) => disk'[f] = disk[f]
         /\ \/ /\ BeginCompress(w) /\ stage[w] = "generated"
               /\ disk'[Tarball(wpk[w])] = "partial"
               /\ ~force => ~Exists(Tarball(wpk[w]))
            \/ /\ EndCompress(w) /\ stage[w] = "compress"
               /\ disk[Tarball(wpk[w])] = "partial" /\ disk'[Tarball(wpk[w])] = "full"
            \/ /\ FailCompress(w) /\ stage[w] = "compress"
               /\ disk[Tarball(wpk[w])] = "partial" /\ disk'[Tarball(wpk[w])] = "absent"
<1>1. /\ Alive /\ wst[w] = "btf" /\ HasJob(w) /\ wpk[w] \in Pkgs
      /\ JobFiles(w)
  BY JobPaths DEF BeginCompress, EndCompress, FailCompress, Generating, Known, PoolInv, HasJob,
                  FilesInv, FilesInHand
<1>2. wpk[w] \notin HasBTF /\ stage[w] # "hopeless"
  BY <1>1 DEF JobFiles
<1>3. Tarball(wpk[w]) \in Paths(wpk[w]) /\ Tarball(wpk[w]) \in Files
  BY <1>1, PathsAreFiles DEF Paths
<1>4. stage[w] = "compress" => writing[w] = Tarball(wpk[w]) /\ disk[Tarball(wpk[w])] = "partial"
  BY <1>1, <1>3 DEF JobFiles, Known, FileInv, IncompleteIsWritten
<1>5. CASE BeginCompress(w)
  BY <1>1, <1>2, <1>3, <1>5, CreateOwn DEF BeginCompress, Generating, JobFiles
<1>6. CASE EndCompress(w)
  BY <1>1, <1>2, <1>3, <1>4, <1>6, FinishOwn DEF EndCompress, Generating
<1>7. CASE FailCompress(w)
  <2>1. stage[w] = "compress" /\ RemoveAll({Tarball(wpk[w])}, {w})
    BY <1>2, <1>7 DEF FailCompress, Generating
  <2>2. {Tarball(wpk[w])} \in SUBSET Paths(wpk[w])
    BY <1>3
  <2>3. /\ disk'[Tarball(wpk[w])] = "absent"
        /\ \A g \in Files : g # Tarball(wpk[w]) => disk'[g] = disk[g]
    BY <1>1, <2>1, <2>2, RemoveOwn
  <2>4. QED
    BY <1>1, <1>2, <1>4, <1>7, <2>1, <2>3
<1>8. QED
  BY <1>5, <1>6, <1>7

\* EntryFits is inductive.
LEMMA EntryStep ==
  ASSUME DistinctNames, ListedOnce, Known, FilesInv, [HubNext]_hubvars
  PROVE  EntryFits'
<1>1. CASE EntriesStay
  BY <1>1 DEF EntriesStay, FilesInv, EntryFits, Exists
<1>2. CASE FatalExit \/ Killed
  BY <1>2, KindsApart DEF FatalExit, Killed, TearFiles, FilesInv, EntryFits, Exists
<1>3. ASSUME NEW s \in Slices, MarkNative(s) PROVE EntryFits'
  <2>1. /\ At(s) \in HasBTF /\ At(s) \in Pkgs
        /\ \A f \in Files : f # Marker(At(s)) => disk'[f] = disk[f]
    BY <1>3, FileAssumption DEF MarkNative, Known, FileInv, FileTypeOK
  <2>2. \A p \in Pkgs : /\ disk'[Tarball(p)] = disk[Tarball(p)]
                        /\ p \notin HasBTF => disk'[Marker(p)] = disk[Marker(p)]
    BY <2>1, KindsApart DEF DistinctNames, Marker
  <2>3. QED
    BY <2>2 DEF FilesInv, EntryFits, Exists
<1>4. ASSUME NEW w \in Workers, BeginCompress(w) \/ EndCompress(w) \/ FailCompress(w)
      PROVE  EntryFits'
  <2>1. /\ wpk[w] \in Pkgs \ HasBTF
        /\ \A f \in Files : f # Tarball(wpk[w]) => disk'[f] = disk[f]
    BY <1>4, CompressSteps
  <2>2. \A p \in Pkgs : /\ disk'[Marker(p)] = disk[Marker(p)]
                        /\ p \in HasBTF => disk'[Tarball(p)] = disk[Tarball(p)]
    BY <2>1, KindsApart DEF DistinctNames, Tarball
  <2>3. QED
    BY <2>2 DEF FilesInv, EntryFits, Exists
<1>5. QED
  BY <1>1, <1>2, <1>3, <1>4, OtherStepsKeepEntries DEF ChangesEntry

-----------------------------------------------------------------------------
(* What is known of every reachable state *)

\* What earlier modules prove holds here.
LEMMA PoolKnown == HubSpec => []PoolInv
BY Implementation, Invariance, PTL

\* The invariant of BtfHubProofs holds.
LEMMA FileKnown == HubSpec => []FileInv
<1>1. FileInv /\ PoolInv /\ [HubNext]_hubvars => FileInv'
  BY FileStep DEF PoolInv
<1>2. QED
  BY FileInit, <1>1, PoolKnown, PTL DEF HubSpec

\* Jobs have their packages in every state.
LEMMA JobsKnown == ASSUME ListedOnce PROVE HubSpec => []JobPackages
<1>1. HubInit => JobPackages
  BY DEF HubInit, PoolInit, JobPackages
<1>2. JobPackages /\ PoolInv /\ [HubNext]_hubvars => JobPackages'
  BY StepImplements, PackagesStep
<1>3. QED
  BY <1>1, <1>2, PoolKnown, PTL DEF HubSpec

\* All that the lemmas above take as known holds in every state.
LEMMA KnownHolds == ASSUME ListedOnce PROVE HubSpec => []Known
BY PoolKnown, FileKnown, JobsKnown, PTL DEF Known

\* The files are in hand and the entries fit in every state.
LEMMA FilesHold == ASSUME DistinctNames, ListedOnce PROVE HubSpec => []FilesInv
<1>1. HubInit => FilesInv
  BY PathsAreFiles
     DEF HubInit, PoolInit, FilesInv, FilesInHand, EntryFits, JobFiles, LoopFiles, Exists
<1>2. FilesInv /\ Known /\ [HubNext]_hubvars => FilesInv'
  BY InHandStep, EntryStep DEF FilesInv
<1>3. QED
  BY <1>1, <1>2, KnownHolds, PTL DEF HubSpec

\* Whatever the other jobs remove, a file that a job or a loop is going to read is
\* there and whole until it has read it (the removals at the end of extract.go and
\* btf.go, and of their error paths).
THEOREM InputsStay == ASSUME DistinctNames, ListedOnce PROVE HubSpec => []InputsKept
<1>1. FilesInv => InputsKept
  BY DEF FilesInv, FilesInHand, JobFiles, LoopFiles, InputsKept
<1>2. QED
  BY <1>1, FilesHold, PTL

-----------------------------------------------------------------------------
(* The program implements the archive *)

\* entry is a function: it is unchanged when its values are.
LEMMA EntryUnmoved ==
  ASSUME \A p \in Pkgs : entry'[p] = entry[p]
  PROVE  entry' = entry
BY DEF entry

\* It changes at one package when the others keep their values.
LEMMA EntryMoved ==
  ASSUME NEW p \in Pkgs, NEW new, entry'[p] = new,
         \A q \in Pkgs : q # p => entry'[q] = entry[q]
  PROVE  entry' = [entry EXCEPT ![p] = new]
<1> DEFINE e == entry
           f == entry'
<1>1. e = [q \in Pkgs |-> e[q]] /\ f = [q \in Pkgs |-> f[q]]
  BY DEF entry
<1>2. f[p] = new /\ \A q \in Pkgs : q # p => f[q] = e[q]
  OBVIOUS
<1> HIDE DEF e, f
<1>3. f = [e EXCEPT ![p] = new]
  BY <1>1, <1>2
<1> QED BY <1>3 DEF e, f

\* The steps of tar are steps of Archive.
LEMMA CompressMoves ==
  ASSUME DistinctNames, ListedOnce, Known, FilesInv, force' = force,
         NEW w \in Workers, BeginCompress(w) \/ EndCompress(w) \/ FailCompress(w)
  PROVE  A!Next \/ UNCHANGED <<entry, force>>
<1>1. PICK p \in Pkgs \ HasBTF : p = wpk[w]
  BY CompressSteps
<1>2. /\ \A f \in Files : f # Tarball(p) => disk'[f] = disk[f]
      /\ Tarball(p) \in Files /\ ~Exists(Marker(p)) /\ disk'[Marker(p)] = disk[Marker(p)]
  BY <1>1, CompressSteps, KindsApart DEF FilesInv, EntryFits
<1>3. ASSUME NEW q \in Pkgs, q # p PROVE entry'[q] = entry[q]
  <2>1. disk'[Tarball(q)] = disk[Tarball(q)] /\ disk'[Marker(q)] = disk[Marker(q)]
    BY <1>1, <1>2, <1>3, KindsApart DEF DistinctNames, Tarball
  <2>2. QED
    BY <2>1 DEF entry, Exists, Tarball, Marker
<1>4. /\ entry[p] = CASE disk[Tarball(p)] = "absent" -> "none"
                      [] disk[Tarball(p)] = "full"   -> "published"
                      [] OTHER                       -> "incomplete"
      /\ entry'[p] = CASE disk'[Tarball(p)] = "absent" -> "none"
                       [] disk'[Tarball(p)] = "full"   -> "published"
                       [] OTHER                        -> "incomplete"
  BY <1>1, <1>2 DEF entry, Exists, Tarball, Marker
<1>5. CASE entry'[p] = entry[p]
  BY <1>3, <1>5, EntryUnmoved
<1>6. CASE entry[p] = "none" /\ entry'[p] = "incomplete"
  BY <1>1, <1>3, <1>6, EntryMoved DEF A!Next, A!Begin, A!Move
<1>7. CASE entry[p] = "incomplete" /\ entry'[p] = "published"
  BY <1>1, <1>3, <1>7, EntryMoved DEF A!Next, A!Publish, A!Move
<1>8. CASE entry[p] = "incomplete" /\ entry'[p] = "none"
  BY <1>1, <1>3, <1>8, EntryMoved DEF A!Next, A!Abort, A!Move
<1>9. CASE entry[p] = "published" /\ entry'[p] = "incomplete" /\ force
  BY <1>1, <1>3, <1>9, EntryMoved DEF A!Next, A!Redo, A!Move
<1>10. QED
  <2>1. CASE disk'[Tarball(p)] = "partial" /\ (~force => disk[Tarball(p)] = "absent")
    BY <1>4, <1>5, <1>6, <1>9, <2>1
  <2>2. CASE disk[Tarball(p)] = "partial" /\ disk'[Tarball(p)] = "full"
    BY <1>4, <1>7, <2>2
  <2>3. CASE disk[Tarball(p)] = "partial" /\ disk'[Tarball(p)] = "absent"
    BY <1>4, <1>8, <2>3
  <2>4. QED
    BY <1>1, <2>1, <2>2, <2>3, CompressSteps DEF Exists

\* So is creating a marker.
LEMMA MarkMoves ==
  ASSUME DistinctNames, Known, FilesInv, force' = force, NEW s \in Slices, MarkNative(s)
  PROVE  A!Next \/ UNCHANGED <<entry, force>>
<1>1. PICK p \in HasBTF : p = At(s)
  BY DEF MarkNative
<1>2. /\ p \in Pkgs /\ ~Exists(Tarball(p))
      /\ \A f \in Files : f # Marker(p) => disk'[f] = disk[f]
      /\ disk'[Marker(p)] \in {disk[Marker(p)], "full"}
  BY <1>1, FileAssumption, PathsAreFiles
     DEF MarkNative, Known, FileInv, FileTypeOK, FilesInv, EntryFits
<1>3. ASSUME NEW q \in Pkgs, q # p PROVE entry'[q] = entry[q]
  <2>1. disk'[Tarball(q)] = disk[Tarball(q)] /\ disk'[Marker(q)] = disk[Marker(q)]
    BY <1>2, <1>3, KindsApart DEF DistinctNames, Marker
  <2>2. QED
    BY <2>1 DEF entry, Exists, Tarball, Marker
<1>4. disk'[Tarball(p)] = disk[Tarball(p)] /\ disk[Tarball(p)] = "absent"
  BY <1>2, KindsApart DEF Exists
<1>5. /\ entry[p] = IF disk[Marker(p)] # "absent" THEN "native" ELSE "none"
      /\ entry'[p] = IF disk'[Marker(p)] # "absent" THEN "native" ELSE "none"
  BY <1>2, <1>4 DEF entry, Exists, Tarball, Marker
<1>6. CASE entry'[p] = entry[p]
  BY <1>3, <1>6, EntryUnmoved
<1>7. CASE entry[p] = "none" /\ entry'[p] = "native"
  BY <1>2, <1>3, <1>7, EntryMoved DEF A!Next, A!Native, A!Move
<1>8. QED
  BY <1>2, <1>5, <1>6, <1>7

\* Every step moves one entry as the archive allows, starts the program again, or
\* leaves the entries as they are.
LEMMA EntryMoves ==
  ASSUME DistinctNames, ListedOnce, Known, FilesInv, [HubNext]_hubvars
  PROVE  A!Next \/ UNCHANGED <<entry, force>>
<1>1. CASE StartAgain
  <2>1. entry' = entry
    BY <1>1, EntryUnmoved DEF StartAgain, entry, Exists, Tarball, Marker
  <2>2. QED
    BY <1>1, <2>1, FileAssumption DEF StartAgain, A!Next, A!StartAgain
<1>2. CASE EntriesStay /\ force' = force
  <2>1. ASSUME NEW p \in Pkgs PROVE entry'[p] = entry[p]
    BY <1>2 DEF EntriesStay, entry, Exists, Tarball, Marker
  <2>2. QED
    BY <1>2, <2>1, EntryUnmoved
<1>3. CASE (FatalExit \/ Killed) /\ force' = force
  <2>1. ASSUME NEW p \in Pkgs PROVE entry'[p] = entry[p]
    BY <1>3, KindsApart DEF FatalExit, Killed, TearFiles, entry, Exists, Tarball, Marker
  <2>2. QED
    BY <1>3, <2>1, EntryUnmoved
<1>4. ASSUME ChangesEntry, force' = force PROVE A!Next \/ UNCHANGED <<entry, force>>
  BY <1>4, CompressMoves, MarkMoves DEF ChangesEntry
<1>5. force' = force \/ StartAgain
  BY DEF HubNext, hubvars
<1>6. QED
  BY <1>1, <1>2, <1>3, <1>4, <1>5, OtherStepsKeepEntries

\* When no two packages share a file name and each is listed once, the program with
\* its workers, failures, kills and restarts implements the archive.
THEOREM ArchiveImplemented == ASSUME DistinctNames, ListedOnce PROVE HubSpec => ArchiveSpec
<1>1. HubInit => A!Init
  <2>1. ASSUME HubInit, NEW p \in Pkgs PROVE entry[p] = "none"
    BY <2>1, PathsAreFiles DEF HubInit, entry, Exists
  <2>2. QED
    BY <2>1, FileAssumption DEF HubInit, A!Init, entry
<1>2. Known /\ FilesInv /\ [HubNext]_hubvars => [A!Next]_<<entry, force>>
  BY EntryMoves
<1>3. QED
  BY <1>1, <1>2, KnownHolds, FilesHold, PTL DEF HubSpec, ArchiveSpec, A!Spec

-----------------------------------------------------------------------------
(* What becomes of the packages: proofs *)

\* While the program is not started again, errors stay reported, -f stays as it is
\* and what is cancelled stays cancelled.
LEMMA StepIsAlive == HubStep => Alive
<1>1. \A s \in Slices : HubSliceStep(s) => Alive
  BY SliceImplements
     DEF SliceStep, EndOfSlice, KnownHasBTF, SkipExisting, NewExtraction, SendCancelled,
         InspectFailed, MarkHasBTF, SkipLaterKernels, NeedsBTF, AtLoop
<1>2. \A w \in Workers : ExtractionStep(w) \/ GenerationStep(w) \/ StopWorker(w) => Alive
  BY DEF ExtractionStep, GenerationStep, StopWorker, ReplyExisting, ReuseDownload, BeginDownload,
     EndDownload, FailDownload, BeginExtract, EndExtract, FailExtract, ReplyExtracted,
     BeginGenerate, EndGenerate, FailGenerate, BeginCompress, EndCompress, FailCompress,
     RemoveInputs, Extracting, Generating, WorkerCancelled, WorkerDone, Alive
<1>3. QED
  BY <1>1, <1>2
     DEF HubStep, HubProducerStep, ProducerStep, ListPackages, ListFailed, ReturnProducer,
         OrderExtraction, OrderBTF, SendExtraction, SendBTF, CloseJobs, ExitConsume, Interrupt,
         FatalExit, ExitProduceError, Killed, Kill, Alive

\* Within a run errors accumulate, the flag stays, and what is cancelled or ended
\* remains so.
LEMMA RunGoesOn ==
  ASSUME PoolInv, [HubNext]_hubvars, ~StartAgain
  PROVE  /\ failed \subseteq failed' /\ force' = force /\ run' = run
         /\ Uncancelled' => Uncancelled
         /\ Going' => Going
<1>1. force' = force
  BY DEF HubNext, hubvars
<1>2. failed \subseteq failed'
  BY DEF HubNext, HubStep, hubvars, filevars, Report, HubProducerStep, HubSliceStep,
     StopAtMarked, SkipPublished, StartPackage, RejectVmlinux, MarkNative, DropNative,
     AcceptVmlinux, GiveUp, EndSlice, OrderExtraction, OrderBTF, ExtractionStep,
     GenerationStep, StopWorker, ReplyExisting, ReuseDownload, BeginDownload, EndDownload,
     FailDownload, BeginExtract, EndExtract, FailExtract, ReplyExtracted, BeginGenerate,
     EndGenerate, FailGenerate, BeginCompress, EndCompress, FailCompress, RemoveInputs,
     FatalExit, Killed
<1>3. (PoolNext /\ ~Rerun) \/ UNCHANGED poolvars
  <2>1. CASE UNCHANGED hubvars
    BY <2>1 DEF hubvars, poolvars
  <2>2. CASE HubStep
    BY <2>2, StepIsAlive, StepImplements DEF Rerun
  <2>3. QED
    BY <2>1, <2>2 DEF HubNext
<1>4. CASE \E p \in Producers : ProducerStep(p)
  <2>1. /\ run' = run /\ main' = main /\ interrupted' = interrupted
        /\ \A p \in Producers : repo[p] = "failed" => repo'[p] = "failed"
    BY <1>4 DEF ProducerStep, ListPackages, ListFailed, ReturnProducer, PoolInv, PoolTypeOK
  <2>2. QED
    BY <1>1, <1>2, <2>1 DEF Uncancelled, ProduceError, Going
<1>5. CASE \E s \in Slices : SliceStep(s)
  <2>1. run' = run /\ main' = main /\ interrupted' = interrupted /\ repo' = repo
    BY <1>5 DEF SliceStep, EndOfSlice, KnownHasBTF, SkipExisting, NewExtraction,
       SendCancelled, InspectFailed, MarkHasBTF, SkipLaterKernels, NeedsBTF
  <2>2. QED
    BY <1>1, <1>2, <2>1 DEF Uncancelled, ProduceError, Going
<1>6. CASE \E w \in Workers : WorkerStep(w)
  <2>1. run' = run /\ main' = main /\ interrupted' = interrupted /\ repo' = repo
    BY <1>6 DEF WorkerStep, Receive, SendExtraction, SendBTF, ReplyPath, ReplyError,
       BTFJobEnds, WorkerCancelled, WorkerDone
  <2>2. QED
    BY <1>1, <1>2, <2>1 DEF Uncancelled, ProduceError, Going
<1>7. CASE MainStep \/ Interrupt \/ Kill \/ UNCHANGED poolvars
  <2>1. /\ run' = run /\ repo' = repo /\ (interrupted => interrupted')
        /\ main' = main \/ main \in {"producing", "closed"}
    BY <1>7 DEF MainStep, CloseJobs, ExitProduceError, ExitConsume, Interrupt, Kill, poolvars,
                Alive
  <2>2. QED
    BY <1>1, <1>2, <2>1 DEF Uncancelled, ProduceError, Going
<1>8. QED
  BY <1>3, <1>4, <1>5, <1>6, <1>7 DEF PoolNext

-----------------------------------------------------------------------------
(* A clean exit covers every kernel *)

\* A BTF job goes on, reports an error, or has made its tarball.
LEMMA JobSettles ==
  ASSUME Known, FilesInv, [HubNext]_hubvars, ~StartAgain, NEW w \in Workers, NEW p,
         Generates(w, p), Alive
  PROVE  \/ Generates(w, p)'
         \/ p \in failed'
         \/ disk'[Tarball(p)] = "full"
<1> USE DEF Generates
<1>1. wpk[w] \in Pkgs /\ JobFiles(w)
  BY JobPaths DEF Known, PoolInv, FilesInv, FilesInHand
<1>2. UNCHANGED workervars => Generates(w, p)'
  BY DEF workervars
<1>3. UNCHANGED poolvars => Generates(w, p)'
  BY DEF poolvars
<1>4. ASSUME NEW v \in Workers, v # w, GoIdle(v) PROVE Generates(w, p)'
  BY <1>4 DEF GoIdle, Known, PoolInv, PoolTypeOK
<1>5. ASSUME NEW v \in Workers, ExtractionStep(v) PROVE Generates(w, p)'
  <2>1. v # w
    BY <1>5 DEF ExtractionStep, ReplyExisting, ReuseDownload, BeginDownload, EndDownload,
       FailDownload, BeginExtract, EndExtract, FailExtract, ReplyExtracted, Extracting
  <2>2. GoIdle(v) \/ UNCHANGED poolvars
    BY <1>5 DEF ExtractionStep, ReplyExisting, ReuseDownload, BeginDownload, EndDownload,
       FailDownload, BeginExtract, EndExtract, FailExtract, ReplyExtracted, ReplyPath, ReplyError
  <2>3. QED
    BY <1>3, <1>4, <2>1, <2>2
<1>6. ASSUME NEW v \in Workers, GenerationStep(v)
      PROVE  Generates(w, p)' \/ p \in failed' \/ disk'[Tarball(p)] = "full"
  <2>1. CASE v # w
    BY <1>3, <1>4, <1>6, <2>1 DEF GenerationStep, BeginGenerate, EndGenerate, FailGenerate,
       BeginCompress, EndCompress, FailCompress, RemoveInputs, BTFJobEnds
  <2>2. CASE v = w /\ (FailGenerate(w) \/ FailCompress(w))
    BY <2>2 DEF FailGenerate, FailCompress, Report
  <2>3. CASE v = w /\ RemoveInputs(w)
    <3>1. disk[Tarball(p)] = "full" /\ RemoveAll({BTF(p), Vmlinux(p)}, {w})
      BY <1>1, <2>3 DEF RemoveInputs, Generating, JobFiles
    <3>2. /\ Tarball(p) \in Files
          /\ Tarball(p) # BTF(p) /\ Tarball(p) # Vmlinux(p)
      BY <1>1, KindsApart
    <3>3. QED
      BY <3>1, <3>2 DEF RemoveAll
  <2>4. CASE UNCHANGED poolvars
    BY <1>3, <2>4
  <2>5. QED
    BY <1>6, <2>1, <2>2, <2>3, <2>4
       DEF GenerationStep, BeginGenerate, EndGenerate, BeginCompress, EndCompress
<1>7. ASSUME NEW s \in Slices, NEW v \in Workers, OrderExtraction(s, v) \/ OrderBTF(s, v)
      PROVE  Generates(w, p)'
  BY <1>7 DEF OrderExtraction, OrderBTF, SendExtraction, SendBTF, Known, PoolInv, PoolTypeOK
<1>8. ASSUME NEW v \in Workers, StopWorker(v) PROVE Generates(w, p)'
  BY <1>8 DEF StopWorker, WorkerCancelled, WorkerDone, Known, PoolInv, PoolTypeOK
<1>9. ASSUME NEW s \in Slices, HubSliceStep(s) PROVE Generates(w, p)'
  BY <1>2, <1>9, SliceImplements
     DEF SliceStep, EndOfSlice, KnownHasBTF, SkipExisting, NewExtraction, SendCancelled,
         InspectFailed, MarkHasBTF, SkipLaterKernels, NeedsBTF
<1>10. CASE \/ \E r \in Producers : HubProducerStep(r)
            \/ (CloseJobs \/ ExitConsume \/ Interrupt) /\ UNCHANGED filevars
            \/ FatalExit \/ Killed \/ UNCHANGED hubvars
  BY <1>2, <1>10
     DEF HubProducerStep, ProducerStep, ListPackages, ListFailed, ReturnProducer, CloseJobs,
         ExitConsume, Interrupt, FatalExit, ExitProduceError, Killed, Kill, hubvars, workervars
<1>11. QED
  BY <1>5, <1>6, <1>7, <1>8, <1>9, <1>10 DEF HubNext, HubStep

\* A package that somebody has in care stays so until it is covered.
LEMMA CareGoesOn ==
  ASSUME DistinctNames, ListedOnce, Known, FilesInv, [HubNext]_hubvars, ~StartAgain, Alive,
         Going', NEW s \in Slices, NEW i \in DOMAIN Queue[s], InCare(s, i)
  PROVE  InCare(s, i)'
<1> DEFINE p == Queue[s][i]
<1>1. p \in Pkgs
  BY PoolAssumption
<1>2. failed \subseteq failed' /\ force' = force
  BY RunGoesOn DEF Known
<1>3. CASE AfterNative(s, i) \/ p \in failed
  BY <1>2, <1>3 DEF InCare, Handled
<1>4. ASSUME NEW w \in Workers, Generates(w, p) PROVE InCare(s, i)'
  <2>1. \/ Generates(w, p)'
        \/ p \in failed'
        \/ disk'[Tarball(p)] = "full"
    BY <1>4, JobSettles
  <2>2. QED
    BY <2>1 DEF InCare, Handled, Tarball
<1>5. ASSUME disk[Tarball(p)] \in {"full", "torn"}, Handled(s, i) PROVE InCare(s, i)'
  <2>1. CASE disk'[Tarball(p)] = disk[Tarball(p)]
    BY <1>2, <1>5, <2>1 DEF InCare, Handled, Tarball
  <2>2. ASSUME NEW w \in Workers, BeginCompress(w) \/ EndCompress(w) \/ FailCompress(w)
        PROVE  InCare(s, i)'
    <3>1. CASE wpk[w] = p
      BY <1>4, <2>2, <3>1, CompressSteps DEF Generates
    <3>2. CASE wpk[w] # p
      BY <1>1, <2>1, <2>2, <3>2, CompressSteps, KindsApart DEF DistinctNames, Tarball
    <3>3. QED
      BY <3>1, <3>2
  <2>3. ASSUME NEW t \in Slices, MarkNative(t) PROVE disk'[Tarball(p)] = disk[Tarball(p)]
    BY <1>1, <2>3, FileAssumption, KindsApart DEF MarkNative, Known, FileInv, FileTypeOK
  <2>4. EntriesStay => disk'[Tarball(p)] = disk[Tarball(p)]
    BY <1>1 DEF EntriesStay
  <2>5. ~FatalExit /\ ~Killed
    BY DEF FatalExit, Killed, ExitProduceError, Kill, Going
  <2>6. QED
    BY <2>1, <2>2, <2>3, <2>4, <2>5, OtherStepsKeepEntries DEF ChangesEntry
<1>6. QED
  BY <1>3, <1>4, <1>5 DEF InCare, Handled

\* A tarball that a loop finds is whole or torn: the job that would be writing it has
\* the package, which the loop is only now at.
LEMMA SkipInCare ==
  ASSUME DistinctNames, ListedOnce, Known, NEW s \in Slices, SkipPublished(s), force' = force,
         NEW i, i = nxt[s]
  PROVE  InCare(s, i)'
<1> USE DEF Known
<1>1. /\ Alive /\ pc[s] = "loop" /\ HasPackage(s)
      /\ ~force /\ Exists(Tarball(At(s))) /\ UNCHANGED filevars
  BY DEF SkipPublished, SkipExisting, AtLoop
<1>2. At(s) \in Pkgs /\ At(s) = Queue[s][i] /\ Tarball(At(s)) \in Files
  BY <1>1, AtIsListed, KindsApart DEF PoolInv
<1>3. ASSUME disk[Tarball(At(s))] = "partial" PROVE FALSE
  <2>1. PICK v \in Workers : writing[v] = Tarball(At(s))
    BY <1>2, <1>3 DEF FileInv, IncompleteIsWritten
  <2>2. HasJob(v) /\ wpk[v] = At(s)
    BY <1>1, <1>2, <2>1, WriterHasJob DEF Paths
  <2>3. wst[v] = "extract" => wsl[v] # s
    BY <1>1 DEF PoolInv, ReplyMatched
  <2>4. QED
    BY <1>1, <2>2, <2>3, JobNotAt DEF HasJob
<1>4. disk[Tarball(At(s))] \in {"torn", "full"}
  BY <1>1, <1>2, <1>3 DEF FileInv, FileTypeOK, FileStates, Exists
<1>5. disk'[Tarball(Queue[s][i])] \in {"torn", "full"}
  BY <1>1, <1>2, <1>4 DEF filevars
<1>6. QED
  BY <1>1, <1>5 DEF InCare, Handled, Tarball

\* A loop leaves a package behind when its tarball is there, after an error that is
\* reported, or when a worker has taken its BTF job.
LEMMA LeftInCare ==
  ASSUME DistinctNames, ListedOnce, Known, HubStep, force' = force, NEW s \in Slices,
         NEW i, i = nxt[s]
  PROVE  nxt'[s] = i \/ (HasPackage(s) /\ nxt'[s] = i + 1 /\ InCare(s, i)')
<1> USE DEF Known
<1> DEFINE Goal == nxt'[s] = i \/ (HasPackage(s) /\ nxt'[s] = i + 1 /\ InCare(s, i)')
<1>1. \A t \in Slices : nxt' = [nxt EXCEPT ![t] = @ + 1] =>
        nxt'[t] = nxt[t] + 1 /\ \A u \in Slices \ {t} : nxt'[u] = nxt[u]
  BY DEF PoolInv, PoolTypeOK
<1>2. HasPackage(s) => At(s) = Queue[s][i]
  BY AtIsListed DEF PoolInv
<1>3. ASSUME NEW t \in Slices, HubSliceStep(t) PROVE Goal
  <2>1. CASE SkipPublished(t)
    <3>1. HasPackage(t) /\ nxt' = [nxt EXCEPT ![t] = @ + 1]
      BY <2>1 DEF SkipPublished, SkipExisting, AtLoop, NextPackage
    <3>2. QED
      BY <1>1, <2>1, <3>1, SkipInCare
  <2>2. CASE RejectVmlinux(t)
    <3>1. /\ HasPackage(t) /\ At(t) \in failed'
          /\ nxt' = nxt \/ nxt' = [nxt EXCEPT ![t] = @ + 1]
      BY <2>2, PackageErrorCases
         DEF RejectVmlinux, InspectFailed, Report, PoolInv, PoolTypeOK
    <3>2. QED
      BY <1>1, <1>2, <3>1 DEF InCare, Handled
  <2>3. CASE ~SkipPublished(t) /\ ~RejectVmlinux(t)
    BY <1>3, <2>3
       DEF HubSliceStep, StopAtMarked, StartPackage, MarkNative, DropNative, AcceptVmlinux,
           GiveUp, EndSlice, KnownHasBTF, NewExtraction, MarkHasBTF, SkipLaterKernels, NeedsBTF,
           SendCancelled, EndOfSlice
  <2>4. QED
    BY <2>1, <2>2, <2>3
<1>4. ASSUME NEW w \in Workers, ExtractionStep(w) PROVE Goal
  <2>1. CASE FailDownload(w) \/ FailExtract(w)
    <3>1. ReplyError(w) /\ wst[w] = "extract" /\ wpk[w] \in failed'
      BY <2>1 DEF FailDownload, FailExtract, ReplyError, Report
    <3>2. wsl[w] \in Slices /\ HasPackage(wsl[w]) /\ At(wsl[w]) \in failed'
      BY <3>1, ExtractionIsAt
    <3>3. nxt' = nxt \/ nxt' = [nxt EXCEPT ![wsl[w]] = @ + 1]
      BY <3>1, <3>2, PackageErrorCases DEF ReplyError, PoolInv
    <3>4. QED
      BY <1>1, <1>2, <3>2, <3>3 DEF InCare, Handled
  <2>2. CASE ~FailDownload(w) /\ ~FailExtract(w)
    BY <1>4, <2>2
       DEF ExtractionStep, ReplyExisting, ReuseDownload, BeginDownload, EndDownload,
           BeginExtract, EndExtract, ReplyExtracted, ReplyPath, poolvars
  <2>3. QED
    BY <2>1, <2>2
<1>5. ASSUME NEW t \in Slices, NEW w \in Workers, OrderExtraction(t, w) PROVE Goal
  BY <1>5 DEF OrderExtraction, SendExtraction
<1>6. ASSUME NEW t \in Slices, NEW w \in Workers, OrderBTF(t, w) PROVE Goal
  <2>1. /\ HasPackage(t) /\ nxt' = [nxt EXCEPT ![t] = @ + 1]
        /\ wst'[w] = "btf" /\ wpk'[w] = At(t)
    BY <1>6 DEF OrderBTF, SendBTF, NextPackage, PoolInv, PoolTypeOK
  <2>2. QED
    BY <1>1, <1>2, <2>1 DEF InCare, Generates
<1>7. ASSUME NEW w \in Workers, GenerationStep(w) \/ StopWorker(w) PROVE Goal
  BY <1>7 DEF GenerationStep, BeginGenerate, EndGenerate, FailGenerate, BeginCompress,
     EndCompress, FailCompress, RemoveInputs, BTFJobEnds, StopWorker, WorkerCancelled,
     WorkerDone, slicevars, poolvars
<1>8. CASE \/ \E p \in Producers : HubProducerStep(p)
           \/ (CloseJobs \/ ExitConsume \/ Interrupt) /\ UNCHANGED filevars
           \/ FatalExit \/ Killed
  BY <1>8 DEF HubProducerStep, ProducerStep, ListPackages, ListFailed, ReturnProducer,
     CloseJobs, ExitConsume, Interrupt, FatalExit, ExitProduceError, Killed, Kill, slicevars
<1>9. QED
  BY <1>3, <1>4, <1>5, <1>6, <1>7, <1>8 DEF HubStep

\* A loop ends at the end of its list, at a kernel with BTF, or because something was
\* cancelled.
LEMMA EndedForReason ==
  ASSUME Known, FilesInv, HubStep, NEW s \in Slices, EndsForReason(s), Uncancelled
  PROVE  EndsForReason(s)'
<1> USE DEF Known
<1>1. /\ pc'[s] = pc[s] /\ nxt'[s] = nxt[s] => EndsForReason(s)'
      /\ pc'[s] # "done" => EndsForReason(s)'
      /\ nxt'[s] = nxt[s] /\ ~HasPackage(s) => EndsForReason(s)'
      /\ nxt'[s] = nxt[s] /\ HasPackage(s) /\ At(s) \in HasBTF => EndsForReason(s)'
  BY DEF EndsForReason, HasPackage, AfterNative, At, PoolInv, PoolTypeOK
<1>2. \A t \in Slices : \A l : GoTo(t, l) => pc'[t] = l /\ \A u \in Slices \ {t} : pc'[u] = pc[u]
  BY DEF GoTo, PoolInv, PoolTypeOK
<1>3. \A t \in Slices : NextPackage(t) =>
        pc'[t] = "loop" /\ \A u \in Slices \ {t} : pc'[u] = pc[u] /\ nxt'[u] = nxt[u]
  BY DEF NextPackage, GoTo, PoolInv, PoolTypeOK
<1>4. \A t \in Slices : PackageError(t) => pc'[t] \in {"loop", "failed"}
                          /\ \A u \in Slices \ {t} : pc'[u] = pc[u] /\ nxt'[u] = nxt[u]
  BY <1>2, <1>3 DEF PackageError
<1>5. ASSUME NEW t \in Slices, HubSliceStep(t) PROVE EndsForReason(s)'
  <2>1. CASE StopAtMarked(t)
    <3>1. /\ HasPackage(t) /\ GoTo(t, "done") /\ nxt' = nxt /\ Exists(Marker(At(t)))
      BY <2>1 DEF StopAtMarked, KnownHasBTF, AtLoop
    <3>2. At(t) \in HasBTF
      BY <3>1, AtIsListed DEF FilesInv, EntryFits, PoolInv
    <3>3. QED
      BY <1>1, <1>2, <3>1, <3>2
  <2>2. CASE DropNative(t)
    <3>1. HasPackage(t) /\ GoTo(t, "done") /\ nxt' = nxt /\ Alive /\ pc[t] = "mark"
      BY <2>2 DEF DropNative, SkipLaterKernels, PoolInv, PoolTypeOK
    <3>2. At(t) \in HasBTF
      BY <3>1 DEF FilesInv, FilesInHand, LoopFiles
    <3>3. QED
      BY <1>1, <1>2, <3>1, <3>2
  <2>3. CASE SkipPublished(t)
    BY <1>1, <1>3, <2>3 DEF SkipPublished, SkipExisting
  <2>4. CASE RejectVmlinux(t)
    BY <1>1, <1>4, <2>4 DEF RejectVmlinux, InspectFailed
  <2>5. CASE StartPackage(t) \/ MarkNative(t) \/ AcceptVmlinux(t)
    BY <1>1, <1>2, <2>5 DEF StartPackage, MarkNative, AcceptVmlinux, NewExtraction, MarkHasBTF,
                            NeedsBTF
  <2>6. CASE GiveUp(t)
    BY <2>6 DEF GiveUp, SendCancelled, ProdCtxDone, Uncancelled
  <2>7. CASE EndSlice(t)
    BY <1>1, <1>2, <2>7 DEF EndSlice, EndOfSlice
  <2>8. QED
    BY <1>5, <2>1, <2>2, <2>3, <2>4, <2>5, <2>6, <2>7 DEF HubSliceStep
<1>6. ASSUME NEW w \in Workers, ExtractionStep(w) PROVE EndsForReason(s)'
  <2>1. UNCHANGED poolvars \/ ReplyPath(w) \/ ReplyError(w)
    BY <1>6 DEF ExtractionStep, ReplyExisting, ReuseDownload, BeginDownload, EndDownload,
       FailDownload, BeginExtract, EndExtract, FailExtract, ReplyExtracted
  <2>2. CASE UNCHANGED poolvars
    BY <1>1, <2>2 DEF poolvars
  <2>3. CASE ReplyPath(w)
    <3>1. wsl[w] \in Slices /\ GoTo(wsl[w], "inspect") /\ nxt' = nxt
      BY <2>3, ExtractionIsAt DEF ReplyPath
    <3>2. QED
      BY <1>1, <1>2, <3>1
  <2>4. CASE ReplyError(w)
    <3>1. wsl[w] \in Slices /\ PackageError(wsl[w])
      BY <2>4, ExtractionIsAt DEF ReplyError
    <3>2. QED
      BY <1>1, <1>4, <3>1
  <2>5. QED
    BY <2>1, <2>2, <2>3, <2>4
<1>7. ASSUME NEW t \in Slices, NEW w \in Workers, OrderExtraction(t, w) \/ OrderBTF(t, w)
      PROVE  EndsForReason(s)'
  BY <1>1, <1>2, <1>3, <1>7 DEF OrderExtraction, OrderBTF, SendExtraction, SendBTF
<1>8. ASSUME NEW w \in Workers, GenerationStep(w) \/ StopWorker(w) PROVE EndsForReason(s)'
  BY <1>1, <1>8
     DEF GenerationStep, BeginGenerate, EndGenerate, FailGenerate, BeginCompress,
         EndCompress, FailCompress, RemoveInputs, BTFJobEnds, StopWorker, WorkerCancelled,
         WorkerDone, slicevars, poolvars
<1>9. CASE \E p \in Producers : HubProducerStep(p)
  <2>1. nxt' = nxt /\ (pc'[s] = pc[s] \/ pc'[s] = "loop")
    BY <1>9 DEF HubProducerStep, ProducerStep, ListPackages, ListFailed, ReturnProducer,
                slicevars
  <2>2. QED
    BY <1>1, <2>1
<1>10. CASE \/ (CloseJobs \/ ExitConsume \/ Interrupt) /\ UNCHANGED filevars
            \/ FatalExit \/ Killed
  BY <1>1, <1>10
     DEF CloseJobs, ExitConsume, Interrupt, FatalExit, ExitProduceError, Killed, Kill, slicevars
<1>11. QED
  BY <1>5, <1>6, <1>7, <1>8, <1>9, <1>10 DEF HubStep

\* CoverInv is inductive.
LEMMA CoverStep ==
  ASSUME DistinctNames, ListedOnce, Known, FilesInv, CoverInv, [HubNext]_hubvars
  PROVE  CoverInv'
<1>1. CASE UNCHANGED hubvars
  BY <1>1 DEF hubvars, CoverInv, Going, Uncancelled, ProduceError, BehindInCare, InCare, Handled,
     Generates, EndsForReason, HasPackage, Tarball, AfterNative
<1>2. CASE StartAgain
  BY <1>2, PoolAssumption
     DEF StartAgain, Rerun, CoverInv, BehindInCare, EndsForReason
<1>3. CASE HubStep /\ force' = force
  <2>1. Alive /\ ~StartAgain
    BY <1>3, StepIsAlive DEF StartAgain, Rerun
  <2>2. Going /\ (Going' => Going) /\ (Uncancelled' => Uncancelled)
    BY <2>1, RunGoesOn DEF Alive, Going, Known
  <2>3. ASSUME Going', NEW s \in Slices, NEW i \in DOMAIN Queue[s], i < nxt'[s]
        PROVE  InCare(s, i)'
    <3>1. i \in Int /\ nxt[s] \in Int
      BY PoolAssumption DEF Known, PoolInv, PoolTypeOK
    <3>2. PICK n : n = nxt[s]
      OBVIOUS
    <3>3. nxt'[s] = n \/ (nxt'[s] = n + 1 /\ InCare(s, n)')
      BY <1>3, <3>2, LeftInCare
    <3>4. CASE i < n
      BY <2>1, <2>2, <2>3, <3>2, <3>4, CareGoesOn DEF CoverInv, BehindInCare
    <3>5. CASE ~(i < n)
      <4>1. i = n /\ InCare(s, n)'
        BY <2>3, <3>1, <3>2, <3>3, <3>5
      <4>2. QED
        BY <4>1
    <3>6. QED
      BY <3>4, <3>5
  <2>4. ASSUME Uncancelled', NEW s \in Slices PROVE EndsForReason(s)'
    BY <1>3, <2>2, <2>4, EndedForReason DEF CoverInv
  <2>5. QED
    BY <2>3, <2>4 DEF CoverInv, BehindInCare
<1>4. QED
  BY <1>1, <1>2, <1>3 DEF HubNext

\* Loops have begun in every state.
LEMMA BegunKnown == HubSpec => []LoopsBegun
<1>1. HubInit => LoopsBegun
  BY PoolAssumption DEF HubInit, PoolInit, LoopsBegun
<1>2. PoolInv /\ LoopsBegun /\ [HubNext]_hubvars => LoopsBegun'
  BY StepImplements, BegunStep
<1>3. QED
  BY <1>1, <1>2, PoolKnown, PTL DEF HubSpec

\* At a clean exit the workers are done, nothing was cancelled and every loop has
\* come to its end.
LEMMA CleanExitIsDone ==
  ASSUME PoolInv, LoopsBegun, CleanExit
  PROVE  /\ Going /\ Uncancelled
         /\ \A w \in Workers : wst[w] = "ok"
         /\ \A s \in Slices : pc[s] = "done"
<1>1. /\ main = "ok" /\ \A w \in Workers : wst[w] = "ok"
      /\ \A p \in Producers : repo[p] = "ok"
  BY DEF CleanExit, PoolInv, OkSeen
<1>2. ASSUME NEW s \in Slices PROVE pc[s] = "done"
  BY <1>1, PoolAssumption DEF PoolInv, Lifecycle, Returned, LoopsBegun
<1>3. QED
  BY <1>1, <1>2 DEF CleanExit, Going, Uncancelled, ProduceError

\* At a clean exit nobody has anything in care, so what is left is covered.
LEMMA CoverGives == PoolInv /\ LoopsBegun /\ CoverInv => Covered
<1> SUFFICES ASSUME PoolInv, LoopsBegun, CoverInv, CleanExit,
                    NEW s \in Slices, NEW i \in DOMAIN Queue[s]
             PROVE  Handled(s, i)
  BY DEF Covered, Handled
<1>1. /\ \A w \in Workers : wst[w] = "ok"
      /\ pc[s] = "done" /\ BehindInCare(s) /\ EndsForReason(s)
  BY CleanExitIsDone DEF CoverInv
<1>2. i \in 1 .. Len(Queue[s]) /\ Len(Queue[s]) \in Nat /\ nxt[s] \in Nat
  BY PoolAssumption DEF PoolInv, PoolTypeOK
<1>3. CASE i < nxt[s]
  BY <1>1, <1>3 DEF BehindInCare, InCare, Generates
<1>4. CASE ~(i < nxt[s])
  <2>1. HasPackage(s) /\ nxt[s] <= i
    BY <1>2, <1>4 DEF HasPackage
  <2>2. PICK j \in 1 .. nxt[s] : Queue[s][j] \in HasBTF
    BY <1>1, <2>1 DEF EndsForReason, AfterNative
  <2>3. j \in 1 .. i
    BY <1>2, <2>1
  <2>4. QED
    BY <2>2, <2>3 DEF Handled, AfterNative
<1>5. QED
  BY <1>3, <1>4

\* Exit status 0 without an interrupt means that every kernel at or behind none with
\* BTF has its tarball, or an error was reported for it: whatever jobs overlapped,
\* and whatever earlier runs left behind (processPackage, btf.go, run()).
THEOREM ExitCovers == ASSUME DistinctNames, ListedOnce PROVE HubSpec => []Covered
<1>1. HubInit => CoverInv
  BY PoolAssumption
     DEF HubInit, PoolInit, CoverInv, BehindInCare, EndsForReason
<1>2. CoverInv /\ Known /\ FilesInv /\ [HubNext]_hubvars => CoverInv'
  BY CoverStep
<1>3. HubSpec => []CoverInv
  BY <1>1, <1>2, KnownHolds, FilesHold, PTL DEF HubSpec
<1>4. QED
  BY <1>3, CoverGives, PoolKnown, BegunKnown, PTL

-----------------------------------------------------------------------------
(* A clean first run leaves nothing else behind *)

\* Nothing of package p appears, and who is at p stays there.
LEMMA HandStays ==
  ASSUME NEW p \in Pkgs, PackageInHand(p),
         \A f \in {Download(p), Vmlinux(p), BTF(p)} : ~Exists(f) => disk'[f] = "absent",
         \A w \in Workers : wst[w] \in {"extract", "btf"} /\ wpk[w] = p =>
           wst'[w] = wst[w] /\ wpk'[w] = wpk[w] /\ stage'[w] = stage[w],
         \A s \in Slices : Holds(s, p) => Holds(s, p)'
  PROVE  PackageInHand(p)'
BY DEF PackageInHand, Extracts, Generates, Exists, Download, Vmlinux, BTF

\* The files of a package, and that they differ.
LEMMA OwnPaths ==
  ASSUME NEW p \in Pkgs
  PROVE  /\ Download(p) \in Paths(p) /\ Vmlinux(p) \in Paths(p) /\ BTF(p) \in Paths(p)
         /\ Tarball(p) \in Paths(p) /\ Paths(p) \subseteq Files
         /\ Download(p) # Vmlinux(p) /\ Download(p) # BTF(p) /\ Vmlinux(p) # BTF(p)
         /\ Tarball(p) # Download(p) /\ Tarball(p) # Vmlinux(p) /\ Tarball(p) # BTF(p)
BY PathsOf DEF Paths, Download, Vmlinux, BTF, Tarball

\* A step of a job for another package.
LEMMA HandOfOthers ==
  ASSUME DistinctNames, Known, NEW w \in Workers, HasJob(w), NEW p \in Pkgs,
         PackageInHand(p), p # wpk[w],
         \A f \in Files : f \notin Paths(wpk[w]) => disk'[f] = disk[f],
         \A v \in Workers \ {w} : wst'[v] = wst[v] /\ wpk'[v] = wpk[v] /\ stage'[v] = stage[v],
         \A s \in Slices : \/ pc'[s] = pc[s] /\ nxt'[s] = nxt[s]
                           \/ pc[s] = "wait"
  PROVE  PackageInHand(p)'
<1>1. wpk[w] \in Pkgs
  BY JobPaths DEF Known, PoolInv, HasJob
<1>2. \A f \in {Download(p), Vmlinux(p), BTF(p)} : disk'[f] = disk[f]
  BY <1>1, PathsApart, OwnPaths
<1>3. \A s \in Slices : Holds(s, p) => Holds(s, p)'
  BY DEF Holds, At
<1>4. QED
  BY <1>2, <1>3, HandStays DEF Exists

\* A step of a job touches the files of its package, and nobody else's job or loop.
LEMMA JobTouchesOwn ==
  ASSUME DistinctNames, ListedOnce, Known, FilesInv, NEW w \in Workers,
         ExtractionStep(w) \/ GenerationStep(w)
  PROVE  /\ HasJob(w) /\ Alive
         /\ \A f \in Files : f \notin Paths(wpk[w]) => disk'[f] = disk[f]
         /\ \A v \in Workers \ {w} : wst'[v] = wst[v] /\ wpk'[v] = wpk[v] /\ stage'[v] = stage[v]
         /\ \A t \in Slices : (pc'[t] = pc[t] /\ nxt'[t] = nxt[t]) \/ pc[t] = "wait"
<1> USE DEF Known, Extracting, Generating
<1>1. Alive /\ HasJob(w) /\ JobFiles(w) /\ wpk[w] \in Pkgs
  <2>1. Alive /\ HasJob(w)
    BY DEF ExtractionStep, ReplyExisting, ReuseDownload, BeginDownload, EndDownload,
       FailDownload, BeginExtract, EndExtract, FailExtract, ReplyExtracted, GenerationStep,
       BeginGenerate, EndGenerate, FailGenerate, BeginCompress, EndCompress, FailCompress,
       RemoveInputs, HasJob
  <2>2. QED
    BY <2>1, JobPaths DEF FilesInv, FilesInHand, HasJob, PoolInv
<1>2. \A f \in Files : f \notin Paths(wpk[w]) => disk'[f] = disk[f]
  <2>1. CASE \E f \in Paths(wpk[w]) : Create(w, f)
    BY <1>1, <2>1, CreateOwn
  <2>2. CASE \E fs \in SUBSET Paths(wpk[w]) : RemoveAll(fs, {w})
    BY <1>1, <2>2, RemoveOwn
  <2>3. CASE Finish(w) /\ writing[w] \in Paths(wpk[w]) \cup {NoFile}
    BY <1>1, <2>3, FinishOwn, NoFileIsNone
  <2>4. writing[w] \in Paths(wpk[w]) \cup {NoFile}
    BY DEF FileInv, OpenFile, Paths
  <2>5. CASE UNCHANGED disk
    BY <2>5
  <2>6. /\ \A f \in {Download(wpk[w]), Vmlinux(wpk[w]), BTF(wpk[w]), Tarball(wpk[w])} :
             f \in Paths(wpk[w]) /\ {f} \in SUBSET Paths(wpk[w])
        /\ {BTF(wpk[w]), Vmlinux(wpk[w])} \in SUBSET Paths(wpk[w])
    BY DEF Paths
  <2>7. CASE ExtractionStep(w)
    BY <2>1, <2>2, <2>3, <2>4, <2>5, <2>6, <2>7
       DEF ExtractionStep, ReplyExisting, ReuseDownload, BeginDownload, EndDownload,
           FailDownload, BeginExtract, EndExtract, FailExtract, ReplyExtracted, filevars
  <2>8. CASE GenerationStep(w)
    BY <2>1, <2>2, <2>3, <2>4, <2>5, <2>6, <2>8
       DEF GenerationStep, BeginGenerate, EndGenerate, FailGenerate, BeginCompress,
           EndCompress, FailCompress, RemoveInputs
  <2>9. QED
    BY <2>7, <2>8
<1>3. (\E label : Reach(w, label)) \/ stage' = stage
  BY DEF ExtractionStep, ReplyExisting, ReuseDownload, BeginDownload, EndDownload,
     FailDownload, BeginExtract, EndExtract, FailExtract, ReplyExtracted, GenerationStep,
     BeginGenerate, EndGenerate, FailGenerate, BeginCompress, EndCompress, FailCompress,
     RemoveInputs, filevars
<1>4. UNCHANGED poolvars \/ ReplyPath(w) \/ ReplyError(w) \/ BTFJobEnds(w)
  BY DEF ExtractionStep, ReplyExisting, ReuseDownload, BeginDownload, EndDownload,
     FailDownload, BeginExtract, EndExtract, FailExtract, ReplyExtracted, GenerationStep,
     BeginGenerate, EndGenerate, FailGenerate, BeginCompress, EndCompress, FailCompress,
     RemoveInputs
<1>5. \A v \in Workers \ {w} : stage'[v] = stage[v]
  BY <1>3 DEF Reach, FileInv, FileTypeOK
<1>6. \A v \in Workers \ {w} : wst'[v] = wst[v] /\ wpk'[v] = wpk[v]
  BY <1>4 DEF poolvars, ReplyPath, ReplyError, BTFJobEnds, GoIdle, PoolInv, PoolTypeOK
<1>7. ASSUME NEW t \in Slices PROVE (pc'[t] = pc[t] /\ nxt'[t] = nxt[t]) \/ pc[t] = "wait"
  <2>1. CASE ReplyPath(w) \/ ReplyError(w)
    <3>1. wsl[w] \in Slices /\ pc[wsl[w]] = "wait"
      BY <2>1, ExtractionIsAt DEF ReplyPath, ReplyError
    <3>2. CASE t # wsl[w]
      BY <2>1, <3>1, <3>2, PackageErrorCases
         DEF ReplyPath, ReplyError, GoTo, PoolInv, PoolTypeOK
    <3>3. QED
      BY <3>1, <3>2
  <2>2. CASE UNCHANGED poolvars \/ BTFJobEnds(w)
    BY <2>2 DEF poolvars, BTFJobEnds, slicevars
  <2>3. QED
    BY <1>4, <2>1, <2>2
<1>8. QED
  BY <1>1, <1>2, <1>5, <1>6, <1>7

\* An extraction job keeps in hand each package that no error was reported for.
LEMMA ExtractionHand ==
  ASSUME DistinctNames, ListedOnce, Known, FilesInv, NEW w \in Workers, ExtractionStep(w),
         NEW p \in Pkgs \ failed', PackageInHand(p)
  PROVE  PackageInHand(p)'
<1>1. wst[w] = "extract" /\ JobFiles(w) /\ Alive
  BY DEF ExtractionStep, ReplyExisting, ReuseDownload, BeginDownload, EndDownload,
         FailDownload, BeginExtract, EndExtract, FailExtract, ReplyExtracted, Extracting,
         FilesInv, FilesInHand
<1>2. \A label : Reach(w, label) => stage'[w] = label
  BY DEF Reach, Known, FileInv, FileTypeOK
<1>3. CASE p # wpk[w]
  BY <1>3, JobTouchesOwn, HandOfOthers
<1>4. CASE p = wpk[w]
  \* Nobody else is at the package.
  <2>1. /\ \A v \in Workers : Extracts(v, p) => v = w
        /\ \A v \in Workers : ~Generates(v, p)
        /\ \A t \in Slices : ~Holds(t, p)
    <3>1. ASSUME NEW t \in Slices, Holds(t, p) PROVE FALSE
      <4>1. HasPackage(t) /\ pc[t] # "wait" /\ At(t) = p
        BY <3>1 DEF Holds, Known, PoolInv, PoolTypeOK
      <4>2. wsl[w] # t
        BY <1>1, <4>1, ExtractionIsAt DEF Known
      <4>3. QED
        BY <1>1, <1>4, <4>1, <4>2, JobNotAt DEF Known
    <3>2. QED
      BY <1>1, <1>4, <3>1, JobsApart DEF Known, Extracts, Generates
  <2>2. /\ disk[BTF(p)] = "absent"
        /\ stage[w] = "start" => disk[Download(p)] = "absent"
        /\ stage[w] \notin {"extract", "extracted"} => disk[Vmlinux(p)] = "absent"
    BY <2>1 DEF PackageInHand, Exists
  <2>3. ASSUME disk'[BTF(p)] = "absent", wst'[w] = "extract", wpk'[w] = p,
               stage'[w] # "start",
               stage'[w] \in {"extract", "extracted"} \/ disk'[Vmlinux(p)] = "absent"
        PROVE  PackageInHand(p)'
    BY <2>3 DEF PackageInHand, Exists, Extracts, Download, Vmlinux, BTF
  <2>4. CASE ReplyExisting(w)
    BY <1>4, <2>2, <2>4 DEF ReplyExisting, Extracting, Exists
  <2>5. CASE ReuseDownload(w)
    BY <1>4, <2>2, <2>5 DEF ReuseDownload, Extracting, Exists
  <2>6. CASE BeginDownload(w) \/ BeginExtract(w)
    <3>1. PICK f \in {Download(p), Vmlinux(p)} : Create(w, f) /\ (BeginDownload(w) => f = Download(p))
      BY <1>4, <2>6 DEF BeginDownload, BeginExtract
    <3>2. \A g \in Files : g # f => disk'[g] = disk[g]
      BY <3>1, CreateOwn, OwnPaths
    <3>3. /\ wst'[w] = "extract" /\ wpk'[w] = p
          /\ \/ stage[w] = "start" /\ stage'[w] = "download" /\ f = Download(p)
             \/ stage'[w] = "extract"
      BY <1>1, <1>2, <1>4, <2>6, <3>1 DEF BeginDownload, BeginExtract, Extracting, poolvars
    <3>4. QED
      BY <2>2, <2>3, <3>1, <3>2, <3>3, OwnPaths
  <2>7. CASE EndDownload(w) \/ EndExtract(w)
    <3>1. /\ wst'[w] = "extract" /\ wpk'[w] = p /\ Finish(w)
          /\ \/ stage[w] = "download" /\ stage'[w] = "downloaded" /\ writing[w] = Download(p)
             \/ stage[w] = "extract" /\ stage'[w] = "extracted" /\ writing[w] = Vmlinux(p)
      BY <1>1, <1>2, <1>4, <2>7 DEF EndDownload, EndExtract, Extracting, poolvars, JobFiles
    <3>2. \A g \in Files : g # writing[w] => disk'[g] = disk[g]
      BY <1>1, <3>1, FinishOwn DEF HasJob
    <3>3. QED
      BY <2>2, <2>3, <3>1, <3>2, OwnPaths
  <2>8. CASE FailDownload(w) \/ FailExtract(w)
    BY <1>4, <2>8 DEF FailDownload, FailExtract, Report
  <2>9. CASE ReplyExtracted(w)
    <3>1. ReplyPath(w) /\ RemoveAll({Download(p)}, {w})
      BY <1>4, <2>9 DEF ReplyExtracted
    <3>2. PICK s \in Slices : s = wsl[w]
      BY <1>1, ExtractionIsAt DEF Known
    <3>3. At(s) = p /\ pc'[s] = "inspect" /\ nxt' = nxt
      BY <1>1, <1>4, <3>1, <3>2, ExtractionIsAt DEF Known, ReplyPath, GoTo, PoolInv, PoolTypeOK
    <3>4. Holds(s, p)'
      BY <3>3 DEF Holds, At
    <3>5. disk'[Download(p)] = "absent" /\ disk'[BTF(p)] = "absent"
      BY <2>2, <3>1, OwnPaths DEF RemoveAll
    <3>6. QED
      BY <3>4, <3>5 DEF PackageInHand, Exists, Download, BTF
  <2>10. QED
    BY <2>4, <2>5, <2>6, <2>7, <2>8, <2>9 DEF ExtractionStep
<1>5. QED
  BY <1>3, <1>4

\* So does a BTF job.
LEMMA GenerationHand ==
  ASSUME DistinctNames, ListedOnce, Known, FilesInv, NEW w \in Workers, GenerationStep(w),
         NEW p \in Pkgs \ failed', PackageInHand(p)
  PROVE  PackageInHand(p)'
<1>1. wst[w] = "btf" /\ JobFiles(w) /\ Alive
  BY DEF GenerationStep, BeginGenerate, EndGenerate, FailGenerate, BeginCompress,
         EndCompress, FailCompress, RemoveInputs, Generating, FilesInv, FilesInHand
<1>2. \A label : Reach(w, label) => stage'[w] = label
  BY DEF Reach, Known, FileInv, FileTypeOK
<1>3. CASE p # wpk[w]
  BY <1>3, JobTouchesOwn, HandOfOthers
<1>4. CASE p = wpk[w]
  <2>1. disk[Download(p)] = "absent"
    BY <1>1, <1>4, JobsApart DEF Known, Extracts, PackageInHand, Exists
  <2>2. ASSUME disk'[Download(p)] = "absent", wst'[w] = "btf", wpk'[w] = p, stage'[w] # "start"
        PROVE  PackageInHand(p)'
    BY <2>2 DEF PackageInHand, Exists, Generates, Download, Vmlinux, BTF
  <2>3. CASE BeginGenerate(w) \/ BeginCompress(w)
    <3>1. PICK f \in {BTF(p), Tarball(p)} : Create(w, f)
      BY <1>4, <2>3 DEF BeginGenerate, BeginCompress
    <3>2. disk'[Download(p)] = disk[Download(p)]
      BY <3>1, CreateOwn, OwnPaths
    <3>3. wst'[w] = "btf" /\ wpk'[w] = p /\ stage'[w] # "start"
      BY <1>1, <1>2, <1>4, <2>3 DEF BeginGenerate, BeginCompress, poolvars
    <3>4. QED
      BY <2>1, <2>2, <3>2, <3>3
  <2>4. CASE EndGenerate(w) \/ EndCompress(w)
    <3>1. /\ wst'[w] = "btf" /\ wpk'[w] = p /\ Finish(w) /\ stage'[w] # "start"
          /\ writing[w] \in {BTF(p), Tarball(p)}
      BY <1>1, <1>2, <1>4, <2>4 DEF EndGenerate, EndCompress, Generating, poolvars, JobFiles
    <3>2. disk'[Download(p)] = disk[Download(p)]
      BY <1>1, <3>1, FinishOwn, OwnPaths DEF HasJob
    <3>3. QED
      BY <2>1, <2>2, <3>1, <3>2
  <2>5. CASE FailGenerate(w) \/ FailCompress(w)
    BY <1>4, <2>5 DEF FailGenerate, FailCompress, Report
  <2>6. CASE RemoveInputs(w)
    <3>1. RemoveAll({BTF(p), Vmlinux(p)}, {w})
      BY <1>4, <2>6 DEF RemoveInputs
    <3>2. /\ disk'[Download(p)] = "absent" /\ disk'[BTF(p)] = "absent"
          /\ disk'[Vmlinux(p)] = "absent"
      BY <2>1, <3>1, OwnPaths DEF RemoveAll
    <3>3. QED
      BY <3>2 DEF PackageInHand, Exists, Download, Vmlinux, BTF
  <2>7. QED
    BY <2>3, <2>4, <2>5, <2>6 DEF GenerationStep
<1>5. QED
  BY <1>3, <1>4

\* So does a loop.
LEMMA SliceHand ==
  ASSUME Known, NEW s \in Slices, HubSliceStep(s), Uncancelled,
         NEW p \in Pkgs \ failed', PackageInHand(p)
  PROVE  PackageInHand(p)'
<1> USE DEF Known
<1>1. UNCHANGED workervars /\ stage' = stage
  BY SliceImplements
     DEF SliceStep, EndOfSlice, KnownHasBTF, SkipExisting, NewExtraction, SendCancelled,
         InspectFailed, MarkHasBTF, SkipLaterKernels, NeedsBTF, HubSliceStep, StopAtMarked,
         SkipPublished, StartPackage, RejectVmlinux, MarkNative, DropNative, AcceptVmlinux,
         GiveUp, EndSlice, filevars
<1>2. \A t \in Slices \ {s} : Holds(t, p) => Holds(t, p)'
  <2>1. \A t \in Slices \ {s} : pc'[t] = pc[t] /\ nxt'[t] = nxt[t]
    BY SliceImplements, PackageErrorCases
       DEF SliceStep, EndOfSlice, KnownHasBTF, SkipExisting, NewExtraction, SendCancelled,
           InspectFailed, MarkHasBTF, SkipLaterKernels, NeedsBTF, NextPackage, GoTo, PoolInv,
           PoolTypeOK
  <2>2. QED
    BY <2>1 DEF Holds, At
<1>3. ASSUME \A f \in {Download(p), Vmlinux(p), BTF(p)} : ~Exists(f) => disk'[f] = "absent",
             Holds(s, p) => Holds(s, p)'
      PROVE  PackageInHand(p)'
  BY <1>1, <1>2, <1>3, HandStays DEF workervars
<1>4. CASE StopAtMarked(s) \/ SkipPublished(s) \/ StartPackage(s) \/ EndSlice(s)
  BY <1>3, <1>4
     DEF StopAtMarked, SkipPublished, StartPackage, EndSlice, KnownHasBTF, SkipExisting,
         NewExtraction, EndOfSlice, AtLoop, filevars, Exists, Holds
<1>5. CASE RejectVmlinux(s)
  BY <1>3, <1>5 DEF RejectVmlinux, Report, Exists, Holds
<1>6. CASE MarkNative(s)
  <2>1. \A f \in {Download(p), Vmlinux(p), BTF(p)} : disk'[f] = disk[f]
    <3>1. \A f \in Files : f # Marker(At(s)) => disk'[f] = disk[f]
      BY <1>6 DEF MarkNative, FileInv, FileTypeOK
    <3>2. /\ Download(p) # Marker(At(s)) /\ Vmlinux(p) # Marker(At(s))
          /\ BTF(p) # Marker(At(s))
      BY DEF Download, Vmlinux, BTF, Marker
    <3>3. QED
      BY <3>1, <3>2, PathsAreFiles
  <2>2. Holds(s, p) => Holds(s, p)'
    BY <1>6 DEF MarkNative, MarkHasBTF, GoTo, Holds, At, PoolInv, PoolTypeOK
  <2>3. QED
    BY <1>3, <2>1, <2>2 DEF Exists
<1>7. CASE DropNative(s)
  <2>1. /\ RemoveAll({Vmlinux(At(s))}, {})
        /\ \A f \in {Download(p), Vmlinux(p), BTF(p)} : ~Exists(f) => disk'[f] = "absent"
    BY <1>7, OwnPaths DEF DropNative, RemoveAll, Exists
  <2>2. CASE Holds(s, p)
    <3>1. disk'[Vmlinux(p)] = "absent"
      BY <2>1, <2>2, OwnPaths DEF RemoveAll, Holds
    <3>2. QED
      BY <1>1, <2>1, <3>1
         DEF PackageInHand, Exists, Extracts, Generates, workervars, Download, Vmlinux, BTF
  <2>3. QED
    BY <1>3, <2>1, <2>2
<1>8. CASE AcceptVmlinux(s)
  BY <1>3, <1>8
     DEF AcceptVmlinux, NeedsBTF, GoTo, Holds, At, PoolInv, PoolTypeOK, filevars, Exists
<1>9. CASE GiveUp(s)
  BY <1>9 DEF GiveUp, SendCancelled, ProdCtxDone, Uncancelled
<1>10. QED
  BY <1>4, <1>5, <1>6, <1>7, <1>8, <1>9 DEF HubSliceStep

\* So does a job that is handed over.
LEMMA OrderHand ==
  ASSUME Known, NEW s \in Slices, NEW w \in Workers, OrderExtraction(s, w) \/ OrderBTF(s, w),
         NEW p \in Pkgs, PackageInHand(p)
  PROVE  PackageInHand(p)'
<1> USE DEF Known, PoolInv, PoolTypeOK
<1>1. /\ wst[w] = "select" /\ UNCHANGED filevars
      /\ \A v \in Workers \ {w} : wst'[v] = wst[v] /\ wpk'[v] = wpk[v]
      /\ \A t \in Slices \ {s} : pc'[t] = pc[t] /\ nxt'[t] = nxt[t]
  BY DEF OrderExtraction, OrderBTF, SendExtraction, SendBTF, NextPackage, GoTo
<1>2. \A t \in Slices \ {s} : Holds(t, p) => Holds(t, p)'
  BY <1>1 DEF Holds, At
<1>3. CASE ~Holds(s, p)
  BY <1>1, <1>2, <1>3, HandStays DEF filevars, Exists
<1>4. CASE Holds(s, p)
  <2>1. wst'[w] = "btf" /\ wpk'[w] = p
    <3>1. pc[s] \in {"inspect", "mark", "sendb"} /\ At(s) = p
      BY <1>4 DEF Holds
    <3>2. SendBTF(s, w)
      BY <3>1 DEF OrderExtraction, OrderBTF, SendExtraction
    <3> QED BY <3>1, <3>2 DEF SendBTF
  <2>2. Generates(w, p)'
    BY <2>1 DEF Generates
  <2>3. /\ Exists(Download(p))' => \E v \in Workers : Extracts(v, p)' /\ stage'[v] # "start"
        /\ Exists(BTF(p))' => \E v \in Workers : Generates(v, p)' /\ stage'[v] # "start"
    <3>1. disk' = disk /\ stage' = stage
      BY <1>1 DEF filevars
    <3>2. \A v \in Workers : /\ Extracts(v, p) => Extracts(v, p)'
                             /\ Generates(v, p) => Generates(v, p)'
      BY <1>1 DEF Extracts, Generates
    <3> QED BY <3>1, <3>2 DEF PackageInHand, Exists, Download, BTF
  <2>4. QED
    BY <2>2, <2>3 DEF PackageInHand
<1>5. QED
  BY <1>3, <1>4

\* So does the rest of the process.
LEMMA ProcessHand ==
  ASSUME Known, NEW p \in Pkgs, PackageInHand(p), Going',
         \/ \E r \in Producers : HubProducerStep(r)
         \/ \E w \in Workers : StopWorker(w)
         \/ (CloseJobs \/ ExitConsume \/ Interrupt) /\ UNCHANGED filevars
         \/ FatalExit \/ Killed \/ UNCHANGED hubvars
  PROVE  PackageInHand(p)'
<1> USE DEF Known, PoolInv, PoolTypeOK
<1>1. ~FatalExit /\ ~Killed
  BY DEF FatalExit, Killed, ExitProduceError, Kill, Going
<1>2. UNCHANGED filevars
  BY <1>1 DEF HubProducerStep, StopWorker, hubvars, filevars
<1>3. \A w \in Workers : wst[w] \in {"extract", "btf"} => wst'[w] = wst[w] /\ wpk'[w] = wpk[w]
  BY <1>1
     DEF HubProducerStep, ProducerStep, ListPackages, ListFailed, ReturnProducer, StopWorker,
         WorkerCancelled, WorkerDone, CloseJobs, ExitConsume, Interrupt, hubvars, workervars
<1>4. \A s \in Slices : pc[s] \in {"inspect", "mark", "sendb"} =>
        pc'[s] = pc[s] /\ nxt'[s] = nxt[s]
  BY <1>1, PoolAssumption
     DEF HubProducerStep, ProducerStep, ListPackages, ListFailed, ReturnProducer, StopWorker,
         WorkerCancelled, WorkerDone, CloseJobs, ExitConsume, Interrupt, hubvars, slicevars,
         Lifecycle
<1>5. \A s \in Slices : Holds(s, p) => Holds(s, p)'
  BY <1>4 DEF Holds, At
<1>6. QED
  BY <1>2, <1>3, <1>5, HandStays DEF filevars, Exists

\* InHand is inductive.
LEMMA FirstRunStep ==
  ASSUME DistinctNames, ListedOnce, Known, FilesInv, InHand, [HubNext]_hubvars
  PROVE  InHand'
<1>1. SUFFICES ASSUME Going', Uncancelled', run' = 1, NEW p \in Pkgs \ failed'
               PROVE  PackageInHand(p)'
  BY DEF InHand
<1>2. ~StartAgain
  BY <1>1 DEF StartAgain, Rerun, Known, PoolInv, PoolTypeOK
<1>3. Going /\ Uncancelled /\ run = 1 /\ p \in Pkgs \ failed
  BY <1>1, <1>2, RunGoesOn DEF Known
<1>4. PackageInHand(p)
  BY <1>3 DEF InHand
<1>5. QED
  BY <1>1, <1>2, <1>3, <1>4, SliceHand, OrderHand, ExtractionHand, GenerationHand, ProcessHand
     DEF HubNext, HubStep

\* A first run that ends with status 0 and was not interrupted has removed every
\* package file, vmlinux file and BTF file, but those of packages it reported an
\* error for (the removals of extract.go, btf.go and processPackage).
THEOREM NothingLeft == ASSUME DistinctNames, ListedOnce PROVE HubSpec => []NoLeftovers
<1>1. HubInit => InHand
  BY PathsAreFiles DEF HubInit, InHand, PackageInHand, Exists
<1>2. InHand /\ Known /\ FilesInv /\ [HubNext]_hubvars => InHand'
  BY FirstRunStep
<1>3. HubSpec => []InHand
  BY <1>1, <1>2, KnownHolds, FilesHold, PTL DEF HubSpec
<1>4. PoolInv /\ LoopsBegun /\ InHand => NoLeftovers
  <2>1. SUFFICES ASSUME PoolInv, LoopsBegun, InHand, CleanExit, run = 1, NEW p \in Pkgs \ failed
                 PROVE  ~Exists(Download(p)) /\ ~Exists(Vmlinux(p)) /\ ~Exists(BTF(p))
    BY DEF NoLeftovers
  <2>2. /\ PackageInHand(p)
        /\ \A w \in Workers : wst[w] = "ok"
        /\ \A s \in Slices : pc[s] = "done"
    BY <2>1, CleanExitIsDone DEF InHand
  <2>3. QED
    BY <2>2 DEF PackageInHand, Extracts, Generates, Holds
<1>5. QED
  BY <1>3, <1>4, PoolKnown, BegunKnown, PTL
=============================================================================
