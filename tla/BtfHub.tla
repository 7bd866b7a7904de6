-------------------------------- MODULE BtfHub --------------------------------
(***************************************************************************)
(* btfhub with its files: WorkerPool plus what the two kinds of jobs        *)
(* (pkg/job/extract.go, pkg/job/btf.go) and processPackage (pkg/repo)       *)
(* create, test for and remove in the archive directory.                    *)
(*                                                                         *)
(* A file that a step creates is incomplete until its writer closes it. The *)
(* code never writes to a temporary name, so every test for existence can   *)
(* see a file that is still being written, or one whose writer died with    *)
(* the process. A path names the file's directory too: the work directory   *)
(* of a producer, or the package cache of zypper.                           *)
(*                                                                         *)
(* Every action is an action of WorkerPool together with its effect on the  *)
(* files, or a step inside a job, which WorkerPool does not see.            *)
(***************************************************************************)
EXTENDS WorkerPool

CONSTANTS
  ForceFlags,    \* values that the flag -f may have when the program is started
  HasBTF,        \* packages whose kernel already has a .BTF section
  Names,         \* file names without their suffix
  DownloadName,  \* what names the downloaded package
  VmlinuxName,   \* Filename(): names the extracted vmlinux file
  BTFName        \* BTFFilename(): names the BTF file, its tarball and the marker

ASSUME FileAssumption ==
  /\ ForceFlags \subseteq BOOLEAN
  /\ HasBTF \subseteq Pkgs
  /\ DownloadName \in [Pkgs -> Names]
  /\ VmlinuxName \in [Pkgs -> Names]
  /\ BTFName \in [Pkgs -> Names]

Download(p) == <<"download", DownloadName[p]>>
Vmlinux(p)  == <<"vmlinux", VmlinuxName[p]>>
BTF(p)      == <<"btf", BTFName[p]>>
Tarball(p)  == <<"tarball", BTFName[p]>>
Marker(p)   == <<"hasbtf", BTFName[p]>>

Files == {"download", "vmlinux", "btf", "tarball", "hasbtf"} \X Names
NoFile == <<"no file">>

VARIABLES
  disk,     \* state of each path
  stage,    \* how far each worker is in its job
  writing,  \* the path of the file a worker has open for writing
  failed,   \* history: packages for which this run reported an error
  force     \* the flag -f of this run

filevars == <<disk, stage, writing, failed>>
hubvars  == <<run, main, interrupted, repo, pc, nxt, wst, wsl, wpk,
              disk, stage, writing, failed, force>>

\* A "torn" file is incomplete and its writer is gone.
FileStates == {"absent", "partial", "torn", "full"}

Stages == {"start", "download", "downloaded", "extract", "extracted",
           "generate", "generated", "compress", "hopeless", "compressed"}

HubInit ==
  /\ PoolInit
  /\ disk = [f \in Files |-> "absent"]
  /\ stage = [w \in Workers |-> "start"]
  /\ writing = [w \in Workers |-> NoFile]
  /\ failed = {}
  /\ force \in ForceFlags

-----------------------------------------------------------------------------
(* Files *)

Exists(f) == disk[f] # "absent"

\* os.Create, or the -f / --btf_encode_detached of a tool: the path is truncated.
Create(w, f) ==
  /\ disk' = [disk EXCEPT ![f] = "partial"]
  /\ writing' = [writing EXCEPT ![w] = f]

\* The writer is done. The file is whole unless somebody else still writes it
\* (disk) or has removed its path meanwhile (writing[w] is then NoFile).
Finish(w) ==
  /\ writing' = [writing EXCEPT ![w] = NoFile]
  /\ disk' = [f \in Files |->
       IF f = writing[w] /\ \A v \in Workers \ {w} : writing[v] # f
         THEN "full" ELSE disk[f]]

\* os.Remove of a set of paths. The workers ws have closed what they had open;
\* any other writer of a removed path goes on with a file that has no path.
RemoveAll(fs, ws) ==
  /\ disk' = [f \in Files |-> IF f \in fs THEN "absent" ELSE disk[f]]
  /\ writing' = [v \in Workers |->
       IF v \in ws \/ writing[v] \in fs THEN NoFile ELSE writing[v]]

Reach(w, label) == stage' = [stage EXCEPT ![w] = label]

\* An error of package p is logged, or returned by its slice.
Report(p) == failed' = failed \cup {p}

-----------------------------------------------------------------------------
(* processPackage *)

\* PackageHasBTF: the marker is looked at first, and whatever -f says.
StopAtMarked(s) ==
  /\ KnownHasBTF(s)
  /\ Exists(Marker(At(s)))
  /\ UNCHANGED filevars

\* The tarball exists, whatever its state.
SkipPublished(s) ==
  /\ SkipExisting(s)
  /\ ~Exists(Marker(At(s)))
  /\ ~force /\ Exists(Tarball(At(s)))
  /\ UNCHANGED filevars

Mut_StartPackage(s) ==
  /\ NewExtraction(s)
  /\ ~Exists(Marker(At(s)))
  /\ UNCHANGED filevars

StartPackage(s) ==
  /\ NewExtraction(s)
  /\ ~Exists(Marker(At(s)))
  /\ force \/ ~Exists(Tarball(At(s)))
  /\ UNCHANGED filevars

\* elf.Open fails: on a file that is missing or not whole, and on a whole one that
\* is no ELF file.
RejectVmlinux(s) ==
  /\ InspectFailed(s)
  /\ Report(At(s))
  /\ UNCHANGED <<disk, stage, writing>>

\* The marker is created; an error to do so is ignored.
MarkNative(s) ==
  /\ MarkHasBTF(s)
  /\ disk[Vmlinux(At(s))] = "full"
  /\ At(s) \in HasBTF
  /\ \/ disk' = [disk EXCEPT ![Marker(At(s))] = "full"]
     \/ UNCHANGED disk
  /\ UNCHANGED <<stage, writing, failed>>

DropNative(s) ==
  /\ SkipLaterKernels(s)
  /\ RemoveAll({Vmlinux(At(s))}, {})
  /\ UNCHANGED <<stage, failed>>

Mut_AcceptVmlinux(s) ==
  /\ NeedsBTF(s)
  /\ At(s) \notin HasBTF
  /\ UNCHANGED filevars

AcceptVmlinux(s) ==
  /\ NeedsBTF(s)
  /\ disk[Vmlinux(At(s))] = "full"
  /\ At(s) \notin HasBTF
  /\ UNCHANGED filevars

\* A job of worker w that was sent by slice s begins.
OrderExtraction(s, w) == SendExtraction(s, w) /\ UNCHANGED filevars
OrderBTF(s, w) == SendBTF(s, w) /\ UNCHANGED filevars
GiveUp(s) == SendCancelled(s) /\ UNCHANGED filevars
EndSlice(s) == EndOfSlice(s) /\ UNCHANGED filevars

-----------------------------------------------------------------------------
(* KernelExtractionJob.Do *)

Extracting(w, label) == Alive /\ wst[w] = "extract" /\ stage[w] = label

\* The vmlinux file exists: reply with its path.
ReplyExisting(w) ==
  /\ Extracting(w, "start")
  /\ ~force /\ Exists(Vmlinux(wpk[w]))
  /\ ReplyPath(w)
  /\ UNCHANGED filevars

MustExtract(w) == force \/ ~Exists(Vmlinux(wpk[w]))

\* Download: the package file exists already.
ReuseDownload(w) ==
  /\ Extracting(w, "start")
  /\ MustExtract(w)
  /\ ~force /\ Exists(Download(wpk[w]))
  /\ Reach(w, "downloaded")
  /\ UNCHANGED <<poolvars, disk, writing, failed>>

BeginDownload(w) ==
  /\ Extracting(w, "start")
  /\ MustExtract(w)
  /\ force \/ ~Exists(Download(wpk[w]))
  /\ Create(w, Download(wpk[w]))
  /\ Reach(w, "download")
  /\ UNCHANGED <<poolvars, failed>>

EndDownload(w) ==
  /\ Extracting(w, "download")
  /\ Finish(w)
  /\ Reach(w, "downloaded")
  /\ UNCHANGED <<poolvars, failed>>

\* The transfer or tool fails, or is cancelled: the package file is removed.
FailDownload(w) ==
  /\ Extracting(w, "download")
  /\ ReplyError(w)
  /\ RemoveAll({Download(wpk[w])}, {w})
  /\ Reach(w, "start")
  /\ Report(wpk[w])

\* ExtractKernel found the vmlinux entry in the package.
BeginExtract(w) ==
  /\ Extracting(w, "downloaded")
  /\ Exists(Download(wpk[w]))
  /\ Create(w, Vmlinux(wpk[w]))
  /\ Reach(w, "extract")
  /\ UNCHANGED <<poolvars, failed>>

Mut_EndExtract(w) ==
  /\ Extracting(w, "extract")
  /\ ReplyPath(w)
  /\ Finish(w)
  /\ Reach(w, "extracted")
  /\ UNCHANGED failed

EndExtract(w) ==
  /\ Extracting(w, "extract")
  /\ Finish(w)
  /\ Reach(w, "extracted")
  /\ UNCHANGED <<poolvars, failed>>

\* The package is unreadable or has no vmlinux, or the job is cancelled: the
\* vmlinux file is removed, the package file is not.
FailExtract(w) ==
  /\ Extracting(w, "downloaded") \/ Extracting(w, "extract")
  /\ ReplyError(w)
  /\ RemoveAll({Vmlinux(wpk[w])}, {w})
  /\ Reach(w, "start")
  /\ Report(wpk[w])

Mut_ReplyExtracted(w) ==
  /\ Extracting(w, "extracted")
  /\ GoIdle(w)
  /\ RemoveAll({Download(wpk[w])}, {w})
  /\ Reach(w, "start")
  /\ UNCHANGED <<run, main, interrupted, repo, slicevars, failed>>

\* The package file is removed, then the path is sent.
ReplyExtracted(w) ==
  /\ Extracting(w, "extracted")
  /\ ReplyPath(w)
  /\ RemoveAll({Download(wpk[w])}, {w})
  /\ Reach(w, "start")
  /\ UNCHANGED failed

-----------------------------------------------------------------------------
(* BTFGenerationJob.Do *)

Generating(w, label) == Alive /\ wst[w] = "btf" /\ stage[w] = label

\* pahole opened the vmlinux file and writes the BTF file.
BeginGenerate(w) ==
  /\ Generating(w, "start")
  /\ disk[Vmlinux(wpk[w])] = "full"
  /\ Create(w, BTF(wpk[w]))
  /\ Reach(w, "generate")
  /\ UNCHANGED <<poolvars, failed>>

EndGenerate(w) ==
  /\ Generating(w, "generate")
  /\ Finish(w)
  /\ Reach(w, "generated")
  /\ UNCHANGED <<poolvars, failed>>

\* pahole cannot read the vmlinux file, fails or is cancelled: the BTF file is
\* removed, the vmlinux file is not.
FailGenerate(w) ==
  /\ Generating(w, "start") \/ Generating(w, "generate")
  /\ BTFJobEnds(w)
  /\ RemoveAll({BTF(wpk[w])}, {w})
  /\ Reach(w, "start")
  /\ Report(wpk[w])

\* tar truncates the tarball's path before it looks for the BTF file; it can
\* only fail when that is not there or not whole.
BeginCompress(w) ==
  /\ Generating(w, "generated")
  /\ Create(w, Tarball(wpk[w]))
  /\ Reach(w, IF disk[BTF(wpk[w])] = "full" THEN "compress" ELSE "hopeless")
  /\ UNCHANGED <<poolvars, failed>>

EndCompress(w) ==
  /\ Generating(w, "compress")
  /\ Finish(w)
  /\ Reach(w, "compressed")
  /\ UNCHANGED <<poolvars, failed>>

Mut_FailCompress(w) ==
  /\ Generating(w, "compress") \/ Generating(w, "hopeless")
  /\ BTFJobEnds(w)
  /\ writing' = [writing EXCEPT ![w] = NoFile]
  /\ Reach(w, "start")
  /\ Report(wpk[w])
  /\ UNCHANGED disk

\* The tarball is removed, the BTF and vmlinux files are not.
FailCompress(w) ==
  /\ Generating(w, "compress") \/ Generating(w, "hopeless")
  /\ BTFJobEnds(w)
  /\ RemoveAll({Tarball(wpk[w])}, {w})
  /\ Reach(w, "start")
  /\ Report(wpk[w])

Mut_RemoveInputs(w) ==
  /\ Generating(w, "compressed")
  /\ BTFJobEnds(w)
  /\ RemoveAll({BTF(wpk[w])}, {w})
  /\ Reach(w, "start")
  /\ UNCHANGED failed

RemoveInputs(w) ==
  /\ Generating(w, "compressed")
  /\ BTFJobEnds(w)
  /\ RemoveAll({BTF(wpk[w]), Vmlinux(wpk[w])}, {w})
  /\ Reach(w, "start")
  /\ UNCHANGED failed

-----------------------------------------------------------------------------
(* The process *)

\* The process ends: the files that were being written stay as they are.
TearFiles ==
  /\ disk' = [f \in Files |-> IF disk[f] = "partial" THEN "torn" ELSE disk[f]]
  /\ writing' = [w \in Workers |-> NoFile]

\* log.Fatal does not wait for the BTF jobs in execution.
FatalExit == ExitProduceError /\ TearFiles /\ UNCHANGED <<stage, failed>>

Killed == Kill /\ TearFiles /\ UNCHANGED <<stage, failed>>

StartAgain ==
  /\ Rerun
  /\ stage' = [w \in Workers |-> "start"]
  /\ failed' = {}
  /\ force' \in ForceFlags
  /\ UNCHANGED <<disk, writing>>

HubProducerStep(p) == ProducerStep(p) /\ UNCHANGED filevars

HubSliceStep(s) ==
  \/ StopAtMarked(s) \/ SkipPublished(s) \/ StartPackage(s)
  \/ RejectVmlinux(s) \/ MarkNative(s) \/ DropNative(s) \/ AcceptVmlinux(s)
  \/ GiveUp(s) \/ EndSlice(s)

ExtractionStep(w) ==
  \/ ReplyExisting(w) \/ ReuseDownload(w)
  \/ BeginDownload(w) \/ EndDownload(w) \/ FailDownload(w)
  \/ BeginExtract(w) \/ EndExtract(w) \/ FailExtract(w) \/ ReplyExtracted(w)

GenerationStep(w) ==
  \/ BeginGenerate(w) \/ EndGenerate(w) \/ FailGenerate(w)
  \/ BeginCompress(w) \/ EndCompress(w) \/ FailCompress(w) \/ RemoveInputs(w)

StopWorker(w) == (WorkerCancelled(w) \/ WorkerDone(w)) /\ UNCHANGED filevars

\* A step of the process, or its end.
HubStep ==
  \/ \E p \in Producers : HubProducerStep(p)
  \/ \E s \in Slices : HubSliceStep(s)
  \/ \E s \in Slices, w \in Workers : OrderExtraction(s, w) \/ OrderBTF(s, w)
  \/ \E w \in Workers : ExtractionStep(w) \/ GenerationStep(w) \/ StopWorker(w)
  \/ (CloseJobs \/ ExitConsume \/ Interrupt) /\ UNCHANGED filevars
  \/ FatalExit
  \/ Killed

HubNext == (HubStep /\ UNCHANGED force) \/ StartAgain

HubWorkerStep(w) ==
  \/ \E s \in Slices : OrderExtraction(s, w) \/ OrderBTF(s, w)
  \/ ExtractionStep(w) \/ GenerationStep(w) \/ StopWorker(w)

HubMainStep == ((CloseJobs \/ ExitConsume) /\ UNCHANGED filevars) \/ FatalExit

\* As for the pool: goroutines are scheduled, and every step of a job ends, one
\* way or the other. Which way, and signals and starts, are nobody's duty.
HubFairness ==
  /\ \A p \in Producers : WF_hubvars(HubProducerStep(p) /\ UNCHANGED force)
  /\ \A s \in Slices : WF_hubvars(HubSliceStep(s) /\ UNCHANGED force)
  /\ \A w \in Workers : WF_hubvars(HubWorkerStep(w) /\ UNCHANGED force)
  /\ WF_hubvars(HubMainStep /\ UNCHANGED force)

HubSpec == HubInit /\ [][HubNext]_hubvars
FairHubSpec == HubSpec /\ HubFairness

-----------------------------------------------------------------------------
(* The premises of ArchiveProofs. Inside one list they are OneEntryPerFile and  *)
(* OnePackagePerName. Between lists, every producer has a directory of its own, *)
(* but for the packages that zypper downloads: SUSE's producers share its cache *)
(* and those of two releases may list one package (OneDirectory says when not). *)
(* Inside a list of SUSE, BTF file names may repeat (SuccessIsKept).            *)

DistinctNames ==
  \A p, q \in Pkgs : p # q =>
    /\ DownloadName[p] # DownloadName[q]
    /\ VmlinuxName[p] # VmlinuxName[q]
    /\ BTFName[p] # BTFName[q]

ListedOnce ==
  \A s, t \in Slices : \A i \in DOMAIN Queue[s], j \in DOMAIN Queue[t] :
    Queue[s][i] = Queue[t][j] => s = t /\ i = j

-----------------------------------------------------------------------------
(* Properties *)

\* Every variable has its type, and only a job is past its start.
HubTypeOK ==
  /\ PoolTypeOK
  /\ disk \in [Files -> FileStates]
  /\ stage \in [Workers -> Stages]
  /\ writing \in [Workers -> Files \cup {NoFile}]
  /\ failed \subseteq Pkgs
  /\ force \in BOOLEAN
  /\ \A w \in Workers : Alive /\ stage[w] # "start" => wst[w] \in {"extract", "btf"}

\* A file is incomplete only while a job of the running process writes it: every
\* error path of the jobs removes what it leaves unfinished. Only a process
\* that ends without waiting for its jobs tears files.
IncompleteIsWritten ==
  \A f \in Files : disk[f] = "partial" <=> \E w \in Workers : writing[w] = f

\* The files a job or a slice is going to read are there and whole until it has
\* read them, although other jobs remove files all the time: the vmlinux file
\* from the moment the slice accepts it until the BTF job removes it, the BTF
\* file while it is compressed, the package file until it is extracted.
InputsKept ==
  /\ \A s \in Slices :
       Alive /\ pc[s] \in {"mark", "sendb"} => disk[Vmlinux(At(s))] = "full"
  /\ \A w \in Workers : Alive /\ wst[w] = "btf" =>
       /\ disk[Vmlinux(wpk[w])] = "full"
       /\ stage[w] \in {"generated", "compress", "compressed"}
            => disk[BTF(wpk[w])] = "full"
       /\ stage[w] # "hopeless"
       /\ stage[w] = "compressed" => disk[Tarball(wpk[w])] = "full"
  /\ \A w \in Workers :
       /\ Alive
       /\ wst[w] = "extract"
       /\ stage[w] \in {"downloaded", "extract", "extracted"}
       => Exists(Download(wpk[w]))

\* Some kernel of the slice up to the i-th has BTF: the others may be skipped.
AfterNative(s, i) == \E j \in 1 .. i : Queue[s][j] \in HasBTF

CleanExit == main = "ok" /\ ~interrupted

\* When the program exits with status 0 without having been interrupted, every
\* kernel that is not at or behind a kernel with BTF has a tarball, or an error
\* was reported for it in this run. A tarball is complete unless a process died
\* writing it and the flag -f was not given since.
Covered ==
  CleanExit => \A s \in Slices : \A i \in DOMAIN Queue[s] :
    \/ AfterNative(s, i)
    \/ Queue[s][i] \in failed
    \/ disk[Tarball(Queue[s][i])] = "full"
    \/ ~force /\ disk[Tarball(Queue[s][i])] = "torn"

\* A first run that was not cut short leaves no intermediate file of a package
\* behind, unless it reported an error for that package.
NoLeftovers ==
  CleanExit /\ run = 1 => \A p \in Pkgs \ failed :
    \A f \in {Download(p), Vmlinux(p), BTF(p)} : ~Exists(f)

\* The entries of the archive, as its users see them.
entry == [p \in Pkgs |->
  IF Exists(Marker(p)) THEN "native"
  ELSE CASE disk[Tarball(p)] = "absent" -> "none"
         [] disk[Tarball(p)] = "full"   -> "published"
         [] OTHER                       -> "incomplete"]

A == INSTANCE Archive WITH Pkgs <- Pkgs, entry <- entry, forced <- force

\* The program implements the archive: whatever jobs run at the same time, fail
\* or are killed, and however often it is started again, with -f or without, a
\* marker stays, a complete tarball stays unless a run with -f makes it again,
\* without -f a tarball is written once, and no package gets both.
ArchiveSpec == A!Spec

\* debian.go, ubuntu.go: GetKernelPackages "filters out kernel packages that we
\* already have": at a clean exit each package that was skipped as existing, or
\* processed without an error, has a complete tarball.
CoveredWhole ==
  CleanExit => \A s \in Slices : \A i \in DOMAIN Queue[s] :
    \/ AfterNative(s, i)
    \/ Queue[s][i] \in failed
    \/ disk[Tarball(Queue[s][i])] = "full"

\* btf.go: Do "generates a BTF file from a vmlinux file, compresses it into a
\* .tar.xz file, and removes the vmlinux file". In a first run nothing exists, so
\* the first package listed under a BTF file name is not skipped: unless an error
\* is reported for it, its job succeeded and its tarball is there at a clean exit.
SuccessIsKept ==
  CleanExit /\ run = 1 => \A s \in Slices : \A i \in DOMAIN Queue[s] :
    \/ \E j \in 1 .. i - 1 : BTFName[Queue[s][j]] = BTFName[Queue[s][i]]
    \/ AfterNative(s, i)
    \/ Queue[s][i] \in failed
    \/ disk[Tarball(Queue[s][i])] = "full"

=============================================================================
