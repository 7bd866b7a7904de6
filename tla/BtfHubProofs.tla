----------------------------- MODULE BtfHubProofs -----------------------------
(***************************************************************************)
(* BtfHub implements WorkerPool, and keeps track of its unfinished files.   *)
(***************************************************************************)
EXTENDS BtfHub, WorkerPoolProofs

-----------------------------------------------------------------------------
(* Every step of the program with files is a step of the pool, or none *)

\* A loop's step with its files is a loop's step of the pool.
LEMMA SliceImplements ==
  ASSUME NEW s \in Slices, HubSliceStep(s)
  PROVE  SliceStep(s)
BY DEF HubSliceStep, SliceStep, StopAtMarked, SkipPublished, StartPackage,
       RejectVmlinux, MarkNative, DropNative, AcceptVmlinux, GiveUp, EndSlice

\* A step of an extraction job is one of the pool's worker, or none.
LEMMA ExtractionImplements ==
  ASSUME NEW w \in Workers, ExtractionStep(w)
  PROVE  WorkerStep(w) \/ UNCHANGED poolvars
<1>1. CASE ReplyExisting(w) \/ ReplyExtracted(w)
  BY <1>1 DEF ReplyExisting, ReplyExtracted, WorkerStep
<1>2. CASE FailDownload(w) \/ FailExtract(w)
  BY <1>2 DEF FailDownload, FailExtract, WorkerStep
<1>3. CASE \/ ReuseDownload(w) \/ BeginDownload(w) \/ EndDownload(w)
           \/ BeginExtract(w) \/ EndExtract(w)
  BY <1>3 DEF ReuseDownload, BeginDownload, EndDownload, BeginExtract,
              EndExtract
<1>4. QED
  BY <1>1, <1>2, <1>3 DEF ExtractionStep

\* So is a step of a BTF job.
LEMMA GenerationImplements ==
  ASSUME NEW w \in Workers, GenerationStep(w)
  PROVE  WorkerStep(w) \/ UNCHANGED poolvars
<1>1. CASE FailGenerate(w) \/ FailCompress(w) \/ RemoveInputs(w)
  BY <1>1 DEF FailGenerate, FailCompress, RemoveInputs, WorkerStep
<1>2. CASE \/ BeginGenerate(w) \/ EndGenerate(w)
           \/ BeginCompress(w) \/ EndCompress(w)
  BY <1>2 DEF BeginGenerate, EndGenerate, BeginCompress, EndCompress
<1>3. QED
  BY <1>1, <1>2 DEF GenerationStep

\* Every step of the program is a step of the pool or leaves the pool alone.
LEMMA StepImplements == [HubNext]_hubvars => [PoolNext]_poolvars
<1> SUFFICES ASSUME [HubNext]_hubvars PROVE PoolNext \/ UNCHANGED poolvars
  OBVIOUS
<1>1. CASE UNCHANGED hubvars
  BY <1>1 DEF hubvars, poolvars
<1>2. ASSUME NEW p \in Producers, HubProducerStep(p)
      PROVE  PoolNext
  BY <1>2 DEF HubProducerStep, PoolNext
<1>3. ASSUME NEW s \in Slices, HubSliceStep(s)
      PROVE  PoolNext
  BY <1>3, SliceImplements DEF PoolNext
<1>4. ASSUME NEW s \in Slices, NEW w \in Workers,
             OrderExtraction(s, w) \/ OrderBTF(s, w)
      PROVE  PoolNext
  BY <1>4 DEF OrderExtraction, OrderBTF, PoolNext, WorkerStep, Receive
<1>5. ASSUME NEW w \in Workers,
             ExtractionStep(w) \/ GenerationStep(w) \/ StopWorker(w)
      PROVE  PoolNext \/ UNCHANGED poolvars
  <2>1. WorkerStep(w) \/ UNCHANGED poolvars
    BY <1>5, ExtractionImplements, GenerationImplements
       DEF StopWorker, WorkerStep
  <2>2. QED
    BY <2>1 DEF PoolNext
<1>6. CASE (CloseJobs \/ ExitConsume \/ Interrupt) /\ UNCHANGED filevars
  BY <1>6 DEF PoolNext, MainStep
<1>7. CASE FatalExit \/ Killed \/ StartAgain
  BY <1>7 DEF FatalExit, Killed, StartAgain, PoolNext, MainStep
<1>8. QED
  BY <1>1, <1>2, <1>3, <1>4, <1>5, <1>6, <1>7 DEF HubNext, HubStep

\* Nothing the jobs do with files changes how the goroutines interact: a
\* behaviour of the program with its files is a behaviour of the pool.
THEOREM Implementation == HubSpec => PoolSpec
<1>1. HubInit => PoolInit
  BY DEF HubInit
<1>2. QED
  BY <1>1, StepImplements, PTL DEF HubSpec, PoolSpec

\* So what is proved of the pool holds of the program with its files.
THEOREM PoolInherited == HubSpec => [](ReplyMatched /\ ClosedIsQuiet)
BY Implementation, RepliesMatch, QuietWhenClosed, PTL

-----------------------------------------------------------------------------
(* Unfinished files *)

FileTypeOK ==
  /\ disk \in [Files -> FileStates]
  /\ stage \in [Workers -> Stages]
  /\ writing \in [Workers -> Files \cup {NoFile}]
  /\ failed \subseteq Pkgs

\* The file a worker has open is the one its job writes at this stage.
OpenFile(w) ==
  \/ writing[w] = NoFile
  \/ stage[w] = "download" /\ writing[w] = Download(wpk[w])
  \/ stage[w] = "extract" /\ writing[w] = Vmlinux(wpk[w])
  \/ stage[w] = "generate" /\ writing[w] = BTF(wpk[w])
  \/ stage[w] \in {"compress", "hopeless"} /\ writing[w] = Tarball(wpk[w])

\* Only a worker that has a job is past the start of one.
StageOfJob ==
  \A w \in Workers : Alive /\ stage[w] # "start" => wst[w] \in {"extract", "btf"}

\* No file is open when there is no process.
DeadIsClosed == ~Alive => \A w \in Workers : writing[w] = NoFile

\* The inductive invariant.
FileInv ==
  /\ FileTypeOK
  /\ \A w \in Workers : OpenFile(w)
  /\ StageOfJob
  /\ DeadIsClosed
  /\ IncompleteIsWritten

\* The names of a package are files.
LEMMA PathsAreFiles ==
  ASSUME NEW p \in Pkgs
  PROVE  /\ Download(p) \in Files /\ Vmlinux(p) \in Files /\ BTF(p) \in Files
         /\ Tarball(p) \in Files /\ Marker(p) \in Files
BY FileAssumption DEF Files, Download, Vmlinux, BTF, Tarball, Marker

\* NoFile is not a file.
LEMMA NoFileIsNone == NoFile \notin Files
BY DEF Files, NoFile

\* No file a job has open is a marker.
LEMMA MarkerNotOpen ==
  ASSUME FileInv, NEW p \in Pkgs, NEW w \in Workers
  PROVE  writing[w] # Marker(p)
<1>1. NoFile # Marker(p)
  BY PathsAreFiles, NoFileIsNone
<1>2. QED
  BY <1>1 DEF FileInv, OpenFile, Download, Vmlinux, BTF, Tarball, Marker

\* The three ways a job touches files keep what is incomplete the same as what
\* is being written.
LEMMA CreateKeeps ==
  ASSUME FileTypeOK, IncompleteIsWritten, NEW w \in Workers, NEW f \in Files,
         writing[w] = NoFile, Create(w, f)
  PROVE  /\ disk' \in [Files -> FileStates]
         /\ writing' \in [Workers -> Files \cup {NoFile}]
         /\ writing'[w] = f
         /\ \A v \in Workers \ {w} : writing'[v] = writing[v]
         /\ IncompleteIsWritten'
BY NoFileIsNone DEF FileTypeOK, IncompleteIsWritten, Create, FileStates

\* To finish a file keeps the file states consistent.
LEMMA FinishKeeps ==
  ASSUME FileTypeOK, IncompleteIsWritten, NEW w \in Workers, Finish(w)
  PROVE  /\ disk' \in [Files -> FileStates]
         /\ writing' \in [Workers -> Files \cup {NoFile}]
         /\ writing'[w] = NoFile
         /\ \A v \in Workers \ {w} : writing'[v] = writing[v]
         /\ IncompleteIsWritten'
BY NoFileIsNone DEF FileTypeOK, IncompleteIsWritten, Finish, FileStates

\* So does removing files, when those who had them open let go.
LEMMA RemoveAllKeeps ==
  ASSUME FileTypeOK, IncompleteIsWritten, NEW fs, NEW ws \in SUBSET Workers,
         \A w \in ws : writing[w] \in fs \cup {NoFile},
         RemoveAll(fs, ws)
  PROVE  /\ disk' \in [Files -> FileStates]
         /\ writing' \in [Workers -> Files \cup {NoFile}]
         /\ \A w \in ws : writing'[w] = NoFile
         /\ \A v \in Workers : writing'[v] \in {writing[v], NoFile}
         /\ IncompleteIsWritten'
BY NoFileIsNone DEF FileTypeOK, IncompleteIsWritten, RemoveAll, FileStates

-----------------------------------------------------------------------------
\* FileInv holds at first.
LEMMA FileInit == HubInit => FileInv
<1> SUFFICES ASSUME HubInit PROVE FileInv
  OBVIOUS
<1>1. FileTypeOK
  BY DEF HubInit, FileTypeOK, FileStates, Stages
<1>2. (\A w \in Workers : OpenFile(w)) /\ StageOfJob /\ DeadIsClosed
  BY DEF HubInit, OpenFile, StageOfJob, DeadIsClosed
<1>3. IncompleteIsWritten
  BY NoFileIsNone DEF HubInit, IncompleteIsWritten
<1>4. QED
  BY <1>1, <1>2, <1>3 DEF FileInv

\* Steps that leave the files alone, and at most start or end a worker or take
\* it out of its select.
LEMMA FilesUntouched ==
  ASSUME FileInv, UNCHANGED <<disk, writing, stage>>, failed' \subseteq Pkgs,
         Alive' <=> Alive,
         \A w \in Workers : \/ stage[w] = "start"
                            \/ wst'[w] = wst[w] /\ wpk'[w] = wpk[w]
  PROVE  FileInv'
BY DEF FileInv, FileTypeOK, OpenFile, StageOfJob, IncompleteIsWritten, DeadIsClosed

\* Steps of a job: one worker moves on, to a stage that fits the file it has
\* open, or back to the start.
LEMMA JobStep ==
  ASSUME FileInv, NEW w \in Workers, NEW label \in Stages, Reach(w, label),
         disk' \in [Files -> FileStates],
         writing' \in [Workers -> Files \cup {NoFile}],
         IncompleteIsWritten',
         failed' \subseteq Pkgs, main' = main, Alive,
         label = "start" \/ wst'[w] \in {"extract", "btf"},
         OpenFile(w)',
         \A v \in Workers \ {w} : /\ wst'[v] = wst[v] /\ wpk'[v] = wpk[v]
                                  /\ writing'[v] \in {writing[v], NoFile}
  PROVE  FileInv'
<1>1. stage' \in [Workers -> Stages] /\ stage'[w] = label
      /\ \A v \in Workers \ {w} : stage'[v] = stage[v]
  BY DEF FileInv, FileTypeOK, Reach
<1>2. FileTypeOK'
  BY <1>1 DEF FileTypeOK
<1>3. \A v \in Workers : OpenFile(v)'
  BY <1>1 DEF FileInv, OpenFile
<1>4. StageOfJob'
  BY <1>1 DEF FileInv, StageOfJob, Alive
<1>5. QED
  BY <1>2, <1>3, <1>4 DEF FileInv, DeadIsClosed, Alive

\* A loop's step keeps FileInv.
LEMMA SliceFiles ==
  ASSUME FileInv, PoolTypeOK, NEW s \in Slices, HubSliceStep(s)
  PROVE  FileInv'
<1>1. /\ UNCHANGED workervars /\ UNCHANGED main /\ Alive
      /\ HasPackage(s) => At(s) \in Pkgs
  BY SliceImplements, AtIsPackage
     DEF SliceStep, EndOfSlice, KnownHasBTF, SkipExisting, NewExtraction,
         SendCancelled, InspectFailed, MarkHasBTF, SkipLaterKernels, NeedsBTF,
         AtLoop
<1>2. CASE \/ StopAtMarked(s) \/ SkipPublished(s) \/ StartPackage(s)
           \/ AcceptVmlinux(s) \/ GiveUp(s) \/ EndSlice(s)
  <2>1. UNCHANGED filevars
    BY <1>2 DEF StopAtMarked, SkipPublished, StartPackage, AcceptVmlinux,
                GiveUp, EndSlice
  <2>2. QED
    BY <1>1, <2>1, FilesUntouched
       DEF filevars, workervars, Alive, FileInv, FileTypeOK
<1>3. CASE RejectVmlinux(s)
  <2>1. HasPackage(s)
    BY <1>3 DEF RejectVmlinux, InspectFailed, PoolTypeOK
  <2>2. QED
    BY <1>1, <1>3, <2>1, FilesUntouched
       DEF RejectVmlinux, Report, workervars, Alive, FileInv, FileTypeOK
<1>4. CASE MarkNative(s)
  <2>1. HasPackage(s)
    BY <1>4 DEF MarkNative, MarkHasBTF, PoolTypeOK
  <2>2. \A w \in Workers : writing[w] # Marker(At(s))
    BY <1>1, <2>1, MarkerNotOpen
  <2>3. FileTypeOK' /\ IncompleteIsWritten'
    BY <1>1, <1>4, <2>1, <2>2, PathsAreFiles
       DEF MarkNative, FileInv, FileTypeOK, FileStates, IncompleteIsWritten
  <2>4. (\A w \in Workers : OpenFile(w)') /\ StageOfJob' /\ DeadIsClosed'
    BY <1>1, <1>4 DEF MarkNative, FileInv, OpenFile, StageOfJob, DeadIsClosed,
                      Alive, workervars
  <2>5. QED
    BY <2>3, <2>4 DEF FileInv
<1>5. CASE DropNative(s)
  <2>1. /\ disk' \in [Files -> FileStates]
        /\ writing' \in [Workers -> Files \cup {NoFile}]
        /\ \A v \in Workers : writing'[v] \in {writing[v], NoFile}
        /\ IncompleteIsWritten'
    BY <1>5, RemoveAllKeeps DEF DropNative, FileInv
  <2>2. FileTypeOK'
    BY <1>5, <2>1 DEF DropNative, FileInv, FileTypeOK
  <2>3. (\A w \in Workers : OpenFile(w)') /\ StageOfJob' /\ DeadIsClosed'
    BY <1>1, <1>5, <2>1
       DEF DropNative, FileInv, OpenFile, StageOfJob, DeadIsClosed, Alive,
           workervars
  <2>4. QED
    BY <2>1, <2>2, <2>3 DEF FileInv
<1>6. QED
  BY <1>2, <1>3, <1>4, <1>5 DEF HubSliceStep

\* In a job, the worker has a package and the paths are files.
LEMMA JobPaths ==
  ASSUME PoolTypeOK, NEW w \in Workers, wst[w] \in {"extract", "btf"}
  PROVE  /\ wpk[w] \in Pkgs
         /\ Download(wpk[w]) \in Files /\ Vmlinux(wpk[w]) \in Files
         /\ BTF(wpk[w]) \in Files /\ Tarball(wpk[w]) \in Files
BY PathsAreFiles DEF PoolTypeOK

\* A job opens a file.
LEMMA CreateStep ==
  ASSUME FileInv, NEW w \in Workers, NEW label \in Stages, NEW f \in Files,
         wst[w] \in {"extract", "btf"}, Alive,
         stage[w] \notin {"download", "extract", "generate", "compress", "hopeless"},
         Create(w, f), Reach(w, label), UNCHANGED poolvars, UNCHANGED failed,
         \/ label = "download" /\ f = Download(wpk[w])
         \/ label = "extract" /\ f = Vmlinux(wpk[w])
         \/ label = "generate" /\ f = BTF(wpk[w])
         \/ label \in {"compress", "hopeless"} /\ f = Tarball(wpk[w])
  PROVE  FileInv'
<1>1. writing[w] = NoFile
  BY DEF FileInv, OpenFile
<1>2. /\ disk' \in [Files -> FileStates]
      /\ writing' \in [Workers -> Files \cup {NoFile}]
      /\ writing'[w] = f
      /\ \A v \in Workers \ {w} : writing'[v] = writing[v]
      /\ IncompleteIsWritten'
  BY <1>1, CreateKeeps DEF FileInv
<1>3. stage'[w] = label
  BY DEF FileInv, FileTypeOK, Reach
<1>4. OpenFile(w)'
  BY <1>2, <1>3 DEF OpenFile, poolvars
<1>5. QED
  BY <1>2, <1>4, JobStep DEF poolvars, FileInv, FileTypeOK

\* A job closes the file it has open.
LEMMA FinishStep ==
  ASSUME FileInv, NEW w \in Workers, NEW label \in Stages,
         wst[w] \in {"extract", "btf"}, Alive,
         Finish(w), Reach(w, label), UNCHANGED poolvars, UNCHANGED failed
  PROVE  FileInv'
<1>1. /\ disk' \in [Files -> FileStates]
      /\ writing' \in [Workers -> Files \cup {NoFile}]
      /\ writing'[w] = NoFile
      /\ \A v \in Workers \ {w} : writing'[v] = writing[v]
      /\ IncompleteIsWritten'
  BY FinishKeeps DEF FileInv
<1>2. OpenFile(w)'
  BY <1>1 DEF OpenFile
<1>3. QED
  BY <1>1, <1>2, JobStep DEF poolvars, FileInv, FileTypeOK

\* A job ends and removes files, among them the one it has open.
LEMMA RemoveStep ==
  ASSUME FileInv, NEW w \in Workers, NEW fs,
         writing[w] \in fs \cup {NoFile},
         RemoveAll(fs, {w}), Reach(w, "start"),
         failed' \subseteq Pkgs, main' = main, Alive,
         \A v \in Workers \ {w} : wst'[v] = wst[v] /\ wpk'[v] = wpk[v]
  PROVE  FileInv'
<1>1. /\ disk' \in [Files -> FileStates]
      /\ writing' \in [Workers -> Files \cup {NoFile}]
      /\ writing'[w] = NoFile
      /\ \A v \in Workers : writing'[v] \in {writing[v], NoFile}
      /\ IncompleteIsWritten'
  BY RemoveAllKeeps DEF FileInv
<1>2. OpenFile(w)'
  BY <1>1 DEF OpenFile
<1>3. QED
  BY <1>1, <1>2, JobStep DEF Stages

\* An extraction job's step keeps FileInv.
LEMMA ExtractionFiles ==
  ASSUME FileInv, PoolTypeOK, NEW w \in Workers, ExtractionStep(w)
  PROVE  FileInv'
<1> USE DEF Extracting, Stages
<1>1. /\ wpk[w] \in Pkgs
      /\ Download(wpk[w]) \in Files /\ Vmlinux(wpk[w]) \in Files
  BY JobPaths DEF ExtractionStep, ReplyExisting, ReuseDownload, BeginDownload,
     EndDownload, FailDownload, BeginExtract, EndExtract, FailExtract,
     ReplyExtracted
<1>2. ReplyPath(w) \/ ReplyError(w) =>
        /\ main' = main
        /\ \A v \in Workers \ {w} : wst'[v] = wst[v] /\ wpk'[v] = wpk[v]
  BY DEF ReplyPath, ReplyError, GoIdle, PoolTypeOK
<1>3. failed \subseteq Pkgs /\ failed \cup {wpk[w]} \subseteq Pkgs
  BY <1>1 DEF FileInv, FileTypeOK
<1>4. CASE ReplyExisting(w)
  <2>1. UNCHANGED <<disk, writing, stage>> /\ failed' = failed /\ stage[w] = "start"
    BY <1>4 DEF ReplyExisting, filevars
  <2>2. /\ main' = main
        /\ \A v \in Workers \ {w} : wst'[v] = wst[v] /\ wpk'[v] = wpk[v]
    BY <1>2, <1>4 DEF ReplyExisting
  <2>3. \A v \in Workers : \/ stage[v] = "start"
                           \/ wst'[v] = wst[v] /\ wpk'[v] = wpk[v]
    BY <2>1, <2>2
  <2>4. Alive' <=> Alive
    BY <2>2 DEF Alive
  <2>5. QED
    BY <1>3, <2>1, <2>3, <2>4, FilesUntouched
<1>5. CASE ReuseDownload(w)
  <2>1. OpenFile(w)'
    BY <1>5 DEF ReuseDownload, FileInv, OpenFile, poolvars
  <2>2. IncompleteIsWritten'
    BY <1>5 DEF ReuseDownload, FileInv, IncompleteIsWritten
  <2>3. QED
    BY <1>5, <2>1, <2>2, JobStep
       DEF ReuseDownload, FileInv, FileTypeOK, poolvars
<1>6. CASE BeginDownload(w)
  BY <1>1, <1>6, CreateStep DEF BeginDownload
<1>7. CASE EndDownload(w)
  BY <1>7, FinishStep DEF EndDownload
<1>8. CASE FailDownload(w)
  <2>1. writing[w] \in {Download(wpk[w])} \cup {NoFile}
    BY <1>8 DEF FailDownload, FileInv, OpenFile
  <2>2. QED
    BY <1>2, <1>3, <1>8, <2>1, RemoveStep DEF FailDownload, Report
<1>9. CASE BeginExtract(w)
  BY <1>1, <1>9, CreateStep DEF BeginExtract
<1>10. CASE EndExtract(w)
  BY <1>10, FinishStep DEF EndExtract
<1>11. CASE FailExtract(w)
  <2>1. writing[w] \in {Vmlinux(wpk[w])} \cup {NoFile}
    BY <1>11 DEF FailExtract, FileInv, OpenFile
  <2>2. QED
    BY <1>2, <1>3, <1>11, <2>1, RemoveStep DEF FailExtract, Report
<1>12. CASE ReplyExtracted(w)
  <2>1. writing[w] \in {Download(wpk[w])} \cup {NoFile}
    BY <1>12 DEF ReplyExtracted, FileInv, OpenFile
  <2>2. QED
    BY <1>2, <1>3, <1>12, <2>1, RemoveStep DEF ReplyExtracted
<1>13. QED
  BY <1>4, <1>5, <1>6, <1>7, <1>8, <1>9, <1>10, <1>11, <1>12 DEF ExtractionStep

\* A BTF job's step keeps FileInv.
LEMMA GenerationFiles ==
  ASSUME FileInv, PoolTypeOK, NEW w \in Workers, GenerationStep(w)
  PROVE  FileInv'
<1> USE DEF Generating, Stages
<1>1. /\ wpk[w] \in Pkgs
      /\ BTF(wpk[w]) \in Files /\ Tarball(wpk[w]) \in Files
  BY JobPaths DEF GenerationStep, BeginGenerate, EndGenerate, FailGenerate,
     BeginCompress, EndCompress, FailCompress, RemoveInputs
<1>2. BTFJobEnds(w) =>
        /\ main' = main
        /\ \A v \in Workers \ {w} : wst'[v] = wst[v] /\ wpk'[v] = wpk[v]
  BY DEF BTFJobEnds, GoIdle, PoolTypeOK
<1>3. failed \subseteq Pkgs /\ failed \cup {wpk[w]} \subseteq Pkgs
  BY <1>1 DEF FileInv, FileTypeOK
<1>4. CASE BeginGenerate(w)
  BY <1>1, <1>4, CreateStep DEF BeginGenerate
<1>5. CASE EndGenerate(w)
  BY <1>5, FinishStep DEF EndGenerate
<1>6. CASE FailGenerate(w)
  <2>1. writing[w] \in {BTF(wpk[w])} \cup {NoFile}
    BY <1>6 DEF FailGenerate, FileInv, OpenFile
  <2>2. QED
    BY <1>2, <1>3, <1>6, <2>1, RemoveStep DEF FailGenerate, Report
<1>7. CASE BeginCompress(w)
  <2> DEFINE label == IF disk[BTF(wpk[w])] = "full" THEN "compress" ELSE "hopeless"
  <2>1. label \in {"compress", "hopeless"}
    OBVIOUS
  <2>2. QED
    BY <1>1, <1>7, <2>1, CreateStep DEF BeginCompress
<1>8. CASE EndCompress(w)
  BY <1>8, FinishStep DEF EndCompress
<1>9. CASE FailCompress(w)
  <2>1. writing[w] \in {Tarball(wpk[w])} \cup {NoFile}
    BY <1>9 DEF FailCompress, FileInv, OpenFile
  <2>2. QED
    BY <1>2, <1>3, <1>9, <2>1, RemoveStep DEF FailCompress, Report
<1>10. CASE RemoveInputs(w)
  <2>1. writing[w] \in {BTF(wpk[w]), Vmlinux(wpk[w])} \cup {NoFile}
    BY <1>10 DEF RemoveInputs, FileInv, OpenFile
  <2>2. QED
    BY <1>2, <1>3, <1>10, <2>1, RemoveStep DEF RemoveInputs
<1>11. QED
  BY <1>4, <1>5, <1>6, <1>7, <1>8, <1>9, <1>10 DEF GenerationStep

\* Handing over a job keeps FileInv.
LEMMA OrderFiles ==
  ASSUME FileInv, PoolTypeOK, NEW s \in Slices, NEW w \in Workers,
         OrderExtraction(s, w) \/ OrderBTF(s, w)
  PROVE  FileInv'
<1>1. UNCHANGED filevars /\ Alive /\ wst[w] = "select" /\ main' = main
  BY DEF OrderExtraction, OrderBTF, SendExtraction, SendBTF
<1>2. \A v \in Workers \ {w} : wst'[v] = wst[v] /\ wpk'[v] = wpk[v]
  BY DEF OrderExtraction, OrderBTF, SendExtraction, SendBTF, PoolTypeOK
<1>3. stage[w] = "start"
  BY <1>1 DEF FileInv, StageOfJob
<1>4. QED
  BY <1>1, <1>2, <1>3, FilesUntouched DEF filevars, FileInv, FileTypeOK, Alive

\* A worker that returns keeps FileInv.
LEMMA StopWorkerFiles ==
  ASSUME FileInv, PoolTypeOK, NEW w \in Workers, StopWorker(w)
  PROVE  FileInv'
<1>1. UNCHANGED filevars /\ Alive /\ wst[w] = "select" /\ main' = main
  BY DEF StopWorker, WorkerCancelled, WorkerDone, Alive
<1>2. \A v \in Workers \ {w} : wst'[v] = wst[v] /\ wpk'[v] = wpk[v]
  BY DEF StopWorker, WorkerCancelled, WorkerDone, PoolTypeOK
<1>3. stage[w] = "start"
  BY <1>1 DEF FileInv, StageOfJob
<1>4. QED
  BY <1>1, <1>2, <1>3, FilesUntouched DEF filevars, FileInv, FileTypeOK, Alive

\* The end of the process, which closes every file, keeps FileInv.
LEMMA TearKeeps ==
  ASSUME FileInv, TearFiles, UNCHANGED <<stage, failed>>, ~Alive'
  PROVE  FileInv'
BY NoFileIsNone
   DEF FileInv, FileTypeOK, FileStates, TearFiles, OpenFile, StageOfJob,
       IncompleteIsWritten, DeadIsClosed

\* Producers, run() and new starts keep FileInv.
LEMMA ProcessFiles ==
  ASSUME FileInv, PoolTypeOK,
         \/ \E p \in Producers : HubProducerStep(p)
         \/ (CloseJobs \/ ExitConsume \/ Interrupt) /\ UNCHANGED filevars
         \/ FatalExit \/ Killed \/ StartAgain \/ UNCHANGED hubvars
  PROVE  FileInv'
<1>1. CASE \/ \E p \in Producers : HubProducerStep(p)
           \/ (CloseJobs \/ Interrupt) /\ UNCHANGED filevars
           \/ UNCHANGED hubvars
  <2>1. UNCHANGED filevars /\ UNCHANGED workervars /\ (Alive' <=> Alive)
    BY <1>1 DEF HubProducerStep, ProducerStep, ListPackages, ListFailed,
       ReturnProducer, CloseJobs, Interrupt, hubvars, filevars, workervars, Alive
  <2>2. QED
    BY <2>1, FilesUntouched DEF filevars, workervars, FileInv, FileTypeOK
<1>2. CASE FatalExit \/ Killed
  <2>1. ~Alive' /\ TearFiles /\ UNCHANGED <<stage, failed>>
    BY <1>2 DEF FatalExit, Killed, ExitProduceError, Kill, Alive
  <2>2. QED
    BY <2>1, TearKeeps
<1>3. CASE StartAgain
  <2>1. UNCHANGED <<disk, writing>> /\ failed' = {} /\ ~Alive
        /\ stage' = [w \in Workers |-> "start"]
    BY <1>3 DEF StartAgain, Rerun
  <2>2. FileTypeOK' /\ StageOfJob'
    BY <2>1 DEF FileInv, FileTypeOK, Stages, StageOfJob
  <2>3. QED
    BY <2>1, <2>2 DEF FileInv, IncompleteIsWritten, OpenFile, DeadIsClosed
<1>4. CASE ExitConsume /\ UNCHANGED filevars
  <2>1. UNCHANGED filevars /\ UNCHANGED workervars /\ Alive
        /\ \A w \in Workers : wst[w] \in {"ok", "failed"}
    BY <1>4 DEF ExitConsume, Alive
  <2>2. \A w \in Workers : stage[w] = "start" /\ writing[w] = NoFile
    BY <2>1 DEF FileInv, StageOfJob, OpenFile
  <2>3. QED
    BY <2>1, <2>2 DEF filevars, workervars, FileInv, FileTypeOK, OpenFile,
       StageOfJob, DeadIsClosed, IncompleteIsWritten
<1>5. QED
  BY <1>1, <1>2, <1>3, <1>4

\* FileInv is inductive.
LEMMA FileStep == FileInv /\ PoolTypeOK /\ [HubNext]_hubvars => FileInv'
BY SliceFiles, OrderFiles, ExtractionFiles, GenerationFiles, StopWorkerFiles,
   ProcessFiles
   DEF HubNext, HubStep

\* For every configuration of the pool, and also when packages share file names:
\* what is incomplete on disk is being written by a job of the living process.
\* Every error path removes what it left unfinished.
THEOREM UnfinishedIsWritten == HubSpec => []IncompleteIsWritten
<1>1. HubSpec => []FileInv
  <2>1. HubSpec => []PoolTypeOK
    BY Implementation, TypeCorrect, PTL
  <2>2. QED
    BY FileInit, FileStep, <2>1, PTL DEF HubSpec
<1>2. FileInv => IncompleteIsWritten
  BY DEF FileInv
<1>3. QED
  BY <1>1, <1>2, PTL

\* The flag -f is chosen when the program is started.
LEMMA ForceIsFlag == HubSpec => [](force \in BOOLEAN)
<1>1. HubInit => force \in BOOLEAN
  BY FileAssumption DEF HubInit
<1>2. force \in BOOLEAN /\ [HubNext]_hubvars => (force \in BOOLEAN)'
  BY FileAssumption DEF HubNext, StartAgain, hubvars
<1>3. QED
  BY <1>1, <1>2, PTL DEF HubSpec

\* Every variable of the program with its files keeps its type.
THEOREM HubTypeCorrect == HubSpec => []HubTypeOK
<1>1. HubSpec => []FileInv
  <2>1. HubSpec => []PoolTypeOK
    BY Implementation, TypeCorrect, PTL
  <2>2. QED
    BY FileInit, FileStep, <2>1, PTL DEF HubSpec
<1>2. FileInv /\ PoolTypeOK /\ force \in BOOLEAN => HubTypeOK
  BY DEF FileInv, FileTypeOK, StageOfJob, HubTypeOK
<1>3. QED
  BY <1>1, <1>2, ForceIsFlag, Implementation, TypeCorrect, PTL
=============================================================================
