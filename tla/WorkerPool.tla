------------------------------ MODULE WorkerPool ------------------------------
(***************************************************************************)
(* The concurrent skeleton of btfhub: run() of cmd/btfhub/main.go, the      *)
(* workers of pkg/job/worker.go and the channel side of processPackage and  *)
(* of the per-distribution package loops of pkg/repo.                       *)
(*                                                                         *)
(* run() starts NumWorkers workers that receive from the unbuffered jobChan *)
(* and one producer goroutine per (distribution, release, architecture). A  *)
(* producer lists its kernel packages and walks one or more slices of them  *)
(* (one per kernel flavour for Ubuntu and SUSE, a single one otherwise).    *)
(* For a package the walker sends an extraction job, waits for the reply on *)
(* the job's own unbuffered channel, and then sends a BTF generation job it *)
(* does not wait for.                                                       *)
(*                                                                         *)
(* What the jobs and the file checks do is left open here: each outcome the *)
(* code can act on is an action. BtfHub conjoins these actions with the     *)
(* files they read and write.                                              *)
(***************************************************************************)
EXTENDS Integers, Sequences, FiniteSets

CONSTANTS
  NumCPU,       \* runtime.NumCPU() of the host
  WorkersFlag,  \* value of -workers / -j, 0 when the flag is not given
  Producers,    \* goroutines of the errgroup `produce`
  Slices,       \* package loops, one goroutine each
  Owner,        \* the producer that starts a slice
  Strict,       \* slices whose loop returns on any package error (RHEL, Amazon)
  Pkgs,         \* kernel packages
  Queue,        \* the packages of a slice in the order they are processed
  MaxRuns       \* bound: how many times the program is started

ASSUME PoolAssumption ==
  /\ NumCPU \in Nat \ {0}
  /\ WorkersFlag \in Int
  /\ Owner \in [Slices -> Producers]
  /\ Strict \subseteq Slices
  /\ Queue \in [Slices -> Seq(Pkgs)]
  /\ MaxRuns \in Nat \ {0}

\* The number of workers: the flag, or one less than the CPUs and at most 12.
NumWorkers ==
  IF WorkersFlag # 0 THEN WorkersFlag
  ELSE IF NumCPU - 1 > 12 THEN 12 ELSE NumCPU - 1

Workers == 1 .. NumWorkers

NoSlice == "no slice"
NoPkg   == "no package"

ASSUME NoneAssumption == NoSlice \notin Slices /\ NoPkg \notin Pkgs

VARIABLES
  run,          \* how many times the program has been started
  main,         \* where run() is, or how the process ended
  interrupted,  \* the root context is cancelled (SIGINT)
  repo,         \* state of each producer goroutine
  pc,           \* control point of each slice
  nxt,          \* index of the package a slice is at
  wst,          \* what each worker does
  wsl,          \* the slice whose extraction job a worker executes
  wpk           \* the package of the job a worker executes

slicevars  == <<pc, nxt>>
workervars == <<wst, wsl, wpk>>
poolvars   == <<run, main, interrupted, repo, pc, nxt, wst, wsl, wpk>>

-----------------------------------------------------------------------------
(* States *)

\* "producing": in produce.Wait(); "closed": jobChan is closed; the others are
\* the ways the process ends: exit status 0, log.Fatal, or a signal that kills.
Alive == main \in {"producing", "closed"}

SliceEnded(s) == pc[s] \in {"done", "failed"}
Returned(p)   == repo[p] \in {"ok", "failed"}

\* A producer function returned an error, so errgroup cancelled prodCtx.
ProduceError == \E p \in Producers : repo[p] = "failed"

\* prodCtx.Done(): the root context or the producers' group is cancelled.
ProdCtxDone == interrupted \/ ProduceError

\* The package the slice is at.
At(s) == Queue[s][nxt[s]]
HasPackage(s) == nxt[s] <= Len(Queue[s])

PoolInit ==
  /\ run = 1
  /\ main = "producing"
  /\ interrupted = FALSE
  /\ repo = [p \in Producers |-> "listing"]
  /\ pc  = [s \in Slices |-> "off"]
  /\ nxt = [s \in Slices |-> 1]
  /\ wst = [w \in Workers |-> "select"]
  /\ wsl = [w \in Workers |-> NoSlice]
  /\ wpk = [w \in Workers |-> NoPkg]

-----------------------------------------------------------------------------
(* Producers: GetKernelPackages *)

\* The package list was fetched, parsed and sorted: the slices start.
ListPackages(p) ==
  /\ Alive
  /\ repo[p] = "listing"
  /\ repo' = [repo EXCEPT ![p] = "running"]
  /\ pc' = [s \in Slices |-> IF Owner[s] = p THEN "loop" ELSE pc[s]]
  /\ UNCHANGED <<run, main, interrupted, nxt, workervars>>

\* Creating the directory, fetching or parsing the list failed.
ListFailed(p) ==
  /\ Alive
  /\ repo[p] = "listing"
  /\ repo' = [repo EXCEPT ![p] = "failed"]
  /\ UNCHANGED <<run, main, interrupted, slicevars, workervars>>

\* Every slice of the producer returned; one that failed fails the producer.
ReturnProducer(p) ==
  LET mine == {s \in Slices : Owner[s] = p} IN
  /\ Alive
  /\ repo[p] = "running"
  /\ \A s \in mine : SliceEnded(s)
  /\ repo' = [repo EXCEPT ![p] =
                IF \E s \in mine : pc[s] = "failed" THEN "failed" ELSE "ok"]
  /\ UNCHANGED <<run, main, interrupted, slicevars, workervars>>

-----------------------------------------------------------------------------
(* Slices: the loop of processPackages and processPackage *)

GoTo(s, label) == pc' = [pc EXCEPT ![s] = label]

\* The loop goes on with the next package.
NextPackage(s) ==
  /\ GoTo(s, "loop")
  /\ nxt' = [nxt EXCEPT ![s] = @ + 1]

Mut_PackageError(s) ==
  GoTo(s, IF s \in Strict THEN "failed" ELSE "done") /\ UNCHANGED nxt

\* An error of processPackage that is neither ErrHasBTF nor context.Canceled:
\* logged and skipped over, except in the loops that return it.
PackageError(s) ==
  IF s \in Strict THEN GoTo(s, "failed") /\ UNCHANGED nxt ELSE NextPackage(s)

AtLoop(s) == Alive /\ pc[s] = "loop" /\ HasPackage(s)

EndOfSlice(s) ==
  /\ Alive
  /\ pc[s] = "loop"
  /\ ~HasPackage(s)
  /\ GoTo(s, "done")
  /\ UNCHANGED <<run, main, interrupted, repo, nxt, workervars>>

\* The .hasbtf marker exists: ErrHasBTF ends the slice.
KnownHasBTF(s) ==
  /\ AtLoop(s)
  /\ GoTo(s, "done")
  /\ UNCHANGED <<run, main, interrupted, repo, nxt, workervars>>

\* The tarball exists: nothing to do for this package.
SkipExisting(s) ==
  /\ AtLoop(s)
  /\ NextPackage(s)
  /\ UNCHANGED <<run, main, interrupted, repo, workervars>>

\* Neither: an extraction job is to be sent.
NewExtraction(s) ==
  /\ AtLoop(s)
  /\ GoTo(s, "sendx")
  /\ UNCHANGED <<run, main, interrupted, repo, nxt, workervars>>

\* select: the context is done before a worker takes the job.
Mut_PlainSendBTF(s) ==
  /\ Alive
  /\ pc[s] = "sendx"
  /\ ProdCtxDone
  /\ GoTo(s, IF s \in Strict THEN "failed" ELSE "done")
  /\ UNCHANGED <<run, main, interrupted, repo, nxt, workervars>>

Mut_SendCancelled(s) ==
  /\ Alive
  /\ pc[s] \in {"sendx", "wait", "sendb"}
  /\ ProdCtxDone
  /\ GoTo(s, IF s \in Strict THEN "failed" ELSE "done")
  /\ UNCHANGED <<run, main, interrupted, repo, nxt, workervars>>

SendCancelled(s) ==
  /\ Alive
  /\ pc[s] \in {"sendx", "sendb"}
  /\ ProdCtxDone
  /\ GoTo(s, IF s \in Strict THEN "failed" ELSE "done")
  /\ UNCHANGED <<run, main, interrupted, repo, nxt, workervars>>

\* Rendezvous on jobChan: a worker in its select takes the extraction job.
Mut_SendExtraction(s, w) ==
  /\ Alive
  /\ pc[s] = "sendx"
  /\ wst[w] = "select"
  /\ GoTo(s, "wait")
  /\ nxt' = [nxt EXCEPT ![s] = @ + 1]
  /\ wst' = [wst EXCEPT ![w] = "extract"]
  /\ wsl' = [wsl EXCEPT ![w] = s]
  /\ wpk' = [wpk EXCEPT ![w] = At(s)]
  /\ UNCHANGED <<run, main, interrupted, repo>>

SendExtraction(s, w) ==
  /\ Alive
  /\ pc[s] = "sendx"
  /\ wst[w] = "select"
  /\ GoTo(s, "wait")
  /\ wst' = [wst EXCEPT ![w] = "extract"]
  /\ wsl' = [wsl EXCEPT ![w] = s]
  /\ wpk' = [wpk EXCEPT ![w] = At(s)]
  /\ UNCHANGED <<run, main, interrupted, repo, nxt>>

\* HasBTFSection cannot read the vmlinux file.
InspectFailed(s) ==
  /\ Alive
  /\ pc[s] = "inspect"
  /\ PackageError(s)
  /\ UNCHANGED <<run, main, interrupted, repo, workervars>>

\* The vmlinux file has a .BTF section: the marker is written ...
MarkHasBTF(s) ==
  /\ Alive
  /\ pc[s] = "inspect"
  /\ GoTo(s, "mark")
  /\ UNCHANGED <<run, main, interrupted, repo, nxt, workervars>>

\* ... then the vmlinux file is removed and ErrHasBTF ends the slice.
SkipLaterKernels(s) ==
  /\ Alive
  /\ pc[s] = "mark"
  /\ GoTo(s, "done")
  /\ UNCHANGED <<run, main, interrupted, repo, nxt, workervars>>

\* No .BTF section: a BTF generation job is to be sent.
NeedsBTF(s) ==
  /\ Alive
  /\ pc[s] = "inspect"
  /\ GoTo(s, "sendb")
  /\ UNCHANGED <<run, main, interrupted, repo, nxt, workervars>>

\* Rendezvous on jobChan for the BTF job; the slice does not wait for it.
SendBTF(s, w) ==
  /\ Alive
  /\ pc[s] = "sendb"
  /\ wst[w] = "select"
  /\ NextPackage(s)
  /\ wst' = [wst EXCEPT ![w] = "btf"]
  /\ wpk' = [wpk EXCEPT ![w] = At(s)]
  /\ UNCHANGED <<run, main, interrupted, repo, wsl>>

-----------------------------------------------------------------------------
(* Workers: StartWorker *)

GoIdle(w) ==
  /\ wst' = [wst EXCEPT ![w] = "select"]
  /\ wsl' = [wsl EXCEPT ![w] = NoSlice]
  /\ wpk' = [wpk EXCEPT ![w] = NoPkg]

\* Do sends the vmlinux path on the reply channel, its slice receives it.
ReplyPath(w) ==
  /\ Alive
  /\ wst[w] = "extract"
  /\ pc[wsl[w]] = "wait"
  /\ GoTo(wsl[w], "inspect")
  /\ GoIdle(w)
  /\ UNCHANGED <<run, main, interrupted, repo, nxt>>

\* Do returned an error, the worker sends that on the reply channel.
ReplyError(w) ==
  /\ Alive
  /\ wst[w] = "extract"
  /\ pc[wsl[w]] = "wait"
  /\ PackageError(wsl[w])
  /\ GoIdle(w)
  /\ UNCHANGED <<run, main, interrupted, repo>>

\* A BTF job ended. Its error, if any, is only logged: Reply() is nil.
BTFJobEnds(w) ==
  /\ Alive
  /\ wst[w] = "btf"
  /\ GoIdle(w)
  /\ UNCHANGED <<run, main, interrupted, repo, slicevars>>

\* select: the context is done.
WorkerCancelled(w) ==
  /\ Alive
  /\ wst[w] = "select"
  /\ interrupted
  /\ wst' = [wst EXCEPT ![w] = "failed"]
  /\ UNCHANGED <<run, main, interrupted, repo, slicevars, wsl, wpk>>

\* select: jobChan is closed.
WorkerDone(w) ==
  /\ main = "closed"
  /\ wst[w] = "select"
  /\ wst' = [wst EXCEPT ![w] = "ok"]
  /\ UNCHANGED <<run, main, interrupted, repo, slicevars, wsl, wpk>>

-----------------------------------------------------------------------------
(* run() and the process *)

Mut_CloseJobs ==
  /\ main = "producing"
  /\ (\A p \in Producers : Returned(p)) \/ ProduceError
  /\ main' = "closed"
  /\ UNCHANGED <<run, interrupted, repo, slicevars, workervars>>

\* produce.Wait() returned: every producer did. jobChan is closed.
CloseJobs ==
  /\ main = "producing"
  /\ \A p \in Producers : Returned(p)
  /\ main' = "closed"
  /\ UNCHANGED <<run, interrupted, repo, slicevars, workervars>>

\* A producer failed: run() returns its error without waiting for the workers.
ExitProduceError ==
  /\ main = "closed"
  /\ ProduceError
  /\ main' = "fatal"
  /\ UNCHANGED <<run, interrupted, repo, slicevars, workervars>>

\* consume.Wait() returned: every worker did.
Mut_ExitConsume ==
  /\ main = "closed"
  /\ ~ProduceError
  /\ main' = IF \E w \in Workers : wst[w] = "failed" THEN "fatal" ELSE "ok"
  /\ UNCHANGED <<run, interrupted, repo, slicevars, workervars>>

ExitConsume ==
  /\ main = "closed"
  /\ ~ProduceError
  /\ \A w \in Workers : wst[w] \in {"ok", "failed"}
  /\ main' = IF \E w \in Workers : wst[w] = "failed" THEN "fatal" ELSE "ok"
  /\ UNCHANGED <<run, interrupted, repo, slicevars, workervars>>

\* SIGINT cancels the root context.
Interrupt ==
  /\ Alive
  /\ ~interrupted
  /\ interrupted' = TRUE
  /\ UNCHANGED <<run, main, repo, slicevars, workervars>>

\* SIGTERM, SIGKILL or a power failure: no cleanup code runs.
Kill ==
  /\ Alive
  /\ main' = "killed"
  /\ UNCHANGED <<run, interrupted, repo, slicevars, workervars>>

\* The program is started again, with the state of Init.
Rerun ==
  /\ ~Alive
  /\ run < MaxRuns
  /\ run' = run + 1
  /\ main' = "producing"
  /\ interrupted' = FALSE
  /\ repo' = [p \in Producers |-> "listing"]
  /\ pc'  = [s \in Slices |-> "off"]
  /\ nxt' = [s \in Slices |-> 1]
  /\ wst' = [w \in Workers |-> "select"]
  /\ wsl' = [w \in Workers |-> NoSlice]
  /\ wpk' = [w \in Workers |-> NoPkg]

-----------------------------------------------------------------------------
ProducerStep(p) == ListPackages(p) \/ ListFailed(p) \/ ReturnProducer(p)

SliceStep(s) ==
  \/ EndOfSlice(s) \/ KnownHasBTF(s) \/ SkipExisting(s) \/ NewExtraction(s)
  \/ SendCancelled(s)
  \/ InspectFailed(s) \/ MarkHasBTF(s) \/ SkipLaterKernels(s) \/ NeedsBTF(s)

Receive(w) == \E s \in Slices : SendExtraction(s, w) \/ SendBTF(s, w)

WorkerStep(w) ==
  \/ Receive(w)
  \/ ReplyPath(w) \/ ReplyError(w) \/ BTFJobEnds(w)
  \/ WorkerCancelled(w) \/ WorkerDone(w)

MainStep == CloseJobs \/ ExitProduceError \/ ExitConsume

PoolNext ==
  \/ \E p \in Producers : ProducerStep(p)
  \/ \E s \in Slices : SliceStep(s)
  \/ \E w \in Workers : WorkerStep(w)
  \/ MainStep
  \/ Interrupt
  \/ Kill
  \/ Rerun

\* Goroutines are scheduled, channel operations and file checks complete, and
\* the jobs return (the tools and transfers they run do, or are cancelled).
\* Nothing makes the user interrupt, kill or restart the program.
PoolFairness ==
  /\ \A p \in Producers : WF_poolvars(ProducerStep(p))
  /\ \A s \in Slices : WF_poolvars(SliceStep(s))
  /\ \A w \in Workers : WF_poolvars(WorkerStep(w))
  /\ WF_poolvars(MainStep)

PoolSpec == PoolInit /\ [][PoolNext]_poolvars
FairPoolSpec == PoolSpec /\ PoolFairness

-----------------------------------------------------------------------------
(* Properties *)

\* Every variable has its type, a job is for a package, the index of a package
\* loop never runs past the end of the list by more than one, and a loop that is
\* inside processPackage is there for a package of its list (the range loops of
\* pkg/repo).
PoolTypeOK ==
  /\ run \in 1 .. MaxRuns
  /\ main \in {"producing", "closed", "ok", "fatal", "killed"}
  /\ interrupted \in BOOLEAN
  /\ repo \in [Producers -> {"listing", "running", "ok", "failed"}]
  /\ pc \in [Slices -> {"off", "loop", "sendx", "wait", "inspect", "mark",
                        "sendb", "done", "failed"}]
  /\ nxt \in [Slices -> Nat \ {0}]
  /\ wst \in [Workers -> {"select", "extract", "btf", "ok", "failed"}]
  /\ wsl \in [Workers -> Slices \cup {NoSlice}]
  /\ wpk \in [Workers -> Pkgs \cup {NoPkg}]
  /\ \A w \in Workers : wst[w] \in {"extract", "btf"} => wpk[w] \in Pkgs
  /\ \A s \in Slices :
       /\ nxt[s] <= Len(Queue[s]) + 1
       /\ pc[s] \in {"sendx", "wait", "inspect", "mark", "sendb"} => HasPackage(s)

\* A slice that waits for a reply is the slice of exactly one extraction job in
\* execution, and the slice of an executing job waits: no reply is lost or sent
\* twice, and neither side of the unbuffered reply channel blocks for ever,
\* whatever is cancelled or fails (worker.go, extract.go, processPackage).
ReplyMatched ==
  /\ \A s \in Slices : pc[s] = "wait" =>
       \E w \in Workers : wst[w] = "extract" /\ wsl[w] = s
  /\ \A w \in Workers : wst[w] = "extract" =>
       wsl[w] \in Slices /\ pc[wsl[w]] = "wait"
  /\ \A v, w \in Workers :
       wst[v] = "extract" /\ wst[w] = "extract" /\ wsl[v] = wsl[w] => v = w

\* When run() has closed jobChan no goroutine can still send on it (that would
\* panic) and no extraction job is in execution, whatever failed or was
\* cancelled before. BTF jobs may be.
ClosedIsQuiet ==
  main \in {"closed", "ok", "fatal"} =>
    /\ \A s \in Slices : pc[s] \in {"off", "done", "failed"}
    /\ \A w \in Workers : wst[w] # "extract"

\* Exit status 0 means that every BTF job that was sent has ended and that no
\* package loop and no producer returned an error. It does not mean that the
\* run was not interrupted: the loops that return nil on context.Canceled and
\* workers that see the closed channel first make an interrupted run exit with 0.
OkExitComplete ==
  main = "ok" =>
    /\ \A w \in Workers : wst[w] = "ok"
    /\ \A s \in Slices : pc[s] # "failed"
    /\ \A p \in Producers : repo[p] = "ok"

\* The program ends by itself, whatever fails and whenever it is interrupted:
\* no loop, worker or group of run() waits for ever for another one.
Termination == Alive ~> ~Alive

=============================================================================
