--------------------------- MODULE WorkerPoolProofs ---------------------------
(***************************************************************************)
(* Safety of WorkerPool for any number of workers, producers, slices and    *)
(* packages and any number of runs.                                         *)
(***************************************************************************)
EXTENDS WorkerPool, TLAPS

\* Where the slices of a producer can be: not begun before it has its list, and
\* ended (or never begun, when there is no list) once it returned; and once
\* jobChan is closed every producer has returned.
Lifecycle ==
  /\ \A s \in Slices :
       /\ repo[Owner[s]] = "listing" => pc[s] = "off"
       /\ Returned(Owner[s]) => pc[s] \in {"off", "done", "failed"}
       /\ repo[Owner[s]] = "ok" => pc[s] # "failed"
  /\ main \in {"closed", "ok", "fatal"} => \A p \in Producers : Returned(p)

\* What a clean exit has seen of the workers and the producers.
OkSeen ==
  main = "ok" => /\ \A w \in Workers : wst[w] = "ok"
                 /\ \A p \in Producers : repo[p] = "ok"

\* The inductive invariant.
PoolInv == PoolTypeOK /\ ReplyMatched /\ Lifecycle /\ OkSeen

-----------------------------------------------------------------------------
\* A list has a length.
LEMMA QueueLength == \A s \in Slices : Len(Queue[s]) \in Nat
BY PoolAssumption

\* PoolInv holds at first.
LEMMA InitInv == PoolInit => PoolInv
<1> SUFFICES ASSUME PoolInit PROVE PoolInv
  OBVIOUS
<1> USE PoolAssumption, NoneAssumption DEF PoolInit
<1>1. PoolTypeOK
  <2>1. \A s \in Slices : nxt[s] <= Len(Queue[s]) + 1
    BY QueueLength
  <2>2. run \in 1 .. MaxRuns
    OBVIOUS
  <2>3. /\ main \in {"producing", "closed", "ok", "fatal", "killed"}
        /\ interrupted \in BOOLEAN
        /\ repo \in [Producers -> {"listing", "running", "ok", "failed"}]
    OBVIOUS
  <2>4. /\ pc \in [Slices -> {"off", "loop", "sendx", "wait", "inspect", "mark",
                        "sendb", "done", "failed"}]
        /\ nxt \in [Slices -> Nat \ {0}]
    OBVIOUS
  <2>5. /\ wst \in [Workers -> {"select", "extract", "btf", "ok", "failed"}]
        /\ wsl \in [Workers -> Slices \cup {NoSlice}]
        /\ wpk \in [Workers -> Pkgs \cup {NoPkg}]
        /\ \A w \in Workers : wst[w] \in {"extract", "btf"} => wpk[w] \in Pkgs
    OBVIOUS
  <2>6. \A s \in Slices :
       pc[s] \in {"sendx", "wait", "inspect", "mark", "sendb"} => HasPackage(s)
    OBVIOUS
  <2>7. QED
    BY <2>1, <2>2, <2>3, <2>4, <2>5, <2>6 DEF PoolTypeOK
<1>2. ReplyMatched
  BY DEF ReplyMatched
<1>3. Lifecycle /\ OkSeen
  BY DEF Lifecycle, OkSeen, Returned
<1>4. QED
  BY <1>1, <1>2, <1>3 DEF PoolInv

\* The package a slice is at belongs to its list.
LEMMA AtIsPackage ==
  ASSUME PoolTypeOK, NEW s \in Slices, HasPackage(s)
  PROVE  At(s) \in Pkgs
BY PoolAssumption DEF PoolTypeOK, HasPackage, At

\* The two ways to leave a package with an error.
LEMMA PackageErrorCases ==
  ASSUME PoolTypeOK, NEW s \in Slices, PackageError(s)
  PROVE  \/ pc' = [pc EXCEPT ![s] = "failed"] /\ nxt' = nxt
         \/ pc' = [pc EXCEPT ![s] = "loop"] /\ nxt' = [nxt EXCEPT ![s] = @ + 1]
BY DEF PackageError, NextPackage, GoTo

\* A producer's step keeps PoolInv.
LEMMA ProducerInv ==
  ASSUME PoolInv, NEW p \in Producers, ProducerStep(p)
  PROVE  PoolInv'
<1> USE PoolAssumption, NoneAssumption
    DEF PoolInv, PoolTypeOK, ReplyMatched, Lifecycle, OkSeen, HasPackage,
        Returned, Alive, slicevars, workervars
<1>1. CASE ListPackages(p)
  BY <1>1 DEF ListPackages
<1>2. CASE ListFailed(p)
  BY <1>2 DEF ListFailed
<1>3. CASE ReturnProducer(p)
  BY <1>3 DEF ReturnProducer, SliceEnded
<1>4. QED
  BY <1>1, <1>2, <1>3 DEF ProducerStep

\* A package loop's step keeps PoolInv.
LEMMA SliceInv ==
  ASSUME PoolInv, NEW s \in Slices, SliceStep(s)
  PROVE  PoolInv'
<1> USE PoolAssumption, NoneAssumption
    DEF PoolInv, PoolTypeOK, ReplyMatched, Lifecycle, OkSeen, HasPackage,
        Returned, Alive, AtLoop, GoTo, NextPackage, slicevars, workervars
<1>1. CASE EndOfSlice(s)
  BY <1>1 DEF EndOfSlice
<1>2. CASE KnownHasBTF(s)
  BY <1>2 DEF KnownHasBTF
<1>3. CASE SkipExisting(s)
  BY <1>3 DEF SkipExisting
<1>4. CASE NewExtraction(s)
  BY <1>4 DEF NewExtraction
<1>5. CASE SendCancelled(s)
  BY <1>5 DEF SendCancelled
<1>6. CASE InspectFailed(s)
  <2>1. PackageError(s)
    BY <1>6 DEF InspectFailed
  <2>2. CASE pc' = [pc EXCEPT ![s] = "failed"] /\ nxt' = nxt
    BY <1>6, <2>2 DEF InspectFailed
  <2>3. CASE pc' = [pc EXCEPT ![s] = "loop"] /\ nxt' = [nxt EXCEPT ![s] = @ + 1]
    BY <1>6, <2>3, QueueLength DEF InspectFailed
  <2>4. QED
    BY <2>1, <2>2, <2>3, PackageErrorCases
<1>7. CASE MarkHasBTF(s)
  BY <1>7 DEF MarkHasBTF
<1>8. CASE SkipLaterKernels(s)
  BY <1>8 DEF SkipLaterKernels
<1>9. CASE NeedsBTF(s)
  BY <1>9 DEF NeedsBTF
<1>10. QED
  BY <1>1, <1>2, <1>3, <1>4, <1>5, <1>6, <1>7, <1>8, <1>9 DEF SliceStep

\* A worker's step, with the loop it meets on a channel, keeps PoolInv.
LEMMA WorkerInv ==
  ASSUME PoolInv, NEW w \in Workers, WorkerStep(w)
  PROVE  PoolInv'
<1> USE PoolAssumption, NoneAssumption
    DEF PoolInv, PoolTypeOK, ReplyMatched, Lifecycle, OkSeen, HasPackage,
        Returned, Alive, GoTo, NextPackage, GoIdle, slicevars, workervars
<1>1. ASSUME NEW s \in Slices, SendExtraction(s, w)
      PROVE  PoolInv'
  BY <1>1, AtIsPackage DEF SendExtraction
<1>2. ASSUME NEW s \in Slices, SendBTF(s, w)
      PROVE  PoolInv'
  BY <1>2, AtIsPackage DEF SendBTF
<1>3. CASE ReplyPath(w)
  BY <1>3 DEF ReplyPath
<1>4. CASE ReplyError(w)
  <2> DEFINE s == wsl[w]
  <2>1. s \in Slices /\ pc[s] = "wait" /\ PackageError(s)
    BY <1>4 DEF ReplyError
  <2>2. CASE pc' = [pc EXCEPT ![s] = "failed"] /\ nxt' = nxt
    BY <1>4, <2>1, <2>2 DEF ReplyError
  <2>3. CASE pc' = [pc EXCEPT ![s] = "loop"] /\ nxt' = [nxt EXCEPT ![s] = @ + 1]
    BY <1>4, <2>1, <2>3, QueueLength DEF ReplyError
  <2>4. QED
    BY <2>1, <2>2, <2>3, PackageErrorCases
<1>5. CASE BTFJobEnds(w)
  BY <1>5 DEF BTFJobEnds
<1>6. CASE WorkerCancelled(w)
  BY <1>6 DEF WorkerCancelled
<1>7. CASE WorkerDone(w)
  BY <1>7 DEF WorkerDone
<1>8. QED
  BY <1>1, <1>2, <1>3, <1>4, <1>5, <1>6, <1>7 DEF WorkerStep, Receive

\* run(), signals and new starts keep PoolInv.
LEMMA ProcessInv ==
  ASSUME PoolInv, MainStep \/ Interrupt \/ Kill \/ Rerun
  PROVE  PoolInv'
<1> USE PoolAssumption, NoneAssumption
    DEF PoolInv, PoolTypeOK, ReplyMatched, Lifecycle, OkSeen, HasPackage,
        Returned, Alive, ProduceError, slicevars, workervars
<1>1. CASE CloseJobs
  BY <1>1 DEF CloseJobs
<1>2. CASE ExitProduceError
  BY <1>2 DEF ExitProduceError
<1>3. CASE ExitConsume
  BY <1>3 DEF ExitConsume
<1>4. CASE Interrupt
  BY <1>4 DEF Interrupt
<1>5. CASE Kill
  BY <1>5 DEF Kill
<1>6. CASE Rerun
  <2>1. \A s \in Slices : nxt'[s] <= Len(Queue[s]) + 1
    BY <1>6, QueueLength DEF Rerun
  <2>2. run' \in 1 .. MaxRuns
    BY <1>6 DEF Rerun
  <2>3. PoolTypeOK'
    <3>1. /\ main' \in {"producing", "closed", "ok", "fatal", "killed"}
          /\ interrupted' \in BOOLEAN
          /\ repo' \in [Producers -> {"listing", "running", "ok", "failed"}]
      BY <1>6 DEF Rerun
    <3>2. /\ pc' \in [Slices -> {"off", "loop", "sendx", "wait", "inspect", "mark",
                          "sendb", "done", "failed"}]
          /\ nxt' \in [Slices -> Nat \ {0}]
      BY <1>6 DEF Rerun
    <3>3. /\ wst' \in [Workers -> {"select", "extract", "btf", "ok", "failed"}]
          /\ wsl' \in [Workers -> Slices \cup {NoSlice}]
          /\ wpk' \in [Workers -> Pkgs \cup {NoPkg}]
          /\ \A w \in Workers : wst'[w] \in {"extract", "btf"} => wpk'[w] \in Pkgs
      BY <1>6 DEF Rerun
    <3>4. \A s \in Slices :
            pc'[s] \in {"sendx", "wait", "inspect", "mark", "sendb"} => HasPackage(s)'
      BY <1>6 DEF Rerun
    <3>5. QED
      BY <2>1, <2>2, <3>1, <3>2, <3>3, <3>4 DEF PoolTypeOK
  <2>4. (ReplyMatched /\ Lifecycle /\ OkSeen)'
    BY <1>6 DEF Rerun
  <2>5. QED
    BY <2>3, <2>4
<1>7. QED
  BY <1>1, <1>2, <1>3, <1>4, <1>5, <1>6 DEF MainStep

\* A step that changes nothing keeps PoolInv.
LEMMA StutterInv == PoolInv /\ UNCHANGED poolvars => PoolInv'
BY DEF PoolInv, PoolTypeOK, ReplyMatched, Lifecycle, OkSeen, HasPackage,
       Returned, poolvars

\* The inductive invariant holds in every reachable state.
THEOREM Invariance == PoolSpec => []PoolInv
<1>1. PoolInv /\ [PoolNext]_poolvars => PoolInv'
  BY ProducerInv, SliceInv, WorkerInv, ProcessInv, StutterInv DEF PoolNext
<1>2. QED
  BY InitInv, <1>1, PTL DEF PoolSpec

-----------------------------------------------------------------------------
\* For every number of workers, slices and packages, no variable leaves its type
\* and no package loop indexes past its list.
THEOREM TypeCorrect == PoolSpec => []PoolTypeOK
<1>1. PoolInv => PoolTypeOK
  BY DEF PoolInv
<1>2. QED
  BY <1>1, Invariance, PTL

\* For every number of workers, slices and packages, a waiting slice and the
\* extraction job it waits for match one to one.
THEOREM RepliesMatch == PoolSpec => []ReplyMatched
<1>1. PoolInv => ReplyMatched
  BY DEF PoolInv
<1>2. QED
  BY <1>1, Invariance, PTL

\* jobChan is only closed when nothing can send on it any more.
THEOREM QuietWhenClosed == PoolSpec => []ClosedIsQuiet
<1>1. PoolInv => ClosedIsQuiet
  BY PoolAssumption
     DEF PoolInv, Lifecycle, ReplyMatched, ClosedIsQuiet
<1>2. QED
  BY <1>1, Invariance, PTL

\* Exit status 0 means that all workers and producers ended without an error.
THEOREM OkIsComplete == PoolSpec => []OkExitComplete
<1>1. PoolInv => OkExitComplete
  BY PoolAssumption DEF PoolInv, Lifecycle, OkSeen, OkExitComplete
<1>2. QED
  BY <1>1, Invariance, PTL
=============================================================================
