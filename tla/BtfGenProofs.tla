---------------------------- MODULE BtfGenProofs ----------------------------
(***************************************************************************)
(* Safety of BtfGen for any number of tarballs and parallel jobs: what its  *)
(* counters count, what a signal leaves, and, when the tarballs' base names *)
(* are distinct, what the script has made when it exits with status 0.      *)
(***************************************************************************)
EXTENDS BtfGen, FiniteSetTheorems, TLAPS

Pending == {f \in Tarballs : job[f] \in Running \cup Exited}
WaitedFor == {f \in Tarballs : job[f] = "waited for"}
NotNoted == {f \in Tarballs : job[f] # "none" /\ f \notin background_pids}

\* What the counters count, at each place of the main loop.
Counted ==
  /\ Cardinality(Pending) <= Jobs
  /\ main \in {"starting", "waiting"} => job_count = Cardinality(Pending)
  /\ main = "forked" => job_count + 1 = Cardinality(Pending)
  /\ Ended => Pending = {}
  /\ completed_jobs = Cardinality(WaitedFor)

\* Which jobs are not started, and which ones a signal would not reach.
Noted ==
  /\ \A f \in todo : job[f] = "none"
  /\ main \in {"starting", "waiting"} => NotNoted = {}
  /\ \A f, g \in NotNoted : f = g
  /\ main = "interrupted" => \A f \in background_pids : job[f] \notin Running

\* The inductive invariant.
CountInv == BtfGenTypeOK /\ Counted /\ Noted

-----------------------------------------------------------------------------
(* Sets of jobs when one of them goes on *)

\* The sets of jobs that are counted are finite.
LEMMA SetsAreFinite ==
  /\ IsFiniteSet(Pending) /\ Cardinality(Pending) \in Nat
  /\ IsFiniteSet(WaitedFor) /\ Cardinality(WaitedFor) \in Nat
  /\ Cardinality(WaitedFor) <= Cardinality(Tarballs)
  /\ Cardinality(Tarballs) \in Nat
<1>1. IsFiniteSet(Tarballs)
  BY BtfGenAssumption
<1>2. Pending \in SUBSET Tarballs /\ WaitedFor \in SUBSET Tarballs
  BY DEF Pending, WaitedFor
<1>3. /\ IsFiniteSet(Pending) /\ IsFiniteSet(WaitedFor)
      /\ Cardinality(WaitedFor) <= Cardinality(Tarballs)
  BY <1>1, <1>2, FS_Subset
<1>4. QED
  BY <1>1, <1>3, FS_CardinalityType

\* CountInv holds at first.
LEMMA InitCount == Init => CountInv
<1> SUFFICES ASSUME Init PROVE CountInv
  OBVIOUS
<1>1. Pending = {} /\ WaitedFor = {} /\ NotNoted = {}
  BY DEF Init, Pending, WaitedFor, NotNoted, Running, Exited
<1>2. Cardinality(Tarballs) \in Nat
  BY SetsAreFinite
<1>3. BtfGenTypeOK
  BY <1>2, BtfGenAssumption DEF Init, BtfGenTypeOK, Running, Exited
<1>4. Counted
  BY <1>1, FS_EmptySet, BtfGenAssumption DEF Init, Counted, Ended
<1>5. Noted
  BY <1>1 DEF Init, Noted
<1>6. QED
  BY <1>3, <1>4, <1>5 DEF CountInv

\* The main loop starts a job that it has not noted yet.
LEMMA StartCount == ASSUME CountInv, NEW f \in Tarballs, StartJob(f) PROVE CountInv'
<1> USE DEF CountInv, StartJob, Begin
<1>1. job[f] = "none"
  BY DEF Noted
<1>2. job'[f] = "extract" /\ \A g \in Tarballs \ {f} : job'[g] = job[g]
  BY DEF BtfGenTypeOK
<1>3. Pending' = Pending \cup {f} /\ f \notin Pending /\ WaitedFor' = WaitedFor
  BY <1>1, <1>2 DEF Pending, WaitedFor, Running, Exited
<1>4. Cardinality(Pending') = Cardinality(Pending) + 1
  BY <1>3, SetsAreFinite, FS_AddElement
<1>5. BtfGenTypeOK'
  BY DEF BtfGenTypeOK, Running
<1>6. Counted'
  <2>1. job_count = Cardinality(Pending) /\ job_count < Jobs /\ job_count' = job_count
    BY DEF Counted
  <2>2. Jobs \in Nat /\ Cardinality(Pending) \in Nat
    BY SetsAreFinite, BtfGenAssumption
  <2>3. Cardinality(Pending') <= Jobs /\ job_count' + 1 = Cardinality(Pending')
    BY <1>4, <2>1, <2>2
  <2>4. completed_jobs' = Cardinality(WaitedFor')
    BY <1>3 DEF Counted
  <2>5. QED
    BY <2>3, <2>4 DEF Counted, Ended
<1>7. NotNoted = {} /\ NotNoted' \subseteq {f}
  BY <1>2 DEF Noted, NotNoted
<1>8. Noted'
  BY <1>2, <1>7 DEF Noted, BtfGenTypeOK
<1>9. QED
  BY <1>5, <1>6, <1>8

\* The job just started is noted and counted.
LEMMA NoteCount == ASSUME CountInv, NEW f \in Tarballs, NoteJob(f) PROVE CountInv'
<1> USE DEF CountInv, NoteJob
<1>1. Pending' = Pending /\ WaitedFor' = WaitedFor
  BY DEF Pending, WaitedFor
<1>2. job_count' = Cardinality(Pending) /\ Cardinality(Pending) \in 0 .. Jobs
  <2>1. job_count + 1 = Cardinality(Pending) /\ Cardinality(Pending) <= Jobs
    BY DEF Counted
  <2>2. job_count' = job_count + 1
    OBVIOUS
  <2>3. Jobs \in Nat /\ Cardinality(Pending) \in Nat
    BY SetsAreFinite, BtfGenAssumption
  <2>4. QED
    BY <2>1, <2>2, <2>3
<1>3. BtfGenTypeOK'
  BY <1>2 DEF BtfGenTypeOK
<1>4. Counted'
  BY <1>1, <1>2 DEF Counted, Ended
<1>5. f \in NotNoted
  BY DEF NotNoted
<1>6. NotNoted' = {}
  BY <1>5 DEF NotNoted, Noted
<1>7. Noted'
  BY <1>6 DEF Noted
<1>8. QED
  BY <1>3, <1>4, <1>7

\* A job that was waited for is no longer counted.
LEMMA WaitCount == ASSUME CountInv, NEW f \in Tarballs, WaitJob(f) PROVE CountInv'
<1>1. /\ job'[f] = "waited for" /\ \A g \in Tarballs \ {f} : job'[g] = job[g]
      /\ job[f] \in Exited
  BY DEF WaitJob, CountInv, BtfGenTypeOK
<1>2. /\ Pending' = Pending \ {f} /\ f \in Pending
      /\ WaitedFor' = WaitedFor \cup {f} /\ f \notin WaitedFor
  BY <1>1 DEF Pending, WaitedFor, Running, Exited
<1>3. /\ Cardinality(Pending') = Cardinality(Pending) - 1
      /\ Cardinality(Pending') \in Nat
  BY <1>2, SetsAreFinite, FS_RemoveElement, FS_CardinalityType
<1>4. Cardinality(WaitedFor') = Cardinality(WaitedFor) + 1
  BY <1>2, SetsAreFinite, FS_AddElement
<1>5. Cardinality(WaitedFor') <= Cardinality(Tarballs)
  <2>1. WaitedFor' \in SUBSET Tarballs
    BY DEF WaitedFor
  <2>2. QED
    BY <2>1, FS_Subset, BtfGenAssumption
<1>6. /\ main \in {"starting", "waiting"} /\ main' = main
      /\ job_count' = job_count - 1 /\ completed_jobs' = completed_jobs + 1
      /\ failed_jobs' = failed_jobs \/ failed_jobs' = failed_jobs + 1
      /\ background_pids' = background_pids /\ todo' = todo
  <2>1. failed_jobs \in Int
    <3>1. /\ completed_jobs \in 0 .. Cardinality(Tarballs)
          /\ failed_jobs \in 0 .. completed_jobs
      BY DEF CountInv, BtfGenTypeOK
    <3>2. Cardinality(Tarballs) \in Nat
      BY SetsAreFinite
    <3>3. completed_jobs \in Int
      BY <3>1, <3>2
    <3>4. QED
      BY <3>1, <3>3
  <2>2. failed_jobs' = failed_jobs \/ failed_jobs' = failed_jobs + 1
    <3>1. failed_jobs' = failed_jobs + (IF job[f] = "exit 1" THEN 1 ELSE 0)
      BY DEF WaitJob
    <3>2. CASE job[f] = "exit 1"
      BY <3>1, <3>2
    <3>3. CASE job[f] # "exit 1"
      <4>1. failed_jobs' = failed_jobs + 0
        BY <3>1, <3>3
      <4>2. QED
        BY <2>1, <4>1
    <3>4. QED
      BY <3>2, <3>3
  <2>3. QED
    BY <2>2 DEF WaitJob, MustWait
<1>7. /\ job_count = Cardinality(Pending) /\ Cardinality(Pending) <= Jobs
      /\ completed_jobs = Cardinality(WaitedFor)
  BY <1>6 DEF CountInv, Counted
<1>8. /\ Jobs \in Nat /\ Cardinality(Pending) \in Nat /\ Cardinality(WaitedFor) \in Nat
      /\ Cardinality(Tarballs) \in Nat
  BY SetsAreFinite, BtfGenAssumption
<1>9. /\ Cardinality(Pending') <= Jobs /\ job_count' = Cardinality(Pending')
      /\ completed_jobs' = Cardinality(WaitedFor')
  BY <1>3, <1>4, <1>6, <1>7, <1>8
<1>10. Counted'
  BY <1>6, <1>9 DEF Counted, Ended
<1>11. BtfGenTypeOK'
  <2>1. completed_jobs' \in 0 .. Cardinality(Tarballs) /\ completed_jobs' = completed_jobs + 1
    BY <1>4, <1>5, <1>6, <1>7, <1>8
  <2>2. failed_jobs \in 0 .. completed_jobs
    BY DEF CountInv, BtfGenTypeOK
  <2>3. failed_jobs' \in 0 .. completed_jobs'
    BY <1>6, <1>7, <1>8, <2>1, <2>2
  <2>4. job_count' \in 0 .. Jobs
    BY <1>3, <1>8, <1>9
  <2>5. QED
    BY <2>1, <2>3, <2>4 DEF WaitJob, CountInv, BtfGenTypeOK
<1>12. Noted'
  <2>1. NotNoted = {} /\ NotNoted' = {}
    BY <1>1, <1>6 DEF CountInv, Noted, NotNoted, Exited
  <2>2. f \notin todo
    BY <1>1 DEF CountInv, Noted, Exited
  <2>3. QED
    BY <1>1, <1>6, <2>1, <2>2 DEF CountInv, Noted, BtfGenTypeOK
<1>13. QED
  BY <1>10, <1>11, <1>12 DEF CountInv

\* Steps of the main loop and of the trap that leave the jobs alone.
LEMMA MainCount ==
  ASSUME CountInv, AllStarted \/ Summary \/ Signal \/ ExitCtrlC PROVE CountInv'
<1> USE DEF CountInv
<1>1. /\ job' = job /\ background_pids' = background_pids /\ todo' = todo
      /\ job_count' = job_count /\ completed_jobs' = completed_jobs
      /\ failed_jobs' = failed_jobs /\ custom' = custom
  BY DEF AllStarted, Summary, Signal, ExitCtrlC
<1>2. Pending' = Pending /\ WaitedFor' = WaitedFor /\ NotNoted' = NotNoted
  BY <1>1 DEF Pending, WaitedFor, NotNoted
<1>3. BtfGenTypeOK'
  <2>1. workdir' \in [Names -> Tarballs \cup {Absent}]
    BY DEF AllStarted, Summary, Signal, ExitCtrlC, BtfGenTypeOK
  <2>2. main' \in {"starting", "forked", "waiting", "killing", "ok", "failed", "interrupted"}
    BY DEF AllStarted, Summary, Signal, ExitCtrlC
  <2>3. QED
    BY <1>1, <2>1, <2>2 DEF BtfGenTypeOK
<1>4. Counted'
  <2>1. CASE Summary
    <3>1. Pending = {}
      BY <2>1, SetsAreFinite, FS_EmptySet DEF Summary, Counted
    <3>2. QED
      BY <1>1, <1>2, <2>1, <3>1 DEF Summary, Counted, Ended
  <2>2. CASE AllStarted \/ Signal \/ ExitCtrlC
    BY <1>1, <1>2, <2>2 DEF AllStarted, Signal, ExitCtrlC, Counted, Ended
  <2>3. QED
    BY <2>1, <2>2
<1>5. Noted'
  BY <1>1, <1>2 DEF AllStarted, Summary, Signal, ExitCtrlC, Noted
<1>6. QED
  BY <1>3, <1>4, <1>5

\* A job goes on, or is killed: it does not begin to run or to be waited for.
Continues(f) ==
  /\ job[f] \in Running \cup Orphans
  /\ \E to \in Running \cup Exited \cup Orphans \cup {"killed"} :
       /\ job' = [job EXCEPT ![f] = to]
       /\ to \in Running \cup Exited => job[f] \in Running
       /\ job[f] \in Running /\ main # "killing" => to \in Running \cup Exited
  /\ UNCHANGED mainvars

\* A job's step leaves the counters and the other jobs alone.
LEMMA JobContinues ==
  ASSUME NEW f \in Tarballs, JobStep(f) \/ KillJob(f) PROVE Continues(f)
<1> USE DEF Go, Continues, Running, Exited, Orphans
<1>1. CASE Extract(f)
  BY <1>1 DEF Extract
<1>2. CASE Move(f) \/ MoveFails(f)
  BY <1>2 DEF Move, MoveFails
<1>3. CASE Generate(f)
  BY <1>3 DEF Generate
<1>4. CASE GenerateFails(f)
  BY <1>4 DEF GenerateFails
<1>5. CASE CleanUp(f)
  BY <1>5 DEF CleanUp
<1>6. CASE LastCommand(f)
  BY <1>6 DEF LastCommand
<1>7. CASE KillJob(f)
  <2>1. \E to \in Orphans \cup {"killed"} : job' = [job EXCEPT ![f] = to]
    BY <1>7 DEF KillJob
  <2>2. job[f] \in Running /\ main = "killing" /\ UNCHANGED mainvars
    BY <1>7 DEF KillJob
  <2>3. QED
    BY <2>1, <2>2
<1>8. QED
  BY <1>1, <1>2, <1>3, <1>4, <1>5, <1>6, <1>7 DEF JobStep

\* A job's step keeps the types of the files.
LEMMA JobTypes ==
  ASSUME BtfGenTypeOK, NEW f \in Tarballs, JobStep(f) \/ KillJob(f)
  PROVE  /\ workdir' \in [Names -> Tarballs \cup {Absent}]
         /\ custom' \in [Tarballs -> Tarballs \cup {Absent, Damaged}]
<1> USE BtfGenAssumption DEF BtfGenTypeOK
<1>1. workdir[Extracted[f]] \in Tarballs \cup {Absent}
  OBVIOUS
<1>2. CASE LastCommand(f)
  <2>1. workdir' \in [Names -> Tarballs \cup {Absent}]
    BY <1>2 DEF LastCommand
  <2>2. custom' \in [Tarballs -> Tarballs \cup {Absent, Damaged}]
    <3>1. CASE custom' = custom
      BY <3>1
    <3>2. CASE \E c \in {workdir[Extracted[f]], Damaged} : custom' = [custom EXCEPT ![f] = c]
      BY <1>1, <3>2
    <3>3. QED
      BY <1>2, <3>1, <3>2 DEF LastCommand
  <2>3. QED
    BY <2>1, <2>2
<1>3. CASE Extract(f) \/ MoveFails(f) \/ KillJob(f)
  <2>1. CASE Extract(f)
    BY <2>1 DEF Extract
  <2>2. CASE MoveFails(f)
    BY <2>2 DEF MoveFails
  <2>3. CASE KillJob(f)
    BY <2>3 DEF KillJob
  <2>4. QED
    BY <1>3, <2>1, <2>2, <2>3
<1>4. CASE Move(f) \/ CleanUp(f)
  <2>1. CASE Move(f)
    BY <2>1 DEF Move
  <2>2. CASE CleanUp(f)
    BY <2>2 DEF CleanUp
  <2>3. QED
    BY <1>4, <2>1, <2>2
<1>5. CASE Generate(f) \/ GenerateFails(f)
  <2>1. CASE Generate(f)
    BY <1>1, <2>1 DEF Generate
  <2>2. CASE GenerateFails(f)
    BY <2>2 DEF GenerateFails
  <2>3. QED
    BY <1>5, <2>1, <2>2
<1>6. QED
  BY <1>2, <1>3, <1>4, <1>5 DEF JobStep

\* So it keeps CountInv.
LEMMA JobCount ==
  ASSUME CountInv, NEW f \in Tarballs, JobStep(f) \/ KillJob(f) PROVE CountInv'
<1> USE DEF CountInv
<1>1. Continues(f)
  BY JobContinues
<1>2. PICK to \in Running \cup Exited \cup Orphans \cup {"killed"} :
        /\ job' = [job EXCEPT ![f] = to]
        /\ to \in Running \cup Exited => job[f] \in Running
        /\ job[f] \in Running /\ main # "killing" => to \in Running \cup Exited
  BY <1>1 DEF Continues
<1>3. /\ job[f] \in Running \cup Orphans
      /\ to \notin {"none", "waited for"} /\ job[f] \notin {"none", "waited for"}
      /\ job'[f] = to /\ \A g \in Tarballs \ {f} : job'[g] = job[g]
  BY <1>1, <1>2 DEF BtfGenTypeOK, Continues, Running, Exited, Orphans
<1>4. /\ main' = main /\ todo' = todo /\ background_pids' = background_pids
      /\ job_count' = job_count /\ completed_jobs' = completed_jobs
      /\ failed_jobs' = failed_jobs
  BY <1>1 DEF Continues, mainvars
<1>5. BtfGenTypeOK'
  BY <1>2, <1>4, JobTypes DEF BtfGenTypeOK
<1>6. Counted'
  <2>1. WaitedFor' = WaitedFor
    BY <1>2, <1>3 DEF WaitedFor
  <2>2. Pending' \in SUBSET Pending
    BY <1>2, <1>3 DEF Pending
  <2>3. Cardinality(Pending') <= Cardinality(Pending) /\ Cardinality(Pending') \in Nat
    BY <2>2, SetsAreFinite, FS_Subset, FS_CardinalityType
  <2>4. main \in {"starting", "forked", "waiting"} => Pending' = Pending
    <3>1. SUFFICES ASSUME main # "killing" PROVE Pending' = Pending
      OBVIOUS
    <3>2. f \in Pending' <=> f \in Pending
      BY <1>2, <1>3, <3>1 DEF Pending, Running, Exited, Orphans
    <3>3. QED
      BY <1>3, <3>2 DEF Pending
  <2>5. QED
    BY <1>4, <2>1, <2>2, <2>3, <2>4, SetsAreFinite, BtfGenAssumption DEF Counted, Ended
<1>7. Noted'
  BY <1>2, <1>3, <1>4 DEF Noted, NotNoted, BtfGenTypeOK
<1>8. QED
  BY <1>5, <1>6, <1>7

-----------------------------------------------------------------------------
\* CountInv is inductive.
LEMMA NextCount == CountInv /\ [Next]_vars => CountInv'
<1> SUFFICES ASSUME CountInv, [Next]_vars PROVE CountInv'
  OBVIOUS
<1>1. CASE MainStep
  BY <1>1, StartCount, NoteCount, WaitCount, JobCount, MainCount DEF MainStep
<1>2. CASE Signal
  BY <1>2, MainCount
<1>3. CASE \E f \in Tarballs : JobStep(f)
  BY <1>3, JobCount
<1>4. CASE UNCHANGED vars
  BY <1>4 DEF vars, mainvars, CountInv, BtfGenTypeOK, Counted, Noted, Pending, WaitedFor,
              NotNoted, Ended
<1>5. QED
  BY <1>1, <1>2, <1>3, <1>4 DEF Next

\* CountInv holds in every reachable state.
THEOREM CountInvariance == Spec => []CountInv
<1>1. Init => CountInv
  BY InitCount
<1>2. CountInv /\ [Next]_vars => CountInv'
  BY NextCount
<1>3. QED
  BY <1>1, <1>2, PTL DEF Spec

\* Every variable of btfgen.sh has its type, and the counters their bounds.
THEOREM TypeIsCorrect == Spec => []BtfGenTypeOK
<1>1. CountInv => BtfGenTypeOK
  BY DEF CountInv
<1>2. QED
  BY <1>1, CountInvariance, PTL

\* job_count is right, at most Jobs jobs run, and none is left at the end.
THEOREM SlotsAreCounted == Spec => []OneJobPerSlot
<1>1. CountInv => OneJobPerSlot
  BY DEF CountInv, Counted, OneJobPerSlot, Pending
<1>2. QED
  BY <1>1, CountInvariance, PTL

\* After an exit on a signal one job may run at most: the one not noted.
THEOREM SignalReachesJobs == Spec => []NoJobSurvives
<1>1. CountInv => NoJobSurvives
  <2> SUFFICES ASSUME CountInv, main = "interrupted"
               PROVE Cardinality({f \in Tarballs : job[f] \in Running}) <= 1
    BY DEF NoJobSurvives
  <2> DEFINE R == {f \in Tarballs : job[f] \in Running}
  <2>1. \A f \in R : f \in NotNoted
    BY DEF CountInv, Noted, NotNoted, Running
  <2>2. \A f, g \in R : f = g
    BY <2>1 DEF CountInv, Noted
  <2>3. CASE R = {}
    BY <2>3, FS_EmptySet
  <2>4. CASE R # {}
    <3>1. PICK f \in R : R = {f}
      BY <2>2, <2>4
    <3>2. QED
      BY <3>1, FS_Singleton
  <2>5. QED
    BY <2>3, <2>4
<1>2. QED
  BY <1>1, CountInvariance, PTL

-----------------------------------------------------------------------------
(* Outputs, when no two tarballs have one base name *)

DistinctNames == \A f, g \in Tarballs : Extracted[f] = Extracted[g] => f = g

\* The jobs whose BTF file may be in the working directory.
Holding == {"generate", "clean up 0", "clean up 1", "killed"} \cup Orphans

\* A BTF file in the working directory is that of a job that has not removed it, a
\* job that succeeded has made its output, and without a failed job all have.
Tailored ==
  /\ \A n \in Names : workdir[n] # Absent =>
       Extracted[workdir[n]] = n /\ job[workdir[n]] \in Holding
  /\ \A f \in Tarballs : job[f] \in {"clean up 0", "exit 0"} => custom[f] = f
  /\ failed_jobs = 0 => \A f \in Tarballs : job[f] = "waited for" => custom[f] = f
  /\ main \notin {"killing", "interrupted"} =>
       \A f \in Tarballs : job[f] \notin Orphans \cup {"killed"}
  /\ main = "ok" => failed_jobs = 0

\* Tailored holds at first.
LEMMA InitTailored == Init => Tailored
BY DEF Init, Tailored, Orphans

\* The main loop and the trap write no file: rm may remove all of them.
LEMMA MainTailored ==
  ASSUME BtfGenTypeOK, Tailored,
         \/ AllStarted \/ Summary \/ Signal \/ ExitCtrlC
         \/ \E f \in Tarballs : NoteJob(f)
  PROVE  Tailored'
<1>1. job' = job /\ custom' = custom /\ failed_jobs' = failed_jobs
  BY DEF NoteJob, AllStarted, Summary, Signal, ExitCtrlC
<1>2. \A n \in Names : workdir'[n] # Absent => workdir'[n] = workdir[n]
  BY DEF NoteJob, AllStarted, Summary, Signal, ExitCtrlC
<1>3. /\ main' \notin {"killing", "interrupted"} => main \notin {"killing", "interrupted"}
      /\ main' = "ok" => failed_jobs = 0
  <2>1. CASE Summary
    <3>1. CASE failed_jobs > 0
      BY <2>1, <3>1 DEF Summary
    <3>2. CASE ~(failed_jobs > 0)
      <4>1. failed_jobs \in Nat
        <5>1. /\ completed_jobs \in 0 .. Cardinality(Tarballs)
              /\ failed_jobs \in 0 .. completed_jobs
          BY DEF BtfGenTypeOK
        <5>2. completed_jobs \in Nat
          BY <5>1, SetsAreFinite
        <5>3. QED
          BY <5>1, <5>2
      <4>2. failed_jobs = 0
        BY <3>2, <4>1
      <4>3. QED
        BY <2>1, <4>2 DEF Summary
    <3>3. QED
      BY <3>1, <3>2
  <2>2. QED
    BY <2>1 DEF NoteJob, AllStarted, Signal, ExitCtrlC
<1>4. QED
  BY <1>1, <1>2, <1>3 DEF Tailored

\* A step that changes one job, no file, and nothing that would break Tailored.
LEMMA OneJobTailored ==
  ASSUME BtfGenTypeOK, Tailored, NEW f \in Tarballs,
         workdir' = workdir, custom' = custom,
         \A g \in Tarballs \ {f} : job'[g] = job[g],
         job[f] \in Holding => job'[f] \in Holding,
         job'[f] \notin {"clean up 0", "exit 0"},
         failed_jobs' = 0 =>
           failed_jobs = 0 /\ (job'[f] = "waited for" => custom[f] = f),
         main' \notin {"killing", "interrupted"} =>
           main \notin {"killing", "interrupted"} /\ job'[f] \notin Orphans \cup {"killed"},
         main' # "ok"
  PROVE  Tailored'
<1>1. \A n \in Names : workdir'[n] # Absent =>
        Extracted[workdir'[n]] = n /\ job'[workdir'[n]] \in Holding
  <2>1. \A n \in Names : workdir[n] # Absent => workdir[n] \in Tarballs
    BY DEF BtfGenTypeOK
  <2>2. QED
    BY <2>1 DEF Tailored
<1>2. \A g \in Tarballs : job'[g] \in {"clean up 0", "exit 0"} => custom'[g] = g
  BY DEF Tailored
<1>3. failed_jobs' = 0 => \A g \in Tarballs : job'[g] = "waited for" => custom'[g] = g
  BY DEF Tailored
<1>4. main' \notin {"killing", "interrupted"} =>
        \A g \in Tarballs : job'[g] \notin Orphans \cup {"killed"}
  BY DEF Tailored
<1>5. QED
  BY <1>1, <1>2, <1>3, <1>4 DEF Tailored

\* A job starts without files.
LEMMA StartTailored ==
  ASSUME CountInv, Tailored, NEW f \in Tarballs, StartJob(f) PROVE Tailored'
<1>1. /\ job[f] = "none" /\ job'[f] = "extract"
      /\ \A g \in Tarballs \ {f} : job'[g] = job[g]
  BY DEF StartJob, Begin, CountInv, Noted, BtfGenTypeOK
<1>2. /\ workdir' = workdir /\ custom' = custom /\ failed_jobs' = failed_jobs
      /\ main = "starting" /\ main' = "forked" /\ BtfGenTypeOK
  BY DEF StartJob, Begin, CountInv
<1>3. job[f] \notin Holding /\ job'[f] \notin Orphans \cup {"killed"}
  BY <1>1 DEF Holding, Orphans
<1>4. QED
  BY <1>1, <1>2, <1>3, OneJobTailored

\* A job that has ended with status 0 made its output; with another, failed_jobs
\* says so.
LEMMA WaitTailored ==
  ASSUME CountInv, Tailored, NEW f \in Tarballs, WaitJob(f) PROVE Tailored'
<1>1. /\ job[f] \in Exited /\ job'[f] = "waited for"
      /\ \A g \in Tarballs \ {f} : job'[g] = job[g]
  BY DEF WaitJob, CountInv, BtfGenTypeOK
<1>2. /\ workdir' = workdir /\ custom' = custom /\ main' = main /\ main # "ok"
      /\ BtfGenTypeOK
  BY DEF WaitJob, MustWait, CountInv
<1>3. job[f] \notin Holding /\ job'[f] \notin Orphans \cup {"killed"}
  BY <1>1 DEF Holding, Orphans, Exited
<1>4. failed_jobs' = 0 => failed_jobs = 0 /\ job[f] = "exit 0"
  <2>1. failed_jobs \in Nat
    <3>1. /\ completed_jobs \in 0 .. Cardinality(Tarballs)
          /\ failed_jobs \in 0 .. completed_jobs
      BY DEF CountInv, BtfGenTypeOK
    <3>2. completed_jobs \in Nat
      BY <3>1, SetsAreFinite
    <3>3. QED
      BY <3>1, <3>2
  <2>2. failed_jobs' = failed_jobs + (IF job[f] = "exit 1" THEN 1 ELSE 0)
    BY DEF WaitJob
  <2>3. CASE job[f] = "exit 1"
    <3>1. failed_jobs' = failed_jobs + 1
      BY <2>2, <2>3
    <3>2. failed_jobs' # 0
      BY <2>1, <3>1
    <3>3. QED
      BY <3>2
  <2>4. CASE job[f] = "exit 0"
    <3>1. failed_jobs' = failed_jobs + 0
      BY <2>2, <2>4
    <3>2. failed_jobs' = failed_jobs
      BY <2>1, <3>1
    <3>3. QED
      BY <2>4, <3>2
  <2>5. QED
    BY <1>1, <2>3, <2>4 DEF Exited
<1>5. failed_jobs' = 0 => custom[f] = f
  BY <1>4 DEF Tailored
<1>6. QED
  BY <1>1, <1>2, <1>3, <1>4, <1>5, OneJobTailored

\* A killed job claims nothing any more.
LEMMA KillTailored ==
  ASSUME CountInv, Tailored, NEW f \in Tarballs, KillJob(f) PROVE Tailored'
<1>1. /\ job'[f] \in Orphans \cup {"killed"}
      /\ \A g \in Tarballs \ {f} : job'[g] = job[g]
  BY DEF KillJob, Orphans, CountInv, BtfGenTypeOK
<1>2. /\ workdir' = workdir /\ custom' = custom /\ failed_jobs' = failed_jobs
      /\ main' = "killing" /\ BtfGenTypeOK
  BY DEF KillJob, mainvars, CountInv
<1>3. job'[f] \in Holding /\ job'[f] \notin {"clean up 0", "exit 0", "waited for"}
  BY <1>1 DEF Holding, Orphans
<1>4. QED
  BY <1>1, <1>2, <1>3, OneJobTailored

\* What every step of a job has in common.
LEMMA JobFrame ==
  ASSUME BtfGenTypeOK, NEW f \in Tarballs, JobStep(f)
  PROVE  /\ main' = main /\ failed_jobs' = failed_jobs
         /\ \A g \in Tarballs \ {f} : job'[g] = job[g] /\ custom'[g] = custom[g]
         /\ \A n \in Names \ {Extracted[f]} : workdir'[n] = workdir[n]
         /\ Extracted[f] \in Names
<1> USE BtfGenAssumption DEF BtfGenTypeOK, Go, mainvars
<1>1. CASE Extract(f) \/ Move(f) \/ MoveFails(f) \/ CleanUp(f)
  <2>1. CASE Extract(f)
    BY <2>1 DEF Extract
  <2>2. CASE Move(f)
    BY <2>2 DEF Move
  <2>3. CASE MoveFails(f)
    BY <2>3 DEF MoveFails
  <2>4. CASE CleanUp(f)
    BY <2>4 DEF CleanUp
  <2>5. QED
    BY <1>1, <2>1, <2>2, <2>3, <2>4
<1>2. CASE Generate(f) \/ GenerateFails(f)
  <2>1. CASE Generate(f)
    BY <2>1 DEF Generate
  <2>2. CASE GenerateFails(f)
    BY <2>2 DEF GenerateFails
  <2>3. QED
    BY <1>2, <2>1, <2>2
<1>3. CASE LastCommand(f)
  <2>1. \A g \in Tarballs \ {f} : custom'[g] = custom[g]
    <3>1. CASE custom' = custom
      BY <3>1
    <3>2. CASE custom' # custom
      <4>1. custom' \in {[custom EXCEPT ![f] = c] : c \in {workdir[Extracted[f]], Damaged}}
        BY <1>3, <3>2 DEF LastCommand
      <4>2. PICK c : custom' = [custom EXCEPT ![f] = c]
        BY <4>1
      <4>3. QED
        BY <4>2
    <3>3. QED
      BY <3>1, <3>2
  <2>2. \A n \in Names \ {Extracted[f]} : workdir'[n] = workdir[n]
    BY <1>3 DEF LastCommand
  <2>3. main' = main /\ failed_jobs' = failed_jobs
    BY <1>3 DEF LastCommand
  <2>4. \A g \in Tarballs \ {f} : job'[g] = job[g]
    BY <1>3 DEF LastCommand
  <2>5. QED
    BY <2>1, <2>2, <2>3, <2>4
<1>4. QED
  BY <1>1, <1>2, <1>3 DEF JobStep

\* What the file of the job's own name and its output hold after the step.
LEMMA JobOwnFiles ==
  ASSUME DistinctNames, BtfGenTypeOK, Tailored, NEW f \in Tarballs, JobStep(f)
  PROVE  /\ workdir'[Extracted[f]] # Absent =>
              workdir'[Extracted[f]] = f /\ job'[f] \in Holding
         /\ job'[f] \in {"clean up 0", "exit 0"} => custom'[f] = f
         /\ job'[f] # "waited for"
         /\ job'[f] \in Orphans \cup {"killed"} => job[f] \in Orphans \cup {"killed"}
<1> USE BtfGenAssumption DEF BtfGenTypeOK, Go
<1>1. workdir[Extracted[f]] # Absent => workdir[Extracted[f]] = f /\ job[f] \in Holding
  <2>1. Extracted[f] \in Names /\ workdir[Extracted[f]] \in Tarballs \cup {Absent}
    OBVIOUS
  <2>2. QED
    BY <2>1 DEF Tailored, DistinctNames
<1>2. CASE Extract(f) \/ MoveFails(f)
  BY <1>1, <1>2 DEF Extract, MoveFails, Holding, Orphans
<1>3. CASE Move(f)
  BY <1>3 DEF Move, Holding, Orphans
<1>4. CASE Generate(f)
  BY <1>1, <1>4 DEF Generate, Holding, Orphans
<1>5. CASE GenerateFails(f)
  BY <1>1, <1>5 DEF GenerateFails, Holding, Orphans
<1>6. CASE CleanUp(f)
  <2>1. workdir'[Extracted[f]] = Absent /\ custom' = custom
    BY <1>6 DEF CleanUp
  <2>2. \/ job[f] = "clean up 0" /\ job'[f] = "exit 0"
        \/ job[f] = "clean up 1" /\ job'[f] = "exit 1"
    BY <1>6 DEF CleanUp
  <2>3. job[f] = "clean up 0" => custom[f] = f
    BY DEF Tailored
  <2>4. QED
    BY <2>1, <2>2, <2>3 DEF Orphans
<1>7. CASE LastCommand(f)
  BY <1>1, <1>7 DEF LastCommand, Holding, Orphans
<1>8. QED
  BY <1>2, <1>3, <1>4, <1>5, <1>6, <1>7 DEF JobStep

\* With distinct names a job's step disturbs no other job's file.
LEMMA JobTailored ==
  ASSUME DistinctNames, BtfGenTypeOK, Tailored, NEW f \in Tarballs, JobStep(f)
  PROVE  Tailored'
<1>1. \A n \in Names : workdir'[n] # Absent =>
        Extracted[workdir'[n]] = n /\ job'[workdir'[n]] \in Holding
  <2> SUFFICES ASSUME NEW n \in Names, workdir'[n] # Absent
               PROVE  Extracted[workdir'[n]] = n /\ job'[workdir'[n]] \in Holding
    OBVIOUS
  <2>1. CASE n = Extracted[f]
    BY <2>1, JobOwnFiles
  <2>2. CASE n # Extracted[f]
    <3>1. workdir'[n] = workdir[n]
      BY <2>2, JobFrame
    <3>2. Extracted[workdir[n]] = n /\ job[workdir[n]] \in Holding
      BY <3>1 DEF Tailored
    <3>3. workdir[n] \in Tarballs \ {f}
      BY <2>2, <3>1, <3>2 DEF BtfGenTypeOK
    <3>4. QED
      BY <3>1, <3>2, <3>3, JobFrame
  <2>3. QED
    BY <2>1, <2>2
<1> DEFINE frame == /\ main' = main /\ failed_jobs' = failed_jobs
                    /\ \A g \in Tarballs \ {f} : job'[g] = job[g] /\ custom'[g] = custom[g]
           own   == /\ job'[f] \in {"clean up 0", "exit 0"} => custom'[f] = f
                    /\ job'[f] # "waited for"
                    /\ job'[f] \in Orphans \cup {"killed"} =>
                         job[f] \in Orphans \cup {"killed"}
<1>f. frame
  BY JobFrame
<1>o. own
  BY JobOwnFiles
<1>2. \A g \in Tarballs : job'[g] \in {"clean up 0", "exit 0"} => custom'[g] = g
  BY <1>f, <1>o DEF Tailored
<1>3. failed_jobs' = 0 => \A g \in Tarballs : job'[g] = "waited for" => custom'[g] = g
  BY <1>f, <1>o DEF Tailored
<1>4. main' \notin {"killing", "interrupted"} =>
        \A g \in Tarballs : job'[g] \notin Orphans \cup {"killed"}
  BY <1>f, <1>o DEF Tailored
<1>5. main' = "ok" => failed_jobs' = 0
  BY JobFrame DEF Tailored
<1>6. QED
  BY <1>1, <1>2, <1>3, <1>4, <1>5 DEF Tailored

\* Tailored is inductive.
LEMMA NextTailored == DistinctNames /\ CountInv /\ Tailored /\ [Next]_vars => Tailored'
<1> SUFFICES ASSUME DistinctNames, CountInv, Tailored, [Next]_vars PROVE Tailored'
  OBVIOUS
<1>1. BtfGenTypeOK
  BY DEF CountInv
<1>2. CASE MainStep \/ Signal
  BY <1>1, <1>2, MainTailored, StartTailored, WaitTailored, KillTailored DEF MainStep
<1>3. CASE \E f \in Tarballs : JobStep(f)
  BY <1>1, <1>3, JobTailored
<1>4. CASE UNCHANGED vars
  BY <1>4 DEF vars, mainvars, Tailored
<1>5. QED
  BY <1>2, <1>3, <1>4 DEF Next

\* When the names are distinct, exit status 0 means that every tarball taken up has a
\* tailored file made from its own BTF data, and that no BTF file is left behind.
THEOREM OutputsAreTailored ==
  ASSUME DistinctNames PROVE Spec => []OutputIsTailored
<1>1. Init => Tailored
  BY InitTailored
<1>2. CountInv /\ Tailored /\ [Next]_vars => Tailored'
  BY NextTailored
<1>3. CountInv /\ Tailored => OutputIsTailored
  <2> SUFFICES ASSUME CountInv, Tailored, main = "ok"
               PROVE  /\ \A f \in Tarballs : job[f] # "none" => custom[f] = f
                      /\ \A n \in Names : workdir[n] = Absent
    BY DEF OutputIsTailored
  <2>1. \A f \in Tarballs : job[f] \in {"none", "waited for"}
    <3>1. \A f \in Tarballs : job[f] \notin Running \cup Exited
      BY DEF CountInv, Counted, Ended, Pending
    <3>2. \A f \in Tarballs : job[f] \notin Orphans \cup {"killed"}
      BY DEF Tailored
    <3>3. QED
      BY <3>1, <3>2 DEF CountInv, BtfGenTypeOK
  <2>2. \A n \in Names : workdir[n] # Absent => workdir[n] \in Tarballs
    BY DEF CountInv, BtfGenTypeOK
  <2>3. QED
    BY <2>1, <2>2 DEF Tailored, Holding, Orphans
<1>4. QED
  BY <1>1, <1>2, <1>3, CountInvariance, PTL DEF Spec
=============================================================================
