------------------------------- MODULE BtfGen -------------------------------
(***************************************************************************)
(* tools/btfgen.sh: the main loop starts one background job per tarball of  *)
(* the archive, at most Jobs of them at a time, and each job makes the      *)
(* tailored BTF file of its tarball under custom-archive.                   *)
(*                                                                         *)
(* A job extracts in a temporary directory of its own and moves the BTF     *)
(* file from there to the working directory, which all jobs share. The name *)
(* of that file is the tarball's base name: it does not say which           *)
(* distribution, release and architecture the tarball belongs to. The path  *)
(* under custom-archive does. On SIGINT or SIGTERM the script kills the     *)
(* jobs whose process it has noted, and exits; a background job ignores     *)
(* SIGINT itself. Left out: the messages, and a second signal.              *)
(***************************************************************************)
EXTENDS Integers, FiniteSets

CONSTANTS
  Jobs,      \* -j: how many jobs may run in parallel
  Tarballs,  \* paths of tarballs under archive/
  Names,     \* names of BTF files
  Extracted, \* the name of the BTF file inside a tarball
  Unmovable  \* tarballs for which mv may fail

Absent  == "absent"
Damaged == "damaged"   \* what bpftool may leave when it fails

ASSUME BtfGenAssumption ==
  /\ Jobs \in Nat \ {0}
  /\ IsFiniteSet(Tarballs) /\ Unmovable \subseteq Tarballs
  /\ Extracted \in [Tarballs -> Names]
  /\ Absent \notin Tarballs /\ Damaged \notin Tarballs

VARIABLES
  main,            \* "starting" jobs, one "forked", "waiting" for the last,
                   \* "killing" them all, or how it ended
  todo,            \* the part of btf_files that no job was started for
  background_pids, \* the jobs whose process is noted
  job_count,       \* jobs that were started and not waited for
  completed_jobs,
  failed_jobs,
  job,             \* what the job of a tarball does
  workdir,         \* whose BTF data a name of the working directory holds
  custom           \* whose BTF data the file under custom-archive is made from

mainvars == <<main, todo, background_pids, job_count, completed_jobs, failed_jobs>>
vars == <<mainvars, job, workdir, custom>>

Running == {"extract", "move", "generate", "clean up 0", "clean up 1"}
Exited  == {"exit 0", "exit 1"}
Orphans == {"last move", "last generate", "last clean up"}

\* find lists some tarballs, in any order; with none the script exits at once.
\* custom-archive was emptied before.
Init ==
  /\ todo \in SUBSET Tarballs
  /\ main = IF todo = {} THEN "ok" ELSE "starting"
  /\ background_pids = {}
  /\ job_count = 0 /\ completed_jobs = 0 /\ failed_jobs = 0
  /\ job = [f \in Tarballs |-> "none"]
  /\ workdir = [n \in Names |-> Absent]
  /\ custom = [f \in Tarballs |-> Absent]

-----------------------------------------------------------------------------
(* The main loop *)

Begin(f) ==
  /\ main = "starting" /\ f \in todo
  /\ todo' = todo \ {f}
  /\ job' = [job EXCEPT ![f] = "extract"]
  /\ main' = "forked"
  /\ UNCHANGED <<background_pids, job_count, completed_jobs, failed_jobs, workdir, custom>>

Mut_StartJob(f) == job_count <= Jobs /\ Begin(f)

StartJob(f) == job_count < Jobs /\ Begin(f)

Mut_NoteJob(f) ==
  /\ main = "forked" /\ f \notin background_pids /\ job[f] # "none"
  /\ background_pids' = {f}
  /\ job_count' = job_count + 1
  /\ main' = "starting"
  /\ UNCHANGED <<todo, completed_jobs, failed_jobs, job, workdir, custom>>

\* The job just started is the only one whose process is not noted.
NoteJob(f) ==
  /\ main = "forked" /\ f \notin background_pids /\ job[f] # "none"
  /\ background_pids' = background_pids \cup {f}
  /\ job_count' = job_count + 1
  /\ main' = "starting"
  /\ UNCHANGED <<todo, completed_jobs, failed_jobs, job, workdir, custom>>

MustWait ==
  \/ main = "starting" /\ todo # {} /\ job_count >= Jobs
  \/ main = "waiting" /\ job_count > 0

Mut_WaitJob(f) ==
  /\ MustWait
  /\ job[f] \in Exited
  /\ job_count' = IF main = "waiting" THEN job_count - 1 ELSE job_count
  /\ completed_jobs' = completed_jobs + 1
  /\ failed_jobs' = failed_jobs + (IF job[f] = "exit 1" THEN 1 ELSE 0)
  /\ job' = [job EXCEPT ![f] = "waited for"]
  /\ UNCHANGED <<main, todo, background_pids, workdir, custom>>

\* wait -n: any job that has exited.
WaitJob(f) ==
  /\ MustWait
  /\ job[f] \in Exited
  /\ job_count' = job_count - 1
  /\ completed_jobs' = completed_jobs + 1
  /\ failed_jobs' = failed_jobs + (IF job[f] = "exit 1" THEN 1 ELSE 0)
  /\ job' = [job EXCEPT ![f] = "waited for"]
  /\ UNCHANGED <<main, todo, background_pids, workdir, custom>>

AllStarted ==
  /\ main = "starting" /\ todo = {}
  /\ main' = "waiting"
  /\ UNCHANGED <<todo, background_pids, job_count, completed_jobs, failed_jobs, job, workdir,
                 custom>>

Mut_Summary ==
  /\ main = "waiting"
  /\ main' = IF failed_jobs > 0 THEN "failed" ELSE "ok"
  /\ UNCHANGED <<todo, background_pids, job_count, completed_jobs, failed_jobs, job, workdir,
                 custom>>

Summary ==
  /\ main = "waiting" /\ job_count = 0
  /\ main' = IF failed_jobs > 0 THEN "failed" ELSE "ok"
  /\ UNCHANGED <<todo, background_pids, job_count, completed_jobs, failed_jobs, job, workdir,
                 custom>>

-----------------------------------------------------------------------------
(* ctrlc *)

Signal ==
  /\ main \in {"starting", "forked", "waiting"}
  /\ main' = "killing"
  /\ UNCHANGED <<todo, background_pids, job_count, completed_jobs, failed_jobs, job, workdir,
                 custom>>

\* The process of the job dies, the command it is waiting for does not.
KillJob(f) ==
  /\ main = "killing"
  /\ f \in background_pids /\ job[f] \in Running
  /\ job' = [job EXCEPT ![f] = CASE @ = "extract"  -> "killed"
                                 [] @ = "move"     -> "last move"
                                 [] @ = "generate" -> "last generate"
                                 [] OTHER          -> "last clean up"]
  /\ UNCHANGED <<mainvars, workdir, custom>>

\* rm -f ${basedir}/*.btf. That path is relative to where the script was called,
\* and by now means another directory if that was not the parent of tools.
ExitCtrlC ==
  /\ main = "killing"
  /\ \A f \in background_pids : job[f] \notin Running
  /\ main' = "interrupted"
  /\ workdir' \in {workdir, [n \in Names |-> Absent]}
  /\ UNCHANGED <<todo, background_pids, job_count, completed_jobs, failed_jobs, job, custom>>

-----------------------------------------------------------------------------
(* process_btf_file *)

Go(f, label) == job' = [job EXCEPT ![f] = label] /\ UNCHANGED mainvars

\* tar into the temporary directory, which fails for a damaged tarball.
Extract(f) ==
  /\ job[f] = "extract"
  /\ Go(f, "move") \/ Go(f, "exit 1")
  /\ UNCHANGED <<workdir, custom>>

\* mv to the working directory, over a file of that name.
Move(f) ==
  /\ job[f] = "move"
  /\ workdir' = [workdir EXCEPT ![Extracted[f]] = f]
  /\ Go(f, "generate")
  /\ UNCHANGED custom

\* Neither mkdir nor mv is checked. Without the output directory bpftool cannot
\* write (Move, GenerateFails); without the file it runs all the same, on what
\* another job may have left there.
MoveFails(f) ==
  /\ job[f] = "move" /\ f \in Unmovable
  /\ Go(f, "generate")
  /\ UNCHANGED <<workdir, custom>>

\* bpftool gen min_core_btf reads what the working directory has by now.
Generate(f) ==
  /\ job[f] = "generate"
  /\ workdir[Extracted[f]] # Absent
  /\ custom' = [custom EXCEPT ![f] = workdir[Extracted[f]]]
  /\ Go(f, "clean up 0")
  /\ UNCHANGED workdir

GenerateFails(f) ==
  /\ job[f] = "generate"
  /\ \/ UNCHANGED custom
     \/ /\ workdir[Extracted[f]] # Absent
        /\ custom' = [custom EXCEPT ![f] = Damaged]
  /\ Go(f, "clean up 1")
  /\ UNCHANGED workdir

\* rm -f of the file in the working directory, and return.
CleanUp(f) ==
  /\ \/ job[f] = "clean up 0" /\ Go(f, "exit 0")
     \/ job[f] = "clean up 1" /\ Go(f, "exit 1")
  /\ workdir' = [workdir EXCEPT ![Extracted[f]] = Absent]
  /\ UNCHANGED custom

\* What a command does that outlives its job: all of it, or nothing.
LastCommand(f) ==
  /\ job[f] \in Orphans
  /\ Go(f, "killed")
  /\ \/ job[f] = "last move" /\ workdir' = [workdir EXCEPT ![Extracted[f]] = f]
     \/ job[f] = "last clean up" /\ workdir' = [workdir EXCEPT ![Extracted[f]] = Absent]
     \/ UNCHANGED workdir
  /\ \/ /\ job[f] = "last generate" /\ workdir[Extracted[f]] # Absent
        /\ custom' \in {[custom EXCEPT ![f] = c] : c \in {workdir[Extracted[f]], Damaged}}
     \/ UNCHANGED custom

JobStep(f) ==
  \/ Extract(f) \/ Move(f) \/ MoveFails(f)
  \/ Generate(f) \/ GenerateFails(f)
  \/ CleanUp(f) \/ LastCommand(f)

MainStep ==
  \/ \E f \in Tarballs : StartJob(f) \/ NoteJob(f) \/ WaitJob(f) \/ KillJob(f)
  \/ AllStarted \/ Summary \/ ExitCtrlC

Next == MainStep \/ Signal \/ \E f \in Tarballs : JobStep(f)

\* The shell goes on as long as it can, and tar, mv, bpftool and rm return.
Fairness == WF_vars(MainStep) /\ \A f \in Tarballs : WF_vars(JobStep(f))

Spec == Init /\ [][Next]_vars /\ Fairness

-----------------------------------------------------------------------------
(* Properties *)

Ended == main \in {"ok", "failed"}

\* Every variable has its type, and the counters their bounds.
BtfGenTypeOK ==
  /\ main \in {"starting", "forked", "waiting", "killing", "ok", "failed", "interrupted"}
  /\ todo \in SUBSET Tarballs
  /\ background_pids \in SUBSET Tarballs
  /\ job_count \in 0 .. Jobs
  /\ completed_jobs \in 0 .. Cardinality(Tarballs)
  /\ failed_jobs \in 0 .. completed_jobs
  /\ job \in [Tarballs -> {"none", "waited for", "killed"} \cup Running \cup Exited \cup Orphans]
  /\ workdir \in [Names -> Tarballs \cup {Absent}]
  /\ custom \in [Tarballs -> Tarballs \cup {Absent, Damaged}]

\* job_count counts the jobs in execution or not waited for, but for one just
\* started, so at most Jobs run in parallel, and none is left when the script ends.
OneJobPerSlot ==
  LET pending == {f \in Tarballs : job[f] \in Running \cup Exited} IN
  /\ Cardinality(pending) <= Jobs
  /\ Ended => pending = {}
  /\ main \in {"starting", "waiting"} => job_count = Cardinality(pending)

\* Line 96: "Kill all background jobs". When the script has exited on a signal, no
\* job starts another command, but for one that was started at that very moment
\* and whose process was not noted yet.
NoJobSurvives ==
  main = "interrupted" => Cardinality({f \in Tarballs : job[f] \in Running}) <= 1

\* Line 137: each job has "a temporary directory for this job to avoid conflicts".
\* When the script exits with status 0, the file under custom-archive of every
\* tarball it took up is made from the BTF data of that tarball, and the working
\* directory is clean.
OutputIsTailored ==
  main = "ok" =>
    /\ \A f \in Tarballs : job[f] # "none" => custom[f] = f
    /\ \A n \in Names : workdir[n] = Absent

\* The script ends, on a signal or having waited for a job of every tarball that find listed:
\* the first loop never waits for a job that nobody started, nor the second one
\* for one already waited for.
AllFilesDone ==
  <>(\/ main = "interrupted"
     \/ Ended /\ todo = {} /\ \A f \in Tarballs : job[f] \in {"none", "waited for"})
=============================================================================
