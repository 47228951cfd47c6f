------------------------------- MODULE Cron -------------------------------
(***************************************************************************)
(* The job scheduler (src/src/cron/index.go, tracker.go): a registry of    *)
(* jobs, the runs of jobRunner the ticks, the API and the one-time jobs    *)
(* start, the process tracker that counts them, and the callers of         *)
(* InitScheduler and WaitForAllJobs that wait for it to reach zero.        *)
(*                                                                         *)
(* Two channels of capacity one serve as locks: RunningLock is held by one *)
(* run from its start to its end, CRONLock by whoever touches the registry.*)
(* A section under CRONLock is one step here, save the last one of         *)
(* InitScheduler, which shuts the old scheduler down under the lock.       *)
(*                                                                         *)
(* Not covered: the crontab, the logs of a job, cancellation (it makes the *)
(* job report a failure, which it may always do here).                     *)
(***************************************************************************)
EXTENDS Integers, FiniteSets

CONSTANTS
    Job,          \* the names jobs are registered under
    SchedulerOf,  \* the scheduler of each: "Custom" jobs come from the config
    OneTime,      \* names RunOneTimeJob makes up
    Restarting,   \* jobs that restart containers once their command has reported
    Run,          \* runs of jobRunner, each for one job
    Caller,       \* requests that change the registry or wait, each for once
    NoJob,        \* "no job": a run that has not been asked for
    Nobody        \* a lock nobody holds

ASSUME CronAssumption ==
    /\ SchedulerOf \in [Job -> {"Custom", "Restic"}] /\ OneTime \subseteq Job
    /\ Restarting \subseteq Job
    /\ NoJob \notin Job /\ Nobody \notin Run /\ Nobody \notin Caller
    /\ IsFiniteSet(Run)

VARIABLES
    reg,          \* jobsList: the names that have a record
    running,      \* Running, in the record of each name
    scheduled,    \* the jobs the gocron scheduler fires
    runningLock,  \* RunningLock: the run that holds it
    cronLock,     \* CRONLock, while InitScheduler holds it
    run,          \* where each run is: [pc, job]
    count,        \* ProcessTracker.count
    token,        \* ProcessTracker.zeroCh holds its one message
    call,         \* where each caller is: [pc, then]
    awaited       \* history: the runs in progress when the caller began to wait, if the
                  \* tracker was right about them and held no message of earlier ones

locks == <<runningLock, cronLock>>
vars  == <<reg, running, scheduled, locks, run, count, token, call, awaited>>

Init ==
    /\ reg = Job \ OneTime /\ running = [j \in Job |-> FALSE] /\ scheduled = reg
    /\ runningLock = Nobody /\ cronLock = Nobody
    /\ run = [x \in Run |-> [pc |-> "new", job |-> NoJob]]
    /\ count = 0 /\ token = FALSE
    /\ call = [c \in Caller |-> [pc |-> "new", then |-> "none"]] /\ awaited = [c \in Caller |-> {}]

CronFree == cronLock = Nobody
At(x, p) == run' = [run EXCEPT ![x].pc = p]

(* The runs StartProcess has counted and that have not reported yet. *)
Working == {x \in Run : run[x].pc = "working"}

(* The tracker counts the jobs that work.  A record that is removed while   *)
(* its job runs, and a job that reports twice, put it wrong.                *)
CountIsRight == count = Cardinality(Working)
ToOutlast    == IF CountIsRight /\ ~token THEN Working ELSE {}

-----------------------------------------------------------------------------
(* Runs.                                                                    *)

(* The scheduler fires, or ManualRunJob found the job in the registry. *)
StartRun(x, j) ==
    /\ run[x].pc = "new"
    /\ j \in scheduled \/ (j \in reg /\ CronFree)
    /\ run' = [run EXCEPT ![x] = [pc |-> "queued", job |-> j]]
    /\ UNCHANGED <<reg, running, scheduled, locks, count, token, call, awaited>>

(* RunOneTimeJob adds a record of its own, over any of the same second, and *)
(* never takes it away.                                                     *)
RunOneTimeJob(x, j) ==
    /\ run[x].pc = "new" /\ j \in OneTime /\ CronFree
    /\ reg' = reg \cup {j}
    /\ running' = [running EXCEPT ![j] = FALSE]
    /\ run' = [run EXCEPT ![x] = [pc |-> "queued", job |-> j]]
    /\ UNCHANGED <<scheduled, locks, count, token, call, awaited>>

TakeRunningLock(x) ==
    /\ run[x].pc = "queued" /\ runningLock = Nobody
    /\ runningLock' = x
    /\ At(x, "locked")
    /\ UNCHANGED <<reg, running, scheduled, cronLock, count, token, call, awaited>>

(* The job is gone, or marked as running: nothing is run. *)
Decline(x) ==
    /\ run[x].pc = "locked" /\ CronFree
    /\ run[x].job \notin reg \/ running[run[x].job]
    /\ At(x, "done")
    /\ runningLock' = Nobody
    /\ UNCHANGED <<reg, running, scheduled, cronLock, count, token, call, awaited>>

Begin(x) ==
    /\ run[x].pc = "locked" /\ CronFree
    /\ run[x].job \in reg /\ ~running[run[x].job]
    /\ running' = [running EXCEPT ![run[x].job] = TRUE]
    /\ At(x, "begun")
    /\ UNCHANGED <<reg, scheduled, locks, count, token, call, awaited>>

StartProcess(x) ==
    /\ run[x].pc = "begun"
    /\ count' = count + 1
    /\ At(x, "working")
    /\ UNCHANGED <<reg, running, scheduled, locks, token, call, awaited>>

(* Mutant: the count is compared before it is lowered. *)
EndUnnoticed ==
    /\ count' = count - 1
    /\ token' = (token \/ count = 0)

(* EndProcess leaves a message when the count reaches zero, whether anybody *)
(* waits for it or not.                                                     *)
EndProcess ==
    /\ count' = count - 1
    /\ token' = (token \/ count = 1)

(* Mutant: the record is not written back. *)
StillMarked(j) == running

(* The record of a run that is over no longer says it is running. *)
Unmarked(j) == [running EXCEPT ![j] = FALSE]

(* The job calls OnSuccess or OnFail.  Both do nothing at all for a job     *)
(* that has left the registry in the meantime.                              *)
Tell(x) ==
    IF run[x].job \in reg THEN running' = Unmarked(run[x].job) /\ EndProcess
                          ELSE UNCHANGED <<running, count, token>>

Report(x) ==
    /\ run[x].pc = "working" /\ CronFree
    /\ Tell(x)
    /\ At(x, "reported")
    /\ UNCHANGED <<reg, scheduled, locks, call, awaited>>

(* A backup that stopped containers fails to start them again, after its    *)
(* command has reported: OnFail is called as well.                          *)
ReportAgain(x) ==
    /\ run[x].pc = "reported" /\ run[x].job \in Restarting /\ CronFree
    /\ Tell(x)
    /\ At(x, "failed")
    /\ UNCHANGED <<reg, scheduled, locks, call, awaited>>

(* The deferred clean-up, and the release of RunningLock. *)
CleanUp(x) ==
    /\ run[x].pc \in {"reported", "failed"} /\ CronFree
    /\ running' = IF run[x].job \in reg THEN Unmarked(run[x].job) ELSE running
    /\ runningLock' = Nobody
    /\ At(x, "done")
    /\ UNCHANGED <<reg, scheduled, cronLock, count, token, call, awaited>>

-----------------------------------------------------------------------------
(* Callers: what they change, and the wait that follows.                    *)

Goes(c, p)    == call' = [call EXCEPT ![c].pc = p]
Waits(c, what) == call' = [call EXCEPT ![c] = [pc |-> "wait", then |-> what]]

(* The jobs of the config, and those the backup and storage modules register. *)
CustomJobs == {j \in Job \ OneTime : SchedulerOf[j] = "Custom"}
ModuleJobs == {j \in Job \ OneTime : SchedulerOf[j] # "Custom"}

(* RegisterJob: the record starts afresh. *)
RegisterJob(c, j) ==
    /\ call[c].pc = "new" /\ CronFree /\ j \in ModuleJobs
    /\ reg' = reg \cup {j}
    /\ running' = [running EXCEPT ![j] = FALSE]
    /\ Waits(c, "reschedule")
    /\ UNCHANGED <<scheduled, locks, run, count, token, awaited>>

(* Mutant: the scheduler is not told. *)
ResetQuietly(c) ==
    /\ call[c].pc = "new" /\ CronFree
    /\ reg' = reg \ ModuleJobs
    /\ running' = [j \in Job |-> running[j] /\ j \notin ModuleJobs]
    /\ Waits(c, "exit")
    /\ UNCHANGED <<scheduled, locks, run, count, token, awaited>>

(* InitBackups and InitSnapRAIDConfig drop all of a scheduler's records,    *)
(* those of running jobs too, before they register them anew.               *)
ResetScheduler(c) ==
    /\ call[c].pc = "new" /\ CronFree
    /\ reg' = reg \ ModuleJobs
    /\ running' = [j \in Job |-> running[j] /\ j \notin ModuleJobs]
    /\ Waits(c, "reschedule")
    /\ UNCHANGED <<scheduled, locks, run, count, token, awaited>>

(* InitJobs empties the Custom scheduler before it looks the old records    *)
(* up, so no Running flag survives it.  S is what the config now lists.     *)
InitJobs(c, S) ==
    /\ call[c].pc = "new" /\ CronFree
    /\ S \subseteq CustomJobs
    /\ reg' = (reg \ CustomJobs) \cup S
    /\ running' = [j \in Job |-> running[j] /\ j \notin CustomJobs]
    /\ Waits(c, "reschedule")
    /\ UNCHANGED <<scheduled, locks, run, count, token, awaited>>

(* RestartServer and the self-update wait, and end the process. *)
AskToWait(c) ==
    /\ call[c].pc = "new"
    /\ Waits(c, "exit")
    /\ UNCHANGED <<reg, running, scheduled, locks, run, count, token, awaited>>

(* Mutant: the wait comes after CRONLock is taken. *)
LookUnderLock(c) ==
    /\ call[c].pc = "wait" /\ CronFree
    /\ cronLock' = IF count = 0 THEN Nobody ELSE c
    /\ Goes(c, IF count = 0 THEN "waited" ELSE "blocked")
    /\ awaited' = [awaited EXCEPT ![c] = ToOutlast]
    /\ UNCHANGED <<reg, running, scheduled, runningLock, run, count, token>>

(* Mutant: one job too many may be working. *)
LookForOneLeft(c) ==
    /\ call[c].pc = "wait"
    /\ Goes(c, IF count <= 1 THEN "waited" ELSE "blocked")
    /\ awaited' = [awaited EXCEPT ![c] = ToOutlast]
    /\ UNCHANGED <<reg, running, scheduled, locks, run, count, token>>

(* WaitForZero looks at the count once... *)
LookAtCount(c) ==
    /\ call[c].pc = "wait"
    /\ Goes(c, IF count = 0 THEN "waited" ELSE "blocked")
    /\ awaited' = [awaited EXCEPT ![c] = ToOutlast]
    /\ UNCHANGED <<reg, running, scheduled, locks, run, count, token>>

(* ... and then for a message, whoever it was left for. *)
TakeToken(c) ==
    /\ call[c].pc = "blocked" /\ token
    /\ token' = FALSE
    /\ Goes(c, "waited")
    /\ UNCHANGED <<reg, running, scheduled, locks, run, count, awaited>>

(* The rest of InitScheduler, under CRONLock. *)
TakeCronLock(c) ==
    /\ call[c].pc = "waited" /\ call[c].then = "reschedule" /\ CronFree
    /\ cronLock' = c
    /\ Goes(c, "shutdown")
    /\ UNCHANGED <<reg, running, scheduled, runningLock, run, count, token, awaited>>

(* Shutdown stops the ticks, not the runs; what is registered is scheduled. *)
Reschedule(c) ==
    /\ call[c].pc = "shutdown"
    /\ scheduled' = reg \ OneTime
    /\ cronLock' = Nobody
    /\ Goes(c, "done")
    /\ UNCHANGED <<reg, running, runningLock, run, count, token, awaited>>

-----------------------------------------------------------------------------
RunStep(x) == TakeRunningLock(x) \/ Decline(x) \/ Begin(x) \/ StartProcess(x)
                \/ Report(x) \/ ReportAgain(x) \/ CleanUp(x)

CallStep(c) == LookAtCount(c) \/ TakeToken(c) \/ TakeCronLock(c) \/ Reschedule(c)

Request(c) == \/ AskToWait(c) \/ ResetScheduler(c)
              \/ \E j \in Job : RegisterJob(c, j)
              \/ \E S \in SUBSET Job : InitJobs(c, S)

Next == \/ \E x \in Run : RunStep(x) \/ \E j \in Job : StartRun(x, j) \/ RunOneTimeJob(x, j)
        \/ \E c \in Caller : CallStep(c) \/ Request(c)

(* A goroutine that can go on does, and every job ends. *)
Fairness == /\ \A x \in Run : WF_vars(RunStep(x))
            /\ \A c \in Caller : WF_vars(CallStep(c))

Spec     == Init /\ [][Next]_vars
FairSpec == Spec /\ Fairness
=============================================================================
