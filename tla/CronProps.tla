----------------------------- MODULE CronProps -----------------------------
(***************************************************************************)
(* What the job scheduler promises.                                        *)
(***************************************************************************)
EXTENDS Cron

(* The shape of the scheduler's state. *)
TypeOK ==
    /\ reg \subseteq Job /\ running \in [Job -> BOOLEAN] /\ scheduled \subseteq Job
    /\ runningLock \in Run \cup {Nobody} /\ cronLock \in Caller \cup {Nobody}
    /\ run \in [Run -> [pc : {"new", "queued", "locked", "begun", "working", "reported",
                              "failed", "done"},
                        job : Job \cup {NoJob}]]
    /\ \A x \in Run : run[x].pc # "new" => run[x].job \in Job
    /\ count \in Int /\ token \in BOOLEAN
    /\ call \in [Caller -> [pc : {"new", "wait", "blocked", "waited", "shutdown", "done"},
                            then : {"none", "reschedule", "exit"}]]
    /\ awaited \in [Caller -> SUBSET Run]

(* A record that says its job is running, which makes jobRunner decline to  *)
(* run it again, belongs to the run that is in progress: no sequence of     *)
(* runs, removals and registrations leaves a job marked for ever            *)
(* (index.go:312).                                                          *)
RunningMeansHeld ==
    \A j \in Job : running[j] =>
        /\ runningLock \in Run
        /\ run[runningLock].job = j /\ run[runningLock].pc \in {"begun", "working"}

(* Once no caller is between its change of the registry and its turn to     *)
(* reschedule, the ticks are those of the registered jobs (index.go:543).   *)
ScheduleIsCurrent ==
    (\A c \in Caller : call[c].then = "reschedule" => call[c].pc = "done")
        => scheduled = reg \ OneTime

(* A run that is asked for comes to an end: whatever callers wait for, they *)
(* do not keep a run from starting, from reporting or from giving           *)
(* RunningLock up.                                                          *)
RunsEnd == \A x \in Run : run[x].pc = "queued" ~> run[x].pc = "done"

(* Whoever waits for the jobs to finish goes on after they have             *)
(* (CRON.go:198), if the tracker was right and held no message when the     *)
(* wait began: an old message (tracker.go:28) releases it early.            *)
WaitOutlastsRuns ==
    \A c \in Caller : call[c].pc \in {"waited", "shutdown", "done"} => awaited[c] \cap Working = {}

(* As long as the count is right, whoever waits for the jobs to finish goes *)
(* on, or another caller does with the message that was left for it: one    *)
(* message at most is there for all who wait (tracker.go:28-42).            *)
WaitersReturn ==
    \A c \in Caller : call[c].pc = "blocked" ~>
        (call[c].pc # "blocked" \/ ~CountIsRight
            \/ \E d \in Caller \ {c} : call[d].pc \in {"waited", "shutdown", "done"})
=============================================================================
