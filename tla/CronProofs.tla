----------------------------- MODULE CronProofs -----------------------------
(***************************************************************************)
(* Theorems about the job scheduler, for any jobs, runs and callers.       *)
(***************************************************************************)
EXTENDS CronProps, FiniteSetTheorems, TLAPS

(* Who is past the lock holds it: the records are touched by one run only. *)
LockHeld ==
    \A x \in Run :
        run[x].pc \in {"locked", "begun", "working", "reported", "failed"} => runningLock = x

(* A caller that has not asked for anything waits for nothing. *)
NewCallers == \A c \in Caller : call[c].pc = "new" => call[c].then = "none"

(* A record is marked as running only while it is in the registry: whoever  *)
(* takes it away, or replaces it, drops the mark.                           *)
MarkRegistered == \A j \in Job : running[j] => j \in reg

CronInv == TypeOK /\ LockHeld /\ NewCallers /\ MarkRegistered /\ RunningMeansHeld

USE DEF locks

LEMMA CronBase == Init => CronInv /\ ScheduleIsCurrent
<1> SUFFICES ASSUME Init PROVE CronInv /\ ScheduleIsCurrent  OBVIOUS
<1> USE CronAssumption DEF Init
<1>1. TypeOK
  <2>1. run \in [Run -> [pc : {"new", "queued", "locked", "begun", "working", "reported",
                              "failed", "done"}, job : Job \cup {NoJob}]]
    OBVIOUS
  <2>2. call \in [Caller -> [pc : {"new", "wait", "blocked", "waited", "shutdown", "done"},
                             then : {"none", "reschedule", "exit"}]]
    OBVIOUS
  <2>3. awaited \in [Caller -> SUBSET Run] /\ running \in [Job -> BOOLEAN]  OBVIOUS
  <2>4. \A x \in Run : run[x].pc = "new"  OBVIOUS
  <2>5. reg \subseteq Job /\ scheduled \subseteq Job /\ count \in Int  OBVIOUS
  <2>6. token \in BOOLEAN  OBVIOUS
  <2>7. runningLock \in Run \cup {Nobody} /\ cronLock \in Caller \cup {Nobody}  OBVIOUS
  <2> QED  BY <2>1, <2>2, <2>3, <2>4, <2>5, <2>6, <2>7 DEF TypeOK
<1>2. LockHeld /\ NewCallers /\ MarkRegistered  BY DEF LockHeld, NewCallers, MarkRegistered
<1>3. RunningMeansHeld  BY DEF RunningMeansHeld
<1>4. ScheduleIsCurrent  BY DEF ScheduleIsCurrent
<1> QED  BY <1>1, <1>2, <1>3, <1>4 DEF CronInv

(* Reporting keeps the count and the message what they are. *)
LEMMA TellType ==
    ASSUME TypeOK, NEW x \in Run, run[x].pc # "new", Tell(x)
    PROVE  running' \in [Job -> BOOLEAN] /\ count' \in Int /\ token' \in BOOLEAN
<1>1. CASE run[x].job \in reg
  <2>1. count' = count - 1 /\ running' = [running EXCEPT ![run[x].job] = FALSE]
    BY <1>1 DEF Tell, Unmarked, EndProcess
  <2>4. running' \in [Job -> BOOLEAN] /\ count' \in Int  BY <2>1 DEF TypeOK
  <2>2. token' = (token \/ count = 1)  BY <1>1 DEF Tell, EndProcess
  <2>3. token' \in BOOLEAN  BY <2>2
  <2> QED  BY <2>3, <2>4
<1>2. CASE run[x].job \notin reg  BY <1>2 DEF Tell, TypeOK
<1> QED  BY <1>1, <1>2

(* What a step of a run leaves behind, given where it moves the run to. *)
LEMMA RunStepInv ==
    ASSUME CronInv, NEW x \in Run, RunStep(x)
    PROVE  CronInv'
<1>0. NewCallers'  BY DEF CronInv, NewCallers, RunStep, TakeRunningLock, Decline, Begin, StartProcess,
  Report, ReportAgain, CleanUp
<1> USE CronAssumption, <1>0 DEF CronInv, TypeOK, At
<1>1. CASE TakeRunningLock(x)  BY <1>1 DEF TakeRunningLock, LockHeld, MarkRegistered, RunningMeansHeld
<1>2. CASE Decline(x)          BY <1>2 DEF Decline, LockHeld, MarkRegistered, RunningMeansHeld
<1>3. CASE Begin(x)            BY <1>3 DEF Begin, LockHeld, MarkRegistered, RunningMeansHeld
<1>4. CASE StartProcess(x)     BY <1>4 DEF StartProcess, LockHeld, MarkRegistered, RunningMeansHeld
<1>5. CASE Report(x)
  <2>1. TypeOK'    BY <1>5, TellType DEF Report
  <2>2. LockHeld'  BY <1>5 DEF Report, LockHeld
  <2>3. runningLock = x /\ runningLock' = x /\ reg' = reg  BY <1>5 DEF Report, LockHeld
  <2>4. \A j \in Job : ~running'[j]
    <3>1. \A j \in Job : running[j] => j = run[x].job /\ j \in reg
      BY <2>3 DEF MarkRegistered, RunningMeansHeld
    <3>2. CASE run[x].job \in reg
      <4>1. running' = [running EXCEPT ![run[x].job] = FALSE]  BY <1>5, <3>2 DEF Report, Tell, Unmarked
      <4> QED  BY <3>1, <4>1
    <3>3. CASE run[x].job \notin reg  BY <1>5, <3>1, <3>3 DEF Report, Tell
    <3> QED  BY <3>2, <3>3
  <2>5. MarkRegistered' /\ RunningMeansHeld'  BY <2>4 DEF MarkRegistered, RunningMeansHeld
  <2> QED  BY <2>1, <2>2, <2>5
<1>6. CASE ReportAgain(x)
  <2>1. TypeOK'    BY <1>6, TellType DEF ReportAgain
  <2>2. LockHeld'  BY <1>6 DEF ReportAgain, LockHeld
  <2>3. MarkRegistered' /\ RunningMeansHeld'
    BY <1>6 DEF ReportAgain, Tell, Unmarked, LockHeld, MarkRegistered, RunningMeansHeld
  <2> QED  BY <2>1, <2>2, <2>3
<1>7. CASE CleanUp(x)
  <2>1. TypeOK'    BY <1>7 DEF CleanUp, Unmarked
  <2>2. LockHeld'  BY <1>7 DEF CleanUp, LockHeld
  <2>3. MarkRegistered' /\ RunningMeansHeld'
    BY <1>7 DEF CleanUp, Unmarked, LockHeld, MarkRegistered, RunningMeansHeld
  <2> QED  BY <2>1, <2>2, <2>3
<1> QED  BY <1>1, <1>2, <1>3, <1>4, <1>5, <1>6, <1>7 DEF RunStep

LEMMA StartInv ==
    ASSUME CronInv, NEW x \in Run, NEW j \in Job, StartRun(x, j) \/ RunOneTimeJob(x, j)
    PROVE  CronInv'
<1> USE CronAssumption DEF CronInv, TypeOK
<1>1. CASE StartRun(x, j)
  BY <1>1 DEF StartRun, LockHeld, NewCallers, MarkRegistered, RunningMeansHeld
<1>2. CASE RunOneTimeJob(x, j)
  BY <1>2 DEF RunOneTimeJob, LockHeld, NewCallers, MarkRegistered, RunningMeansHeld
<1> QED  BY <1>1, <1>2

(* A caller touches no run, and takes Running flags away only. *)
LEMMA CallerInv ==
    ASSUME CronInv, NEW c \in Caller, CallStep(c) \/ Request(c)
    PROVE  CronInv'
<1> USE CronAssumption DEF CronInv, TypeOK, Goes, Waits
<1>1. UNCHANGED <<run, runningLock>> /\ \A j \in Job : running'[j] => running[j] /\ (j \in reg => j \in reg')
  BY DEF CallStep, LookAtCount, TakeToken, TakeCronLock, Reschedule, Request, AskToWait,
    ResetScheduler, RegisterJob, InitJobs
<1>2. LockHeld' /\ MarkRegistered' /\ RunningMeansHeld'
  BY <1>1 DEF LockHeld, MarkRegistered, RunningMeansHeld
<1>3. NewCallers'
  <2>1. \A d \in Caller : call'[d] = call[d] \/ call'[d].pc # "new"
    BY DEF CallStep, LookAtCount, TakeToken, TakeCronLock, Reschedule, Request, AskToWait,
      ResetScheduler, RegisterJob, InitJobs
  <2> QED  BY <2>1 DEF NewCallers
<1>4. TypeOK'
  <2>1. CASE LookAtCount(c)
    <3>1. ToOutlast \subseteq Run  BY DEF ToOutlast, Working
    <3> QED  BY <2>1, <3>1 DEF LookAtCount
  <2>2. CASE TakeToken(c)       BY <2>2 DEF TakeToken
  <2>3. CASE TakeCronLock(c)    BY <2>3 DEF TakeCronLock
  <2>4. CASE Reschedule(c)      BY <2>4 DEF Reschedule
  <2>5. CASE AskToWait(c)       BY <2>5 DEF AskToWait
  <2>6. CASE ResetScheduler(c)  BY <2>6 DEF ResetScheduler
  <2>7. ASSUME NEW j \in Job, RegisterJob(c, j) PROVE TypeOK'  BY <2>7 DEF RegisterJob
  <2>8. ASSUME NEW S \in SUBSET Job, InitJobs(c, S) PROVE TypeOK'  BY <2>8 DEF InitJobs
  <2> QED  BY <2>1, <2>2, <2>3, <2>4, <2>5, <2>6, <2>7, <2>8 DEF CallStep, Request
<1> QED  BY <1>2, <1>3, <1>4

LEMMA CronStep == CronInv /\ [Next]_vars => CronInv'
<1> SUFFICES ASSUME CronInv, [Next]_vars PROVE CronInv'  OBVIOUS
<1>1. CASE UNCHANGED vars
  BY <1>1 DEF vars, CronInv, TypeOK, LockHeld, NewCallers, MarkRegistered, RunningMeansHeld
<1>2. CASE Next  BY <1>2, RunStepInv, StartInv, CallerInv DEF Next
<1> QED  BY <1>1, <1>2

(* Whatever runs, removals, registrations and reports there are, the state  *)
(* of the scheduler keeps its shape.                                        *)
THEOREM CronTypeCorrect == Spec => []TypeOK
<1>1. CronInv => TypeOK  BY DEF CronInv
<1> QED  BY <1>1, CronBase, CronStep, PTL DEF Spec

(* No job is left marked as running when no run of it is in progress, so    *)
(* jobRunner never declines a job for good.                                 *)
THEOREM NoGhostRuns == Spec => []RunningMeansHeld
<1>1. CronInv => RunningMeansHeld  BY DEF CronInv
<1> QED  BY <1>1, CronBase, CronStep, PTL DEF Spec

(* The ticks follow the registry: every change is rescheduled, whichever    *)
(* caller comes last.                                                       *)
THEOREM ScheduleFollows == Spec => []ScheduleIsCurrent
<1>1. TypeOK /\ NewCallers /\ ScheduleIsCurrent /\ [Next]_vars => ScheduleIsCurrent'
  <2> SUFFICES ASSUME TypeOK, NewCallers, ScheduleIsCurrent, [Next]_vars PROVE ScheduleIsCurrent'  OBVIOUS
  <2>1. CASE UNCHANGED <<call, scheduled>> /\ reg' \ OneTime = reg \ OneTime
    BY <2>1 DEF ScheduleIsCurrent
  <2>2. ASSUME NEW c \in Caller, call'[c].then = "reschedule", call'[c].pc # "done"
        PROVE  ScheduleIsCurrent'
    BY <2>2 DEF ScheduleIsCurrent
  <2>3. ASSUME NEW x \in Run, RunStep(x) PROVE UNCHANGED <<call, scheduled, reg>>
    BY <2>3 DEF RunStep, TakeRunningLock, Decline, Begin, StartProcess, Report, ReportAgain, CleanUp
  <2>4. ASSUME NEW x \in Run, NEW j \in Job, StartRun(x, j) \/ RunOneTimeJob(x, j)
        PROVE  UNCHANGED <<call, scheduled>> /\ reg' \ OneTime = reg \ OneTime
    BY <2>4 DEF StartRun, RunOneTimeJob
  <2>5. ASSUME NEW c \in Caller, CallStep(c) PROVE ScheduleIsCurrent'
    <3> USE DEF TypeOK, Goes
    <3>1. CASE Reschedule(c)    BY <3>1 DEF Reschedule, ScheduleIsCurrent
    <3>2. CASE TakeCronLock(c)  BY <2>2, <3>2 DEF TakeCronLock
    <3>3. CASE LookAtCount(c) \/ TakeToken(c)
      <4>1. UNCHANGED <<scheduled, reg>> /\ \A d \in Caller : call'[d].then = call[d].then
        BY <3>3 DEF LookAtCount, TakeToken
      <4>2. \A d \in Caller : call'[d].pc = "done" <=> call[d].pc = "done"
        BY <3>3 DEF LookAtCount, TakeToken
      <4> QED  BY <4>1, <4>2 DEF ScheduleIsCurrent
    <3> QED  BY <2>5, <3>1, <3>2, <3>3 DEF CallStep
  <2>6. ASSUME NEW c \in Caller, Request(c) PROVE ScheduleIsCurrent'
    <3> USE DEF TypeOK, Waits
    <3>1. CASE AskToWait(c)
      <4>1. UNCHANGED <<scheduled, reg>> /\ call[c].pc = "new" /\ call'[c].then = "exit"
            /\ \A d \in Caller : d # c => call'[d] = call[d]
        BY <3>1 DEF AskToWait
      <4>2. call[c].then = "none"  BY <4>1 DEF NewCallers
      <4> QED  BY <4>1, <4>2 DEF ScheduleIsCurrent
    <3>2. CASE ~AskToWait(c)
      BY <2>2, <2>6, <3>2 DEF Request, ResetScheduler, RegisterJob, InitJobs
    <3> QED  BY <3>1, <3>2
  <2> QED  BY <2>1, <2>3, <2>4, <2>5, <2>6 DEF Next, vars
<1>2. CronInv => TypeOK /\ NewCallers  BY DEF CronInv
<1> QED  BY <1>1, <1>2, CronBase, CronStep, PTL DEF Spec

-----------------------------------------------------------------------------
(* A caller that found the tracker right waits for one run: the holder of   *)
(* RunningLock.  Nobody else can raise or lower the count until it reports. *)
Awaiting ==
    \A c \in Caller : \A x \in awaited[c] :
        /\ run[x].pc \in {"working", "reported", "failed", "done"}
        /\ run[x].pc = "working" => call[c].pc = "blocked" /\ ~token /\ count = 1

(* The only run that works is the one that holds RunningLock. *)
LEMMA OneWorks ==
    ASSUME CronInv, NEW x \in Run, run[x].pc = "working"
    PROVE  Working = {x} /\ Cardinality(Working) = 1
<1>1. Working = {x}  BY DEF Working, CronInv, LockHeld
<1> QED  BY <1>1, FS_Singleton

(* While it works no other run takes a step past the queue. *)
LEMMA OthersStand ==
    ASSUME CronInv, NEW x \in Run, run[x].pc = "working", NEW y \in Run, RunStep(y)
    PROVE  y = x /\ run'[x].pc = "reported"
<1>1. runningLock = x /\ x # Nobody  BY CronAssumption DEF CronInv, LockHeld
<1>2. y = x
  BY <1>1 DEF CronInv, LockHeld, RunStep, TakeRunningLock, Decline, Begin, StartProcess, Report,
    ReportAgain, CleanUp
<1>3. Report(x)
  BY <1>2 DEF RunStep, TakeRunningLock, Decline, Begin, StartProcess, Report, ReportAgain, CleanUp
<1> QED  BY <1>2, <1>3 DEF Report, At, CronInv, TypeOK

LEMMA AwaitingStep == CronInv /\ Awaiting /\ [Next]_vars => Awaiting'
<1> SUFFICES ASSUME CronInv, Awaiting, [Next]_vars PROVE Awaiting'  OBVIOUS
<1>1. CASE UNCHANGED vars  BY <1>1 DEF vars, Awaiting
<1>2. ASSUME NEW y \in Run, RunStep(y) PROVE Awaiting'
  <2>1. UNCHANGED <<awaited, call>>
    BY <1>2 DEF RunStep, TakeRunningLock, Decline, Begin, StartProcess, Report, ReportAgain, CleanUp
  <2>2. ASSUME NEW c \in Caller, NEW x \in awaited[c]
        PROVE  run'[x].pc \in {"reported", "failed", "done"}
    <3>1. x \in Run /\ run[x].pc \in {"working", "reported", "failed", "done"}
      BY DEF Awaiting, CronInv, TypeOK
    <3>2. CASE run[x].pc = "working"  BY <1>2, <3>1, <3>2, OthersStand
    <3>3. CASE run[x].pc # "working" /\ x # y
      <4>1. run'[x] = run[x]
        BY <1>2, <3>1, <3>3 DEF RunStep, TakeRunningLock, Decline, Begin, StartProcess, Report,
          ReportAgain, CleanUp, At, CronInv, TypeOK
      <4> QED  BY <3>1, <3>3, <4>1
    <3>4. CASE run[x].pc # "working" /\ x = y
      <4>1. ReportAgain(y) \/ CleanUp(y)
        BY <1>2, <3>1, <3>4 DEF RunStep, TakeRunningLock, Decline, Begin, StartProcess, Report
      <4> QED  BY <3>4, <4>1 DEF ReportAgain, CleanUp, At, CronInv, TypeOK
    <3> QED  BY <3>2, <3>3, <3>4
  <2> QED  BY <2>1, <2>2 DEF Awaiting
<1>3. ASSUME NEW y \in Run, NEW j \in Job, StartRun(y, j) \/ RunOneTimeJob(y, j) PROVE Awaiting'
  <2>1. UNCHANGED <<awaited, call, token, count>> /\ run[y].pc = "new"
        /\ \A x \in Run \ {y} : run'[x] = run[x]
    BY <1>3 DEF StartRun, RunOneTimeJob, CronInv, TypeOK
  <2>2. \A c \in Caller : y \notin awaited[c] /\ awaited[c] \subseteq Run
    BY <2>1 DEF Awaiting, CronInv, TypeOK
  <2> QED  BY <2>1, <2>2 DEF Awaiting
<1>4. ASSUME NEW d \in Caller, LookAtCount(d) PROVE Awaiting'
  <2>1. UNCHANGED <<run, token, count>> /\ call[d].pc = "wait"
        /\ call'[d].pc = (IF count = 0 THEN "waited" ELSE "blocked") /\ awaited'[d] = ToOutlast
        /\ \A c \in Caller \ {d} : call'[c] = call[c] /\ awaited'[c] = awaited[c]
    BY <1>4 DEF LookAtCount, Goes, CronInv, TypeOK
  <2>2. ASSUME NEW x \in ToOutlast
        PROVE  run[x].pc = "working" /\ count = 1 /\ ~token
    <3>1. x \in Run /\ run[x].pc = "working" /\ CountIsRight /\ ~token  BY DEF ToOutlast, Working
    <3> QED  BY <3>1, OneWorks DEF CountIsRight
  <2> QED  BY <2>1, <2>2 DEF Awaiting
<1>5. ASSUME NEW d \in Caller, TakeToken(d) PROVE Awaiting'
  <2>1. UNCHANGED <<run, awaited>> /\ token  BY <1>5 DEF TakeToken
  <2>2. \A c \in Caller : \A x \in awaited[c] : run[x].pc # "working"  BY <2>1 DEF Awaiting
  <2> QED  BY <2>1, <2>2 DEF Awaiting
<1>6. ASSUME NEW d \in Caller, TakeCronLock(d) \/ Reschedule(d) \/ Request(d) PROVE Awaiting'
  <2>1. UNCHANGED <<run, awaited, token, count>>
    BY <1>6 DEF TakeCronLock, Reschedule, Request, AskToWait, ResetScheduler, RegisterJob, InitJobs
  <2>2. call[d].pc # "blocked" /\ \A c \in Caller \ {d} : call'[c] = call[c]
    BY <1>6 DEF TakeCronLock, Reschedule, Request, AskToWait, ResetScheduler, RegisterJob, InitJobs,
      Goes, Waits, CronInv, TypeOK
  <2> QED  BY <2>1, <2>2 DEF Awaiting
<1> QED  BY <1>1, <1>2, <1>3, <1>4, <1>5, <1>6 DEF Next, CallStep

(* Whoever finds the tracker right and empty is not released before the     *)
(* jobs it waits for have ended, whatever is removed, reported twice or     *)
(* waited for beside it: RunningLock keeps the count to itself.             *)
THEOREM WaitsOutlastRuns == Spec => []WaitOutlastsRuns
<1>1. Init => Awaiting  BY DEF Init, Awaiting
<1>2. CronInv /\ Awaiting => WaitOutlastsRuns  BY DEF Awaiting, WaitOutlastsRuns, Working
<1> QED  BY <1>1, <1>2, CronBase, CronStep, AwaitingStep, PTL DEF Spec
=============================================================================
