-------------------------------- MODULE Mesh --------------------------------
(***************************************************************************)
(* The mesh of one server of a constellation (src/src/constellation:       *)
(* nebula.go, NATS.go, tunnels.go, index.go): the nebula child process and *)
(* its monitor, the embedded NATS server, its client, the op-log loop and  *)
(* the heartbeat that start with the client, and everything that takes     *)
(* them down and brings them back.                                         *)
(*                                                                         *)
(* Each goroutine is a program counter.  restartMutex, natsStartMutex and  *)
(* clientConfigLock are held across steps; ProcessMux, heartbeatLock and   *)
(* oplogMu guard single steps, and stop() gives ProcessMux up for its one  *)
(* wait.  The server is a manager with peers: a client node starts no NATS *)
(* and a standalone one no loop and no heartbeat.                          *)
(***************************************************************************)
EXTENDS Naturals, FiniteSets

CONSTANTS
    Task,        \* calls that take the mesh down, each made once
    Sender,      \* callers of InitNATSClient that only want a client
    Supervisor,  \* the goroutine StartNATS leaves behind, a caller as well
    Nobody,      \* a lock nobody holds
    MaxFaults,   \* bound: times nebula exits by itself, or the NATS server fails to
                 \* come up
    MaxBeats     \* bound: heartbeats counted of each sort

Caller == Sender \cup {Supervisor}

ASSUME MeshAssumption ==
    /\ Supervisor \notin Sender /\ Nobody \notin Task \cup Caller
    /\ {MaxFaults, MaxBeats} \subseteq Nat

VARIABLES
    enabled,     \* ConstellationConfig.Enabled
    configured,  \* nebula.yml is there
    process,     \* process: "nil", "up", or "dead" until the monitor has seen it
    nebulaUp,    \* NebulaStarted
    natsUp,      \* NATSStarted
    ns,          \* ns # nil: the embedded server exists
    start,       \* StartNATS, once it holds natsStartMutex: "none", "entered", "readying"
    waiting,     \* StartNATS goroutines that wait for natsStartMutex
    watchdog,    \* natsServerWatchdog
    supervised,  \* natsInitSupervisorRunning
    call,        \* InitNATSClient, for each caller
    clientLock,  \* clientConfigLock, held for writing
    nc,          \* nc # nil: the client exists
    loop,        \* oplogRunning
    beat,        \* heartbeats: how many wait for the bucket, one runs, and strays,
                 \* which run on though their channel is another's now
    task,        \* where each call that takes the mesh down is: [pc, kind]
    restartLock, \* restartMutex
    faults,
    overlapped   \* history: a bring-up and a teardown of the server crossed

flags   == <<nebulaUp, natsUp>>
server  == <<ns, start, waiting, watchdog>>
client  == <<supervised, call, clientLock, nc, loop, beat>>
tasks   == <<task, restartLock, enabled, configured>>
history == <<faults, overlapped>>
vars    == <<process, flags, server, client, tasks, history>>

(* Right after Init() at boot: nebula runs, StartNATS is on its way. *)
Init ==
    /\ enabled = TRUE /\ configured = TRUE /\ process = "up"
    /\ nebulaUp = TRUE /\ natsUp = FALSE
    /\ ns = FALSE /\ start = "none" /\ waiting = 1 /\ watchdog = "off"
    /\ supervised = FALSE /\ call = [c \in Caller |-> "idle"] /\ clientLock = Nobody
    /\ nc = FALSE /\ loop = FALSE
    /\ beat = [waiting |-> 0, running |-> FALSE, strays |-> 0]
    /\ task = [t \in Task |-> [pc |-> "new", kind |-> "restart"]] /\ restartLock = Nobody
    /\ faults = 0 /\ overlapped = FALSE

At(t, p)     == task[t].pc = p
Go(t, p)     == task' = [task EXCEPT ![t].pc = p]
Starting     == waiting > 0 \/ start # "none" \/ watchdog \in {"calling", "inside"}
TearingDown  == \E t \in Task : task[t].pc \in {"halt", "close", "kill", "reaping", "killed", "init"}

-----------------------------------------------------------------------------
(* The nebula process.                                                      *)

Exit ==
    /\ process = "up" /\ faults < MaxFaults
    /\ process' = "dead"
    /\ faults' = faults + 1
    /\ UNCHANGED <<flags, server, client, tasks, overlapped>>

(* Mutant: stop() keeps ProcessMux while it waits for the monitor. *)
MonitorBlocked == \A t \in Task : ~At(t, "reaping")

(* It lets go of it. *)
MonitorMayReport == TRUE

(* monitorNebulaProcess: the process is gone and everybody who waits for it *)
(* is told.                                                                 *)
MonitorReports ==
    /\ process = "dead" /\ MonitorMayReport
    /\ process' = "nil"
    /\ nebulaUp' = FALSE /\ natsUp' = FALSE
    /\ task' = [t \in Task |-> IF At(t, "reaping") THEN [task[t] EXCEPT !.pc = "killed"] ELSE task[t]]
    /\ UNCHANGED <<server, client, restartLock, enabled, configured, history>>

-----------------------------------------------------------------------------
(* The server.                                                              *)

(* Mutant: a bring-up that failed is left at that. *)
NoHandOff == watchdog

(* What StartNATS leaves for natsServerWatchdog when it has failed. *)
HandOff == IF nebulaUp /\ watchdog = "off" THEN "check" ELSE watchdog

(* StartNATS returns; the watchdog looks again when it was its own call. *)
EndStart(w) ==
    /\ start' = "none"
    /\ watchdog' = IF watchdog = "inside" THEN "check" ELSE w

(* Mutant: whoever finds natsStartMutex free starts. *)
Whenever == TRUE

StartWanted == waiting > 0

(* natsStartMutex is free: StartNATS goes on unless there is a server. *)
EnterStart ==
    /\ start = "none" /\ StartWanted
    /\ waiting' = waiting - 1
    /\ start' = IF ns THEN "none" ELSE "entered"
    /\ UNCHANGED <<process, flags, ns, watchdog, client, tasks, history>>

(* The server is made, and given up at once when nebula is down.  What      *)
(* comes before, the certificate and the device, is taken to be in order.   *)
MakeServer ==
    /\ start = "entered"
    /\ ns' = nebulaUp
    /\ IF nebulaUp THEN start' = "readying" /\ UNCHANGED watchdog ELSE EndStart(watchdog)
    /\ UNCHANGED <<process, flags, waiting, client, tasks, history>>

(* It is ready, and a goroutine that keeps asking for a client is started,  *)
(* unless one runs already.                                                 *)
ServerReady ==
    /\ start = "readying"
    /\ natsUp' = TRUE
    /\ EndStart(watchdog)
    /\ supervised' = TRUE
    /\ UNCHANGED <<process, nebulaUp, ns, waiting, call, clientLock, nc, loop, beat, tasks, history>>

(* Five attempts have failed. *)
ServerFails ==
    /\ start = "readying" /\ faults < MaxFaults
    /\ ns' = FALSE
    /\ EndStart(HandOff)
    /\ faults' = faults + 1
    /\ UNCHANGED <<process, flags, waiting, client, tasks, overlapped>>

(* natsServerWatchdog looks before its sleep and after it ... *)
WatchdogLooks ==
    /\ watchdog \in {"check", "asleep"}
    /\ watchdog' = CASE ~nebulaUp \/ natsUp  -> "off"
                     [] watchdog = "check"  -> "asleep"
                     [] watchdog = "asleep" -> "calling"
    /\ overlapped' = (overlapped \/ (watchdog' = "calling" /\ TearingDown))
    /\ UNCHANGED <<process, flags, ns, start, waiting, client, tasks, faults>>

(* ... and calls StartNATS. *)
WatchdogStarts ==
    /\ watchdog = "calling" /\ start = "none"
    /\ watchdog' = IF ns THEN "check" ELSE "inside"
    /\ start' = IF ns THEN "none" ELSE "entered"
    /\ UNCHANGED <<process, flags, ns, waiting, client, tasks, history>>

-----------------------------------------------------------------------------
(* The client.                                                              *)

EndCall(c, ok) ==
    /\ call' = [call EXCEPT ![c] = "idle"]
    /\ supervised' = (supervised /\ ~(c = Supervisor /\ ok))

(* A sender finds no client, or the supervisor tries again. *)
AskClient(c) ==
    /\ call[c] = "idle" /\ natsUp
    /\ IF c = Supervisor THEN supervised ELSE ~nc
    /\ call' = [call EXCEPT ![c] = "locking"]
    /\ UNCHANGED <<process, flags, server, supervised, clientLock, nc, loop, beat, tasks, history>>

(* The supervisor ends with the server.  Its last look and its return are   *)
(* one step: StartNATS sleeps two seconds before it could need another.     *)
SupervisorEnds ==
    /\ supervised /\ call[Supervisor] = "idle" /\ ~natsUp
    /\ supervised' = FALSE
    /\ UNCHANGED <<process, flags, server, call, clientLock, nc, loop, beat, tasks, history>>

(* InitNATSClient under its lock: a client is there, or nebula is down, or  *)
(* it connects.                                                             *)
LockClient(c) ==
    /\ call[c] = "locking" /\ clientLock = Nobody
    /\ \/ /\ nc \/ ~nebulaUp
          /\ EndCall(c, nc)
          /\ UNCHANGED clientLock
       \/ /\ ~nc /\ nebulaUp
          /\ call' = [call EXCEPT ![c] = "connecting"]
          /\ clientLock' = c
          /\ UNCHANGED supervised
    /\ UNCHANGED <<process, flags, server, nc, loop, beat, tasks, history>>

Connect(c) ==
    /\ call[c] = "connecting" /\ ns
    /\ nc' = TRUE
    /\ call' = [call EXCEPT ![c] = "hooking"]
    /\ UNCHANGED <<process, flags, server, supervised, clientLock, loop, beat, tasks, history>>

(* No server answers: nc is nil again, whoever had set it.  The lock is let *)
(* go for the sleep, or for good: after ten attempts, or when nebula is     *)
(* down.                                                                    *)
ConnectFails(c) ==
    /\ call[c] = "connecting" /\ ~ns
    /\ nc' = FALSE
    /\ clientLock' = Nobody
    /\ \/ EndCall(c, FALSE)
       \/ nebulaUp /\ call' = [call EXCEPT ![c] = "napping"] /\ UNCHANGED supervised
    /\ UNCHANGED <<process, flags, server, loop, beat, tasks, history>>

(* Mutant: the retry goes on without the lock. *)
GoOnWithout(c) == UNCHANGED clientLock

Relock(c) == clientLock' = c

Wake(c) ==
    /\ call[c] = "napping" /\ clientLock = Nobody
    /\ \/ /\ nebulaUp
          /\ Relock(c)
          /\ call' = [call EXCEPT ![c] = "connecting"]
          /\ UNCHANGED <<supervised, nc>>
       \/ /\ ~nebulaUp
          /\ nc' = FALSE
          /\ EndCall(c, FALSE)
          /\ UNCHANGED clientLock
    /\ UNCHANGED <<process, flags, server, loop, beat, tasks, history>>

Capped(n) == IF n < MaxBeats THEN n + 1 ELSE n

(* Still under the lock: StartOplogApply, and go ClientHeartbeatInit, which *)
(* stops the heartbeat there is and waits for the bucket.                   *)
HookClient(c) ==
    /\ call[c] = "hooking"
    /\ loop' = TRUE
    /\ beat' = [beat EXCEPT !.running = FALSE, !.waiting = Capped(@)]
    /\ clientLock' = Nobody
    /\ EndCall(c, TRUE)
    /\ UNCHANGED <<process, flags, server, nc, tasks, history>>

-----------------------------------------------------------------------------
(* The heartbeat.                                                           *)

(* StopHeartbeat reaches the heartbeat that runs under the current channel. *)
StopHeartbeat == beat' = [beat EXCEPT !.running = FALSE]

(* The bucket is there, or it has waited long enough.  The new channel      *)
(* takes the place of one that may have been made meanwhile.                *)
StartBeat ==
    /\ beat.waiting > 0
    /\ beat' = [beat EXCEPT !.waiting = @ - 1, !.running = TRUE,
                            !.strays = IF beat.running THEN Capped(@) ELSE @]
    /\ UNCHANGED <<process, flags, server, supervised, call, clientLock, nc, loop, tasks, history>>

(* A tick reaches JetStream and finds the constellation down. *)
EndBeat ==
    /\ nc /\ ~(enabled /\ nebulaUp)
    /\ \/ beat.running /\ beat' = [beat EXCEPT !.running = FALSE]
       \/ beat.strays > 0 /\ beat' = [beat EXCEPT !.strays = @ - 1]
    /\ UNCHANGED <<process, flags, server, supervised, call, clientLock, nc, loop, tasks, history>>

-----------------------------------------------------------------------------
(* Taking the mesh down.                                                    *)

(* RestartNebula; a force-reform or a snapshot that stops the server first, *)
(* without restartMutex; ResetNebula, which starts with stop() alone.       *)
AskRestart(t) ==
    /\ At(t, "new")
    /\ \E how \in {[pc |-> "queued", kind |-> "restart"], [pc |-> "stopNATS", kind |-> "reaction"],
                    [pc |-> "kill", kind |-> "reset"]} :
          task' = [task EXCEPT ![t] = how]
    /\ UNCHANGED <<process, flags, server, client, restartLock, enabled, configured, history>>

TakeRestartLock(t) ==
    /\ At(t, "queued") /\ restartLock = Nobody
    /\ restartLock' = t
    /\ task' = [task EXCEPT ![t] = [pc |-> "stopNATS", kind |-> "restart"]]
    /\ UNCHANGED <<process, flags, server, client, enabled, configured, history>>

(* Mutant: the server goes, the flag stays. *)
DropServerOnly == ns' = FALSE /\ UNCHANGED natsUp

DropServer == ns' = FALSE /\ natsUp' = FALSE

(* StopNATS waits for natsStartMutex: never in the middle of a bring-up. *)
StopNATS(t) ==
    /\ At(t, "stopNATS") /\ start = "none"
    /\ DropServer /\ loop' = FALSE
    /\ overlapped' = (overlapped \/ Starting)
    /\ Go(t, "halt")
    /\ UNCHANGED <<process, nebulaUp, start, waiting, watchdog, supervised, call, clientLock, nc,
                   beat, restartLock, enabled, configured, faults>>

(* CloseNATSClient stops the loop and the heartbeat before it has the lock. *)
HaltClient(t) ==
    /\ At(t, "halt")
    /\ loop' = FALSE
    /\ StopHeartbeat
    /\ Go(t, "close")
    /\ UNCHANGED <<process, flags, server, supervised, call, clientLock, nc,
                   restartLock, enabled, configured, history>>

CloseClient(t) ==
    /\ At(t, "close") /\ clientLock = Nobody
    /\ nc' = FALSE
    /\ Go(t, IF task[t].kind = "reaction" THEN "queued" ELSE "kill")
    /\ UNCHANGED <<process, flags, server, supervised, call, clientLock, loop, beat,
                   restartLock, enabled, configured, history>>

(* stop() kills the process, if there is one, and waits for the monitor ... *)
Kill(t) ==
    /\ At(t, "kill")
    /\ process' = IF process = "nil" THEN "nil" ELSE "dead"
    /\ Go(t, IF process = "nil" THEN "killed" ELSE "reaping")
    /\ UNCHANGED <<flags, server, client, restartLock, enabled, configured, history>>

(* ... and clears the flags whatever has been started meanwhile. *)
Stopped(t) ==
    /\ At(t, "killed")
    /\ nebulaUp' = FALSE /\ natsUp' = FALSE
    /\ Go(t, IF task[t].kind = "reset" THEN "wipe" ELSE "init")
    /\ UNCHANGED <<process, server, client, restartLock, enabled, configured, history>>

(* Mutant: ResetNebula ends with the configuration. *)
ResetEnds == [pc |-> "done", kind |-> "reset"]

(* ResetNebula restarts once more, now that there is nothing to start. *)
AfterReset == [pc |-> "queued", kind |-> "restart"]

Wipe(t) ==
    /\ At(t, "wipe")
    /\ configured' = FALSE
    /\ Go(t, "disable")
    /\ UNCHANGED <<process, flags, server, client, restartLock, enabled, history>>

Disable(t) ==
    /\ At(t, "disable")
    /\ enabled' = FALSE
    /\ task' = [task EXCEPT ![t] = AfterReset]
    /\ UNCHANGED <<process, flags, server, client, restartLock, configured, history>>

(* Init: with everything in place nebula starts, and StartNATS with it. *)
InitMesh(t) ==
    /\ At(t, "init")
    /\ natsUp' = FALSE
    /\ LET starts == enabled /\ configured /\ process = "nil"
       IN  /\ nebulaUp' = starts
           /\ process' = IF starts THEN "up" ELSE process
           /\ waiting' = IF starts THEN waiting + 1 ELSE waiting
    /\ restartLock' = Nobody
    /\ Go(t, "done")
    /\ UNCHANGED <<ns, start, watchdog, client, enabled, configured, history>>

-----------------------------------------------------------------------------
Starter == MakeServer \/ ServerReady
Watchdog == WatchdogLooks \/ WatchdogStarts

(* InitNATSClient once it has been called. *)
Calling(c) == LockClient(c) \/ Connect(c) \/ ConnectFails(c) \/ Wake(c) \/ HookClient(c)

Restarting(t) ==
    \/ TakeRestartLock(t) \/ StopNATS(t) \/ HaltClient(t) \/ CloseClient(t) \/ Kill(t)
    \/ Stopped(t) \/ Wipe(t) \/ Disable(t) \/ InitMesh(t)

Next ==
    \/ Exit \/ MonitorReports
    \/ EnterStart \/ Starter \/ ServerFails \/ Watchdog
    \/ \E c \in Caller : AskClient(c) \/ Calling(c)
    \/ SupervisorEnds \/ StartBeat \/ EndBeat
    \/ \E t \in Task : AskRestart(t) \/ Restarting(t)

Spec == Init /\ [][Next]_vars

(* A goroutine that can go on does.  Nothing makes a sender send, a task    *)
(* begin, nebula exit or the server fail.  A retry loop may take            *)
(* clientConfigLock again and again: Go's lock starves nobody who waits.    *)
Fairness ==
    /\ WF_vars(MonitorReports) /\ WF_vars(EnterStart) /\ WF_vars(Starter) /\ WF_vars(Watchdog)
    /\ WF_vars(AskClient(Supervisor) \/ SupervisorEnds) /\ WF_vars(StartBeat)
    /\ \A c \in Caller : WF_vars(Calling(c)) /\ SF_vars(LockClient(c))
    /\ \A t \in Task : WF_vars(Restarting(t)) /\ SF_vars(CloseClient(t))

FairSpec == Spec /\ Fairness
=============================================================================
