----------------------------- MODULE MeshProofs -----------------------------
(***************************************************************************)
(* The flag NATSStarted is truthful and the locks exclude, for any number  *)
(* of restarts, senders, crashes and failed bring-ups.                     *)
(***************************************************************************)
EXTENDS MeshProps, TLAPS

(* What makes FlagTruthful inductive: while StartNATS holds natsStartMutex  *)
(* nobody else touches ns, so a bring-up that goes on still has its server, *)
(* one that has only begun found none, and the flag is down until it ends.  *)
Bringup == /\ natsUp => ns
           /\ start # "none" => ~natsUp
           /\ start = "entered" => ~ns
           /\ start = "readying" => ns

IInv == TypeOK /\ Bringup /\ OneAtATime

(* The initial state: after Init() at boot. *)
LEMMA MeshInit == Init => IInv
<1> SUFFICES ASSUME Init PROVE IInv
  OBVIOUS
<1>1. TypeOK
  BY MeshAssumption DEF Init, TypeOK, Flags, Servers, Clients, Tasks, Caller
<1>2. Bringup /\ OneAtATime
  BY MeshAssumption DEF Init, Bringup, OneAtATime, ClientExclusive, RestartExclusive, Caller
<1> QED
  BY <1>1, <1>2 DEF IInv

(* The steps of nebula, of the server and of the heartbeat leave every lock *)
(* and every program counter alone, or move the counters in step.           *)
LEMMA MeshServerStep ==
    ASSUME IInv, \/ Exit \/ MonitorReports \/ EnterStart \/ Starter \/ ServerFails \/ Watchdog
                 \/ SupervisorEnds \/ StartBeat \/ EndBeat
    PROVE  IInv'
<1> USE MeshAssumption DEF IInv, TypeOK, OneAtATime, flags, server, client, tasks, history, vars
<1>1. CASE Exit
  <2>1. TypeOK'
    <3>1. Flags'
      BY <1>1 DEF Exit, Flags
    <3>2. Servers'
      BY <1>1 DEF Exit, Servers
    <3>3. Clients'
      BY <1>1 DEF Exit, Clients
    <3>4. Tasks'
      BY <1>1 DEF Exit, Tasks
    <3> QED
      BY <3>1, <3>2, <3>3, <3>4
  <2>2. Bringup'
    BY <1>1 DEF Exit, Servers, Flags, Bringup
  <2>3. ClientExclusive'
    BY <1>1 DEF Exit, Clients, ClientExclusive
  <2>4. RestartExclusive'
    BY <1>1 DEF Exit, Tasks, RestartExclusive
  <2> QED
    BY <2>1, <2>2, <2>3, <2>4
<1>2. CASE MonitorReports
  <2>1. TypeOK'
    <3>1. Flags'
      BY <1>2 DEF MonitorReports, At, Flags
    <3>2. Servers'
      BY <1>2 DEF MonitorReports, At, Servers
    <3>3. Clients'
      BY <1>2 DEF MonitorReports, At, Clients
    <3>4. Tasks'
      BY <1>2 DEF MonitorReports, At, Tasks
    <3> QED
      BY <3>1, <3>2, <3>3, <3>4
  <2>2. Bringup'
    BY <1>2 DEF MonitorReports, Bringup
  <2>3. \A t \in Task : /\ task'[t].kind = task[t].kind
                        /\ task'[t].pc = IF task[t].pc = "reaping" THEN "killed" ELSE task[t].pc
    BY <1>2 DEF MonitorReports, Tasks, At
  <2>4. ClientExclusive'
    BY <1>2 DEF MonitorReports, ClientExclusive
  <2>5. RestartExclusive'
    BY <1>2, <2>3 DEF MonitorReports, RestartExclusive
  <2> QED
    BY <2>1, <2>2, <2>4, <2>5
<1>3. CASE EnterStart
  <2>1. TypeOK'
    <3>1. Flags'
      BY <1>3 DEF EnterStart, StartWanted, Flags
    <3>2. Servers'
      BY <1>3 DEF EnterStart, StartWanted, Servers
    <3>3. Clients'
      BY <1>3 DEF EnterStart, StartWanted, Clients
    <3>4. Tasks'
      BY <1>3 DEF EnterStart, StartWanted, Tasks
    <3> QED
      BY <3>1, <3>2, <3>3, <3>4
  <2>2. Bringup'
    BY <1>3 DEF EnterStart, StartWanted, Servers, Flags, Bringup
  <2>3. ClientExclusive'
    BY <1>3 DEF EnterStart, StartWanted, Clients, ClientExclusive
  <2>4. RestartExclusive'
    BY <1>3 DEF EnterStart, StartWanted, Tasks, RestartExclusive
  <2> QED
    BY <2>1, <2>2, <2>3, <2>4
<1>4. CASE MakeServer
  <2>1. TypeOK'
    <3>1. Flags'
      BY <1>4 DEF MakeServer, EndStart, Flags
    <3>2. Servers'
      BY <1>4 DEF MakeServer, EndStart, Servers
    <3>3. Clients'
      BY <1>4 DEF MakeServer, EndStart, Clients
    <3>4. Tasks'
      BY <1>4 DEF MakeServer, EndStart, Tasks
    <3> QED
      BY <3>1, <3>2, <3>3, <3>4
  <2>2. Bringup'
    BY <1>4 DEF MakeServer, EndStart, Servers, Flags, Bringup
  <2>3. ClientExclusive'
    BY <1>4 DEF MakeServer, EndStart, Clients, ClientExclusive
  <2>4. RestartExclusive'
    BY <1>4 DEF MakeServer, EndStart, Tasks, RestartExclusive
  <2> QED
    BY <2>1, <2>2, <2>3, <2>4
<1>5. CASE ServerReady
  <2>1. TypeOK'
    <3>1. Flags'
      BY <1>5 DEF ServerReady, EndStart, Flags
    <3>2. Servers'
      BY <1>5 DEF ServerReady, EndStart, Servers
    <3>3. Clients'
      BY <1>5 DEF ServerReady, EndStart, Clients
    <3>4. Tasks'
      BY <1>5 DEF ServerReady, EndStart, Tasks
    <3> QED
      BY <3>1, <3>2, <3>3, <3>4
  <2>2. Bringup'
    BY <1>5 DEF ServerReady, EndStart, Servers, Flags, Bringup
  <2>3. ClientExclusive'
    BY <1>5 DEF ServerReady, EndStart, Clients, ClientExclusive
  <2>4. RestartExclusive'
    BY <1>5 DEF ServerReady, EndStart, Tasks, RestartExclusive
  <2> QED
    BY <2>1, <2>2, <2>3, <2>4
<1>6. CASE ServerFails
  <2>1. TypeOK'
    <3>1. Flags'
      BY <1>6 DEF ServerFails, EndStart, HandOff, Flags
    <3>2. Servers'
      BY <1>6 DEF ServerFails, EndStart, HandOff, Servers
    <3>3. Clients'
      BY <1>6 DEF ServerFails, EndStart, HandOff, Clients
    <3>4. Tasks'
      BY <1>6 DEF ServerFails, EndStart, HandOff, Tasks
    <3> QED
      BY <3>1, <3>2, <3>3, <3>4
  <2>2. Bringup'
    BY <1>6 DEF ServerFails, EndStart, HandOff, Servers, Flags, Bringup
  <2>3. ClientExclusive'
    BY <1>6 DEF ServerFails, EndStart, HandOff, Clients, ClientExclusive
  <2>4. RestartExclusive'
    BY <1>6 DEF ServerFails, EndStart, HandOff, Tasks, RestartExclusive
  <2> QED
    BY <2>1, <2>2, <2>3, <2>4
<1>7. CASE WatchdogLooks
  <2>1. TypeOK'
    <3>1. Flags'
      BY <1>7 DEF WatchdogLooks, Flags
    <3>2. Servers'
      BY <1>7 DEF WatchdogLooks, Servers
    <3>3. Clients'
      BY <1>7 DEF WatchdogLooks, Clients
    <3>4. Tasks'
      BY <1>7 DEF WatchdogLooks, Tasks
    <3> QED
      BY <3>1, <3>2, <3>3, <3>4
  <2>2. Bringup'
    BY <1>7 DEF WatchdogLooks, Servers, Flags, Bringup
  <2>3. ClientExclusive'
    BY <1>7 DEF WatchdogLooks, Clients, ClientExclusive
  <2>4. RestartExclusive'
    BY <1>7 DEF WatchdogLooks, Tasks, RestartExclusive
  <2> QED
    BY <2>1, <2>2, <2>3, <2>4
<1>8. CASE WatchdogStarts
  <2>1. TypeOK'
    <3>1. Flags'
      BY <1>8 DEF WatchdogStarts, Flags
    <3>2. Servers'
      BY <1>8 DEF WatchdogStarts, Servers
    <3>3. Clients'
      BY <1>8 DEF WatchdogStarts, Clients
    <3>4. Tasks'
      BY <1>8 DEF WatchdogStarts, Tasks
    <3> QED
      BY <3>1, <3>2, <3>3, <3>4
  <2>2. Bringup'
    BY <1>8 DEF WatchdogStarts, Servers, Flags, Bringup
  <2>3. ClientExclusive'
    BY <1>8 DEF WatchdogStarts, Clients, ClientExclusive
  <2>4. RestartExclusive'
    BY <1>8 DEF WatchdogStarts, Tasks, RestartExclusive
  <2> QED
    BY <2>1, <2>2, <2>3, <2>4
<1>9. CASE SupervisorEnds
  <2>1. TypeOK'
    <3>1. Flags'
      BY <1>9 DEF SupervisorEnds, Flags
    <3>2. Servers'
      BY <1>9 DEF SupervisorEnds, Servers
    <3>3. Clients'
      BY <1>9 DEF SupervisorEnds, Clients
    <3>4. Tasks'
      BY <1>9 DEF SupervisorEnds, Tasks
    <3> QED
      BY <3>1, <3>2, <3>3, <3>4
  <2>2. Bringup'
    BY <1>9 DEF SupervisorEnds, Servers, Flags, Bringup
  <2>3. ClientExclusive'
    BY <1>9 DEF SupervisorEnds, Clients, ClientExclusive
  <2>4. RestartExclusive'
    BY <1>9 DEF SupervisorEnds, Tasks, RestartExclusive
  <2> QED
    BY <2>1, <2>2, <2>3, <2>4
<1>10. CASE StartBeat
  <2>1. TypeOK'
    <3>1. Flags'
      BY <1>10 DEF StartBeat, Capped, Flags
    <3>2. Servers'
      BY <1>10 DEF StartBeat, Capped, Servers
    <3>3. Clients'
      <4>1. beat' = [waiting |-> beat.waiting - 1, running |-> TRUE,
                     strays |-> IF beat.running THEN Capped(beat.strays) ELSE beat.strays]
        BY <1>10 DEF StartBeat, Clients
      <4>2. beat.waiting - 1 \in Nat
        BY <1>10 DEF StartBeat, Clients
      <4>3. beat.strays \in Nat /\ Capped(beat.strays) \in Nat
        BY DEF Clients, Capped
      <4> QED
        BY <1>10, <4>1, <4>2, <4>3 DEF StartBeat, Clients
    <3>4. Tasks'
      BY <1>10 DEF StartBeat, Capped, Tasks
    <3> QED
      BY <3>1, <3>2, <3>3, <3>4
  <2>2. Bringup'
    BY <1>10 DEF StartBeat, Capped, Servers, Flags, Bringup
  <2>3. ClientExclusive'
    BY <1>10 DEF StartBeat, Capped, Clients, ClientExclusive
  <2>4. RestartExclusive'
    BY <1>10 DEF StartBeat, Capped, Tasks, RestartExclusive
  <2> QED
    BY <2>1, <2>2, <2>3, <2>4
<1>11. CASE EndBeat
  <2>1. TypeOK'
    <3>1. Flags'
      BY <1>11 DEF EndBeat, Flags
    <3>2. Servers'
      BY <1>11 DEF EndBeat, Servers
    <3>3. Clients'
      <4>1. CASE beat.running /\ beat' = [beat EXCEPT !.running = FALSE]
        BY <1>11, <4>1 DEF EndBeat, Clients
      <4>2. CASE beat.strays > 0 /\ beat' = [beat EXCEPT !.strays = @ - 1]
        <5>1. beat' = [waiting |-> beat.waiting, running |-> beat.running, strays |-> beat.strays - 1]
          BY <4>2 DEF Clients
        <5>2. beat.strays - 1 \in Nat /\ beat.running \in BOOLEAN /\ beat.waiting \in Nat
          BY <4>2 DEF Clients
        <5> QED
          BY <1>11, <5>1, <5>2 DEF EndBeat, Clients
      <4> QED
        BY <1>11, <4>1, <4>2 DEF EndBeat
    <3>4. Tasks'
      BY <1>11 DEF EndBeat, Tasks
    <3> QED
      BY <3>1, <3>2, <3>3, <3>4
  <2>2. Bringup'
    BY <1>11 DEF EndBeat, Servers, Flags, Bringup
  <2>3. ClientExclusive'
    BY <1>11 DEF EndBeat, Clients, ClientExclusive
  <2>4. RestartExclusive'
    BY <1>11 DEF EndBeat, Tasks, RestartExclusive
  <2> QED
    BY <2>1, <2>2, <2>3, <2>4
<1> QED
  BY <1>1, <1>2, <1>3, <1>4, <1>5, <1>6, <1>7, <1>8, <1>9, <1>10, <1>11 DEF Starter, Watchdog

(* The steps of InitNATSClient take clientConfigLock and let it go as the   *)
(* program counter says.                                                    *)
LEMMA MeshClientStep ==
    ASSUME IInv, NEW c \in Caller, AskClient(c) \/ Calling(c)
    PROVE  IInv'
<1> USE MeshAssumption DEF IInv, TypeOK, OneAtATime, flags, server, client, tasks, history, vars, Caller
<1>1. CASE AskClient(c)
  <2>1. TypeOK'
    <3>1. Flags'
      BY <1>1 DEF AskClient, Flags
    <3>2. Servers'
      BY <1>1 DEF AskClient, Servers
    <3>3. Clients'
      BY <1>1 DEF AskClient, Clients
    <3>4. Tasks'
      BY <1>1 DEF AskClient, Tasks
    <3> QED
      BY <3>1, <3>2, <3>3, <3>4
  <2>2. Bringup'
    BY <1>1 DEF AskClient, Servers, Flags, Bringup
  <2>3. ClientExclusive'
    BY <1>1 DEF AskClient, Clients, ClientExclusive
  <2>4. RestartExclusive'
    BY <1>1 DEF AskClient, Tasks, RestartExclusive
  <2> QED
    BY <2>1, <2>2, <2>3, <2>4
<1>2. CASE LockClient(c)
  <2>1. TypeOK'
    <3>1. Flags'
      BY <1>2 DEF LockClient, EndCall, Flags
    <3>2. Servers'
      BY <1>2 DEF LockClient, EndCall, Servers
    <3>3. Clients'
      BY <1>2 DEF LockClient, EndCall, Clients
    <3>4. Tasks'
      BY <1>2 DEF LockClient, EndCall, Tasks
    <3> QED
      BY <3>1, <3>2, <3>3, <3>4
  <2>2. Bringup'
    BY <1>2 DEF LockClient, EndCall, Servers, Flags, Bringup
  <2>3. ClientExclusive'
    BY <1>2 DEF LockClient, EndCall, Clients, ClientExclusive
  <2>4. RestartExclusive'
    BY <1>2 DEF LockClient, EndCall, Tasks, RestartExclusive
  <2> QED
    BY <2>1, <2>2, <2>3, <2>4
<1>3. CASE Connect(c)
  <2>1. TypeOK'
    <3>1. Flags'
      BY <1>3 DEF Connect, Flags
    <3>2. Servers'
      BY <1>3 DEF Connect, Servers
    <3>3. Clients'
      BY <1>3 DEF Connect, Clients
    <3>4. Tasks'
      BY <1>3 DEF Connect, Tasks
    <3> QED
      BY <3>1, <3>2, <3>3, <3>4
  <2>2. Bringup'
    BY <1>3 DEF Connect, Servers, Flags, Bringup
  <2>3. ClientExclusive'
    BY <1>3 DEF Connect, Clients, ClientExclusive
  <2>4. RestartExclusive'
    BY <1>3 DEF Connect, Tasks, RestartExclusive
  <2> QED
    BY <2>1, <2>2, <2>3, <2>4
<1>4. CASE ConnectFails(c)
  <2>1. TypeOK'
    <3>1. Flags'
      BY <1>4 DEF ConnectFails, EndCall, Flags
    <3>2. Servers'
      BY <1>4 DEF ConnectFails, EndCall, Servers
    <3>3. Clients'
      BY <1>4 DEF ConnectFails, EndCall, Clients
    <3>4. Tasks'
      BY <1>4 DEF ConnectFails, EndCall, Tasks
    <3> QED
      BY <3>1, <3>2, <3>3, <3>4
  <2>2. Bringup'
    BY <1>4 DEF ConnectFails, EndCall, Servers, Flags, Bringup
  <2>3. ClientExclusive'
    BY <1>4 DEF ConnectFails, EndCall, Clients, ClientExclusive
  <2>4. RestartExclusive'
    BY <1>4 DEF ConnectFails, EndCall, Tasks, RestartExclusive
  <2> QED
    BY <2>1, <2>2, <2>3, <2>4
<1>5. CASE Wake(c)
  <2>1. TypeOK'
    <3>1. Flags'
      BY <1>5 DEF Wake, Relock, EndCall, Flags
    <3>2. Servers'
      BY <1>5 DEF Wake, Relock, EndCall, Servers
    <3>3. Clients'
      BY <1>5 DEF Wake, Relock, EndCall, Clients
    <3>4. Tasks'
      BY <1>5 DEF Wake, Relock, EndCall, Tasks
    <3> QED
      BY <3>1, <3>2, <3>3, <3>4
  <2>2. Bringup'
    BY <1>5 DEF Wake, Relock, EndCall, Servers, Flags, Bringup
  <2>3. ClientExclusive'
    BY <1>5 DEF Wake, Relock, EndCall, Clients, ClientExclusive
  <2>4. RestartExclusive'
    BY <1>5 DEF Wake, Relock, EndCall, Tasks, RestartExclusive
  <2> QED
    BY <2>1, <2>2, <2>3, <2>4
<1>6. CASE HookClient(c)
  <2>1. TypeOK'
    <3>1. Flags'
      BY <1>6 DEF HookClient, EndCall, Capped, Flags
    <3>2. Servers'
      BY <1>6 DEF HookClient, EndCall, Capped, Servers
    <3>3. Clients'
      <4>1. beat' = [waiting |-> Capped(beat.waiting), running |-> FALSE, strays |-> beat.strays]
        BY <1>6 DEF HookClient, Clients
      <4>2. beat.strays \in Nat /\ Capped(beat.waiting) \in Nat
        BY DEF Clients, Capped
      <4> QED
        BY <1>6, <4>1, <4>2 DEF HookClient, EndCall, Clients
    <3>4. Tasks'
      BY <1>6 DEF HookClient, EndCall, Capped, Tasks
    <3> QED
      BY <3>1, <3>2, <3>3, <3>4
  <2>2. Bringup'
    BY <1>6 DEF HookClient, EndCall, Capped, Servers, Flags, Bringup
  <2>3. ClientExclusive'
    BY <1>6 DEF HookClient, EndCall, Capped, Clients, ClientExclusive
  <2>4. RestartExclusive'
    BY <1>6 DEF HookClient, EndCall, Capped, Tasks, RestartExclusive
  <2> QED
    BY <2>1, <2>2, <2>3, <2>4
<1> QED
  BY <1>1, <1>2, <1>3, <1>4, <1>5, <1>6 DEF Calling

(* The steps of a restart, a reaction or a reset: only a restart holds      *)
(* restartMutex, and only StopNATS touches the server.                      *)
LEMMA MeshTaskStep ==
    ASSUME IInv, NEW t \in Task, AskRestart(t) \/ Restarting(t)
    PROVE  IInv'
<1> USE MeshAssumption DEF IInv, TypeOK, OneAtATime, flags, server, client, tasks, history, vars, At, Go
<1>1. CASE AskRestart(t)
  <2>1. TypeOK'
    <3>1. Flags'
      BY <1>1 DEF AskRestart, Flags
    <3>2. Servers'
      BY <1>1 DEF AskRestart, Servers
    <3>3. Clients'
      BY <1>1 DEF AskRestart, Clients
    <3>4. Tasks'
      BY <1>1 DEF AskRestart, Tasks
    <3> QED
      BY <3>1, <3>2, <3>3, <3>4
  <2>2. Bringup'
    BY <1>1 DEF AskRestart, Servers, Flags, Bringup
  <2>3. ClientExclusive'
    BY <1>1 DEF AskRestart, Clients, ClientExclusive
  <2>4. RestartExclusive'
    BY <1>1 DEF AskRestart, Tasks, RestartExclusive
  <2> QED
    BY <2>1, <2>2, <2>3, <2>4
<1>2. CASE TakeRestartLock(t)
  <2>1. TypeOK'
    <3>1. Flags'
      BY <1>2 DEF TakeRestartLock, Flags
    <3>2. Servers'
      BY <1>2 DEF TakeRestartLock, Servers
    <3>3. Clients'
      BY <1>2 DEF TakeRestartLock, Clients
    <3>4. Tasks'
      BY <1>2 DEF TakeRestartLock, Tasks
    <3> QED
      BY <3>1, <3>2, <3>3, <3>4
  <2>2. Bringup'
    BY <1>2 DEF TakeRestartLock, Servers, Flags, Bringup
  <2>3. ClientExclusive'
    BY <1>2 DEF TakeRestartLock, Clients, ClientExclusive
  <2>4. RestartExclusive'
    BY <1>2 DEF TakeRestartLock, Tasks, RestartExclusive
  <2> QED
    BY <2>1, <2>2, <2>3, <2>4
<1>3. CASE StopNATS(t)
  <2>1. TypeOK'
    <3>1. Flags'
      BY <1>3 DEF StopNATS, DropServer, Starting, Flags
    <3>2. Servers'
      BY <1>3 DEF StopNATS, DropServer, Starting, Servers
    <3>3. Clients'
      BY <1>3 DEF StopNATS, DropServer, Starting, Clients
    <3>4. Tasks'
      BY <1>3 DEF StopNATS, DropServer, Starting, Tasks
    <3> QED
      BY <3>1, <3>2, <3>3, <3>4
  <2>2. Bringup'
    BY <1>3 DEF StopNATS, DropServer, Starting, Servers, Flags, Bringup
  <2>3. ClientExclusive'
    BY <1>3 DEF StopNATS, DropServer, Starting, Clients, ClientExclusive
  <2>4. RestartExclusive'
    BY <1>3 DEF StopNATS, DropServer, Starting, Tasks, RestartExclusive
  <2> QED
    BY <2>1, <2>2, <2>3, <2>4
<1>4. CASE HaltClient(t)
  <2>1. TypeOK'
    <3>1. Flags'
      BY <1>4 DEF HaltClient, StopHeartbeat, Flags
    <3>2. Servers'
      BY <1>4 DEF HaltClient, StopHeartbeat, Servers
    <3>3. Clients'
      BY <1>4 DEF HaltClient, StopHeartbeat, Clients
    <3>4. Tasks'
      BY <1>4 DEF HaltClient, StopHeartbeat, Tasks
    <3> QED
      BY <3>1, <3>2, <3>3, <3>4
  <2>2. Bringup'
    BY <1>4 DEF HaltClient, StopHeartbeat, Servers, Flags, Bringup
  <2>3. ClientExclusive'
    BY <1>4 DEF HaltClient, StopHeartbeat, Clients, ClientExclusive
  <2>4. RestartExclusive'
    BY <1>4 DEF HaltClient, StopHeartbeat, Tasks, RestartExclusive
  <2> QED
    BY <2>1, <2>2, <2>3, <2>4
<1>5. CASE CloseClient(t)
  <2>1. TypeOK'
    <3>1. Flags'
      BY <1>5 DEF CloseClient, Flags
    <3>2. Servers'
      BY <1>5 DEF CloseClient, Servers
    <3>3. Clients'
      BY <1>5 DEF CloseClient, Clients
    <3>4. Tasks'
      BY <1>5 DEF CloseClient, Tasks
    <3> QED
      BY <3>1, <3>2, <3>3, <3>4
  <2>2. Bringup'
    BY <1>5 DEF CloseClient, Servers, Flags, Bringup
  <2>3. ClientExclusive'
    BY <1>5 DEF CloseClient, Clients, ClientExclusive
  <2>4. RestartExclusive'
    BY <1>5 DEF CloseClient, Tasks, RestartExclusive
  <2> QED
    BY <2>1, <2>2, <2>3, <2>4
<1>6. CASE Kill(t)
  <2>1. TypeOK'
    <3>1. Flags'
      BY <1>6 DEF Kill, Flags
    <3>2. Servers'
      BY <1>6 DEF Kill, Servers
    <3>3. Clients'
      BY <1>6 DEF Kill, Clients
    <3>4. Tasks'
      BY <1>6 DEF Kill, Tasks
    <3> QED
      BY <3>1, <3>2, <3>3, <3>4
  <2>2. Bringup'
    BY <1>6 DEF Kill, Servers, Flags, Bringup
  <2>3. ClientExclusive'
    BY <1>6 DEF Kill, Clients, ClientExclusive
  <2>4. RestartExclusive'
    BY <1>6 DEF Kill, Tasks, RestartExclusive
  <2> QED
    BY <2>1, <2>2, <2>3, <2>4
<1>7. CASE Stopped(t)
  <2>1. TypeOK'
    <3>1. Flags'
      BY <1>7 DEF Stopped, Flags
    <3>2. Servers'
      BY <1>7 DEF Stopped, Servers
    <3>3. Clients'
      BY <1>7 DEF Stopped, Clients
    <3>4. Tasks'
      BY <1>7 DEF Stopped, Tasks
    <3> QED
      BY <3>1, <3>2, <3>3, <3>4
  <2>2. Bringup'
    BY <1>7 DEF Stopped, Servers, Flags, Bringup
  <2>3. ClientExclusive'
    BY <1>7 DEF Stopped, Clients, ClientExclusive
  <2>4. RestartExclusive'
    BY <1>7 DEF Stopped, Tasks, RestartExclusive
  <2> QED
    BY <2>1, <2>2, <2>3, <2>4
<1>8. CASE Wipe(t)
  <2>1. TypeOK'
    <3>1. Flags'
      BY <1>8 DEF Wipe, Flags
    <3>2. Servers'
      BY <1>8 DEF Wipe, Servers
    <3>3. Clients'
      BY <1>8 DEF Wipe, Clients
    <3>4. Tasks'
      BY <1>8 DEF Wipe, Tasks
    <3> QED
      BY <3>1, <3>2, <3>3, <3>4
  <2>2. Bringup'
    BY <1>8 DEF Wipe, Servers, Flags, Bringup
  <2>3. ClientExclusive'
    BY <1>8 DEF Wipe, Clients, ClientExclusive
  <2>4. RestartExclusive'
    BY <1>8 DEF Wipe, Tasks, RestartExclusive
  <2> QED
    BY <2>1, <2>2, <2>3, <2>4
<1>9. CASE Disable(t)
  <2>1. TypeOK'
    <3>1. Flags'
      BY <1>9 DEF Disable, AfterReset, Flags
    <3>2. Servers'
      BY <1>9 DEF Disable, AfterReset, Servers
    <3>3. Clients'
      BY <1>9 DEF Disable, AfterReset, Clients
    <3>4. Tasks'
      BY <1>9 DEF Disable, AfterReset, Tasks
    <3> QED
      BY <3>1, <3>2, <3>3, <3>4
  <2>2. Bringup'
    BY <1>9 DEF Disable, AfterReset, Servers, Flags, Bringup
  <2>3. ClientExclusive'
    BY <1>9 DEF Disable, AfterReset, Clients, ClientExclusive
  <2>4. RestartExclusive'
    <3>1. \A u \in Task : task'[u] = IF u = t THEN [pc |-> "queued", kind |-> "restart"] ELSE task[u]
      BY <1>9 DEF Disable, AfterReset, Tasks
    <3>2. task'[t].pc \in {"queued", "done"} /\ restartLock' # t
      <4>1. task[t].kind = "reset"
        BY <1>9 DEF Disable, Tasks
      <4>2. restartLock # t
        BY <4>1 DEF RestartExclusive
      <4> QED
        BY <1>9, <3>1, <4>2 DEF Disable
    <3>3. ASSUME NEW u \in Task, u # t
          PROVE  (task'[u].kind = "restart" /\ task'[u].pc \notin {"new", "queued", "done"})
                     <=> restartLock' = u
      BY <1>9, <3>1, <3>3 DEF Disable, Tasks, RestartExclusive
    <3> QED
      BY <3>2, <3>3 DEF RestartExclusive
  <2> QED
    BY <2>1, <2>2, <2>3, <2>4
<1>10. CASE InitMesh(t)
  <2>1. TypeOK'
    <3>1. Flags'
      BY <1>10 DEF InitMesh, Flags
    <3>2. Servers'
      BY <1>10 DEF InitMesh, Servers
    <3>3. Clients'
      BY <1>10 DEF InitMesh, Clients
    <3>4. Tasks'
      BY <1>10 DEF InitMesh, Tasks
    <3> QED
      BY <3>1, <3>2, <3>3, <3>4
  <2>2. Bringup'
    BY <1>10 DEF InitMesh, Servers, Flags, Bringup
  <2>3. ClientExclusive'
    BY <1>10 DEF InitMesh, Clients, ClientExclusive
  <2>4. RestartExclusive'
    <3>1. \A u \in Task : task'[u] = IF u = t THEN [pc |-> "done", kind |-> task[t].kind] ELSE task[u]
      BY <1>10 DEF InitMesh, Tasks
    <3>2. task'[t].pc \in {"queued", "done"} /\ restartLock' # t
      BY <1>10, <3>1 DEF InitMesh, Tasks, RestartExclusive
    <3>3. ASSUME NEW u \in Task, u # t
          PROVE  (task'[u].kind = "restart" /\ task'[u].pc \notin {"new", "queued", "done"})
                     <=> restartLock' = u
      <4>1. task[t].kind = "restart" /\ task[t].pc = "init"
        BY <1>10 DEF InitMesh, Tasks
      <4>2. restartLock = t
        BY <4>1 DEF RestartExclusive
      <4>3. restartLock # u /\ restartLock' # u
        BY <1>10, <3>3, <4>2 DEF InitMesh
      <4>4. ~(task[u].kind = "restart" /\ task[u].pc \notin {"new", "queued", "done"})
        BY <4>3 DEF RestartExclusive
      <4> QED
        BY <3>1, <3>3, <4>3, <4>4
    <3> QED
      BY <3>2, <3>3 DEF RestartExclusive
  <2> QED
    BY <2>1, <2>2, <2>3, <2>4
<1> QED
  BY <1>1, <1>2, <1>3, <1>4, <1>5, <1>6, <1>7, <1>8, <1>9, <1>10 DEF Restarting

(* Every step keeps the invariant. *)
LEMMA MeshStep == IInv /\ [Next]_vars => IInv'
<1> SUFFICES ASSUME IInv, [Next]_vars PROVE IInv'
  OBVIOUS
<1>1. CASE UNCHANGED vars
  BY <1>1 DEF IInv, TypeOK, Flags, Servers, Clients, Tasks, Bringup, OneAtATime, ClientExclusive,
    RestartExclusive, vars, flags, server, client, tasks, history
<1>2. CASE Next
  BY <1>2, MeshServerStep, MeshClientStep, MeshTaskStep DEF Next
<1> QED
  BY <1>1, <1>2

(* The invariant, and with it each of its parts. *)
THEOREM MeshInvariant == Spec => []IInv
<1> QED
  BY MeshInit, MeshStep, PTL DEF Spec

(* NATSStarted promises a server that is there, whoever reads it and when   *)
(* (FlagTruthful), however often the mesh is taken down meanwhile.          *)
THEOREM FlagIsTruthful == Spec => []FlagTruthful
<1>1. IInv => FlagTruthful
  BY DEF IInv, Bringup, FlagTruthful
<1> QED
  BY <1>1, MeshInvariant, PTL

(* clientConfigLock and restartMutex exclude (OneAtATime). *)
THEOREM LocksExclude == Spec => []OneAtATime
<1>1. IInv => OneAtATime
  BY DEF IInv
<1> QED
  BY <1>1, MeshInvariant, PTL

(* The shape of the state, and which kind of task is at which step. *)
THEOREM MeshTypeCorrect == Spec => []TypeOK
<1>1. IInv => TypeOK
  BY DEF IInv
<1> QED
  BY <1>1, MeshInvariant, PTL
=============================================================================
