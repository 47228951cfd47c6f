----------------------------- MODULE MeshProps -----------------------------
(* What the mesh promises across restarts, resets and failures. *)
EXTENDS Mesh

Flags ==
    /\ enabled \in BOOLEAN /\ configured \in BOOLEAN /\ nebulaUp \in BOOLEAN /\ natsUp \in BOOLEAN
    /\ ns \in BOOLEAN /\ supervised \in BOOLEAN /\ nc \in BOOLEAN /\ loop \in BOOLEAN
    /\ overlapped \in BOOLEAN

Servers ==
    /\ process \in {"nil", "up", "dead"} /\ start \in {"none", "entered", "readying"}
    /\ watchdog \in {"off", "check", "asleep", "calling", "inside"}
    /\ waiting \in Nat /\ faults \in Nat

Clients ==
    /\ call \in [Caller -> {"idle", "locking", "connecting", "napping", "hooking"}]
    /\ clientLock \in Caller \cup {Nobody}
    /\ beat \in [waiting : Nat, running : BOOLEAN, strays : Nat]

Tasks ==
    /\ restartLock \in Task \cup {Nobody}
    /\ task \in [Task -> [pc : {"new", "queued", "stopNATS", "halt", "close", "kill", "reaping",
                                "killed", "wipe", "disable", "init", "done"},
                          kind : {"restart", "reaction", "reset"}]]
    /\ \A t \in Task :
          /\ task[t].pc \in {"kill", "reaping", "killed"} => task[t].kind # "reaction"
          /\ task[t].pc \in {"wipe", "disable"} => task[t].kind = "reset"
          /\ task[t].pc = "init" => task[t].kind = "restart"

TypeOK == Flags /\ Servers /\ Clients /\ Tasks

(* The flag everybody reads without a lock (NATSStarted) never promises a   *)
(* server that is not there: StartNATS sets it last, StopNATS and the       *)
(* bring-up that fails take it and the server away under one mutex, while   *)
(* stop(), Init and the monitor clear it at any time under another.         *)
FlagTruthful == natsUp => ns

(* The locks exclude: whoever is inside InitNATSClient's critical section   *)
(* holds clientConfigLock, though it is let go and taken again in the       *)
(* middle of the retry loop; and the steps of RestartNebula belong to the   *)
(* holder of restartMutex, whatever a reaction or a reset does beside it.   *)
ClientExclusive == \A c \in Caller : call[c] \in {"connecting", "hooking"} <=> clientLock = c

RestartExclusive ==
    \A t \in Task :
        (task[t].kind = "restart" /\ task[t].pc \notin {"new", "queued", "done"}) <=> restartLock = t

OneAtATime == ClientExclusive /\ RestartExclusive

(* A node that left runs none of it. *)
Down == process = "nil" /\ ~ns /\ ~nc

Serving == process = "up" /\ nebulaUp /\ natsUp /\ ns /\ nc /\ loop /\ (beat.running \/ beat.strays > 0)

(* Every restart, reaction and reset that was asked for ends: the waits for *)
(* the monitor, for natsStartMutex, clientConfigLock and restartMutex never *)
(* close a circle (stop(), RestartNebula, StopNATS, CloseNATSClient).  Each *)
(* is made once and ends for good, so that in the end none is under way.    *)
RestartsEnd == <>[](\A t \in Task : At(t, "new") \/ At(t, "done"))

(* When bring-ups and teardowns do not cross, an enabled node whose nebula  *)
(* stays up ends up serving, with its client, its loop and its heartbeat,   *)
(* through failed bring-ups, crashes and restarts before that.              *)
MeshComesUp == <>[](enabled /\ process = "up" /\ ~overlapped) => <>[]Serving

(* ... and a node that left ends up with nothing running (ResetNebula).     *)
LeavingIsClean == (<>[](~enabled /\ ~overlapped)) => <>[]Down
=============================================================================
