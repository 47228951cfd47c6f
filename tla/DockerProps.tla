----------------------------- MODULE DockerProps -----------------------------
(* What changing containers promises. *)
EXTENDS Docker

Box == [id : Nat \ {0}, conf : SUBSET Task, up : BOOLEAN, joins : Nat, on : SUBSET (Task \cup {Home})]

(* No container is not a container.                                         *)
ASSUME NoneAssumption == None \notin Box

Over == {"refused", "halfway", "done", "restored", "lost", "broken", "undone"}

TypeOK ==
    /\ box \in [Name -> Box \cup {None}] /\ lastId \in Nat
    /\ nets \subseteq Task \cup {Home} /\ lock \in Task \cup {None}
    /\ pc \in [Task -> Over \cup {"new", "asked", "stopping", "removing", "waiting", "creating", "starting",
                                  "reverting", "restarting", "dependants", "pulling", "next", "emptying",
                                  "making", "joining", "launching", "undoing", "resuming"}]
    /\ ask \in [Task -> [id : Nat, conf : SUBSET Task]]
    /\ work \in [Task -> [name : Name \cup {None}, id : Nat, conf : SUBSET Task, was : Box \cup {None},
                          todo : SUBSET Name, nested : BOOLEAN, failed : BOOLEAN]]
    /\ undo \in [Task -> Seq([kind : {"network", "remove", "restore"}, name : Name \cup {None},
                              was : Box \cup {None}])]
    /\ \A n \in Name : Here(n) => box[n].id <= lastId
    /\ faults \in 0..MaxTrouble /\ hands \in 0..MaxTrouble

NoService  == \A t \in Task : Kind[t] = "service" => pc[t] = "new"
OnlyEdits  == NoService /\ hands = 0
InEdit(n)  == \E t \in Task : pc[t] \notin Over \cup {"new", "asked"} /\ work[t].name = n

(* An edit that was answered OK is part of the container for good: whoever  *)
(* comes after it has seen it, is refused because the identifier is gone,   *)
(* or is a recreation by name of that container which had looked before     *)
(* (docker.go:587).  A revert puts back what was there when the lock was    *)
(* taken, not earlier.                                                      *)
EditsStay ==
    NoService =>
        \A e \in Task : (Kind[e] = "edit" /\ pc[e] = "done" /\ Here(TargetOf(e))) =>
            \/ e \in box[TargetOf(e)].conf
            \/ \E r \in Task : /\ Kind[r] = "recreate" /\ TargetOf(r) = TargetOf(e)
                             /\ pc[r] # "new" /\ e \notin ask[r].conf

(* One call that fails, whichever, never costs a container: it is created   *)
(* again as it was (docker.go:318-357), dependants included, and one that   *)
(* owns its network runs again, unless the edit stopped it and could not    *)
(* remove it (docker.go:237).                                               *)
ContainersKept ==
    (OnlyEdits /\ faults <= 1) =>
        \A n \in Existing :
            \/ InEdit(n)
            \/ Here(n) /\ (Parent[n] = None => box[n].up \/ \E t \in Task : pc[t] = "halfway")

(* The clean-up never takes the network of a container that is being edited *)
(* and is on no network meanwhile: that is what DockerNetworkLock is for.   *)
NetworksKept ==
    (OnlyEdits /\ faults <= 1) =>
        /\ Home \in nets
        /\ \A n \in Existing : (Parent[n] = None /\ Here(n)) => Home \in box[n].on

(* After edits that met no failure every container that shares a network    *)
(* shares it with the container of that name there is now.                  *)
DependantsFollow ==
    (OnlyEdits /\ faults = 0 /\ lock = None) =>
        \A n \in Name : (Here(n) /\ Parent[n] # None /\ Here(Parent[n])) => box[n].joins = box[Parent[n]].id

(* A service was undone, nothing else happened, and no call that the        *)
(* rollback made was failed by the daemon.                                  *)
Undone(t) ==
    /\ pc[t] = "undone" /\ ~work[t].failed /\ hands = 0
    /\ \A s \in Task \ {t} : pc[s] = "new"

(* Then the containers are those there were before, as they were, and its   *)
(* network is gone: api_blueprint.go:220.                                   *)
RolledBack ==
    \A t \in Task : Undone(t) =>
        /\ t \notin nets
        /\ \A n \in Name : /\ Here(n) <=> n \in Existing
                           /\ Here(n) => box[n].conf = {}

(* Every edit comes to an end, and with it DockerNetworkLock is free again, *)
(* unless a service takes the name a recreation waits to see disappear.     *)
EditsEnd ==
    \A t \in Task : pc[t] = "asked" ~>
        (pc[t] \in Over \/ \E r \in Task : Kind[r] = "recreate" /\ pc[r] = "waiting" /\ ~NoService)
=============================================================================
