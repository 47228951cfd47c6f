------------------------------- MODULE Docker -------------------------------
(***************************************************************************)
(* How containers are changed (src/src/docker): an edit stops, removes,    *)
(* creates and starts the container again under DockerNetworkLock, puts    *)
(* the old one back when that fails, and recreates the containers that     *)
(* live in its network; a service is created container by container, with  *)
(* a list of what to undo; unused networks are cleaned up; an operator     *)
(* starts, stops and removes containers.                                   *)
(*                                                                         *)
(* The docker daemon is external: what its calls do, and that any of them  *)
(* may fail.  A configuration is the set of requests it contains.          *)
(***************************************************************************)
EXTENDS Integers, Sequences, FiniteSets

CONSTANTS
    Name,       \* containers
    Task,       \* requests, each made once
    Kind,       \* "edit" (by identifier), "recreate" (by name), "service"
    Target,     \* the containers a request is about
    Parent,     \* the container whose network a container lives in, or None
    Existing,   \* the containers that exist at the start
    Number,     \* the identifiers that they have, or had
    Home,       \* the network the containers of the start are on
    None,
    MaxTargets, \* bound: containers that all the requests begun are about
    MaxTrouble  \* bound: calls that fail, and an operator's own starts, stops, removals

ASSUME DockerAssumption ==
    /\ Kind \in [Task -> {"edit", "recreate", "service"}]
    /\ Target \in [Task -> SUBSET Name] /\ Existing \subseteq Name
    /\ \A t \in Task : Kind[t] # "service" => \E n \in Name : Target[t] = {n}
    /\ Parent \in [Name -> Name \cup {None}] /\ None \notin Name \cup Task
    /\ \A n \in Name : Parent[n] # n
    /\ IsFiniteSet(Name) /\ Number \in [Name -> 1..Cardinality(Name)]
    /\ \A m, n \in Name : Number[m] = Number[n] => m = n
    /\ \A t \in Task : Kind[t] = "service" => \A n \in Target[t] : Parent[n] \in Target[t] \cup {None}
    /\ Home \notin Task
    /\ MaxTargets \in Nat /\ MaxTrouble \in Nat

VARIABLES
    box,        \* the daemon's containers: [id, conf, up, joins, on], or None
    lastId,     \* identifiers given out
    nets,       \* networks: Home, and one per service
    lock,       \* DockerNetworkLock
    pc,
    ask,        \* what the handler inspected: [id, conf]
    work,       \* the edit a request is in: [name, id, conf, was, todo, nested, failed]
    undo,       \* rollbackActions
    faults, hands

daemon == <<box, lastId, nets>>
bounds == <<faults, hands>>
vars   == <<daemon, lock, pc, ask, work, undo, bounds>>

(* A container of the start, and the network it has or shares. *)
AtStart(n) ==
    [id |-> Number[n], conf |-> {}, up |-> TRUE,
     joins |-> IF Parent[n] = None THEN 0 ELSE Number[Parent[n]],
     on |-> IF Parent[n] = None THEN {Home} ELSE {}]

NoAsk    == [id |-> 0, conf |-> {}]
NoWork   == [name |-> None, id |-> 0, conf |-> {}, was |-> None, todo |-> {},
             nested |-> FALSE, failed |-> FALSE]

Init ==
    /\ box = [n \in Name |-> IF n \in Existing THEN AtStart(n) ELSE None]
    /\ lastId = Cardinality(Name)
    /\ nets = {Home}
    /\ lock = None
    /\ pc = [t \in Task |-> "new"] /\ ask = [t \in Task |-> NoAsk]
    /\ work = [t \in Task |-> NoWork] /\ undo = [t \in Task |-> <<>>]
    /\ faults = 0 /\ hands = 0

Go(t, l) == pc' = [pc EXCEPT ![t] = l]
Works    == UNCHANGED <<faults, hands>>
Fails    == faults + hands < MaxTrouble /\ faults' = faults + 1 /\ UNCHANGED hands

-----------------------------------------------------------------------------
(* The daemon.                                                              *)

Here(n)  == box[n] # None
Live(id) == \E n \in Name : Here(n) /\ box[n].id = id /\ box[n].up

(* ContainerCreate: the name must be free, and a shared network there. *)
Creatable(n) == ~Here(n) /\ (Parent[n] # None => Here(Parent[n]))

NewBox(n, conf, on) ==
    [id |-> lastId + 1, conf |-> conf, up |-> FALSE,
     joins |-> IF Parent[n] = None THEN 0 ELSE box[Parent[n]].id,
     on |-> IF Parent[n] = None THEN on \cap nets ELSE {}]

CreateBox(n, conf, on) ==
    /\ box' = [box EXCEPT ![n] = NewBox(n, conf, on)]
    /\ lastId' = lastId + 1
    /\ UNCHANGED nets

SetBox(n, b)  == box' = [box EXCEPT ![n] = b] /\ UNCHANGED <<lastId, nets>>
Halted(n)     == [box[n] EXCEPT !.up = FALSE]
Started(n)    == [box[n] EXCEPT !.up = TRUE]
Startable(n)  == Here(n) /\ (box[n].joins # 0 => Live(box[n].joins))

-----------------------------------------------------------------------------
(* EditContainer.                                                           *)

TargetOf(t) == CHOOSE n \in Target[t] : TRUE

MayBegin(t) ==
    /\ pc[t] = "new"
    /\ LET begun == {s \in Task : pc[s] # "new"} \cup {t}
       IN  Cardinality(UNION {{s} \X Target[s] : s \in begun}) <= MaxTargets

(* The handler inspects the container and makes its change to what it saw. *)
Ask(t) ==
    /\ Kind[t] # "service" /\ MayBegin(t) /\ Here(TargetOf(t))
    /\ ask' = [ask EXCEPT ![t] = [id |-> box[TargetOf(t)].id,
                                  conf |-> IF Kind[t] = "edit" THEN box[TargetOf(t)].conf \cup {t}
                                           ELSE box[TargetOf(t)].conf]]
    /\ Go(t, "asked")
    /\ UNCHANGED <<daemon, lock, work, undo, bounds>>

(* Mutant: every request names the container. *)
ByName(t) == 0

(* The identifier a request refers to; 0 for one that gives the name. *)
RefersTo(t) == IF Kind[t] = "edit" THEN ask[t].id ELSE 0

(* What a frame refers to is there. *)
Found(w) == Here(w.name) /\ w.id \in {0, box[w.name].id}

(* Mutant: the lock is given back only by an edit that went well. *)
LeaveLocked(t, outcome) ==
    /\ Go(t, IF work[t].nested THEN "dependants" ELSE outcome)
    /\ lock' = IF outcome = "restored" /\ ~work[t].nested THEN None ELSE lock

(* The edit is over: a nested one goes on with the next container. *)
Leave(t, outcome) ==
    /\ Go(t, IF work[t].nested THEN "dependants" ELSE outcome)
    /\ lock' = IF work[t].nested THEN lock ELSE None

(* DockerNetworkLock, the inspection of what is there, and the image. *)
Enter(t) ==
    /\ pc[t] = "asked" /\ lock = None
    /\ LET w == [NoWork EXCEPT !.name = TargetOf(t), !.id = RefersTo(t), !.conf = ask[t].conf]
       IN  \/ /\ Found(w) /\ Works
              /\ work' = [work EXCEPT ![t] = [w EXCEPT !.was = box[w.name]]]
              /\ lock' = t /\ Go(t, "stopping")
           \/ /\ IF Found(w) THEN Fails ELSE Works
              /\ Go(t, "refused")
              /\ UNCHANGED <<lock, work>>
    /\ UNCHANGED <<daemon, ask, undo>>

Stop(t) ==
    /\ pc[t] = "stopping"
    /\ LET n == work[t].name
       IN  \/ /\ Found(work[t]) /\ Works
              /\ SetBox(n, Halted(n))
              /\ Go(t, "removing") /\ UNCHANGED lock
           \/ /\ IF Found(work[t]) THEN Fails ELSE Works
              /\ Leave(t, "refused") /\ UNCHANGED daemon
    /\ UNCHANGED <<ask, work, undo>>

(* Without force: not a container that somebody has started again. *)
Remove(t) ==
    /\ pc[t] = "removing"
    /\ LET n == work[t].name
           can == Found(work[t]) /\ ~box[n].up
       IN  \/ /\ can /\ Works
              /\ SetBox(n, None)
              /\ Go(t, "waiting") /\ UNCHANGED lock
           \/ /\ IF can THEN Fails ELSE Works
              /\ Leave(t, "halfway") /\ UNCHANGED daemon
    /\ UNCHANGED <<ask, work, undo>>

(* Until the container cannot be found. *)
WaitDestroyed(t) ==
    /\ pc[t] = "waiting" /\ ~Found(work[t])
    /\ Go(t, "creating")
    /\ UNCHANGED <<daemon, lock, ask, work, undo, bounds>>

(* Created, and connected to the networks the old one was on. *)
Create(t) ==
    /\ pc[t] = "creating"
    /\ LET w == work[t]
       IN  \/ /\ Creatable(w.name) /\ Works
              /\ CreateBox(w.name, w.conf, w.was.on)
              /\ work' = [work EXCEPT ![t].id = lastId + 1]
              /\ Go(t, "starting")
           \/ /\ IF Creatable(w.name) THEN Fails ELSE Works
              /\ Go(t, "reverting")
              /\ UNCHANGED <<daemon, work>>
    /\ UNCHANGED <<lock, ask, undo>>

(* Mutant: nobody follows. *)
NobodyFollows(t) == {}

(* Mutant: identifiers where names are meant. *)
DependantIds(t) == {box[n].id : n \in {m \in Name : Here(m) /\ Parent[m] = work[t].name}}

(* RecreateDepedencies: those whose label says that they share its network. *)
Dependants(t) == {n \in Name : Here(n) /\ Parent[n] = work[t].name}

Start(t) ==
    /\ pc[t] = "starting" /\ Found(work[t]) /\ Startable(work[t].name) /\ Works
    /\ SetBox(work[t].name, Started(work[t].name))
    /\ work' = [work EXCEPT ![t].todo = @ \cup Dependants(t)]
    /\ Go(t, "dependants")
    /\ UNCHANGED <<lock, ask, undo>>

(* Mutant: the broken container stays. *)
KeepsBroken(t) == box

(* What killing and removing the new container leaves. *)
BrokenRemoved(t) == [box EXCEPT ![work[t].name] = IF Found(work[t]) THEN None ELSE @]

(* It is put away, errors ignored, and the old one created again. *)
StartFails(t) ==
    /\ pc[t] = "starting"
    /\ IF Found(work[t]) /\ Startable(work[t].name) THEN Fails ELSE Works
    /\ box' = BrokenRemoved(t)
    /\ Go(t, "reverting")
    /\ UNCHANGED <<lastId, nets, lock, ask, work, undo>>

RevertCreate(t) ==
    /\ pc[t] = "reverting"
    /\ LET w == work[t]
       IN  \/ /\ Creatable(w.name) /\ Works
              /\ CreateBox(w.name, w.was.conf, w.was.on)
              /\ work' = [work EXCEPT ![t].id = lastId + 1]
              /\ Go(t, "restarting") /\ UNCHANGED lock
           \/ /\ IF Creatable(w.name) THEN Fails ELSE Works
              /\ Leave(t, "lost")
              /\ UNCHANGED <<daemon, work>>
    /\ UNCHANGED <<ask, undo>>

RevertStart(t) ==
    /\ pc[t] = "restarting"
    /\ LET can == Found(work[t]) /\ Startable(work[t].name)
       IN  \/ can /\ Works /\ SetBox(work[t].name, Started(work[t].name)) /\ Leave(t, "restored")
           \/ (IF can THEN Fails ELSE Works) /\ UNCHANGED daemon /\ Leave(t, "broken")
    /\ UNCHANGED <<ask, work, undo>>

(* The next container that shared the network, edited without the lock. *)
NextDependant(t) ==
    /\ pc[t] = "dependants"
    /\ LET w == work[t]
       IN  \/ \E n \in w.todo :
                 IF Here(n)
                 THEN /\ work' = [work EXCEPT ![t] =
                                    [name |-> n, id |-> box[n].id, conf |-> box[n].conf,
                                     was |-> box[n], todo |-> w.todo \ {n}, nested |-> TRUE,
                                     failed |-> FALSE]]
                      /\ Go(t, "stopping") /\ UNCHANGED lock
                 ELSE /\ work' = [work EXCEPT ![t].todo = @ \ {n}]
                      /\ UNCHANGED <<pc, lock>>
           \/ w.todo = {} /\ Go(t, "done") /\ lock' = None /\ UNCHANGED work
    /\ UNCHANGED <<daemon, ask, undo, bounds>>

-----------------------------------------------------------------------------
(* CreateService and Rollback.  ConfigLock keeps services apart.            *)

Alone(t) == \A s \in Task \ {t} : Kind[s] = "service" => pc[s] \in {"new", "done", "undone"}

Undo(t, entry) == undo' = [undo EXCEPT ![t] = Append(@, entry)]
ToUndo(kind, n, b) == [kind |-> kind, name |-> n, was |-> b]

(* The network of the service, unless it exists. *)
ServiceNetwork(t) ==
    /\ Kind[t] = "service" /\ MayBegin(t) /\ Alone(t)
    /\ work' = [work EXCEPT ![t].todo = Target[t]]
    /\ \/ /\ Works /\ nets' = nets \cup {t}
          /\ IF t \in nets THEN UNCHANGED undo ELSE Undo(t, ToUndo("network", None, None))
          /\ Go(t, "pulling")
       \/ t \notin nets /\ Fails /\ Go(t, "undoing") /\ UNCHANGED <<nets, undo>>
    /\ UNCHANGED <<box, lastId, lock, ask>>

ServicePull(t) ==
    /\ pc[t] = "pulling"
    /\ \/ Works /\ Go(t, "next")
       \/ Fails /\ Go(t, "undoing")
    /\ UNCHANGED <<daemon, lock, ask, work, undo>>

(* A container of that name is stopped first ... *)
ServiceNext(t) ==
    /\ pc[t] = "next"
    /\ \E n \in work[t].todo :
          /\ work' = [work EXCEPT ![t].name = n, ![t].was = box[n]]
          /\ \/ ~Here(n) /\ Works /\ Go(t, "making") /\ UNCHANGED daemon
             \/ Here(n) /\ Works /\ SetBox(n, Halted(n)) /\ Go(t, "emptying")
             \/ Here(n) /\ Fails /\ Go(t, "undoing") /\ UNCHANGED daemon
    /\ UNCHANGED <<lock, ask, undo>>

(* ... and removed; only then is it noted that it was there. *)
ServiceRemove(t) ==
    /\ pc[t] = "emptying"
    /\ LET n == work[t].name
           can == Here(n) /\ ~box[n].up
       IN  \/ /\ can /\ Works
              /\ SetBox(n, None)
              /\ Undo(t, ToUndo("restore", n, work[t].was))
              /\ Go(t, "making")
           \/ /\ IF can THEN Fails ELSE Works
              /\ Go(t, "undoing") /\ UNCHANGED <<daemon, undo>>
    /\ UNCHANGED <<lock, ask, work>>

ServiceMake(t) ==
    /\ pc[t] = "making"
    /\ LET n == work[t].name
       IN  \/ /\ Creatable(n) /\ Works
              /\ CreateBox(n, {t}, {})
              /\ Undo(t, ToUndo("remove", n, None))
              /\ Go(t, "joining")
           \/ /\ IF Creatable(n) THEN Fails ELSE Works
              /\ Go(t, "undoing") /\ UNCHANGED <<daemon, undo>>
    /\ UNCHANGED <<lock, ask, work>>

(* Connected, if it has a network of its own; the next one, or all are      *)
(* started.                                                                 *)
ServiceJoin(t) ==
    /\ pc[t] = "joining"
    /\ LET n == work[t].name
           own == Parent[n] = None
           can == Here(n) /\ t \in nets
           left == work[t].todo \ {n}
       IN  \/ /\ own => can
              /\ Works
              /\ IF own THEN SetBox(n, [box[n] EXCEPT !.on = @ \cup {t}]) ELSE UNCHANGED daemon
              /\ work' = [work EXCEPT ![t].todo = IF left = {} THEN Target[t] ELSE left]
              /\ Go(t, IF left = {} THEN "launching" ELSE "next")
           \/ /\ own
              /\ IF can THEN Fails ELSE Works
              /\ Go(t, "undoing") /\ UNCHANGED <<daemon, work>>
    /\ UNCHANGED <<lock, ask, undo>>

(* ReOrderServices: a container after the one whose network it shares. *)
MayStart(t) == {n \in work[t].todo : Parent[n] \notin work[t].todo}

ServiceStart(t) ==
    /\ pc[t] = "launching"
    /\ \/ \E n \in MayStart(t) :
             \/ /\ Startable(n) /\ Works
                /\ SetBox(n, Started(n))
                /\ work' = [work EXCEPT ![t].todo = @ \ {n}]
                /\ UNCHANGED pc
             \/ /\ IF Startable(n) THEN Fails ELSE Works
                /\ Go(t, "undoing") /\ UNCHANGED <<daemon, work>>
       \/ work[t].todo = {} /\ Works /\ Go(t, "done") /\ UNCHANGED <<daemon, work>>
    /\ UNCHANGED <<lock, ask, undo>>

(* Mutant: from the first to the last. *)
OldestFirst(t) == [next |-> Head(undo[t]), rest |-> Tail(undo[t])]

NextUndo(t) == [next |-> undo[t][Len(undo[t])], rest |-> SubSeq(undo[t], 1, Len(undo[t]) - 1)]

(* Rollback; a container that was there is created and started again.  A    *)
(* step that fails is reported, and the rest goes on.                       *)
Rollback(t) ==
    /\ pc[t] = "undoing" /\ undo[t] # <<>>
    /\ undo' = [undo EXCEPT ![t] = NextUndo(t).rest]
    /\ LET a == NextUndo(t).next
       IN  \/ a.kind = "network" /\ Works /\ nets' = nets \ {t} /\ UNCHANGED <<box, lastId, work, pc>>
           \/ /\ a.kind = "remove" /\ Works
              /\ SetBox(a.name, None) /\ UNCHANGED <<work, pc>>
           \/ /\ a.kind = "restore" /\ Works /\ Creatable(a.name)
              /\ CreateBox(a.name, a.was.conf, a.was.on)
              /\ work' = [work EXCEPT ![t].name = a.name, ![t].id = lastId + 1]
              /\ Go(t, "resuming")
           \/ /\ IF a.kind = "restore" /\ ~Creatable(a.name) THEN Works /\ UNCHANGED work
                 ELSE Fails /\ work' = [work EXCEPT ![t].failed = TRUE]
              /\ UNCHANGED <<daemon, pc>>
    /\ UNCHANGED <<lock, ask>>

RollbackStart(t) ==
    /\ pc[t] = "resuming"
    /\ LET can == Found(work[t]) /\ Startable(work[t].name)
       IN  \/ can /\ Works /\ SetBox(work[t].name, Started(work[t].name)) /\ UNCHANGED work
           \/ /\ IF can THEN Fails /\ work' = [work EXCEPT ![t].failed = TRUE]
                 ELSE Works /\ UNCHANGED work
              /\ UNCHANGED daemon
    /\ Go(t, "undoing")
    /\ UNCHANGED <<lock, ask, undo>>

RollbackEnds(t) ==
    /\ pc[t] = "undoing" /\ undo[t] = <<>>
    /\ Go(t, "undone")
    /\ UNCHANGED <<daemon, lock, ask, work, undo, bounds>>

-----------------------------------------------------------------------------
(* Mutant: the clean-up does not wait for an edit. *)
AnyTime == TRUE

CleanUpMayRun == lock = None

(* NetworkCleanUp: networks no container is on. *)
NetworkCleanUp ==
    /\ CleanUpMayRun
    /\ LET unused == {x \in nets : \A n \in Name : Here(n) => x \notin box[n].on}
       IN  unused # {} /\ nets' = nets \ unused
    /\ UNCHANGED <<box, lastId, lock, pc, ask, work, undo, bounds>>

(* ManageContainer, which takes no lock. *)
Manage(n) ==
    /\ Here(n) /\ faults + hands < MaxTrouble /\ hands' = hands + 1 /\ UNCHANGED faults
    /\ \/ box[n].up /\ SetBox(n, Halted(n))
       \/ ~box[n].up /\ Startable(n) /\ SetBox(n, Started(n))
       \/ ~box[n].up /\ SetBox(n, None)
    /\ UNCHANGED <<lock, pc, ask, work, undo>>

Editing(t) ==
    \/ Enter(t) \/ Stop(t) \/ Remove(t) \/ WaitDestroyed(t) \/ Create(t) \/ Start(t) \/ StartFails(t)
    \/ RevertCreate(t) \/ RevertStart(t) \/ NextDependant(t)

Serving(t) ==
    \/ ServicePull(t) \/ ServiceNext(t) \/ ServiceRemove(t) \/ ServiceMake(t) \/ ServiceJoin(t)
    \/ ServiceStart(t) \/ Rollback(t) \/ RollbackStart(t) \/ RollbackEnds(t)

Next ==
    \/ \E t \in Task : Ask(t) \/ Editing(t) \/ ServiceNetwork(t) \/ Serving(t)
    \/ NetworkCleanUp \/ \E n \in Name : Manage(n)

Spec == Init /\ [][Next]_vars

(* A request that has begun goes on; each takes DockerNetworkLock once. *)
Fairness == \A t \in Task : WF_vars(Editing(t) \/ Serving(t))

FairSpec == Spec /\ Fairness
=============================================================================
