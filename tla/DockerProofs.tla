---------------------------- MODULE DockerProofs ----------------------------
(***************************************************************************)
(* Proofs about Docker, for any containers, requests and bounds: the shape *)
(* of the state, and that edits are never lost to one another.             *)
(***************************************************************************)
EXTENDS DockerProps, FiniteSetTheorems, TLAPS

-----------------------------------------------------------------------------
(* Type correctness.                                                        *)

(* Where an edit is between DockerNetworkLock and its end, and where a      *)
(* service is once it has begun.                                            *)
Body     == {"stopping", "removing", "waiting", "creating", "starting", "reverting", "restarting"}
InFlight == Body \cup {"dependants"}
Serves   == {"pulling", "next", "emptying", "making", "joining", "launching", "undoing", "resuming"}
Pcs      == Over \cup InFlight \cup Serves \cup {"new", "asked"}

DaemonOK ==
    /\ box \in [Name -> Box \cup {None}] /\ lastId \in Nat
    /\ nets \subseteq Task \cup {Home}
    /\ \A n \in Name : Here(n) => box[n].id <= lastId

Frame == [name : Name \cup {None}, id : Nat, conf : SUBSET Task, was : Box \cup {None},
          todo : SUBSET Name, nested : BOOLEAN, failed : BOOLEAN]

FramesOK ==
    /\ pc \in [Task -> Pcs] /\ lock \in Task \cup {None}
    /\ work \in [Task -> Frame]
    /\ \A t \in Task :
          /\ pc[t] \in Body \cup {"emptying", "making", "joining", "resuming"} => work[t].name \in Name
          /\ pc[t] \in Body \cup {"emptying"} => work[t].was \in Box

AskOK == ask \in [Task -> [id : Nat, conf : SUBSET Task]]

(* What there is to undo names what it is about. *)
Entry == {a \in [kind : {"network", "remove", "restore"}, name : Name \cup {None}, was : Box \cup {None}] :
             /\ a.kind # "network" => a.name \in Name
             /\ a.kind = "restore" => a.was \in Box}

UndoOK == undo \in [Task -> Seq(Entry)]

BoundsOK == faults \in 0..MaxTrouble /\ hands \in 0..MaxTrouble

Shape == DaemonOK /\ FramesOK /\ AskOK /\ UndoOK /\ BoundsOK

LEMMA ShapeTypes == Shape => TypeOK
<1> SUFFICES ASSUME Shape PROVE TypeOK  OBVIOUS
<1>1. undo \in [Task -> Seq([kind : {"network", "remove", "restore"}, name : Name \cup {None},
                              was : Box \cup {None}])]
  <2>1. ASSUME NEW S, NEW T, S \subseteq T PROVE Seq(S) \subseteq Seq(T)  BY <2>1
  <2>2. Entry \subseteq [kind : {"network", "remove", "restore"}, name : Name \cup {None},
                         was : Box \cup {None}]
    BY DEF Entry
  <2>3. Seq(Entry) \subseteq Seq([kind : {"network", "remove", "restore"}, name : Name \cup {None},
                                 was : Box \cup {None}])
    BY <2>1, <2>2
  <2> QED  BY <2>3 DEF Shape, UndoOK
<1> QED
  BY <1>1 DEF Shape, DaemonOK, FramesOK, AskOK, BoundsOK, TypeOK, Frame, Pcs, InFlight, Body, Serves, Over

LEMMA SetBoxOK ==
    ASSUME DaemonOK, NEW n \in Name, NEW b \in Box \cup {None}, b # None => b.id <= lastId, SetBox(n, b)
    PROVE  DaemonOK'
BY DEF DaemonOK, SetBox, Here

LEMMA ToggleOK ==
    ASSUME DaemonOK, NEW n \in Name, Here(n)
    PROVE  /\ Halted(n) \in Box /\ Halted(n).id <= lastId
           /\ Started(n) \in Box /\ Started(n).id <= lastId
BY DEF DaemonOK, Here, Halted, Started, Box

LEMMA CreateBoxOK ==
    ASSUME DaemonOK, NEW n \in Name, NEW conf \in SUBSET Task, NEW on, Creatable(n), CreateBox(n, conf, on)
    PROVE  DaemonOK' /\ lastId' \in Nat
<1>1. lastId + 1 \in Nat /\ lastId + 1 > lastId /\ lastId + 1 # 0  BY DEF DaemonOK
<1>2. Parent[n] # None => box[Parent[n]] \in Box
  BY DockerAssumption DEF Creatable, Here, DaemonOK
<1>3. NewBox(n, conf, on) \in Box
  <2>1. (IF Parent[n] = None THEN 0 ELSE box[Parent[n]].id) \in Nat  BY <1>2 DEF Box
  <2>2. (IF Parent[n] = None THEN on \cap nets ELSE {}) \in SUBSET (Task \cup {Home})  BY DEF DaemonOK
  <2> QED  BY <1>1, <2>1, <2>2 DEF NewBox, Box
<1>4. NewBox(n, conf, on).id = lastId + 1  BY DEF NewBox
<1>5. box' = [box EXCEPT ![n] = NewBox(n, conf, on)] /\ lastId' = lastId + 1 /\ nets' = nets
  BY DEF CreateBox
<1>6. ASSUME NEW m \in Name, box'[m] # None PROVE box'[m].id <= lastId'
  <2>1. CASE m = n  BY <1>1, <1>4, <1>5, <2>1 DEF DaemonOK
  <2>2. CASE m # n
    <3>1. box'[m] = box[m]  BY <1>5, <2>2 DEF DaemonOK
    <3>2. box[m] \in Box /\ box[m].id \in Nat /\ box[m].id <= lastId
      BY <1>6, <3>1 DEF DaemonOK, Here, Box
    <3> QED  BY <1>1, <1>5, <3>1, <3>2 DEF DaemonOK
  <2> QED  BY <2>1, <2>2
<1> QED  BY <1>1, <1>3, <1>5, <1>6 DEF DaemonOK, Here

LEMMA BoundsStep == ASSUME BoundsOK, Works \/ Fails PROVE BoundsOK'
BY DockerAssumption DEF BoundsOK, Works, Fails

LEMMA TargetIsOne == \A t \in Task : Kind[t] # "service" => TargetOf(t) \in Name /\ Target[t] = {TargetOf(t)}
<1> SUFFICES ASSUME NEW t \in Task, Kind[t] # "service"
             PROVE  TargetOf(t) \in Name /\ Target[t] = {TargetOf(t)}
  OBVIOUS
<1>1. PICK n \in Name : Target[t] = {n}  BY DockerAssumption
<1> QED  BY <1>1 DEF TargetOf

LEMMA LeaveOK ==
    ASSUME Shape, NEW t \in Task, NEW o \in Over, Leave(t, o), UNCHANGED work
    PROVE  FramesOK'
BY DEF Shape, FramesOK, Leave, Go, Pcs, InFlight, Body, Over

LEMMA AskShape == ASSUME Shape, NEW t \in Task, Ask(t) PROVE Shape'
<1>1. TargetOf(t) \in Name /\ Here(TargetOf(t))  BY TargetIsOne DEF Ask
<1>2. box[TargetOf(t)].id \in Nat /\ box[TargetOf(t)].conf \in SUBSET Task
  BY <1>1 DEF Here, Shape, DaemonOK, Box
<1>3. AskOK'  BY <1>2 DEF Ask, Shape, AskOK
<1>4. FramesOK'  BY DEF Ask, Go, Shape, FramesOK, Pcs, Body
<1> QED  BY <1>3, <1>4 DEF Ask, Shape, DaemonOK, UndoOK, BoundsOK, daemon, bounds, Here

LEMMA EnterShape == ASSUME Shape, NEW t \in Task, Enter(t), Kind[t] # "service" PROVE Shape'
<1> DEFINE w == [NoWork EXCEPT !.name = TargetOf(t), !.id = RefersTo(t), !.conf = ask[t].conf]
<1>1. TargetOf(t) \in Name  BY TargetIsOne
<1>2. RefersTo(t) \in Nat /\ ask[t].conf \in SUBSET Task  BY DEF Shape, AskOK, RefersTo
<1>3. DaemonOK' /\ AskOK' /\ UndoOK'
  BY DEF Enter, Shape, DaemonOK, AskOK, UndoOK, daemon, Here
<1>4. BoundsOK'  BY BoundsStep DEF Enter, Shape
<1>5. FramesOK'
  <2>1. CASE Found(w) /\ work' = [work EXCEPT ![t] = [w EXCEPT !.was = box[w.name]]]
             /\ lock' = t /\ Go(t, "stopping")
    <3>1. w.name = TargetOf(t) /\ w.name \in Name /\ box[w.name] \in Box
      BY <1>1, <2>1 DEF NoWork, Found, Here, Shape, DaemonOK
    <3> DEFINE f == [w EXCEPT !.was = box[w.name]]
    <3>2. f \in Frame /\ f.name \in Name /\ f.was \in Box
      BY <1>1, <1>2, <3>1 DEF NoWork, Frame
    <3> HIDE DEF w, f
    <3>3. work' = [work EXCEPT ![t] = f]  BY <2>1 DEF f
    <3> QED  BY <2>1, <3>2, <3>3 DEF Go, Shape, FramesOK, Pcs, InFlight, Body
  <2>2. CASE Go(t, "refused") /\ UNCHANGED <<lock, work>>
    BY <2>2 DEF Go, Shape, FramesOK, Pcs, Body, Over
  <2> QED  BY <2>1, <2>2 DEF Enter
<1> QED  BY <1>3, <1>4, <1>5 DEF Shape

LEMMA StopShape == ASSUME Shape, NEW t \in Task, Stop(t) PROVE Shape'
<1>1. work[t].name \in Name  BY DEF Stop, Shape, FramesOK, Body
<1>2. AskOK' /\ UndoOK' /\ BoundsOK'  BY BoundsStep DEF Stop, Shape, AskOK, UndoOK
<1>3. CASE Found(work[t]) /\ SetBox(work[t].name, Halted(work[t].name)) /\ Go(t, "removing")
           /\ UNCHANGED lock
  <2>1. DaemonOK'  BY <1>1, <1>3, ToggleOK, SetBoxOK DEF Shape, Found
  <2>2. FramesOK'  BY <1>3 DEF Stop, Go, Shape, FramesOK, Pcs, InFlight, Body
  <2> QED  BY <1>2, <2>1, <2>2 DEF Shape
<1>4. CASE Leave(t, "refused") /\ UNCHANGED daemon
  <2>1. FramesOK'  BY <1>4, LeaveOK DEF Stop, Over
  <2> QED  BY <1>2, <1>4, <2>1 DEF Shape, DaemonOK, daemon, Here
<1> QED  BY <1>3, <1>4 DEF Stop

LEMMA RemoveShape == ASSUME Shape, NEW t \in Task, Remove(t) PROVE Shape'
<1>1. work[t].name \in Name  BY DEF Remove, Shape, FramesOK, Body
<1>2. AskOK' /\ UndoOK' /\ BoundsOK'  BY BoundsStep DEF Remove, Shape, AskOK, UndoOK
<1>3. CASE SetBox(work[t].name, None) /\ Go(t, "waiting") /\ UNCHANGED lock
  <2>1. DaemonOK'  BY <1>1, <1>3, SetBoxOK DEF Shape
  <2>2. FramesOK'  BY <1>3 DEF Remove, Go, Shape, FramesOK, Pcs, InFlight, Body
  <2> QED  BY <1>2, <2>1, <2>2 DEF Shape
<1>4. CASE Leave(t, "halfway") /\ UNCHANGED daemon
  <2>1. FramesOK'  BY <1>4, LeaveOK DEF Remove, Over
  <2> QED  BY <1>2, <1>4, <2>1 DEF Shape, DaemonOK, daemon, Here
<1> QED  BY <1>3, <1>4 DEF Remove

LEMMA WaitShape == ASSUME Shape, NEW t \in Task, WaitDestroyed(t) PROVE Shape'
<1>1. FramesOK'  BY DEF WaitDestroyed, Go, Shape, FramesOK, Pcs, InFlight, Body
<1> QED  BY <1>1 DEF WaitDestroyed, Shape, DaemonOK, AskOK, UndoOK, BoundsOK, daemon, bounds, Here

LEMMA CreateShape == ASSUME Shape, NEW t \in Task, Create(t) PROVE Shape'
<1>1. work[t].name \in Name /\ work[t].was \in Box /\ work[t].conf \in SUBSET Task
  BY DEF Create, Shape, FramesOK, Body, Frame
<1>2. AskOK' /\ UndoOK' /\ BoundsOK'  BY BoundsStep DEF Create, Shape, AskOK, UndoOK
<1>3. CASE Creatable(work[t].name) /\ CreateBox(work[t].name, work[t].conf, work[t].was.on)
           /\ work' = [work EXCEPT ![t].id = lastId + 1] /\ Go(t, "starting")
  <2>1. DaemonOK'  BY <1>1, <1>3, CreateBoxOK DEF Shape
  <2>2. lastId + 1 \in Nat  BY DEF Shape, DaemonOK
  <2>3. FramesOK'  BY <1>3, <2>2 DEF Create, Go, Shape, FramesOK, Pcs, InFlight, Body, Frame
  <2> QED  BY <1>2, <2>1, <2>3 DEF Shape
<1>4. CASE Go(t, "reverting") /\ UNCHANGED <<daemon, work>>
  <2>1. FramesOK'  BY <1>4 DEF Create, Go, Shape, FramesOK, Pcs, InFlight, Body
  <2> QED  BY <1>2, <1>4, <2>1 DEF Shape, DaemonOK, daemon, Here
<1> QED  BY <1>3, <1>4 DEF Create

LEMMA StartShape == ASSUME Shape, NEW t \in Task, Start(t) PROVE Shape'
<1>1. work[t].name \in Name  BY DEF Start, Shape, FramesOK, Body
<1>2. AskOK' /\ UndoOK' /\ BoundsOK'  BY BoundsStep DEF Start, Shape, AskOK, UndoOK
<1>3. DaemonOK'  BY <1>1, ToggleOK, SetBoxOK DEF Start, Found, Shape
<1>4. Dependants(t) \in SUBSET Name  BY DEF Dependants
<1>5. FramesOK'  BY <1>4 DEF Start, Go, Shape, FramesOK, Pcs, InFlight, Body, Frame
<1> QED  BY <1>2, <1>3, <1>5 DEF Shape

LEMMA StartFailsShape == ASSUME Shape, NEW t \in Task, StartFails(t) PROVE Shape'
<1>1. AskOK' /\ UndoOK' /\ BoundsOK'  BY BoundsStep DEF StartFails, Shape, AskOK, UndoOK
<1>2. DaemonOK'  BY DEF StartFails, BrokenRemoved, Shape, DaemonOK, Here
<1>3. FramesOK'  BY DEF StartFails, Go, Shape, FramesOK, Pcs, InFlight, Body
<1> QED  BY <1>1, <1>2, <1>3 DEF Shape

LEMMA RevertCreateShape == ASSUME Shape, NEW t \in Task, RevertCreate(t) PROVE Shape'
<1>1. work[t].name \in Name /\ work[t].was \in Box /\ work[t].was.conf \in SUBSET Task
  BY DEF RevertCreate, Shape, FramesOK, Body, Box
<1>2. AskOK' /\ UndoOK' /\ BoundsOK'  BY BoundsStep DEF RevertCreate, Shape, AskOK, UndoOK
<1>3. CASE Creatable(work[t].name) /\ CreateBox(work[t].name, work[t].was.conf, work[t].was.on)
           /\ work' = [work EXCEPT ![t].id = lastId + 1] /\ Go(t, "restarting") /\ UNCHANGED lock
  <2>1. DaemonOK'  BY <1>1, <1>3, CreateBoxOK DEF Shape
  <2>2. lastId + 1 \in Nat  BY DEF Shape, DaemonOK
  <2>3. FramesOK'  BY <1>3, <2>2 DEF RevertCreate, Go, Shape, FramesOK, Pcs, InFlight, Body, Frame
  <2> QED  BY <1>2, <2>1, <2>3 DEF Shape
<1>4. CASE Leave(t, "lost") /\ UNCHANGED <<daemon, work>>
  <2>1. FramesOK'  BY <1>4, LeaveOK DEF Over
  <2> QED  BY <1>2, <1>4, <2>1 DEF Shape, DaemonOK, daemon, Here
<1> QED  BY <1>3, <1>4 DEF RevertCreate

LEMMA RevertStartShape == ASSUME Shape, NEW t \in Task, RevertStart(t) PROVE Shape'
<1>1. work[t].name \in Name  BY DEF RevertStart, Shape, FramesOK, Body
<1>2. AskOK' /\ UndoOK' /\ BoundsOK'  BY BoundsStep DEF RevertStart, Shape, AskOK, UndoOK
<1>3. FramesOK'  BY LeaveOK DEF RevertStart, Over
<1>4. DaemonOK'
  <2>1. CASE Found(work[t]) /\ SetBox(work[t].name, Started(work[t].name))
    BY <1>1, <2>1, ToggleOK, SetBoxOK DEF Shape, Found
  <2>2. CASE UNCHANGED daemon  BY <2>2 DEF Shape, DaemonOK, daemon, Here
  <2> QED  BY <2>1, <2>2 DEF RevertStart
<1> QED  BY <1>2, <1>3, <1>4 DEF Shape

LEMMA NextDependantShape == ASSUME Shape, NEW t \in Task, NextDependant(t) PROVE Shape'
<1>1. DaemonOK' /\ AskOK' /\ UndoOK' /\ BoundsOK'
  BY DEF NextDependant, Shape, DaemonOK, AskOK, UndoOK, BoundsOK, daemon, bounds, Here
<1>2. work[t] \in Frame /\ work[t].todo \in SUBSET Name  BY DEF Shape, FramesOK, Frame
<1>3. ASSUME NEW n \in work[t].todo, Here(n), Go(t, "stopping"), UNCHANGED lock,
             work' = [work EXCEPT ![t] = [name |-> n, id |-> box[n].id, conf |-> box[n].conf,
                                          was |-> box[n], todo |-> work[t].todo \ {n},
                                          nested |-> TRUE, failed |-> FALSE]]
      PROVE  FramesOK'
  <2>1. n \in Name /\ box[n] \in Box /\ box[n].id \in Nat /\ box[n].conf \in SUBSET Task
    BY <1>2, <1>3 DEF Here, Shape, DaemonOK, Box
  <2> QED  BY <1>2, <1>3, <2>1 DEF Go, Shape, FramesOK, Pcs, InFlight, Body, Frame
<1>4. ASSUME NEW n \in work[t].todo, work' = [work EXCEPT ![t].todo = @ \ {n}], UNCHANGED <<pc, lock>>
      PROVE  FramesOK'
  BY <1>2, <1>4 DEF Shape, FramesOK, Frame
<1>5. ASSUME Go(t, "done"), lock' = None, UNCHANGED work PROVE FramesOK'
  <2>1. pc' = [pc EXCEPT ![t] = "done"] /\ "done" \in Pcs  BY <1>5 DEF Go, Pcs, Over
  <2>2. "done" \notin Body \cup {"emptying", "making", "joining", "resuming"}  BY DEF Body
  <2> QED  BY <1>5, <2>1, <2>2 DEF Shape, FramesOK
<1>6. FramesOK'
  <2>1. CASE \E n \in work[t].todo :
                IF Here(n)
                THEN /\ work' = [work EXCEPT ![t] = [name |-> n, id |-> box[n].id, conf |-> box[n].conf,
                                                     was |-> box[n], todo |-> work[t].todo \ {n},
                                                     nested |-> TRUE, failed |-> FALSE]]
                     /\ Go(t, "stopping") /\ UNCHANGED lock
                ELSE /\ work' = [work EXCEPT ![t].todo = @ \ {n}]
                     /\ UNCHANGED <<pc, lock>>
    <3>1. PICK n \in work[t].todo :
                IF Here(n)
                THEN /\ work' = [work EXCEPT ![t] = [name |-> n, id |-> box[n].id, conf |-> box[n].conf,
                                                     was |-> box[n], todo |-> work[t].todo \ {n},
                                                     nested |-> TRUE, failed |-> FALSE]]
                     /\ Go(t, "stopping") /\ UNCHANGED lock
                ELSE /\ work' = [work EXCEPT ![t].todo = @ \ {n}]
                     /\ UNCHANGED <<pc, lock>>
      BY <2>1
    <3>2. CASE Here(n)  BY <1>3, <3>1, <3>2
    <3>3. CASE ~Here(n)  BY <1>4, <3>1, <3>3
    <3> QED  BY <3>2, <3>3
  <2>2. CASE Go(t, "done") /\ lock' = None /\ UNCHANGED work  BY <1>5, <2>2
  <2> QED  BY <2>1, <2>2 DEF NextDependant
<1> QED  BY <1>1, <1>6 DEF Shape

LEMMA EditShape == ASSUME Shape, NEW t \in Task, Editing(t), Kind[t] # "service" PROVE Shape'
BY EnterShape, StopShape, RemoveShape, WaitShape, CreateShape, StartShape, StartFailsShape,
   RevertCreateShape, RevertStartShape, NextDependantShape DEF Editing

LEMMA ManageShape == ASSUME Shape, NEW n \in Name, Manage(n) PROVE Shape'
<1>1. DaemonOK'
  BY ToggleOK, SetBoxOK DEF Manage, Shape
<1>2. BoundsOK'  BY DockerAssumption DEF Manage, Shape, BoundsOK
<1> QED  BY <1>1, <1>2 DEF Manage, Shape, FramesOK, AskOK, UndoOK

LEMMA CleanUpShape == ASSUME Shape, NetworkCleanUp PROVE Shape'
BY DEF NetworkCleanUp, Shape, DaemonOK, FramesOK, AskOK, UndoOK, BoundsOK, bounds, Here

LEMMA UndoStep ==
    ASSUME UndoOK, NEW t \in Task, NEW k \in {"network", "remove", "restore"}, NEW n \in Name \cup {None},
           NEW b \in Box \cup {None}, k # "network" => n \in Name, k = "restore" => b \in Box,
           Undo(t, ToUndo(k, n, b))
    PROVE  UndoOK'
<1>1. ToUndo(k, n, b) \in Entry  BY DEF ToUndo, Entry
<1>2. undo[t] \in Seq(Entry)  BY DEF UndoOK
<1>3. Append(undo[t], ToUndo(k, n, b)) \in Seq(Entry)  BY <1>1, <1>2
<1> QED  BY <1>3 DEF UndoOK, Undo

LEMMA UndoNext ==
    ASSUME UndoOK, NEW t \in Task, undo[t] # <<>>
    PROVE  NextUndo(t).next \in Entry /\ NextUndo(t).rest \in Seq(Entry)
<1>1. undo[t] \in Seq(Entry) /\ Len(undo[t]) \in Nat /\ Len(undo[t]) >= 1  BY DEF UndoOK
<1>2. undo[t][Len(undo[t])] \in Entry  BY <1>1
<1>3. SubSeq(undo[t], 1, Len(undo[t]) - 1) \in Seq(Entry)  BY <1>1
<1> QED  BY <1>2, <1>3 DEF NextUndo

LEMMA NetworkShape == ASSUME Shape, NEW t \in Task, ServiceNetwork(t) PROVE Shape'
<1>1. work' = [work EXCEPT ![t].todo = Target[t]] /\ Target[t] \in SUBSET Name
  BY DockerAssumption DEF ServiceNetwork
<1>2. AskOK' /\ BoundsOK'  BY BoundsStep DEF ServiceNetwork, Shape, AskOK
<1>3. FramesOK'
  <2>1. Go(t, "pulling") \/ Go(t, "undoing")  BY DEF ServiceNetwork
  <2> QED  BY <1>1, <2>1 DEF ServiceNetwork, Go, Shape, FramesOK, Frame, Pcs, Serves, Body
<1>4. DaemonOK'
  BY DEF ServiceNetwork, Shape, DaemonOK, Here
<1>5. UndoOK'
  <2>1. Undo(t, ToUndo("network", None, None)) \/ UNCHANGED undo  BY DEF ServiceNetwork
  <2> QED  BY <2>1, UndoStep DEF Shape, UndoOK
<1> QED  BY <1>2, <1>3, <1>4, <1>5 DEF Shape

LEMMA PullShape == ASSUME Shape, NEW t \in Task, ServicePull(t) PROVE Shape'
<1>1. BoundsOK'  BY BoundsStep DEF ServicePull, Shape
<1>2. FramesOK'  BY DEF ServicePull, Go, Shape, FramesOK, Pcs, Serves, Body
<1> QED  BY <1>1, <1>2 DEF ServicePull, Shape, DaemonOK, AskOK, UndoOK, daemon, Here

LEMMA ServiceNextShape == ASSUME Shape, NEW t \in Task, ServiceNext(t) PROVE Shape'
<1>1. PICK n \in work[t].todo :
          /\ work' = [work EXCEPT ![t].name = n, ![t].was = box[n]]
          /\ \/ ~Here(n) /\ Works /\ Go(t, "making") /\ UNCHANGED daemon
             \/ Here(n) /\ Works /\ SetBox(n, Halted(n)) /\ Go(t, "emptying")
             \/ Here(n) /\ Fails /\ Go(t, "undoing") /\ UNCHANGED daemon
  BY DEF ServiceNext
<1>2. n \in Name /\ work[t] \in Frame  BY DEF Shape, FramesOK, Frame
<1>3. box[n] \in Box \cup {None} /\ (Here(n) => box[n] \in Box)  BY <1>2 DEF Shape, DaemonOK, Here
<1>4. AskOK' /\ UndoOK' /\ BoundsOK'  BY <1>1, BoundsStep DEF ServiceNext, Shape, AskOK, UndoOK
<1>5. DaemonOK'
  <2>1. CASE Here(n) /\ SetBox(n, Halted(n))  BY <1>2, <2>1, ToggleOK, SetBoxOK DEF Shape
  <2>2. CASE UNCHANGED daemon  BY <2>2 DEF Shape, DaemonOK, daemon, Here
  <2> QED  BY <1>1, <2>1, <2>2
<1>6. FramesOK'
  <2>1. \/ Go(t, "making") \/ Go(t, "undoing") \/ (Go(t, "emptying") /\ Here(n))  BY <1>1
  <2>2. UNCHANGED lock  BY DEF ServiceNext
  <2>3. work'[t].name = n /\ work'[t].was = box[n] /\ work' \in [Task -> Frame]
        /\ \A u \in Task \ {t} : work'[u] = work[u]
    BY <1>1, <1>2, <1>3 DEF Shape, FramesOK, Frame
  <2> QED  BY <1>2, <1>3, <2>1, <2>2, <2>3 DEF Go, Shape, FramesOK, Pcs, Serves, Body
<1> QED  BY <1>4, <1>5, <1>6 DEF Shape

LEMMA ServiceRemoveShape == ASSUME Shape, NEW t \in Task, ServiceRemove(t) PROVE Shape'
<1>1. work[t].name \in Name /\ work[t].was \in Box  BY DEF ServiceRemove, Shape, FramesOK
<1>2. AskOK' /\ BoundsOK'  BY BoundsStep DEF ServiceRemove, Shape, AskOK
<1>3. UndoOK'
  <2>1. Undo(t, ToUndo("restore", work[t].name, work[t].was)) \/ UNCHANGED undo  BY DEF ServiceRemove
  <2> QED  BY <1>1, <2>1, UndoStep DEF Shape, UndoOK
<1>4. DaemonOK'
  <2>1. SetBox(work[t].name, None) \/ UNCHANGED daemon  BY DEF ServiceRemove
  <2> QED  BY <1>1, <2>1, SetBoxOK DEF Shape, DaemonOK, daemon, Here
<1>5. FramesOK'
  <2>1. Go(t, "making") \/ Go(t, "undoing")  BY DEF ServiceRemove
  <2> QED  BY <1>1, <2>1 DEF ServiceRemove, Go, Shape, FramesOK, Pcs, Serves, Body
<1> QED  BY <1>2, <1>3, <1>4, <1>5 DEF Shape

LEMMA ServiceMakeShape == ASSUME Shape, NEW t \in Task, ServiceMake(t) PROVE Shape'
<1>1. work[t].name \in Name  BY DEF ServiceMake, Shape, FramesOK
<1>2. AskOK' /\ BoundsOK'  BY BoundsStep DEF ServiceMake, Shape, AskOK
<1>3. UndoOK'
  <2>1. Undo(t, ToUndo("remove", work[t].name, None)) \/ UNCHANGED undo  BY DEF ServiceMake
  <2> QED  BY <1>1, <2>1, UndoStep DEF Shape, UndoOK
<1>4. DaemonOK'
  <2>1. (Creatable(work[t].name) /\ CreateBox(work[t].name, {t}, {})) \/ UNCHANGED daemon
    BY DEF ServiceMake
  <2> QED  BY <1>1, <2>1, CreateBoxOK DEF Shape, DaemonOK, daemon, Here
<1>5. FramesOK'
  <2>1. Go(t, "joining") \/ Go(t, "undoing")  BY DEF ServiceMake
  <2> QED  BY <1>1, <2>1 DEF ServiceMake, Go, Shape, FramesOK, Pcs, Serves, Body
<1> QED  BY <1>2, <1>3, <1>4, <1>5 DEF Shape

LEMMA ServiceJoinShape == ASSUME Shape, NEW t \in Task, ServiceJoin(t) PROVE Shape'
<1> DEFINE n == work[t].name
           left == work[t].todo \ {n}
<1>1. n \in Name /\ work[t] \in Frame  BY DEF ServiceJoin, Shape, FramesOK
<1>2. AskOK' /\ UndoOK' /\ BoundsOK'  BY BoundsStep DEF ServiceJoin, Shape, AskOK, UndoOK
<1>3. DaemonOK'
  <2>1. CASE Here(n) /\ SetBox(n, [box[n] EXCEPT !.on = @ \cup {t}])
    <3>1. box[n] \in Box /\ box[n].id <= lastId  BY <1>1, <2>1 DEF Here, Shape, DaemonOK
    <3>2. [box[n] EXCEPT !.on = @ \cup {t}] \in Box /\ [box[n] EXCEPT !.on = @ \cup {t}].id = box[n].id
      BY <3>1 DEF Box
    <3> QED  BY <1>1, <2>1, <3>1, <3>2, SetBoxOK DEF Shape
  <2>2. CASE UNCHANGED daemon  BY <2>2 DEF Shape, DaemonOK, daemon, Here
  <2> QED  BY <2>1, <2>2 DEF ServiceJoin
<1>4. FramesOK'
  <2>1. CASE work' = [work EXCEPT ![t].todo = IF left = {} THEN Target[t] ELSE left]
             /\ (Go(t, "launching") \/ Go(t, "next")) /\ UNCHANGED lock
    <3>1. (IF left = {} THEN Target[t] ELSE left) \in SUBSET Name  BY <1>1, DockerAssumption DEF Frame
    <3> QED  BY <1>1, <2>1, <3>1 DEF Go, Shape, FramesOK, Pcs, Serves, Body, Frame
  <2>2. CASE Go(t, "undoing") /\ UNCHANGED <<lock, work>>
    BY <2>2 DEF Go, Shape, FramesOK, Pcs, Serves, Body
  <2> QED  BY <2>1, <2>2 DEF ServiceJoin
<1> QED  BY <1>2, <1>3, <1>4 DEF Shape

LEMMA ServiceStartShape == ASSUME Shape, NEW t \in Task, ServiceStart(t) PROVE Shape'
<1>1. work[t] \in Frame /\ work[t].todo \in SUBSET Name /\ MayStart(t) \subseteq Name
  BY DEF Shape, FramesOK, Frame, MayStart
<1>2. AskOK' /\ UndoOK' /\ BoundsOK'  BY BoundsStep DEF ServiceStart, Shape, AskOK, UndoOK
<1>3. DaemonOK'
  <2>1. ASSUME NEW n \in MayStart(t), Startable(n), SetBox(n, Started(n)) PROVE DaemonOK'
    BY <1>1, <2>1, ToggleOK, SetBoxOK DEF Shape, Startable
  <2>2. CASE UNCHANGED daemon  BY <2>2 DEF Shape, DaemonOK, daemon, Here
  <2> QED  BY <2>1, <2>2 DEF ServiceStart
<1>4. FramesOK'
  <2>1. ASSUME NEW n \in MayStart(t), work' = [work EXCEPT ![t].todo = @ \ {n}], UNCHANGED <<pc, lock>>
        PROVE  FramesOK'
    BY <1>1, <2>1 DEF Shape, FramesOK, Frame
  <2>2. ASSUME Go(t, "undoing") \/ Go(t, "done"), UNCHANGED <<lock, work>> PROVE FramesOK'
    BY <2>2 DEF Go, Shape, FramesOK, Pcs, Serves, Body, Over
  <2> QED  BY <2>1, <2>2 DEF ServiceStart
<1> QED  BY <1>2, <1>3, <1>4 DEF Shape

LEMMA FailedOnly ==
    ASSUME work \in [Task -> Frame], NEW t \in Task, work' = work \/ work' = [work EXCEPT ![t].failed = TRUE]
    PROVE  /\ work' \in [Task -> Frame]
           /\ \A u \in Task : work'[u].name = work[u].name /\ work'[u].was = work[u].was
<1>1. CASE work' = work  BY <1>1
<1>2. CASE work' = [work EXCEPT ![t].failed = TRUE]
  <2>1. work[t] \in Frame  OBVIOUS
  <2>2. [work[t] EXCEPT !.failed = TRUE] \in Frame  BY <2>1 DEF Frame
  <2> QED  BY <1>2, <2>1, <2>2 DEF Frame
<1> QED  BY <1>1, <1>2

LEMMA RollbackShape == ASSUME Shape, NEW t \in Task, Rollback(t) PROVE Shape'
<1> DEFINE a == NextUndo(t).next
<1>1. a \in Entry /\ NextUndo(t).rest \in Seq(Entry)  BY UndoNext DEF Rollback, Shape
<1>2. UndoOK'  BY <1>1 DEF Rollback, Shape, UndoOK
<1>3. AskOK' /\ BoundsOK'  BY BoundsStep DEF Rollback, Shape, AskOK
<1> HIDE DEF a
<1>4. \/ nets' = nets \ {t} /\ UNCHANGED <<box, lastId, work, pc>>
      \/ a.kind = "remove" /\ SetBox(a.name, None) /\ UNCHANGED <<work, pc>>
      \/ /\ a.kind = "restore" /\ Creatable(a.name) /\ CreateBox(a.name, a.was.conf, a.was.on)
         /\ work' = [work EXCEPT ![t].name = a.name, ![t].id = lastId + 1]
         /\ Go(t, "resuming")
      \/ (work' = work \/ work' = [work EXCEPT ![t].failed = TRUE]) /\ UNCHANGED <<daemon, pc>>
  BY DEF Rollback, a
<1>5. a.kind \in {"remove", "restore"} => a.name \in Name  BY <1>1 DEF Entry
<1>6. a.kind = "restore" => a.was \in Box /\ a.was.conf \in SUBSET Task  BY <1>1 DEF Entry, Box
<1>7. UNCHANGED lock /\ lastId + 1 \in Nat  BY DEF Rollback, Shape, DaemonOK
<1>8. CASE nets' = nets \ {t} /\ UNCHANGED <<box, lastId, work, pc>>
  BY <1>2, <1>3, <1>7, <1>8 DEF Shape, DaemonOK, FramesOK, Here
<1>9. CASE a.kind = "remove" /\ SetBox(a.name, None) /\ UNCHANGED <<work, pc>>
  <2>1. DaemonOK'  BY <1>5, <1>9, SetBoxOK DEF Shape
  <2> QED  BY <1>2, <1>3, <1>7, <1>9, <2>1 DEF Shape, FramesOK
<1>10. CASE /\ a.kind = "restore" /\ Creatable(a.name) /\ CreateBox(a.name, a.was.conf, a.was.on)
            /\ work' = [work EXCEPT ![t].name = a.name, ![t].id = lastId + 1]
            /\ Go(t, "resuming")
  <2>1. DaemonOK'  BY <1>5, <1>6, <1>10, CreateBoxOK DEF Shape
  <2>2. FramesOK'
    <3>1. work[t] \in Frame /\ a.name \in Name  BY <1>5, <1>10 DEF Shape, FramesOK
    <3>2. [work[t] EXCEPT !.name = a.name, !.id = lastId + 1] \in Frame  BY <1>7, <3>1 DEF Frame
    <3>3. /\ work' \in [Task -> Frame] /\ work'[t].name = a.name
          /\ \A u \in Task \ {t} : work'[u] = work[u]
      BY <1>10, <3>1, <3>2 DEF Shape, FramesOK, Frame
    <3>4. pc' = [pc EXCEPT ![t] = "resuming"] /\ "resuming" \in Pcs
          /\ "resuming" \notin Body \cup {"emptying"}
      BY <1>10 DEF Go, Pcs, Serves, Body
    <3> QED  BY <1>7, <3>1, <3>3, <3>4 DEF Shape, FramesOK
  <2> QED  BY <1>2, <1>3, <2>1, <2>2 DEF Shape
<1>11. CASE (work' = work \/ work' = [work EXCEPT ![t].failed = TRUE]) /\ UNCHANGED <<daemon, pc>>
  <2>1. FramesOK'  BY <1>7, <1>11, FailedOnly DEF Shape, FramesOK
  <2> QED  BY <1>2, <1>3, <1>11, <2>1 DEF Shape, DaemonOK, daemon, Here
<1> QED  BY <1>4, <1>8, <1>9, <1>10, <1>11

LEMMA RollbackStartShape == ASSUME Shape, NEW t \in Task, RollbackStart(t) PROVE Shape'
<1>1. work[t].name \in Name  BY DEF RollbackStart, Shape, FramesOK
<1>2. AskOK' /\ UndoOK' /\ BoundsOK'  BY BoundsStep DEF RollbackStart, Shape, AskOK, UndoOK
<1>3. DaemonOK'
  <2>1. CASE Found(work[t]) /\ SetBox(work[t].name, Started(work[t].name))
    BY <1>1, <2>1, ToggleOK, SetBoxOK DEF Shape, Found
  <2>2. CASE UNCHANGED daemon  BY <2>2 DEF Shape, DaemonOK, daemon, Here
  <2> QED  BY <2>1, <2>2 DEF RollbackStart
<1>4. work' = work \/ work' = [work EXCEPT ![t].failed = TRUE]  BY DEF RollbackStart
<1>5. FramesOK'
  <2>1. pc' = [pc EXCEPT ![t] = "undoing"] /\ UNCHANGED lock /\ "undoing" \in Pcs
        /\ "undoing" \notin Body \cup {"emptying", "making", "joining", "resuming"}
    BY DEF RollbackStart, Go, Pcs, Serves, Body
  <2> QED  BY <1>4, <2>1, FailedOnly DEF Shape, FramesOK
<1> QED  BY <1>2, <1>3, <1>5 DEF Shape

LEMMA RollbackEndsShape == ASSUME Shape, NEW t \in Task, RollbackEnds(t) PROVE Shape'
<1>1. FramesOK'  BY DEF RollbackEnds, Go, Shape, FramesOK, Pcs, Serves, Body, Over
<1> QED  BY <1>1 DEF RollbackEnds, Shape, DaemonOK, AskOK, UndoOK, BoundsOK, daemon, bounds, Here

LEMMA ServeShape == ASSUME Shape, NEW t \in Task, ServiceNetwork(t) \/ Serving(t) PROVE Shape'
BY NetworkShape, PullShape, ServiceNextShape, ServiceRemoveShape, ServiceMakeShape, ServiceJoinShape,
   ServiceStartShape, RollbackShape, RollbackStartShape, RollbackEndsShape DEF Serving

(* Who does what: an edit is no service, and whoever is in one holds        *)
(* DockerNetworkLock.                                                       *)
Disciplined ==
    \A t \in Task :
        /\ pc[t] \in InFlight \cup {"asked"} => Kind[t] # "service"
        /\ pc[t] \in Serves => Kind[t] = "service"
        /\ pc[t] \in InFlight <=> lock = t

LEMMA EditingBegins ==
    ASSUME Disciplined, NEW t \in Task, Editing(t)
    PROVE  Kind[t] # "service" /\ pc[t] \in InFlight \cup {"asked"}
BY DEF Disciplined, Editing, Enter, Stop, Remove, WaitDestroyed, Create, Start, StartFails, RevertCreate,
       RevertStart, NextDependant, InFlight, Body

LEMMA NoneIsNoTask == None \notin Task /\ None \notin Name  BY DockerAssumption

LEMMA LeaveDisciplined ==
    ASSUME Shape, Disciplined, NEW t \in Task, pc[t] \in Body, NEW o \in Over, Leave(t, o)
    PROVE  Disciplined'
<1>1. lock = t /\ Kind[t] # "service"  BY DEF Disciplined, InFlight
<1>2. pc \in [Task -> Pcs]  BY DEF Shape, FramesOK
<1>3. CASE work[t].nested
  <2>1. pc' = [pc EXCEPT ![t] = "dependants"] /\ lock' = lock  BY <1>3 DEF Leave, Go
  <2> QED  BY <1>1, <1>2, <2>1 DEF Disciplined, InFlight, Serves
<1>4. CASE ~work[t].nested
  <2>1. pc' = [pc EXCEPT ![t] = o] /\ lock' = None  BY <1>4 DEF Leave, Go
  <2>2. o \notin InFlight \cup {"asked"} \cup Serves  BY DEF Over, InFlight, Body, Serves
  <2> QED  BY <1>1, <1>2, <2>1, <2>2, NoneIsNoTask DEF Disciplined
<1> QED  BY <1>3, <1>4

LEMMA GoOnDisciplined ==
    ASSUME Shape, Disciplined, NEW t \in Task, pc[t] \in InFlight, NEW l \in InFlight, Go(t, l), UNCHANGED lock
    PROVE  Disciplined'
<1>1. pc \in [Task -> Pcs] /\ l \notin Serves  BY DEF Shape, FramesOK, InFlight, Body, Serves
<1> QED  BY <1>1 DEF Disciplined, Go

LEMMA EditDisciplined ==
    ASSUME Shape, Disciplined, NEW t \in Task, Editing(t)
    PROVE  Disciplined'
<1>1. Kind[t] # "service"  BY EditingBegins
<1>2. pc \in [Task -> Pcs]  BY DEF Shape, FramesOK
<1>3. CASE Enter(t)
  <2>1. pc[t] = "asked" /\ lock = None  BY <1>3 DEF Enter
  <2>2. CASE lock' = t /\ Go(t, "stopping")
    <3>1. pc' = [pc EXCEPT ![t] = "stopping"] /\ "stopping" \in InFlight /\ "stopping" \notin Serves
      BY <2>2 DEF Go, InFlight, Body, Serves
    <3> QED  BY <1>1, <1>2, <2>1, <2>2, <3>1, NoneIsNoTask DEF Disciplined
  <2>3. CASE Go(t, "refused") /\ UNCHANGED lock
    <3>1. pc' = [pc EXCEPT ![t] = "refused"] /\ "refused" \notin InFlight \cup Serves \cup {"asked"}
      BY <2>3 DEF Go, InFlight, Body, Serves
    <3> QED  BY <1>1, <1>2, <2>1, <2>3, <3>1, NoneIsNoTask DEF Disciplined
  <2> QED  BY <1>3, <2>2, <2>3 DEF Enter
<1>4. CASE Stop(t)
  BY <1>4, LeaveDisciplined, GoOnDisciplined DEF Stop, Body, InFlight, Over
<1>5. CASE Remove(t)
  BY <1>5, LeaveDisciplined, GoOnDisciplined DEF Remove, Body, InFlight, Over
<1>6. CASE WaitDestroyed(t)
  BY <1>6, GoOnDisciplined DEF WaitDestroyed, Body, InFlight
<1>7. CASE Create(t)
  BY <1>7, GoOnDisciplined DEF Create, Body, InFlight
<1>8. CASE Start(t)
  BY <1>8, GoOnDisciplined DEF Start, Body, InFlight
<1>9. CASE StartFails(t)
  BY <1>9, GoOnDisciplined DEF StartFails, Body, InFlight
<1>10. CASE RevertCreate(t)
  BY <1>10, LeaveDisciplined, GoOnDisciplined DEF RevertCreate, Body, InFlight, Over
<1>11. CASE RevertStart(t)
  BY <1>11, LeaveDisciplined DEF RevertStart, Body, Over
<1>12. CASE NextDependant(t)
  <2>1. pc[t] \in InFlight  BY <1>12 DEF NextDependant, InFlight
  <2>2. CASE Go(t, "stopping") /\ UNCHANGED lock
    BY <2>1, <2>2, GoOnDisciplined DEF InFlight, Body
  <2>3. CASE UNCHANGED <<pc, lock>>  BY <2>3 DEF Disciplined
  <2>4. CASE Go(t, "done") /\ lock' = None
    <3>1. pc' = [pc EXCEPT ![t] = "done"] /\ "done" \notin InFlight \cup Serves \cup {"asked"}
      BY <2>4 DEF Go, InFlight, Body, Serves
    <3> QED  BY <1>1, <1>2, <2>1, <2>4, <3>1, NoneIsNoTask DEF Disciplined
  <2>5. \/ Go(t, "stopping") /\ UNCHANGED lock
        \/ UNCHANGED <<pc, lock>>
        \/ Go(t, "done") /\ lock' = None
    BY <1>12 DEF NextDependant
  <2> QED  BY <2>2, <2>3, <2>4, <2>5
<1> QED
  BY <1>3, <1>4, <1>5, <1>6, <1>7, <1>8, <1>9, <1>10, <1>11, <1>12 DEF Editing

(* A service goes on as one, and never back to where it was new.            *)
LEMMA ServeGoes ==
    ASSUME Shape, Disciplined, NEW t \in Task, ServiceNetwork(t) \/ Serving(t)
    PROVE  /\ Kind[t] = "service" /\ UNCHANGED lock /\ pc[t] \in Serves \cup {"new"}
           /\ \E l \in Serves \cup {"done", "undone"} : pc' = [pc EXCEPT ![t] = l]
<1>1. CASE ServiceNetwork(t)
  BY <1>1 DEF ServiceNetwork, MayBegin, Go, Serves
<1>2. CASE Serving(t)
  <2>1. pc[t] \in Serves /\ UNCHANGED lock
    BY <1>2 DEF Serving, ServicePull, ServiceNext, ServiceRemove, ServiceMake, ServiceJoin, ServiceStart,
                Rollback, RollbackStart, RollbackEnds, Serves
  <2>2. \/ \E l \in Serves \cup {"done", "undone"} : Go(t, l)
        \/ UNCHANGED pc
    BY <1>2 DEF Serving, ServicePull, ServiceNext, ServiceRemove, ServiceMake, ServiceJoin, ServiceStart,
                Rollback, RollbackStart, RollbackEnds, Serves
  <2>3. UNCHANGED pc => pc' = [pc EXCEPT ![t] = pc[t]]  BY DEF Shape, FramesOK
  <2> QED  BY <2>1, <2>2, <2>3 DEF Go, Disciplined
<1> QED  BY <1>1, <1>2

LEMMA ServeDisciplined ==
    ASSUME Shape, Disciplined, NEW t \in Task, ServiceNetwork(t) \/ Serving(t)
    PROVE  Disciplined'
<1>1. PICK l \in Serves \cup {"done", "undone"} : pc' = [pc EXCEPT ![t] = l]  BY ServeGoes
<1>2. Kind[t] = "service" /\ UNCHANGED lock /\ pc[t] \in Serves \cup {"new"}  BY ServeGoes
<1>3. l \notin InFlight \cup {"asked"} /\ pc[t] \notin InFlight
  BY <1>2 DEF Serves, InFlight, Body
<1>4. pc \in [Task -> Pcs]  BY DEF Shape, FramesOK
<1> QED  BY <1>1, <1>2, <1>3, <1>4 DEF Disciplined

LEMMA AskDisciplined == ASSUME Shape, Disciplined, NEW t \in Task, Ask(t) PROVE Disciplined'
<1>1. pc' = [pc EXCEPT ![t] = "asked"] /\ UNCHANGED lock /\ pc[t] = "new" /\ Kind[t] # "service"
  BY DEF Ask, Go, MayBegin
<1>2. pc \in [Task -> Pcs]  BY DEF Shape, FramesOK
<1> QED  BY <1>1, <1>2 DEF Disciplined, InFlight, Body, Serves

LEMMA InitShape == Init => Shape /\ Disciplined
<1> SUFFICES ASSUME Init PROVE Shape /\ Disciplined  OBVIOUS
<1>1. ASSUME NEW n \in Name PROVE AtStart(n) \in Box /\ AtStart(n).id <= Cardinality(Name)
  <2>1. Cardinality(Name) \in Nat  BY DockerAssumption, FS_CardinalityType
  <2>2. \A m \in Name : Number[m] \in Nat \ {0} /\ Number[m] <= Cardinality(Name)
    BY <2>1, DockerAssumption
  <2>3. (IF Parent[n] = None THEN 0 ELSE Number[Parent[n]]) \in Nat  BY <2>2, DockerAssumption
  <2> QED  BY <2>2, <2>3 DEF AtStart, Box
<1>2. DaemonOK
  <2>1. \A n \in Name : box[n] \in {None, AtStart(n)}  BY DEF Init
  <2>2. box \in [Name -> Box \cup {None}]  BY <1>1, <2>1 DEF Init
  <2>3. lastId \in Nat  BY DockerAssumption, FS_CardinalityType DEF Init
  <2> QED  BY <1>1, <2>1, <2>2, <2>3 DEF Init, DaemonOK, Here
<1>3. FramesOK
  <2>1. NoWork \in Frame  BY DEF NoWork, Frame
  <2>2. "new" \in Pcs /\ "new" \notin Body \cup {"emptying", "making", "joining", "resuming"}
    BY DEF Pcs, Body
  <2> QED  BY <2>1, <2>2 DEF Init, FramesOK
<1>4. AskOK  BY DEF Init, AskOK, NoAsk
<1>5. UndoOK  BY DEF Init, UndoOK
<1>6. BoundsOK  BY DockerAssumption DEF Init, BoundsOK
<1>7. Disciplined
  BY NoneIsNoTask DEF Init, Disciplined, InFlight, Body, Serves
<1> QED  BY <1>2, <1>3, <1>4, <1>5, <1>6, <1>7 DEF Shape

LEMMA CleanUpStep == ASSUME Shape, Disciplined, NetworkCleanUp PROVE Disciplined'
BY DEF NetworkCleanUp, Disciplined

LEMMA ManageStep == ASSUME Shape, Disciplined, NEW n \in Name, Manage(n) PROVE Disciplined'
BY DEF Manage, Disciplined

LEMMA ShapeStep == Shape /\ Disciplined /\ [Next]_vars => Shape' /\ Disciplined'
<1> SUFFICES ASSUME Shape, Disciplined, [Next]_vars PROVE Shape' /\ Disciplined'  OBVIOUS
<1>1. ASSUME NEW t \in Task, Ask(t) PROVE Shape' /\ Disciplined'
  BY <1>1, AskShape, AskDisciplined
<1>2. ASSUME NEW t \in Task, Editing(t) PROVE Shape' /\ Disciplined'
  BY <1>2, EditingBegins, EditShape, EditDisciplined
<1>3. ASSUME NEW t \in Task, ServiceNetwork(t) \/ Serving(t) PROVE Shape' /\ Disciplined'
  BY <1>3, ServeShape, ServeDisciplined
<1>4. CASE NetworkCleanUp  BY <1>4, CleanUpShape, CleanUpStep
<1>5. ASSUME NEW n \in Name, Manage(n) PROVE Shape' /\ Disciplined'
  BY <1>5, ManageShape, ManageStep
<1>6. CASE UNCHANGED vars
  BY <1>6 DEF vars, daemon, bounds, Shape, DaemonOK, FramesOK, AskOK, UndoOK, BoundsOK, Here, Disciplined
<1> QED  BY <1>1, <1>2, <1>3, <1>4, <1>5, <1>6 DEF Next

(* Every state of src/src/docker's requests, of the daemon and of what      *)
(* there is to undo is well-formed; whoever is between taking               *)
(* DockerNetworkLock and leaving it holds it, and nobody else does.         *)
THEOREM DockerTypes == Spec => [](TypeOK /\ Disciplined)
<1>1. Spec => [](Shape /\ Disciplined)  BY InitShape, ShapeStep, PTL DEF Spec
<1>2. Shape /\ Disciplined => TypeOK /\ Disciplined  BY ShapeTypes
<1> QED  BY <1>1, <1>2, PTL

-----------------------------------------------------------------------------
(* Edits are kept.                                                          *)

(* A recreation of the container of e, by name, looked before e was there.  *)
Stale(e) ==
    \E r \in Task : /\ Kind[r] = "recreate" /\ TargetOf(r) = TargetOf(e)
                    /\ pc[r] # "new" /\ e \notin ask[r].conf

(* The container of e runs with it: the request is over or recreates the    *)
(* containers that shared the network.                                      *)
Carried(e) == pc[e] \in {"done", "dependants"} \/ (pc[e] \in Body /\ work[e].nested)

Kept ==
    \A e \in Task : (Kind[e] = "edit" /\ Carried(e) /\ Here(TargetOf(e))) =>
        e \in box[TargetOf(e)].conf \/ Stale(e)

(* What an edit by identifier saw is what the container of that identifier  *)
(* is still configured as.                                                  *)
Seen ==
    \A t \in Task : (Kind[t] = "edit" /\ pc[t] = "asked") =>
        /\ ask[t].id \in 1..lastId
        /\ (Here(TargetOf(t)) /\ box[TargetOf(t)].id = ask[t].id) =>
               ask[t].conf = box[TargetOf(t)].conf \cup {t}

(* Both what an edit creates and what it would put back have every edit of  *)
(* the container that was answered.                                         *)
Held ==
    \A t \in Task : pc[t] \in Body =>
        /\ ~work[t].nested => work[t].name = TargetOf(t)
        /\ (~work[t].nested /\ Kind[t] = "edit") => t \in work[t].conf
        /\ \A e \in Task : (Kind[e] = "edit" /\ Carried(e) /\ TargetOf(e) = work[t].name) =>
               (e \in work[t].conf /\ e \in work[t].was.conf) \/ Stale(e)
        /\ (pc[t] = "starting" /\ Found(work[t])) => box[work[t].name].conf = work[t].conf

Answered == Kept /\ Seen /\ Held

LEMMA EditTarget == \A e \in Task : Kind[e] = "edit" => TargetOf(e) \in Name
BY TargetIsOne

(* What was inspected stays inspected.                                      *)
Onward == \A r \in Task : pc[r] # "new" => pc'[r] # "new" /\ ask'[r] = ask[r]

LEMMA StaleStays == ASSUME Onward, NEW e \in Task, Stale(e) PROVE Stale(e)'
BY DEF Onward, Stale

(* A step that creates no container, and changes no configuration.          *)
Gentle ==
    /\ lastId' = lastId
    /\ \A n \in Name : box'[n] # None =>
          box[n] # None /\ box'[n].id = box[n].id /\ box'[n].conf = box[n].conf

LEMMA SetBoxGentle ==
    ASSUME DaemonOK, NEW n \in Name,
           SetBox(n, None) \/ (Here(n) /\ (SetBox(n, Halted(n)) \/ SetBox(n, Started(n))))
    PROVE  Gentle
<1>1. box \in [Name -> Box \cup {None}]  BY DEF DaemonOK
<1>2. CASE SetBox(n, None)  BY <1>1, <1>2 DEF SetBox, Gentle
<1>3. CASE Here(n) /\ (SetBox(n, Halted(n)) \/ SetBox(n, Started(n)))
  <2>1. box[n] \in Box /\ box[n] # None  BY <1>1, <1>3 DEF Here
  <2>2. /\ Halted(n).id = box[n].id /\ Halted(n).conf = box[n].conf
        /\ Started(n).id = box[n].id /\ Started(n).conf = box[n].conf
    BY <2>1 DEF Halted, Started, Box
  <2>3. lastId' = lastId /\ \E b \in {Halted(n), Started(n)} : box' = [box EXCEPT ![n] = b]
    BY <1>3 DEF SetBox
  <2>4. PICK b \in {Halted(n), Started(n)} : box' = [box EXCEPT ![n] = b]  BY <2>3
  <2>5. b.id = box[n].id /\ b.conf = box[n].conf  BY <2>2, <2>4
  <2>6. ASSUME NEW m \in Name, box'[m] # None
        PROVE  box[m] # None /\ box'[m].id = box[m].id /\ box'[m].conf = box[m].conf
    <3>1. CASE m = n  BY <1>1, <2>1, <2>4, <2>5, <3>1
    <3>2. CASE m # n  BY <1>1, <2>4, <2>6, <3>2
    <3> QED  BY <3>1, <3>2
  <2> QED  BY <2>3, <2>6 DEF Gentle
<1> QED  BY <1>2, <1>3

LEMMA Sole ==
    ASSUME Disciplined, NEW t \in Task, NEW u \in Task, pc[t] \in InFlight, pc[u] \in InFlight
    PROVE  u = t
BY DEF Disciplined

(* The frame of u, but for what is left to do.                              *)
Alike(u) ==
    /\ work'[u].name = work[u].name /\ work'[u].id = work[u].id /\ work'[u].conf = work[u].conf
    /\ work'[u].was = work[u].was /\ work'[u].nested = work[u].nested

(* Steps of which no edit notices anything but a container that has gone.   *)
Quiet(u) ==
    \/ pc'[u] = pc[u]
    \/ /\ pc[u] \notin Body /\ pc'[u] \notin Body \cup {"asked", "new"}
       /\ pc'[u] \in {"done", "dependants"} => pc[u] \in {"done", "dependants"}

LEMMA Aside ==
    ASSUME Shape, Answered, Gentle, UNCHANGED ask, \A u \in Task : Alike(u) /\ Quiet(u)
    PROVE  Answered'
<1>1. Onward  BY DEF Onward, Quiet
<1>2. \A e \in Task : Carried(e)' => Carried(e)  BY DEF Carried, Quiet, Alike
<1>3. Kept'
  <2> SUFFICES ASSUME NEW e \in Task, Kind[e] = "edit", Carried(e)', box'[TargetOf(e)] # None
               PROVE  e \in box'[TargetOf(e)].conf \/ Stale(e)'
    BY DEF Kept, Here
  <2>1. TargetOf(e) \in Name /\ Carried(e)  BY EditTarget, <1>2
  <2>2. box[TargetOf(e)] # None /\ box'[TargetOf(e)].conf = box[TargetOf(e)].conf  BY <2>1 DEF Gentle
  <2>3. e \in box[TargetOf(e)].conf \/ Stale(e)  BY <2>1, <2>2 DEF Answered, Kept, Here
  <2> QED  BY <1>1, <2>2, <2>3, StaleStays
<1>4. Seen'
  <2> SUFFICES ASSUME NEW u \in Task, Kind[u] = "edit", pc'[u] = "asked"
               PROVE  /\ ask'[u].id \in 1..lastId'
                      /\ (box'[TargetOf(u)] # None /\ box'[TargetOf(u)].id = ask'[u].id) =>
                             ask'[u].conf = box'[TargetOf(u)].conf \cup {u}
    BY DEF Seen, Here
  <2>1. pc[u] = "asked" /\ TargetOf(u) \in Name  BY EditTarget DEF Quiet
  <2> QED  BY <2>1 DEF Answered, Seen, Gentle, Here
<1>5. Held'
  <2> SUFFICES ASSUME NEW u \in Task, pc'[u] \in Body
               PROVE  /\ ~work'[u].nested => work'[u].name = TargetOf(u)
                      /\ (~work'[u].nested /\ Kind[u] = "edit") => u \in work'[u].conf
                      /\ \A e \in Task : (Kind[e] = "edit" /\ Carried(e)' /\ TargetOf(e) = work'[u].name) =>
                             (e \in work'[u].conf /\ e \in work'[u].was.conf) \/ Stale(e)'
                      /\ (pc'[u] = "starting" /\ Found(work[u])') => box'[work'[u].name].conf = work'[u].conf
    BY DEF Held
  <2>1. pc'[u] = pc[u] /\ pc[u] \in Body  BY DEF Quiet
  <2>2. Alike(u)  OBVIOUS
  <2>3. \A e \in Task : (Kind[e] = "edit" /\ Carried(e) /\ TargetOf(e) = work[u].name) =>
            (e \in work[u].conf /\ e \in work[u].was.conf) \/ Stale(e)
    BY <2>1 DEF Answered, Held
  <2>4. \A e \in Task : (Kind[e] = "edit" /\ Carried(e)' /\ TargetOf(e) = work'[u].name) =>
            (e \in work'[u].conf /\ e \in work'[u].was.conf) \/ Stale(e)'
    BY <1>1, <1>2, <2>2, <2>3, StaleStays DEF Alike
  <2>5. ASSUME pc'[u] = "starting", Found(work[u])'
        PROVE  box'[work'[u].name].conf = work'[u].conf
    <3> work[u].name \in Name  BY <2>1 DEF Shape, FramesOK
    <3>1. /\ box[work[u].name] # None /\ box[work[u].name].id = box'[work[u].name].id
          /\ box[work[u].name].conf = box'[work[u].name].conf
      BY <2>2, <2>5 DEF Found, Here, Gentle, Alike
    <3>2. Found(work[u])  BY <2>2, <2>5, <3>1 DEF Found, Here, Alike
    <3> QED  BY <2>1, <2>2, <2>5, <3>1, <3>2 DEF Answered, Held, Alike
  <2> QED  BY <2>1, <2>2, <2>4, <2>5 DEF Answered, Held, Alike
<1> QED  BY <1>3, <1>4, <1>5 DEF Answered

(* An edit that gets on, or ends, without creating a container.             *)
LEMMA Glide ==
    ASSUME Shape, Disciplined, Answered, Gentle, UNCHANGED ask, NEW t \in Task, pc[t] \in Body,
           \A u \in Task : Alike(u), NEW l \in (InFlight \cup Over) \ {"starting", "done"},
           pc' = [pc EXCEPT ![t] = l],
           l = "dependants" => work[t].nested \/ (pc[t] = "starting" /\ Found(work[t]))
    PROVE  Answered'
<1>1. pc \in [Task -> Pcs] /\ work[t].name \in Name /\ pc[t] # "new" /\ l # "new" /\ l # "asked"
  BY DEF Shape, FramesOK, Body, InFlight, Over
<1>2. Onward  BY <1>1 DEF Onward
<1>3. \A u \in Task \ {t} : pc'[u] = pc[u] /\ pc[u] \notin Body
  BY <1>1, Sole DEF InFlight
<1>4. \A e \in Task \ {t} : Carried(e)' => Carried(e)  BY <1>3 DEF Carried, Alike
<1>5. pc'[t] = l  BY <1>1
<1>6. ASSUME Carried(t)', ~Carried(t) PROVE l = "dependants" /\ ~work[t].nested
  <2>1. ~work[t].nested  BY <1>6 DEF Carried
  <2> QED  BY <1>5, <1>6, <2>1 DEF Carried, Alike
<1>7. Kept'
  <2> SUFFICES ASSUME NEW e \in Task, Kind[e] = "edit", Carried(e)', box'[TargetOf(e)] # None
               PROVE  e \in box'[TargetOf(e)].conf \/ Stale(e)'
    BY DEF Kept, Here
  <2>1. TargetOf(e) \in Name  BY EditTarget
  <2>2. box[TargetOf(e)] # None /\ box'[TargetOf(e)].conf = box[TargetOf(e)].conf  BY <2>1 DEF Gentle
  <2>3. CASE Carried(e)
    <3>1. e \in box[TargetOf(e)].conf \/ Stale(e)  BY <2>2, <2>3 DEF Answered, Kept, Here
    <3> QED  BY <1>2, <2>2, <3>1, StaleStays
  <2>4. CASE ~Carried(e)
    <3>1. e = t /\ l = "dependants" /\ ~work[t].nested  BY <1>4, <1>6, <2>4
    <3>2. pc[t] = "starting" /\ Found(work[t])  BY <3>1
    <3>3. /\ work[t].name = TargetOf(t) /\ t \in work[t].conf
          /\ box[work[t].name].conf = work[t].conf
      BY <3>1, <3>2 DEF Answered, Held
    <3> QED  BY <2>2, <3>1, <3>3
  <2> QED  BY <2>3, <2>4
<1>8. Seen'
  <2> SUFFICES ASSUME NEW u \in Task, Kind[u] = "edit", pc'[u] = "asked"
               PROVE  /\ ask'[u].id \in 1..lastId'
                      /\ (box'[TargetOf(u)] # None /\ box'[TargetOf(u)].id = ask'[u].id) =>
                             ask'[u].conf = box'[TargetOf(u)].conf \cup {u}
    BY DEF Seen, Here
  <2>1. pc[u] = "asked" /\ TargetOf(u) \in Name  BY <1>1, <1>3, <1>5, EditTarget
  <2> QED  BY <2>1 DEF Answered, Seen, Gentle, Here
<1>9. Held'
  <2> SUFFICES ASSUME NEW u \in Task, pc'[u] \in Body
               PROVE  /\ ~work'[u].nested => work'[u].name = TargetOf(u)
                      /\ (~work'[u].nested /\ Kind[u] = "edit") => u \in work'[u].conf
                      /\ \A e \in Task : (Kind[e] = "edit" /\ Carried(e)' /\ TargetOf(e) = work'[u].name) =>
                             (e \in work'[u].conf /\ e \in work'[u].was.conf) \/ Stale(e)'
                      /\ (pc'[u] = "starting" /\ Found(work[u])') => box'[work'[u].name].conf = work'[u].conf
    BY DEF Held
  <2>1. u = t /\ l \in Body /\ l # "dependants" /\ l # "starting"  BY <1>3, <1>5 DEF Body
  <2>2. \A e \in Task : Carried(e)' => Carried(e)  BY <1>4, <1>6, <2>1
  <2>3. Alike(t)  OBVIOUS
  <2>4. \A e \in Task : (Kind[e] = "edit" /\ Carried(e) /\ TargetOf(e) = work[t].name) =>
            (e \in work[t].conf /\ e \in work[t].was.conf) \/ Stale(e)
    BY DEF Answered, Held
  <2>5. \A e \in Task : (Kind[e] = "edit" /\ Carried(e)' /\ TargetOf(e) = work'[t].name) =>
            (e \in work'[t].conf /\ e \in work'[t].was.conf) \/ Stale(e)'
    BY <1>2, <2>2, <2>3, <2>4, StaleStays DEF Alike
  <2>6. /\ ~work'[t].nested => work'[t].name = TargetOf(t)
        /\ (~work'[t].nested /\ Kind[t] = "edit") => t \in work'[t].conf
    BY <2>3 DEF Answered, Held, Alike
  <2> QED  BY <1>5, <2>1, <2>5, <2>6
<1> QED  BY <1>7, <1>8, <1>9 DEF Answered

(* An edit that creates the container, as it shall be or as it was.         *)
LEMMA Born ==
    ASSUME Shape, Disciplined, Answered, UNCHANGED ask, NEW t \in Task, pc[t] \in Body,
           NEW c \in {work[t].conf, work[t].was.conf}, NEW on, CreateBox(work[t].name, c, on),
           work' = [work EXCEPT ![t].id = lastId + 1],
           NEW l \in {"starting", "restarting"}, pc' = [pc EXCEPT ![t] = l],
           l = "starting" => c = work[t].conf
    PROVE  Answered'
<1> DEFINE n == work[t].name
<1>1. pc \in [Task -> Pcs] /\ n \in Name /\ pc[t] # "new" /\ work \in [Task -> Frame]
      /\ box \in [Name -> Box \cup {None}] /\ lastId \in Nat
  BY DEF Shape, FramesOK, DaemonOK, Body
<1>2. Onward  BY <1>1 DEF Onward
<1>3. \A u \in Task \ {t} : pc'[u] = pc[u] /\ pc[u] \notin Body /\ work'[u] = work[u]
  BY <1>1, Sole DEF InFlight
<1>4. /\ pc'[t] = l /\ l \in Body /\ l # "asked"
      /\ work'[t].name = n /\ work'[t].conf = work[t].conf /\ work'[t].was = work[t].was
      /\ work'[t].nested = work[t].nested
  BY <1>1 DEF Body, Frame
<1>5. \A e \in Task : Carried(e)' => Carried(e)
  <2>1. Carried(t)' => Carried(t)  BY <1>4 DEF Carried
  <2> QED  BY <1>3, <2>1 DEF Carried
<1>6. /\ lastId' = lastId + 1 /\ box'[n].conf = c /\ box'[n].id = lastId + 1
      /\ \A m \in Name \ {n} : box'[m] = box[m]
  BY <1>1 DEF CreateBox, NewBox
<1>7. \A e \in Task : (Kind[e] = "edit" /\ Carried(e) /\ TargetOf(e) = n) =>
          (e \in work[t].conf /\ e \in work[t].was.conf) \/ Stale(e)
  BY DEF Answered, Held
<1>8. Kept'
  <2> SUFFICES ASSUME NEW e \in Task, Kind[e] = "edit", Carried(e)', box'[TargetOf(e)] # None
               PROVE  e \in box'[TargetOf(e)].conf \/ Stale(e)'
    BY DEF Kept, Here
  <2>1. TargetOf(e) \in Name /\ Carried(e)  BY <1>5, EditTarget
  <2>2. CASE TargetOf(e) = n
    <3>1. e \in c \/ Stale(e)  BY <1>7, <2>1, <2>2
    <3> QED  BY <1>2, <1>6, <2>2, <3>1, StaleStays
  <2>3. CASE TargetOf(e) # n
    <3>1. box'[TargetOf(e)] = box[TargetOf(e)]  BY <1>6, <2>1, <2>3
    <3>2. e \in box[TargetOf(e)].conf \/ Stale(e)  BY <2>1, <3>1 DEF Answered, Kept, Here
    <3> QED  BY <1>2, <3>1, <3>2, StaleStays
  <2> QED  BY <2>2, <2>3
<1>9. Seen'
  <2> SUFFICES ASSUME NEW u \in Task, Kind[u] = "edit", pc'[u] = "asked"
               PROVE  /\ ask'[u].id \in 1..lastId'
                      /\ (box'[TargetOf(u)] # None /\ box'[TargetOf(u)].id = ask'[u].id) =>
                             ask'[u].conf = box'[TargetOf(u)].conf \cup {u}
    BY DEF Seen, Here
  <2>1. pc[u] = "asked" /\ TargetOf(u) \in Name  BY <1>3, <1>4, EditTarget
  <2>2. ask'[u] = ask[u] /\ ask[u].id \in 1..lastId  BY <2>1 DEF Answered, Seen
  <2>3. ask'[u].id \in 1..lastId' /\ ask[u].id # lastId + 1  BY <1>1, <1>6, <2>2
  <2>4. CASE TargetOf(u) = n  BY <1>6, <2>2, <2>3, <2>4
  <2>5. CASE TargetOf(u) # n
    <3>1. box'[TargetOf(u)] = box[TargetOf(u)]  BY <1>6, <2>1, <2>5
    <3> QED  BY <2>1, <2>2, <2>3, <3>1 DEF Answered, Seen, Here
  <2> QED  BY <2>4, <2>5
<1>10. Held'
  <2> SUFFICES ASSUME NEW u \in Task, pc'[u] \in Body
               PROVE  /\ ~work'[u].nested => work'[u].name = TargetOf(u)
                      /\ (~work'[u].nested /\ Kind[u] = "edit") => u \in work'[u].conf
                      /\ \A e \in Task : (Kind[e] = "edit" /\ Carried(e)' /\ TargetOf(e) = work'[u].name) =>
                             (e \in work'[u].conf /\ e \in work'[u].was.conf) \/ Stale(e)'
                      /\ (pc'[u] = "starting" /\ Found(work[u])') => box'[work'[u].name].conf = work'[u].conf
    BY DEF Held
  <2>1. u = t  BY <1>3
  <2>2. \A e \in Task : (Kind[e] = "edit" /\ Carried(e)' /\ TargetOf(e) = work'[t].name) =>
            (e \in work'[t].conf /\ e \in work'[t].was.conf) \/ Stale(e)'
    BY <1>2, <1>4, <1>5, <1>7, StaleStays
  <2>3. /\ ~work'[t].nested => work'[t].name = TargetOf(t)
        /\ (~work'[t].nested /\ Kind[t] = "edit") => t \in work'[t].conf
    BY <1>4 DEF Answered, Held
  <2>4. pc'[t] = "starting" => box'[work'[t].name].conf = work'[t].conf  BY <1>4, <1>6
  <2> QED  BY <2>1, <2>2, <2>3, <2>4
<1> QED  BY <1>8, <1>9, <1>10 DEF Answered

(* An edit begins: of the container it was asked for, or of one that shared *)
(* its network.  It knows what is there.                                    *)
LEMMA Taken ==
    ASSUME Shape, Disciplined, Answered, UNCHANGED <<box, lastId, ask>>, NEW t \in Task,
           pc[t] \in {"asked", "dependants"}, \A u \in Task \ {t} : pc[u] \notin Body,
           NEW f \in Frame, work' = [work EXCEPT ![t] = f], pc' = [pc EXCEPT ![t] = "stopping"],
           f.name \in Name, box[f.name] # None, f.was = box[f.name],
           \/ f.nested /\ pc[t] = "dependants" /\ f.conf = box[f.name].conf
           \/ ~f.nested /\ f.name = TargetOf(t) /\ pc[t] = "asked" /\ f.conf = ask[t].conf,
           ~f.nested /\ Kind[t] = "edit" => f.conf = box[f.name].conf \cup {t},
           Kind[t] \in {"edit", "recreate"}
    PROVE  Answered'
<1>1. pc \in [Task -> Pcs] /\ work \in [Task -> Frame] /\ pc[t] # "new"  BY DEF Shape, FramesOK
<1>2. Onward  BY <1>1 DEF Onward
<1>3. \A u \in Task \ {t} : pc'[u] = pc[u] /\ work'[u] = work[u]  BY <1>1
<1>4. pc'[t] = "stopping" /\ work'[t] = f  BY <1>1
<1>5. \A e \in Task : Carried(e)' => Carried(e)
  <2>1. Carried(t)' => Carried(t)  BY <1>4 DEF Carried
  <2> QED  BY <1>3, <2>1 DEF Carried
<1>6. Kept'
  <2> SUFFICES ASSUME NEW e \in Task, Kind[e] = "edit", Carried(e)', box[TargetOf(e)] # None
               PROVE  e \in box[TargetOf(e)].conf \/ Stale(e)'
    BY DEF Kept, Here
  <2>1. e \in box[TargetOf(e)].conf \/ Stale(e)  BY <1>5 DEF Answered, Kept, Here
  <2> QED  BY <1>2, <2>1, StaleStays
<1>7. Seen'  BY <1>3, <1>4 DEF Answered, Seen, Here
<1>8. ASSUME NEW e \in Task, Kind[e] = "edit", Carried(e)', TargetOf(e) = f.name
      PROVE  (e \in f.conf /\ e \in f.was.conf) \/ Stale(e)'
  <2>1. e \in box[f.name].conf \/ Stale(e)  BY <1>5, <1>8 DEF Answered, Kept, Here
  <2>2. CASE Stale(e)  BY <1>2, <2>2, StaleStays
  <2>3. CASE e \in box[f.name].conf /\ e \notin f.conf
    <3>1. Kind[t] = "recreate" /\ TargetOf(t) = TargetOf(e) /\ e \notin ask[t].conf  BY <1>8, <2>3
    <3>2. pc'[t] # "new" /\ e \notin ask'[t].conf  BY <1>4, <3>1
    <3> QED  BY <3>1, <3>2 DEF Stale
  <2>4. CASE e \in box[f.name].conf /\ e \in f.conf  BY <2>4
  <2> QED  BY <2>1, <2>2, <2>3, <2>4
<1>9. Held'
  <2> SUFFICES ASSUME NEW u \in Task, pc'[u] \in Body
               PROVE  /\ ~work'[u].nested => work'[u].name = TargetOf(u)
                      /\ (~work'[u].nested /\ Kind[u] = "edit") => u \in work'[u].conf
                      /\ \A e \in Task : (Kind[e] = "edit" /\ Carried(e)' /\ TargetOf(e) = work'[u].name) =>
                             (e \in work'[u].conf /\ e \in work'[u].was.conf) \/ Stale(e)'
                      /\ (pc'[u] = "starting" /\ Found(work[u])') => box'[work'[u].name].conf = work'[u].conf
    BY DEF Held
  <2>1. u = t  BY <1>3
  <2> QED  BY <1>4, <1>8, <2>1
<1> QED  BY <1>6, <1>7, <1>9 DEF Answered

LEMMA AskAnswered == ASSUME Shape, Answered, NEW t \in Task, Ask(t) PROVE Answered'
<1>1. /\ pc[t] = "new" /\ pc' = [pc EXCEPT ![t] = "asked"] /\ UNCHANGED <<box, lastId, work>>
      /\ Kind[t] # "service" /\ Here(TargetOf(t)) /\ TargetOf(t) \in Name
  BY TargetIsOne DEF Ask, MayBegin, Go, daemon
<1>2. pc \in [Task -> Pcs]  BY DEF Shape, FramesOK
<1>3. \A u \in Task \ {t} : pc'[u] = pc[u] /\ ask'[u] = ask[u]  BY <1>1, <1>2 DEF Ask, Shape, AskOK
<1>4. Onward  BY <1>1, <1>3 DEF Onward
<1>5. pc'[t] = "asked"  BY <1>1, <1>2
<1>6. \A e \in Task : Carried(e)' => Carried(e)
  <2>1. ~Carried(t)'  BY <1>5 DEF Carried, Body
  <2> QED  BY <1>1, <1>3, <2>1 DEF Carried
<1>7. Kept'
  <2> SUFFICES ASSUME NEW e \in Task, Kind[e] = "edit", Carried(e)', box[TargetOf(e)] # None
               PROVE  e \in box[TargetOf(e)].conf \/ Stale(e)'
    BY <1>1 DEF Kept, Here
  <2>1. e \in box[TargetOf(e)].conf \/ Stale(e)  BY <1>6 DEF Answered, Kept, Here
  <2> QED  BY <1>4, <2>1, StaleStays
<1>8. Seen'
  <2>1. ASSUME Kind[t] = "edit"
        PROVE  ask'[t].id = box[TargetOf(t)].id /\ ask'[t].conf = box[TargetOf(t)].conf \cup {t}
    BY <2>1 DEF Ask, Shape, AskOK
  <2>2. box[TargetOf(t)].id \in 1..lastId  BY <1>1 DEF Here, Shape, DaemonOK, Box
  <2>3. ASSUME NEW u \in Task \ {t}, Kind[u] = "edit", pc'[u] = "asked"
        PROVE  /\ ask'[u].id \in 1..lastId
               /\ (box[TargetOf(u)] # None /\ box[TargetOf(u)].id = ask'[u].id) =>
                      ask'[u].conf = box[TargetOf(u)].conf \cup {u}
    BY <1>3, <2>3 DEF Answered, Seen, Here
  <2> QED  BY <1>1, <2>1, <2>2, <2>3 DEF Seen, Here
<1>9. Held'
  <2> SUFFICES ASSUME NEW u \in Task, pc'[u] \in Body
               PROVE  /\ ~work[u].nested => work[u].name = TargetOf(u)
                      /\ (~work[u].nested /\ Kind[u] = "edit") => u \in work[u].conf
                      /\ \A e \in Task : (Kind[e] = "edit" /\ Carried(e)' /\ TargetOf(e) = work[u].name) =>
                             (e \in work[u].conf /\ e \in work[u].was.conf) \/ Stale(e)'
                      /\ (pc'[u] = "starting" /\ Found(work[u])) => box[work[u].name].conf = work[u].conf
    BY <1>1 DEF Held, Found, Here
  <2>1. u # t /\ pc[u] = pc'[u] /\ pc[u] \in Body  BY <1>3, <1>5 DEF Body
  <2>2. \A e \in Task : (Kind[e] = "edit" /\ Carried(e)' /\ TargetOf(e) = work[u].name) =>
            (e \in work[u].conf /\ e \in work[u].was.conf) \/ Stale(e)'
    BY <1>4, <1>6, <2>1, StaleStays DEF Answered, Held
  <2> QED  BY <2>1, <2>2 DEF Answered, Held
<1> QED  BY <1>7, <1>8, <1>9 DEF Answered

LEMMA GlideOn ==
    ASSUME Shape, Disciplined, Answered, Gentle, UNCHANGED <<ask, work>>, NEW t \in Task, pc[t] \in Body,
           NEW l \in Body \ {"starting"}, Go(t, l)
    PROVE  Answered'
<1>1. \A u \in Task : Alike(u)  BY DEF Alike
<1>2. l \in (InFlight \cup Over) \ {"starting", "done"} /\ l # "dependants"  BY DEF Body, InFlight
<1> QED  BY <1>1, <1>2, Glide DEF Go

LEMMA GlideOut ==
    ASSUME Shape, Disciplined, Answered, Gentle, UNCHANGED <<ask, work>>, NEW t \in Task, pc[t] \in Body,
           NEW o \in Over \ {"done"}, Leave(t, o)
    PROVE  Answered'
<1>1. \A u \in Task : Alike(u)  BY DEF Alike
<1> DEFINE l == IF work[t].nested THEN "dependants" ELSE o
<1>2. l \in (InFlight \cup Over) \ {"starting", "done"}  BY DEF InFlight, Over
<1>3. l = "dependants" => work[t].nested  BY DEF Over
<1>4. pc' = [pc EXCEPT ![t] = l]  BY DEF Leave, Go
<1> HIDE DEF l
<1> QED  BY <1>1, <1>2, <1>3, <1>4, Glide

LEMMA StillGentle == ASSUME UNCHANGED daemon PROVE Gentle
BY DEF daemon, Gentle

LEMMA EnterAnswered ==
    ASSUME Shape, Disciplined, Answered, NEW t \in Task, Enter(t), Kind[t] # "service"
    PROVE  Answered'
<1> DEFINE w == [NoWork EXCEPT !.name = TargetOf(t), !.id = RefersTo(t), !.conf = ask[t].conf]
           f == [w EXCEPT !.was = box[w.name]]
<1>1. TargetOf(t) \in Name /\ pc[t] = "asked" /\ lock = None /\ UNCHANGED <<daemon, ask>>
  BY TargetIsOne DEF Enter
<1>2. \A u \in Task : pc[u] \notin Body
  BY <1>1, NoneIsNoTask DEF Disciplined, InFlight
<1>3. CASE Found(w) /\ work' = [work EXCEPT ![t] = f] /\ Go(t, "stopping")
  <2>1. RefersTo(t) \in Nat /\ ask[t].conf \in SUBSET Task  BY DEF Shape, AskOK, RefersTo
  <2>2. w.name = TargetOf(t) /\ w.id = RefersTo(t) /\ w.conf = ask[t].conf /\ ~w.nested
    BY DEF NoWork
  <2>3. box[TargetOf(t)] # None /\ RefersTo(t) \in {0, box[TargetOf(t)].id}
    BY <1>3, <2>2 DEF Found, Here
  <2>4. /\ f \in Frame /\ f.name = TargetOf(t) /\ f.conf = ask[t].conf
        /\ f.was = box[TargetOf(t)] /\ ~f.nested
    <3>1. box[TargetOf(t)] \in Box  BY <1>1, <2>3 DEF Shape, DaemonOK
    <3> QED  BY <1>1, <2>1, <3>1 DEF NoWork, Frame
  <2>5. Kind[t] = "edit" => f.conf = box[f.name].conf \cup {t}
    <3> SUFFICES ASSUME Kind[t] = "edit" PROVE f.conf = box[f.name].conf \cup {t}  OBVIOUS
    <3>1. ask[t].id \in 1..lastId /\ RefersTo(t) = ask[t].id  BY <1>1 DEF Answered, Seen, RefersTo
    <3>2. box[TargetOf(t)].id = ask[t].id  BY <2>3, <3>1
    <3> QED  BY <1>1, <2>3, <2>4, <3>2 DEF Answered, Seen, Here
  <2> HIDE DEF w, f
  <2>6. Kind[t] \in {"edit", "recreate"}  BY DockerAssumption
  <2>7. pc' = [pc EXCEPT ![t] = "stopping"] /\ UNCHANGED <<box, lastId, ask>>
    BY <1>1, <1>3 DEF Go, daemon
  <2>8. work' = [work EXCEPT ![t] = f]  BY <1>3
  <2> QED  BY <1>1, <1>2, <2>3, <2>4, <2>5, <2>6, <2>7, <2>8, Taken
<1>4. CASE Go(t, "refused") /\ UNCHANGED work
  <2>1. \A u \in Task : Alike(u)  BY <1>4 DEF Alike
  <2>2. \A u \in Task : Quiet(u)
    <3>1. pc' = [pc EXCEPT ![t] = "refused"] /\ pc \in [Task -> Pcs]
      BY <1>4 DEF Go, Shape, FramesOK
    <3>2. "refused" \notin Body \cup {"asked", "new", "done", "dependants"}  BY DEF Body
    <3> QED  BY <1>2, <3>1, <3>2 DEF Quiet
  <2> QED  BY <1>1, <2>1, <2>2, Aside, StillGentle
<1> QED  BY <1>3, <1>4 DEF Enter

LEMMA NextDependantAnswered ==
    ASSUME Shape, Disciplined, Answered, NEW t \in Task, NextDependant(t), Kind[t] # "service"
    PROVE  Answered'
<1>1. pc[t] = "dependants" /\ UNCHANGED <<daemon, ask>> /\ Gentle
  BY StillGentle DEF NextDependant
<1>2. \A u \in Task : pc[u] \notin Body
  <2>1. ASSUME NEW u \in Task, pc[u] \in Body PROVE FALSE
    <3>1. u = t  BY <1>1, <2>1, Sole DEF InFlight
    <3> QED  BY <1>1, <2>1, <3>1 DEF Body
  <2> QED  BY <2>1
<1>3. pc \in [Task -> Pcs] /\ work \in [Task -> Frame] /\ work[t].todo \in SUBSET Name
  BY DEF Shape, FramesOK, Frame
<1>4. ASSUME NEW n \in work[t].todo, Here(n), Go(t, "stopping"),
             work' = [work EXCEPT ![t] = [name |-> n, id |-> box[n].id, conf |-> box[n].conf,
                                          was |-> box[n], todo |-> work[t].todo \ {n},
                                          nested |-> TRUE, failed |-> FALSE]]
      PROVE  Answered'
  <2> DEFINE f == [name |-> n, id |-> box[n].id, conf |-> box[n].conf, was |-> box[n],
                   todo |-> work[t].todo \ {n}, nested |-> TRUE, failed |-> FALSE]
  <2>1. n \in Name /\ box[n] # None  BY <1>3, <1>4 DEF Here
  <2>2. box[n] \in Box /\ box[n].id \in Nat /\ box[n].conf \in SUBSET Task
    BY <2>1 DEF Shape, DaemonOK, Box
  <2>3. f \in Frame  BY <1>3, <2>1, <2>2 DEF Frame
  <2>4. f.name = n /\ f.conf = box[n].conf /\ f.was = box[n] /\ f.nested  OBVIOUS
  <2>5. work' = [work EXCEPT ![t] = f] /\ pc' = [pc EXCEPT ![t] = "stopping"]
        /\ UNCHANGED <<box, lastId, ask>>
    BY <1>1, <1>4 DEF Go, daemon
  <2>6. Kind[t] \in {"edit", "recreate"}  BY DockerAssumption
  <2> HIDE DEF f
  <2> QED  BY <1>1, <1>2, <2>1, <2>3, <2>4, <2>5, <2>6, Taken
<1>5. ASSUME NEW n \in work[t].todo, work' = [work EXCEPT ![t].todo = @ \ {n}], UNCHANGED pc
      PROVE  Answered'
  <2>1. \A u \in Task : Alike(u)  BY <1>3, <1>5 DEF Alike, Frame
  <2>2. \A u \in Task : Quiet(u)  BY <1>5 DEF Quiet
  <2> QED  BY <1>1, <2>1, <2>2, Aside
<1>6. ASSUME Go(t, "done"), UNCHANGED work PROVE Answered'
  <2>1. \A u \in Task : Alike(u)  BY <1>6 DEF Alike
  <2>2. \A u \in Task : Quiet(u)
    <3>1. pc' = [pc EXCEPT ![t] = "done"]  BY <1>6 DEF Go
    <3>2. "done" \notin Body \cup {"asked", "new"}  BY DEF Body
    <3> QED  BY <1>1, <1>2, <1>3, <3>1, <3>2 DEF Quiet
  <2> QED  BY <1>1, <2>1, <2>2, Aside
<1> QED
  <2>1. CASE \E n \in work[t].todo :
                IF Here(n)
                THEN /\ work' = [work EXCEPT ![t] = [name |-> n, id |-> box[n].id, conf |-> box[n].conf,
                                                     was |-> box[n], todo |-> work[t].todo \ {n},
                                                     nested |-> TRUE, failed |-> FALSE]]
                     /\ Go(t, "stopping") /\ UNCHANGED lock
                ELSE /\ work' = [work EXCEPT ![t].todo = @ \ {n}]
                     /\ UNCHANGED <<pc, lock>>
    <3>1. PICK n \in work[t].todo :
                IF Here(n)
                THEN /\ work' = [work EXCEPT ![t] = [name |-> n, id |-> box[n].id, conf |-> box[n].conf,
                                                     was |-> box[n], todo |-> work[t].todo \ {n},
                                                     nested |-> TRUE, failed |-> FALSE]]
                     /\ Go(t, "stopping") /\ UNCHANGED lock
                ELSE /\ work' = [work EXCEPT ![t].todo = @ \ {n}]
                     /\ UNCHANGED <<pc, lock>>
      BY <2>1
    <3>2. CASE Here(n)  BY <1>4, <3>1, <3>2
    <3>3. CASE ~Here(n)  BY <1>5, <3>1, <3>3
    <3> QED  BY <3>2, <3>3
  <2>2. CASE Go(t, "done") /\ UNCHANGED work  BY <1>6, <2>2
  <2> QED  BY <2>1, <2>2 DEF NextDependant

LEMMA StartAnswered ==
    ASSUME Shape, Disciplined, Answered, NEW t \in Task, Start(t)
    PROVE  Answered'
<1>1. pc[t] \in Body /\ pc[t] = "starting" /\ Found(work[t]) /\ work[t].name \in Name
  BY DEF Start, Shape, FramesOK, Body
<1>2. Gentle  BY <1>1, SetBoxGentle DEF Start, Found, Shape
<1>3. \A u \in Task : Alike(u)
  BY DEF Start, Alike, Shape, FramesOK, Frame
<1>4. "dependants" \in (InFlight \cup Over) \ {"starting", "done"}  BY DEF InFlight
<1>5. pc' = [pc EXCEPT ![t] = "dependants"] /\ UNCHANGED ask  BY DEF Start, Go
<1> QED  BY <1>1, <1>2, <1>3, <1>4, <1>5, Glide

LEMMA StartFailsAnswered ==
    ASSUME Shape, Disciplined, Answered, NEW t \in Task, StartFails(t)
    PROVE  Answered'
<1>1. pc[t] \in Body /\ "reverting" \in Body \ {"starting"}  BY DEF StartFails, Body
<1>2. Gentle  BY DEF StartFails, BrokenRemoved, Gentle, Shape, DaemonOK
<1> QED  BY <1>1, <1>2, GlideOn DEF StartFails

LEMMA CreateAnswered ==
    ASSUME Shape, Disciplined, Answered, NEW t \in Task, Create(t)
    PROVE  Answered'
<1>1. pc[t] \in Body  BY DEF Create, Body
<1>2. CASE CreateBox(work[t].name, work[t].conf, work[t].was.on)
           /\ work' = [work EXCEPT ![t].id = lastId + 1] /\ Go(t, "starting")
  BY <1>1, <1>2, Born DEF Create, Go
<1>3. CASE Go(t, "reverting") /\ UNCHANGED <<daemon, work>>
  <2>1. "reverting" \in Body \ {"starting"}  BY DEF Body
  <2> QED  BY <1>1, <1>3, <2>1, GlideOn, StillGentle DEF Create
<1> QED  BY <1>2, <1>3 DEF Create

LEMMA RevertCreateAnswered ==
    ASSUME Shape, Disciplined, Answered, NEW t \in Task, RevertCreate(t)
    PROVE  Answered'
<1>1. pc[t] \in Body  BY DEF RevertCreate, Body
<1>2. CASE CreateBox(work[t].name, work[t].was.conf, work[t].was.on)
           /\ work' = [work EXCEPT ![t].id = lastId + 1] /\ Go(t, "restarting")
  BY <1>1, <1>2, Born DEF RevertCreate, Go
<1>3. CASE Leave(t, "lost") /\ UNCHANGED <<daemon, work>>
  <2>1. "lost" \in Over \ {"done"}  BY DEF Over
  <2> QED  BY <1>1, <1>3, <2>1, GlideOut, StillGentle DEF RevertCreate
<1> QED  BY <1>2, <1>3 DEF RevertCreate

LEMMA StopAnswered ==
    ASSUME Shape, Disciplined, Answered, NEW t \in Task, Stop(t)
    PROVE  Answered'
<1>1. pc[t] \in Body /\ work[t].name \in Name /\ UNCHANGED <<ask, work>>
  BY DEF Stop, Body, Shape, FramesOK
<1>2. CASE Found(work[t]) /\ SetBox(work[t].name, Halted(work[t].name)) /\ Go(t, "removing")
  <2>1. "removing" \in Body \ {"starting"}  BY DEF Body
  <2>2. Gentle  BY <1>1, <1>2, SetBoxGentle DEF Found, Shape
  <2> QED  BY <1>1, <1>2, <2>1, <2>2, GlideOn
<1>3. CASE Leave(t, "refused") /\ UNCHANGED daemon
  <2>1. "refused" \in Over \ {"done"}  BY DEF Over
  <2> QED  BY <1>1, <1>3, <2>1, GlideOut, StillGentle
<1> QED  BY <1>2, <1>3 DEF Stop

LEMMA RemoveAnswered ==
    ASSUME Shape, Disciplined, Answered, NEW t \in Task, Remove(t)
    PROVE  Answered'
<1>1. pc[t] \in Body /\ work[t].name \in Name /\ UNCHANGED <<ask, work>>
  BY DEF Remove, Body, Shape, FramesOK
<1>2. CASE SetBox(work[t].name, None) /\ Go(t, "waiting")
  <2>1. "waiting" \in Body \ {"starting"}  BY DEF Body
  <2>2. Gentle  BY <1>1, <1>2, SetBoxGentle DEF Shape
  <2> QED  BY <1>1, <1>2, <2>1, <2>2, GlideOn
<1>3. CASE Leave(t, "halfway") /\ UNCHANGED daemon
  <2>1. "halfway" \in Over \ {"done"}  BY DEF Over
  <2> QED  BY <1>1, <1>3, <2>1, GlideOut, StillGentle
<1> QED  BY <1>2, <1>3 DEF Remove

LEMMA RevertStartAnswered ==
    ASSUME Shape, Disciplined, Answered, NEW t \in Task, RevertStart(t)
    PROVE  Answered'
<1>1. pc[t] \in Body /\ work[t].name \in Name /\ UNCHANGED <<ask, work>>
  BY DEF RevertStart, Body, Shape, FramesOK
<1>2. {"restored", "broken"} \subseteq Over \ {"done"}  BY DEF Over
<1>3. CASE Found(work[t]) /\ SetBox(work[t].name, Started(work[t].name)) /\ Leave(t, "restored")
  <2>1. Gentle  BY <1>1, <1>3, SetBoxGentle DEF Found, Shape
  <2> QED  BY <1>1, <1>2, <1>3, <2>1, GlideOut
<1>4. CASE UNCHANGED daemon /\ Leave(t, "broken")
  BY <1>1, <1>2, <1>4, GlideOut, StillGentle
<1> QED  BY <1>3, <1>4 DEF RevertStart

LEMMA WaitAnswered ==
    ASSUME Shape, Disciplined, Answered, NEW t \in Task, WaitDestroyed(t)
    PROVE  Answered'
<1>1. pc[t] \in Body /\ "creating" \in Body \ {"starting"}  BY DEF WaitDestroyed, Body
<1> QED  BY <1>1, GlideOn, StillGentle DEF WaitDestroyed

LEMMA EditAnswered ==
    ASSUME Shape, Disciplined, Answered, NEW t \in Task, Editing(t)
    PROVE  Answered'
<1>1. Kind[t] # "service"  BY EditingBegins
<1> QED
  BY <1>1, EnterAnswered, StopAnswered, RemoveAnswered, WaitAnswered, CreateAnswered, StartAnswered,
     StartFailsAnswered, RevertCreateAnswered, RevertStartAnswered, NextDependantAnswered DEF Editing

LEMMA ManageAnswered == ASSUME Shape, Answered, NEW n \in Name, Manage(n) PROVE Answered'
<1>1. Gentle  BY SetBoxGentle DEF Manage, Shape
<1>2. UNCHANGED <<ask, work, pc>>  BY DEF Manage
<1>3. \A u \in Task : Alike(u) /\ Quiet(u)  BY <1>2 DEF Alike, Quiet
<1> QED  BY <1>1, <1>2, <1>3, Aside

LEMMA StillAnswered ==
    ASSUME Shape, Answered, UNCHANGED <<box, lastId, ask, work, pc>>
    PROVE  Answered'
<1>1. Gentle /\ \A u \in Task : Alike(u) /\ Quiet(u)  BY DEF Gentle, Alike, Quiet
<1> QED  BY <1>1, Aside

(* Without a service the edits are kept; a service that has begun has begun *)
(* for good.                                                                *)
Edits == NoService => Answered

LEMMA EditsInit == Init => Edits
BY DEF Init, Edits, Answered, Kept, Seen, Held, Carried, Body

LEMMA EditsStep == Shape /\ Disciplined /\ Edits /\ [Next]_vars => Edits'
<1> SUFFICES ASSUME Shape, Disciplined, Edits, [Next]_vars, NoService' PROVE Answered'
  BY DEF Edits
<1>1. ASSUME NEW t \in Task, ServiceNetwork(t) \/ Serving(t) PROVE FALSE
  <2>1. PICK l \in Serves \cup {"done", "undone"} : pc' = [pc EXCEPT ![t] = l]  BY <1>1, ServeGoes
  <2>2. Kind[t] = "service" /\ pc'[t] = l /\ l # "new"
    BY <1>1, <2>1, ServeGoes DEF Shape, FramesOK, Serves
  <2> QED  BY <2>2 DEF NoService
<1>2. ASSUME NEW t \in Task, Ask(t) PROVE Answered'
  <2>1. pc \in [Task -> Pcs] /\ Kind[t] # "service" /\ pc' = [pc EXCEPT ![t] = "asked"]
    BY <1>2 DEF Shape, FramesOK, Ask, Go
  <2>2. NoService  BY <2>1 DEF NoService
  <2> QED  BY <1>2, <2>2, AskAnswered DEF Edits
<1>3. ASSUME NEW t \in Task, Editing(t) PROVE Answered'
  <2>1. Kind[t] # "service"  BY <1>3, EditingBegins
  <2>2. \A u \in Task \ {t} : pc'[u] = pc[u]
    BY <1>3 DEF Shape, FramesOK, Editing, Enter, Stop, Remove, WaitDestroyed, Create, Start, StartFails,
                RevertCreate, RevertStart, NextDependant, Go, Leave
  <2>3. NoService  BY <2>1, <2>2 DEF NoService
  <2> QED  BY <1>3, <2>3, EditAnswered DEF Edits
<1>4. CASE NetworkCleanUp
  BY <1>4, StillAnswered DEF NetworkCleanUp, NoService, Edits
<1>5. ASSUME NEW n \in Name, Manage(n) PROVE Answered'
  BY <1>5, ManageAnswered DEF Manage, NoService, Edits
<1>6. CASE UNCHANGED vars
  BY <1>6, StillAnswered DEF vars, daemon, NoService, Edits
<1> QED  BY <1>1, <1>2, <1>3, <1>4, <1>5, <1>6 DEF Next

(* An edit that EditContainer answered (docker.go:124-370) stays part of    *)
(* the container through every later edit, recreation, revert and manual    *)
(* stop or removal, however many there are, unless a recreation by name had *)
(* looked at the container before.                                          *)
THEOREM EditsKept == Spec => []EditsStay
<1>1. Shape /\ Disciplined /\ Edits => EditsStay
  BY DEF Edits, Answered, Kept, Carried, Stale, EditsStay
<1>2. Init => Shape /\ Disciplined /\ Edits  BY InitShape, EditsInit
<1>3. Shape /\ Disciplined /\ Edits /\ [Next]_vars => Shape' /\ Disciplined' /\ Edits'
  BY ShapeStep, EditsStep
<1>4. Spec => [](Shape /\ Disciplined /\ Edits)  BY <1>2, <1>3, PTL DEF Spec
<1> QED  BY <1>1, <1>4, PTL

=============================================================================
