-------------------------- MODULE DockerKeepProofs --------------------------
(***************************************************************************)
(* Proofs about Docker, for any containers, requests and bounds: what is   *)
(* left of the containers, of their networks and of what they share, after *)
(* edits that met no failure, or one; and what a rollback leaves.          *)
(***************************************************************************)
EXTENDS DockerProofs

(* The containers of the start are there with those whose network they      *)
(* share: one that has lost its own cannot be created again.                *)
Complete == \A n \in Existing : Parent[n] \in Existing \cup {None}

(* Some container has a network of its own.                                 *)
Peopled == \E n \in Existing : Parent[n] = None

-----------------------------------------------------------------------------
(* Who holds DockerNetworkLock, and what it is doing.                       *)

Doing(pcs) == lock # None /\ pc[lock] \in pcs
On(pcs, n) == Doing(pcs) /\ work[lock].name = n

(* What edits find and leave, whatever fails.                               *)

Tenure ==
    /\ \A n \in Name : Here(n) /\ Parent[n] = None => box[n].joins = 0
    /\ lock # None => \A n \in work[lock].todo : Parent[n] # None
    /\ Doing(Body) =>
          /\ work[lock].name \notin work[lock].todo
          /\ IF work[lock].nested THEN Parent[work[lock].name] # None ELSE work[lock].todo = {}
    /\ Doing({"stopping", "removing", "starting", "restarting"}) => Found(work[lock])
    /\ Doing({"removing", "starting", "restarting"}) => ~box[work[lock].name].up
    /\ Doing({"waiting", "creating", "reverting"}) => ~Here(work[lock].name)
    /\ (Doing({"starting", "restarting"}) /\ Parent[work[lock].name] # None) => Here(Parent[work[lock].name])

(* It shares a network with a container that is not there any more.         *)
Astray(n) == Here(n) /\ Parent[n] # None /\ Here(Parent[n]) /\ box[n].joins # box[Parent[n]].id

(* As long as nothing has failed: everything runs but what is being edited, *)
(* nothing is reverted that could be, and a container that shares a network *)
(* with one that is gone is about to be recreated.                          *)
Smooth ==
    /\ \A n \in Name : Here(n) /\ ~box[n].up => On({"removing", "starting"}, n)
    /\ ~Doing({"restarting"}) /\ (Doing({"reverting"}) => ~Creatable(work[lock].name))
    /\ \A n \in Name : Astray(n) =>
          /\ lock # None
          /\ n \in work[lock].todo \/ On({"starting"}, Parent[n]) \/ On({"stopping", "removing"}, n)

(* One failure at most: a container is there, or its edit is about to make  *)
(* it; one that owns its network runs, or is about to, or was left halfway; *)
(* what is reverted is so because of that failure.                          *)
Whole ==
    /\ \A n \in Name : Here(n) => n \in Existing
    /\ Doing(Body) => work[lock].name \in Existing
    /\ \A n \in Existing : Here(n) \/ On({"waiting", "creating", "reverting"}, n)
    /\ \A n \in Name : Here(n) /\ Parent[n] = None /\ ~box[n].up =>
          On({"removing", "starting", "restarting"}, n) \/ \E t \in Task : pc[t] = "halfway"
    /\ Doing({"reverting", "restarting"}) => faults = 1

(* The network of the start is not cleaned up, and what is created again is *)
(* connected to it again.                                                   *)
Joined ==
    /\ Home \in nets
    /\ \A n \in Name : Here(n) /\ Parent[n] = None => Home \in box[n].on
    /\ Doing(Body) /\ Parent[work[lock].name] = None => Home \in work[lock].was.on

KInv ==
    OnlyEdits => /\ Tenure
                 /\ faults = 0 => Smooth
                 /\ Complete /\ faults <= 1 => Whole
                 /\ Complete /\ Peopled /\ faults <= 1 => Joined

-----------------------------------------------------------------------------
(* What the daemon's calls do to a container, and only to it.               *)

Toggles(n, b) ==
    /\ box[n] # None /\ box'[n] # None /\ box'[n].up = b
    /\ box'[n].id = box[n].id /\ box'[n].joins = box[n].joins /\ box'[n].on = box[n].on
    /\ box'[n].conf = box[n].conf
    /\ \A m \in Name \ {n} : box'[m] = box[m]
    /\ nets' = nets

LEMMA Toggle ==
    ASSUME Shape, NEW n \in Name, Here(n)
    PROVE  /\ SetBox(n, Halted(n)) => Toggles(n, FALSE)
           /\ SetBox(n, Started(n)) => Toggles(n, TRUE)
<1>1. box \in [Name -> Box \cup {None}] /\ box[n] \in Box /\ box[n] # None
  BY DEF Shape, DaemonOK, Here
<1>2. ASSUME NEW b \in BOOLEAN
      PROVE  /\ [box[n] EXCEPT !.up = b] \in Box /\ [box[n] EXCEPT !.up = b].up = b
             /\ [box[n] EXCEPT !.up = b].id = box[n].id
             /\ [box[n] EXCEPT !.up = b].joins = box[n].joins
             /\ [box[n] EXCEPT !.up = b].on = box[n].on
             /\ [box[n] EXCEPT !.up = b].conf = box[n].conf
  BY <1>1 DEF Box
<1>3. None \notin Box
  BY NoneAssumption
<1> QED  BY <1>1, <1>2, <1>3 DEF SetBox, Halted, Started, Toggles

Makes(n, conf, on) ==
    /\ box'[n] # None /\ ~box'[n].up /\ box'[n].id = lastId + 1 /\ box'[n].conf = conf
    /\ box'[n].joins = IF Parent[n] = None THEN 0 ELSE box[Parent[n]].id
    /\ box'[n].on = IF Parent[n] = None THEN on \cap nets ELSE {}
    /\ \A m \in Name \ {n} : box'[m] = box[m]
    /\ nets' = nets

LEMMA Make ==
    ASSUME Shape, NEW n \in Name, NEW conf \in SUBSET Task, NEW on, Creatable(n), CreateBox(n, conf, on)
    PROVE  Makes(n, conf, on)
<1>1. box \in [Name -> Box \cup {None}] /\ lastId + 1 \in Nat \ {0}  BY DEF Shape, DaemonOK
<1>2. NewBox(n, conf, on) \in Box
  <2>1. Parent[n] # None => box[Parent[n]] \in Box
    BY <1>1, DockerAssumption DEF Creatable, Here
  <2>2. (IF Parent[n] = None THEN 0 ELSE box[Parent[n]].id) \in Nat  BY <2>1 DEF Box
  <2>3. (IF Parent[n] = None THEN on \cap nets ELSE {}) \in SUBSET (Task \cup {Home})
    BY DEF Shape, DaemonOK
  <2> QED  BY <1>1, <2>2, <2>3 DEF NewBox, Box
<1>3. NewBox(n, conf, on) # None  BY <1>2, NoneAssumption
<1>4. box' = [box EXCEPT ![n] = NewBox(n, conf, on)] /\ nets' = nets  BY DEF CreateBox
<1>5. box'[n] = NewBox(n, conf, on) /\ \A m \in Name \ {n} : box'[m] = box[m]  BY <1>1, <1>4
<1> QED  BY <1>3, <1>4, <1>5 DEF NewBox, Makes

Removes(n) ==
    /\ box'[n] = None /\ \A m \in Name \ {n} : box'[m] = box[m]
    /\ nets' = nets

LEMMA Removal == ASSUME Shape, NEW n \in Name, SetBox(n, None) PROVE Removes(n)
BY DEF Shape, DaemonOK, SetBox, Removes

LEMMA Kin ==
    /\ \A n \in Name : Parent[n] # n /\ (Parent[n] # None => Parent[n] \in Name)
    /\ Existing \subseteq Name
BY DockerAssumption

(* Whoever is in an edit has the lock, and has asked to work on something.  *)
LEMMA Holding ==
    ASSUME Shape, Disciplined, NEW t \in Task, pc[t] \in InFlight
    PROVE  /\ lock = t /\ lock # None /\ work[t] \in Frame /\ faults \in Nat
           /\ pc \in [Task -> Pcs] /\ work \in [Task -> Frame]
           /\ pc[t] \in Body => work[t].name \in Name /\ work[t].was \in Box
BY NoneIsNoTask DEF Disciplined, Shape, FramesOK, BoundsOK

(* Failures only ever add up.                                               *)
LEMMA Adding ==
    ASSUME Shape, Works \/ Fails
    PROVE  /\ faults \in Nat /\ faults' \in Nat /\ hands' = hands
           /\ faults' \in {faults, faults + 1} /\ (Works => faults' = faults)
           /\ Fails => faults' = faults + 1
BY DEF Shape, BoundsOK, Works, Fails

-----------------------------------------------------------------------------
(* Each step of an edit keeps all of that.                                  *)

(* What is to be shown of a step from what was known before it.             *)
KInvAfter ==
    /\ Tenure'
    /\ faults' = 0 => Smooth'
    /\ Complete /\ faults' <= 1 => Whole'
    /\ Complete /\ Peopled /\ faults' <= 1 => Joined'

(* An edit that gives up leaves the containers as they are.                 *)
LEMMA Leaving ==
    ASSUME Shape, Disciplined, OnlyEdits, KInv, NEW t \in Task, pc[t] \in Body, NEW o \in Over, Leave(t, o),
           UNCHANGED <<box, nets, work>>, Works \/ Fails,
           pc[t] \in {"stopping", "removing", "reverting", "restarting"},
           faults' = 0 => pc[t] = "reverting",
           Complete /\ faults' <= 1 => pc[t] # "reverting",
           (Complete /\ faults' <= 1 /\ Parent[work[t].name] = None) =>
               pc[t] = "stopping" \/ (pc[t] = "removing" /\ o = "halfway")
    PROVE  KInvAfter
<1>1. /\ lock = t /\ lock # None /\ work[t].name \in Name /\ pc \in [Task -> Pcs]
      /\ faults \in Nat /\ faults' \in {faults, faults + 1}
  BY Holding, Adding DEF InFlight
<1> DEFINE l == IF work[t].nested THEN "dependants" ELSE o
<1>2. /\ pc' = [pc EXCEPT ![t] = l] /\ l \notin Body
      /\ lock' = IF work[t].nested THEN t ELSE None
  BY <1>1 DEF Leave, Go, Over, Body
<1>3. Tenure /\ (Complete /\ faults <= 1 => Whole) /\ (Complete /\ Peopled /\ faults <= 1 => Joined)
      /\ (faults = 0 => Smooth)
  BY DEF KInv
<1>4. Tenure'
  BY <1>1, <1>2, <1>3 DEF Tenure, Doing, Found, Here, Body
<1>5. ASSUME faults' = 0 PROVE Smooth'
  <2>1. pc[t] = "reverting" /\ Smooth  BY <1>1, <1>3, <1>5
  <2>2. \A m \in Name : Astray(m) => m \in work[t].todo
    BY <1>1, <2>1 DEF Smooth, Doing, On
  <2>3. ~work[t].nested => work[t].todo = {}
    BY <1>1, <1>3, <2>1 DEF Tenure, Doing, Body
  <2> QED
    BY <1>1, <1>2, <2>1, <2>2, <2>3 DEF Smooth, Astray, Doing, On, Here, Body
<1>6. ASSUME Complete, faults' <= 1 PROVE Whole'
  <2>1. Whole /\ pc[t] \notin {"reverting", "waiting", "creating"}
    BY <1>1, <1>3, <1>6
  <2>2. \A n \in Existing : Here(n)
    BY <1>1, <2>1 DEF Whole, On, Doing
  <2>3. ~Doing({"reverting", "restarting"})' /\ ~Doing(Body)'
    BY <1>1, <1>2 DEF Doing, Body
  <2>4. ASSUME NEW n \in Name, Here(n), Parent[n] = None, ~box[n].up PROVE \E u \in Task : pc'[u] = "halfway"
    <3>1. CASE n = work[t].name /\ pc[t] \in {"removing", "restarting"}
      <4>1. pc[t] = "removing" /\ o = "halfway" /\ ~work[t].nested
        BY <1>1, <1>3, <1>6, <2>4, <3>1 DEF Tenure, Doing, Body
      <4> QED  BY <1>1, <1>2, <4>1
    <3>2. CASE ~(n = work[t].name /\ pc[t] \in {"removing", "restarting"})
      <4>1. PICK u \in Task : pc[u] = "halfway"
        BY <1>1, <2>1, <2>4, <3>2 DEF Whole, On, Doing
      <4>2. pc'[u] = "halfway"  BY <1>1, <1>2, <4>1 DEF Body
      <4> QED  BY <4>2
    <3> QED  BY <3>1, <3>2
  <2> QED  BY <2>1, <2>2, <2>3, <2>4 DEF Whole, Here
<1>7. ASSUME Complete, Peopled, faults' <= 1 PROVE Joined'
  BY <1>1, <1>2, <1>3, <1>7 DEF Joined, Doing, Here, Body
<1> QED  BY <1>4, <1>5, <1>6, <1>7 DEF KInvAfter

LEMMA StopKeeps ==
    ASSUME Shape, Disciplined, OnlyEdits, KInv, NEW t \in Task, Stop(t)
    PROVE  KInvAfter
<1> DEFINE n == work[t].name
<1>1. pc[t] = "stopping" /\ pc[t] \in Body /\ pc[t] \in InFlight  BY DEF Stop, Body, InFlight
<1>2. /\ lock = t /\ lock # None /\ n \in Name /\ pc \in [Task -> Pcs] /\ work' = work
      /\ faults \in Nat
  BY <1>1, Holding DEF Stop
<1>3. Tenure  BY DEF KInv
<1>4. Found(work[t])  BY <1>1, <1>2, <1>3 DEF Tenure, Doing
<1>5. CASE SetBox(n, Halted(n)) /\ Go(t, "removing") /\ UNCHANGED lock /\ Works
  <2>1. Toggles(n, FALSE)  BY <1>2, <1>4, <1>5, Toggle DEF Found
  <2>2. pc' = [pc EXCEPT ![t] = "removing"] /\ lock' = t /\ faults' = faults
    BY <1>2, <1>5 DEF Go, Works
  <2>3. Tenure'
    BY <1>1, <1>2, <1>3, <1>4, <2>1, <2>2 DEF Tenure, Doing, Found, Here, Toggles, Body
  <2>4. Smooth => Smooth'
    BY <1>1, <1>2, <2>1, <2>2, Kin DEF Smooth, Astray, Doing, On, Here, Creatable, Toggles, Body
  <2>5. Whole => Whole'
    <3>1. \A u \in Task : pc[u] = "halfway" => pc'[u] = "halfway"  BY <1>1, <1>2, <2>2
    <3> QED  BY <1>1, <1>2, <2>1, <2>2, <3>1, Kin DEF Whole, Doing, On, Here, Toggles, Body
  <2>6. Joined => Joined'
    BY <1>1, <1>2, <2>1, <2>2 DEF Joined, Doing, Here, Toggles, Body
  <2> QED  BY <2>2, <2>3, <2>4, <2>5, <2>6 DEF KInvAfter, KInv
<1>6. CASE Leave(t, "refused") /\ UNCHANGED daemon /\ Fails
  BY <1>1, <1>2, <1>6, Leaving, Adding DEF Over, daemon
<1> QED  BY <1>4, <1>5, <1>6 DEF Stop

LEMMA RemoveKeeps ==
    ASSUME Shape, Disciplined, OnlyEdits, KInv, NEW t \in Task, Remove(t)
    PROVE  KInvAfter
<1> DEFINE n == work[t].name
<1>1. pc[t] = "removing" /\ pc[t] \in Body /\ pc[t] \in InFlight  BY DEF Remove, Body, InFlight
<1>2. /\ lock = t /\ lock # None /\ n \in Name /\ pc \in [Task -> Pcs] /\ work' = work
      /\ faults \in Nat
  BY <1>1, Holding DEF Remove
<1>3. Tenure  BY DEF KInv
<1>4. Found(work[t]) /\ ~box[n].up  BY <1>1, <1>2, <1>3 DEF Tenure, Doing
<1>5. CASE SetBox(n, None) /\ Go(t, "waiting") /\ UNCHANGED lock /\ Works
  <2>1. Removes(n)  BY <1>2, <1>5, Removal
  <2>2. pc' = [pc EXCEPT ![t] = "waiting"] /\ lock' = t /\ faults' = faults
    BY <1>2, <1>5 DEF Go, Works
  <2>3. Tenure'
    BY <1>1, <1>2, <1>3, <2>1, <2>2 DEF Tenure, Doing, Found, Here, Removes, Body
  <2>4. Smooth => Smooth'
    BY <1>1, <1>2, <2>1, <2>2, Kin DEF Smooth, Astray, Doing, On, Here, Creatable, Removes, Body
  <2>5. Whole => Whole'
    <3>1. \A u \in Task : pc[u] = "halfway" => pc'[u] = "halfway"  BY <1>1, <1>2, <2>2
    <3> QED  BY <1>1, <1>2, <2>1, <2>2, <3>1, Kin DEF Whole, Doing, On, Here, Removes, Body
  <2>6. Joined => Joined'
    BY <1>1, <1>2, <2>1, <2>2 DEF Joined, Doing, Here, Removes, Body
  <2> QED  BY <2>2, <2>3, <2>4, <2>5, <2>6 DEF KInvAfter, KInv
<1>6. CASE Leave(t, "halfway") /\ UNCHANGED daemon /\ Fails
  BY <1>1, <1>2, <1>6, Leaving, Adding DEF Over, daemon, Remove
<1> QED  BY <1>4, <1>5, <1>6 DEF Remove

LEMMA WaitKeeps ==
    ASSUME Shape, Disciplined, OnlyEdits, KInv, NEW t \in Task, WaitDestroyed(t)
    PROVE  KInvAfter
<1>1. pc[t] = "waiting" /\ pc[t] \in Body /\ pc[t] \in InFlight  BY DEF WaitDestroyed, Body, InFlight
<1>2. /\ lock = t /\ lock # None /\ work[t].name \in Name /\ pc \in [Task -> Pcs] /\ work' = work
  BY <1>1, Holding DEF WaitDestroyed
<1>3. pc' = [pc EXCEPT ![t] = "creating"] /\ lock' = t /\ faults' = faults /\ UNCHANGED <<box, nets>>
  BY <1>2 DEF WaitDestroyed, Go, daemon, bounds
<1>4. Tenure => Tenure'
  BY <1>1, <1>2, <1>3 DEF Tenure, Doing, Found, Here, Body
<1>5. Smooth => Smooth'
  BY <1>1, <1>2, <1>3, Kin DEF Smooth, Astray, Doing, On, Here, Creatable, Body
<1>6. Whole => Whole'
  <2>1. \A u \in Task : pc[u] = "halfway" => pc'[u] = "halfway"  BY <1>1, <1>2, <1>3
  <2> QED  BY <1>1, <1>2, <1>3, <2>1, Kin DEF Whole, Doing, On, Here, Body
<1>7. Joined => Joined'
  BY <1>1, <1>2, <1>3 DEF Joined, Doing, Here, Body
<1> QED  BY <1>3, <1>4, <1>5, <1>6, <1>7 DEF KInvAfter, KInv

(* With its parent there, what was removed can be created again.            *)
LEMMA CanCreate ==
    ASSUME Shape, Tenure, Whole, Complete, NEW t \in Task, lock = t, lock # None,
           pc[t] \in {"waiting", "creating", "reverting"}, work[t].name \in Name
    PROVE  Creatable(work[t].name)
<1>1. ~Here(work[t].name)  BY DEF Tenure, Doing
<1>2. work[t].name \in Existing  BY DEF Whole, Doing, Body
<1>3. ASSUME Parent[work[t].name] # None PROVE Here(Parent[work[t].name])
  <2>1. Parent[work[t].name] \in Existing /\ Parent[work[t].name] # work[t].name
    BY <1>2, <1>3, Kin DEF Complete
  <2> QED  BY <2>1 DEF Whole, On
<1> QED  BY <1>1, <1>3 DEF Creatable

LEMMA CreateKeeps ==
    ASSUME Shape, Disciplined, OnlyEdits, KInv, NEW t \in Task, Create(t)
    PROVE  KInvAfter
<1> DEFINE n == work[t].name
<1>1. pc[t] = "creating" /\ pc[t] \in Body /\ pc[t] \in InFlight  BY DEF Create, Body, InFlight
<1>2. /\ lock = t /\ lock # None /\ n \in Name /\ pc \in [Task -> Pcs] /\ work \in [Task -> Frame]
      /\ work[t] \in Frame /\ work[t].was \in Box /\ faults \in Nat
  BY <1>1, Holding
<1>3. Tenure  BY DEF KInv
<1>4. CASE /\ Creatable(n) /\ CreateBox(n, work[t].conf, work[t].was.on) /\ Works
           /\ work' = [work EXCEPT ![t].id = lastId + 1] /\ Go(t, "starting")
  <2>1. Makes(n, work[t].conf, work[t].was.on)  BY <1>2, <1>4, Make DEF Frame
  <2>2. pc' = [pc EXCEPT ![t] = "starting"] /\ lock' = t /\ faults' = faults
    BY <1>2, <1>4 DEF Go, Works, Create
  <2>3. /\ work'[t].name = n /\ work'[t].id = lastId + 1 /\ work'[t].todo = work[t].todo
        /\ work'[t].nested = work[t].nested /\ work'[t].was = work[t].was
    BY <1>2, <1>4 DEF Frame
  <2>4. Parent[n] # None => Here(Parent[n])  BY <1>4 DEF Creatable
  <2>5. Tenure'
    BY <1>1, <1>2, <1>3, <2>1, <2>2, <2>3, <2>4, Kin DEF Tenure, Doing, Found, Here, Makes, Body
  <2>6. Smooth => Smooth'
    BY <1>1, <1>2, <1>3, <2>1, <2>2, <2>3, <2>4, Kin DEF Smooth, Tenure, Astray, Doing, On, Here, Makes, Body
  <2>7. Whole => Whole'
    <3>1. \A u \in Task : pc[u] = "halfway" => pc'[u] = "halfway"  BY <1>1, <1>2, <2>2
    <3> QED  BY <1>1, <1>2, <2>1, <2>2, <2>3, <3>1, Kin DEF Whole, Doing, On, Here, Makes, Body
  <2>8. Joined => Joined'
    BY <1>1, <1>2, <2>1, <2>2, <2>3 DEF Joined, Doing, Here, Makes, Body
  <2> QED  BY <2>2, <2>5, <2>6, <2>7, <2>8 DEF KInvAfter, KInv
<1>5. CASE /\ Go(t, "reverting") /\ UNCHANGED <<daemon, work>>
           /\ IF Creatable(n) THEN Fails ELSE Works
  <2>1. /\ pc' = [pc EXCEPT ![t] = "reverting"] /\ lock' = t /\ UNCHANGED <<box, nets, work>>
        /\ faults' \in Nat /\ faults' = IF Creatable(n) THEN faults + 1 ELSE faults
    BY <1>2, <1>5, Adding DEF Go, daemon, Create
  <2>2. Tenure'
    BY <1>1, <1>2, <1>3, <2>1 DEF Tenure, Doing, Found, Here, Body
  <2>3. ASSUME faults' = 0 PROVE Smooth'
    <3>1. ~Creatable(n) /\ Smooth  BY <1>2, <2>1, <2>3 DEF KInv
    <3> QED
      BY <1>1, <1>2, <2>1, <3>1, Kin DEF Smooth, Astray, Doing, On, Here, Creatable, Body
  <2>4. ASSUME Complete, faults' <= 1 PROVE Whole'
    <3>1. faults <= 1 /\ Whole  BY <1>2, <2>1, <2>4 DEF KInv
    <3>2. Creatable(n)  BY <1>1, <1>2, <1>3, <2>4, <3>1, CanCreate
    <3>3. faults' = 1  BY <1>2, <2>1, <2>4, <3>2
    <3>4. \A u \in Task : pc[u] = "halfway" => pc'[u] = "halfway"  BY <1>1, <1>2, <2>1
    <3> QED  BY <1>1, <1>2, <2>1, <3>1, <3>3, <3>4, Kin DEF Whole, Doing, On, Here, Body
  <2>5. ASSUME Complete, Peopled, faults' <= 1 PROVE Joined'
    <3>1. Joined  BY <1>2, <2>1, <2>5 DEF KInv
    <3> QED  BY <1>1, <1>2, <2>1, <3>1 DEF Joined, Doing, Here, Body
  <2> QED  BY <2>2, <2>3, <2>4, <2>5 DEF KInvAfter
<1> QED  BY <1>4, <1>5 DEF Create

(* Until something fails what was just made can be started.                 *)
LEMMA CanStart ==
    ASSUME Shape, Tenure, Smooth, NEW t \in Task, lock = t, lock # None, pc[t] = "starting",
           work[t].name \in Name
    PROVE  Found(work[t]) /\ Startable(work[t].name)
<1> DEFINE n == work[t].name
<1>1. Found(work[t]) /\ Here(n)  BY DEF Tenure, Doing, Found
<1>2. CASE Parent[n] = None
  BY <1>1, <1>2 DEF Tenure, Startable
<1>3. CASE Parent[n] # None
  <2>1. Parent[n] \in Name /\ Parent[n] # n /\ Here(Parent[n])
    BY <1>3, Kin DEF Tenure, Doing
  <2>2. n \notin work[t].todo  BY DEF Tenure, Doing, Body
  <2>3. ~Astray(n)  BY <2>1, <2>2 DEF Smooth, Doing, On
  <2>4. box[n].joins = box[Parent[n]].id  BY <1>1, <1>3, <2>1, <2>3 DEF Astray
  <2>5. box[Parent[n]].up  BY <2>1 DEF Smooth, On
  <2> QED  BY <1>1, <2>1, <2>4, <2>5 DEF Startable, Live
<1> QED  BY <1>1, <1>2, <1>3

LEMMA StartKeeps ==
    ASSUME Shape, Disciplined, OnlyEdits, KInv, NEW t \in Task, Start(t)
    PROVE  KInvAfter
<1> DEFINE n == work[t].name
<1>1. pc[t] = "starting" /\ pc[t] \in Body /\ pc[t] \in InFlight  BY DEF Start, Body, InFlight
<1>2. /\ lock = t /\ lock # None /\ n \in Name /\ pc \in [Task -> Pcs] /\ work \in [Task -> Frame]
      /\ work[t] \in Frame /\ faults \in Nat
  BY <1>1, Holding
<1>3. Tenure  BY DEF KInv
<1>4. Toggles(n, TRUE)  BY <1>2, Toggle DEF Start, Found
<1>5. pc' = [pc EXCEPT ![t] = "dependants"] /\ lock' = t /\ faults' = faults
  BY <1>2 DEF Start, Go, Works
<1>6. /\ work'[t].todo = work[t].todo \cup {m \in Name : Here(m) /\ Parent[m] = n}
  BY <1>2 DEF Frame, Start, Dependants
<1>7. Tenure'
  BY <1>1, <1>2, <1>3, <1>4, <1>5, <1>6, NoneIsNoTask DEF Tenure, Doing, Found, Here, Toggles, Body
<1>8. Smooth => Smooth'
  BY <1>1, <1>2, <1>4, <1>5, <1>6, Kin DEF Smooth, Astray, Doing, On, Here, Toggles, Body
<1>9. Whole => Whole'
  <2>1. \A u \in Task : pc[u] = "halfway" => pc'[u] = "halfway"  BY <1>1, <1>2, <1>5
  <2> QED  BY <1>1, <1>2, <1>4, <1>5, <2>1, Kin DEF Whole, Doing, On, Here, Toggles, Body
<1>10. Joined => Joined'
  BY <1>1, <1>2, <1>4, <1>5 DEF Joined, Doing, Here, Toggles, Body
<1> QED  BY <1>5, <1>7, <1>8, <1>9, <1>10 DEF KInvAfter, KInv

LEMMA StartFailsKeeps ==
    ASSUME Shape, Disciplined, OnlyEdits, KInv, NEW t \in Task, StartFails(t)
    PROVE  KInvAfter
<1> DEFINE n == work[t].name
<1>1. pc[t] = "starting" /\ pc[t] \in Body /\ pc[t] \in InFlight  BY DEF StartFails, Body, InFlight
<1>2. /\ lock = t /\ lock # None /\ n \in Name /\ pc \in [Task -> Pcs] /\ work' = work
      /\ faults \in Nat
  BY <1>1, Holding DEF StartFails
<1>3. Tenure  BY DEF KInv
<1>4. Removes(n)
  <2>1. Found(work[t])  BY <1>1, <1>2, <1>3 DEF Tenure, Doing
  <2> QED  BY <1>2, <2>1 DEF StartFails, BrokenRemoved, Removes, Shape, DaemonOK
<1>5. /\ pc' = [pc EXCEPT ![t] = "reverting"] /\ lock' = t
      /\ faults' = IF Found(work[t]) /\ Startable(n) THEN faults + 1 ELSE faults
  BY <1>2, Adding DEF StartFails, Go
<1>6. faults = 0 => faults' = 1  BY <1>1, <1>2, <1>3, <1>5, CanStart DEF KInv
<1>7. Tenure'
  BY <1>1, <1>2, <1>3, <1>4, <1>5 DEF Tenure, Doing, Found, Here, Removes, Body
<1>8. faults' # 0  BY <1>2, <1>5, <1>6
<1>9. ASSUME Complete, faults' <= 1 PROVE Whole'
  <2>1. faults' = 1 /\ Whole  BY <1>2, <1>5, <1>6, <1>9 DEF KInv
  <2>2. \A u \in Task : pc[u] = "halfway" => pc'[u] = "halfway"  BY <1>1, <1>2, <1>5
  <2> QED  BY <1>1, <1>2, <1>4, <1>5, <2>1, <2>2, Kin DEF Whole, Doing, On, Here, Removes, Body
<1>10. ASSUME Complete, Peopled, faults' <= 1 PROVE Joined'
  <2>1. Joined  BY <1>2, <1>5, <1>10 DEF KInv
  <2> QED  BY <1>1, <1>2, <1>4, <1>5, <2>1 DEF Joined, Doing, Here, Removes, Body
<1> QED  BY <1>7, <1>8, <1>9, <1>10 DEF KInvAfter

LEMMA RevertCreateKeeps ==
    ASSUME Shape, Disciplined, OnlyEdits, KInv, NEW t \in Task, RevertCreate(t)
    PROVE  KInvAfter
<1> DEFINE n == work[t].name
<1>1. pc[t] = "reverting" /\ pc[t] \in Body /\ pc[t] \in InFlight
  BY DEF RevertCreate, Body, InFlight
<1>2. /\ lock = t /\ lock # None /\ n \in Name /\ pc \in [Task -> Pcs] /\ work \in [Task -> Frame]
      /\ work[t] \in Frame /\ work[t].was \in Box /\ faults \in Nat
  BY <1>1, Holding
<1>3. Tenure  BY DEF KInv
<1>4. CASE /\ Creatable(n) /\ CreateBox(n, work[t].was.conf, work[t].was.on) /\ Works
           /\ work' = [work EXCEPT ![t].id = lastId + 1] /\ Go(t, "restarting") /\ UNCHANGED lock
  <2>1. Makes(n, work[t].was.conf, work[t].was.on)
    <3>1. work[t].was.conf \in SUBSET Task  BY <1>2 DEF Box
    <3> QED  BY <1>2, <1>4, <3>1, Make
  <2>2. pc' = [pc EXCEPT ![t] = "restarting"] /\ lock' = t /\ faults' = faults
    BY <1>2, <1>4 DEF Go, Works
  <2>3. /\ work'[t].name = n /\ work'[t].id = lastId + 1 /\ work'[t].todo = work[t].todo
        /\ work'[t].nested = work[t].nested /\ work'[t].was = work[t].was
    BY <1>2, <1>4 DEF Frame
  <2>4. Parent[n] # None => Here(Parent[n])  BY <1>4 DEF Creatable
  <2>5. Tenure'
    BY <1>1, <1>2, <1>3, <2>1, <2>2, <2>3, <2>4, Kin DEF Tenure, Doing, Found, Here, Makes, Body
  <2>6. faults' # 0
    BY <1>1, <1>2, <1>4, <2>2 DEF KInv, Smooth, Doing
  <2>7. Whole => Whole'
    <3>1. \A u \in Task : pc[u] = "halfway" => pc'[u] = "halfway"  BY <1>1, <1>2, <2>2
    <3> QED  BY <1>1, <1>2, <2>1, <2>2, <2>3, <3>1, Kin DEF Whole, Doing, On, Here, Makes, Body
  <2>8. Joined => Joined'
    BY <1>1, <1>2, <2>1, <2>2, <2>3 DEF Joined, Doing, Here, Makes, Body
  <2> QED  BY <2>2, <2>5, <2>6, <2>7, <2>8 DEF KInvAfter, KInv
<1>5. CASE /\ Leave(t, "lost") /\ UNCHANGED <<daemon, work>>
           /\ IF Creatable(n) THEN Fails ELSE Works
  <2>1. UNCHANGED <<box, nets, work>> /\ (Works \/ Fails)  BY <1>5 DEF daemon
  <2>2. faults' \in Nat /\ faults' = IF Creatable(n) THEN faults + 1 ELSE faults
    BY <1>5, Adding
  <2>3. ASSUME Complete PROVE faults' > 1
    <3> SUFFICES ASSUME faults' <= 1 PROVE FALSE  BY <2>2
    <3>1. faults <= 1 /\ Whole  BY <1>2, <2>2, <2>3 DEF KInv
    <3>2. Creatable(n)  BY <1>1, <1>2, <1>3, <2>3, <3>1, CanCreate
    <3>3. faults = 1  BY <1>1, <1>2, <3>1 DEF Whole, Doing
    <3> QED  BY <2>2, <3>2, <3>3
  <2> QED  BY <1>1, <1>5, <2>1, <2>2, <2>3, Leaving DEF Over
<1> QED  BY <1>4, <1>5 DEF RevertCreate

LEMMA RevertStartKeeps ==
    ASSUME Shape, Disciplined, OnlyEdits, KInv, NEW t \in Task, RevertStart(t)
    PROVE  KInvAfter
<1> DEFINE n == work[t].name
<1>1. pc[t] = "restarting" /\ pc[t] \in Body /\ pc[t] \in InFlight
  BY DEF RevertStart, Body, InFlight
<1>2. /\ lock = t /\ lock # None /\ n \in Name /\ pc \in [Task -> Pcs] /\ work' = work
      /\ faults \in Nat /\ faults # 0
  BY <1>1, Holding DEF RevertStart, KInv, Smooth, Doing
<1>3. Tenure /\ Found(work[t])  BY <1>1, <1>2 DEF KInv, Tenure, Doing
<1>4. CASE SetBox(n, Started(n)) /\ Leave(t, "restored") /\ Works
  <2> DEFINE l == IF work[t].nested THEN "dependants" ELSE "restored"
  <2>1. Toggles(n, TRUE)  BY <1>2, <1>3, <1>4, Toggle DEF Found
  <2>2. /\ pc' = [pc EXCEPT ![t] = l] /\ l \notin Body /\ faults' = faults
        /\ lock' = IF work[t].nested THEN t ELSE None
    BY <1>2, <1>4 DEF Leave, Go, Body, Works
  <2>3. Tenure'
    BY <1>1, <1>2, <1>3, <2>1, <2>2 DEF Tenure, Doing, Found, Here, Toggles, Body
  <2>4. Whole => Whole'
    <3>1. \A u \in Task : pc[u] = "halfway" => pc'[u] = "halfway"  BY <1>1, <1>2, <2>2
    <3> QED  BY <1>1, <1>2, <2>1, <2>2, <3>1, Kin DEF Whole, Doing, On, Here, Toggles, Body
  <2>5. Joined => Joined'
    BY <1>1, <1>2, <2>1, <2>2 DEF Joined, Doing, Here, Toggles, Body
  <2> QED  BY <1>2, <2>2, <2>3, <2>4, <2>5 DEF KInvAfter, KInv
<1>5. CASE UNCHANGED daemon /\ Leave(t, "broken") /\ IF Found(work[t]) /\ Startable(n) THEN Fails ELSE Works
  <2>1. faults' \in Nat /\ faults' = IF Found(work[t]) /\ Startable(n) THEN faults + 1 ELSE faults
    BY <1>5, Adding
  <2>2. ASSUME Complete, faults' <= 1, Parent[n] = None PROVE FALSE
    <3>1. Startable(n)  BY <1>2, <1>3, <2>2 DEF Tenure, Startable, Found
    <3> QED  BY <1>2, <1>3, <2>1, <2>2, <3>1
  <2>3. faults' # 0  BY <1>2, <2>1
  <2> QED  BY <1>1, <1>2, <1>5, <2>2, <2>3, Leaving DEF Over, daemon
<1> QED  BY <1>4, <1>5 DEF RevertStart

(* An edit, or the next one inside it, begins with a container that is there.*)
LEMMA BeginKeeps ==
    ASSUME Shape, Disciplined, OnlyEdits, KInv, NEW t \in Task, NEW f \in Frame,
           pc[t] \in {"asked", "dependants"}, lock \in {None, t},
           \A u \in Task : pc[u] \notin Body,
           UNCHANGED <<box, nets, faults>>, lock' = t, lock' # None,
           work' = [work EXCEPT ![t] = f], Go(t, "stopping"),
           f.name \in Name, Found(f), f.was = box[f.name],
           lock = t => f.todo = work[t].todo \ {f.name},
           lock = None => f.todo = {},
           f.name \notin f.todo, IF f.nested THEN Parent[f.name] # None ELSE f.todo = {}
    PROVE  KInvAfter
<1>1. /\ pc \in [Task -> Pcs] /\ work \in [Task -> Frame] /\ faults \in Nat
      /\ pc' = [pc EXCEPT ![t] = "stopping"]
  BY DEF Shape, FramesOK, BoundsOK, Go
<1>2. work'[t] = f /\ pc'[t] = "stopping" /\ f.todo \subseteq Name  BY <1>1 DEF Frame
<1>3. \A pcs \in SUBSET Body : ~Doing(pcs)  BY DEF Doing
<1>4. Tenure => Tenure'
  BY <1>2 DEF Tenure, Doing, Found, Here
<1>5. Smooth => Smooth'
  <2>1. \A n \in Name : ~On({"starting"}, Parent[n]) /\ ~On({"stopping", "removing"}, n)
                        /\ ~On({"removing", "starting"}, n)
    BY DEF On, Doing, Body
  <2> QED  BY <1>2, <2>1 DEF Smooth, Astray, Doing, On, Here
<1>6. Whole => Whole'
  <2>1. \A u \in Task : pc[u] = "halfway" => pc'[u] = "halfway"  BY <1>1
  <2>2. \A n \in Name : ~On({"waiting", "creating", "reverting"}, n)
                        /\ ~On({"removing", "starting", "restarting"}, n)
    BY DEF On, Doing, Body
  <2> QED  BY <1>2, <2>1, <2>2, Kin DEF Whole, Doing, On, Here, Found
<1>7. Joined => Joined'
  BY <1>2 DEF Joined, Doing, Here, Found
<1> QED  BY <1>4, <1>5, <1>6, <1>7 DEF KInvAfter, KInv

(* Nothing that KInv speaks of.                                             *)
LEMMA BesideKeeps ==
    ASSUME KInv, OnlyEdits, UNCHANGED <<box, nets, lock, faults, work>>,
           lock # None => pc'[lock] = pc[lock],
           \A u \in Task : pc[u] = "halfway" => pc'[u] = "halfway"
    PROVE  KInvAfter
BY DEF KInv, KInvAfter, Tenure, Smooth, Whole, Joined, Astray, Doing, On, Here, Found, Creatable

LEMMA EnterKeeps ==
    ASSUME Shape, Disciplined, OnlyEdits, KInv, NEW t \in Task, Enter(t)
    PROVE  KInvAfter
<1> DEFINE w == [NoWork EXCEPT !.name = TargetOf(t), !.id = RefersTo(t), !.conf = ask[t].conf]
           f == [w EXCEPT !.was = box[w.name]]
<1>1. /\ pc[t] = "asked" /\ lock = None /\ Kind[t] # "service" /\ TargetOf(t) \in Name
      /\ pc \in [Task -> Pcs] /\ t # None
  BY TargetIsOne, NoneIsNoTask DEF Enter, Disciplined, Shape, FramesOK
<1>2. CASE Found(w) /\ Works /\ work' = [work EXCEPT ![t] = f] /\ lock' = t /\ Go(t, "stopping")
  <2>1. RefersTo(t) \in Nat /\ ask[t].conf \in SUBSET Task  BY DEF Shape, AskOK, RefersTo
  <2>2. w.name = TargetOf(t) /\ w.id = RefersTo(t)  BY DEF NoWork
  <2>3. box[TargetOf(t)] \in Box  BY <1>1, <1>2, <2>2 DEF Found, Here, Shape, DaemonOK
  <2>4. f \in Frame /\ f.name = TargetOf(t) /\ f.was = box[f.name] /\ f.todo = {} /\ ~f.nested
    BY <1>1, <2>1, <2>3 DEF NoWork, Frame
  <2>5. f.id = w.id  BY DEF NoWork
  <2>6. Found(f)  BY <1>2, <2>2, <2>4, <2>5 DEF Found
  <2>7. \A u \in Task : pc[u] \notin Body  BY <1>1, NoneIsNoTask DEF Disciplined, InFlight
  <2>8. UNCHANGED <<box, nets, faults>>  BY <1>2 DEF Enter, daemon, Works
  <2> HIDE DEF w, f
  <2> QED  BY <1>1, <1>2, <2>4, <2>6, <2>7, <2>8, BeginKeeps
<1>3. CASE Go(t, "refused") /\ UNCHANGED <<lock, work>> /\ IF Found(w) THEN Fails ELSE Works
  <2>1. UNCHANGED <<box, nets, lock, work>> /\ faults \in Nat /\ faults' \in {faults, faults + 1}
    BY <1>3, Adding DEF Enter, daemon
  <2>2. \A u \in Task : pc[u] = "halfway" => pc'[u] = "halfway"  BY <1>1, <1>3 DEF Go
  <2>3. \A pcs : ~Doing(pcs) /\ ~Doing(pcs)'  BY <1>1, <2>1 DEF Doing
  <2> HIDE DEF w
  <2> QED
    BY <1>1, <2>1, <2>2, <2>3 DEF KInv, KInvAfter, Tenure, Smooth, Whole, Joined, Astray, On, Here, Found
<1> QED  BY <1>2, <1>3 DEF Enter

LEMMA NextDependantKeeps ==
    ASSUME Shape, Disciplined, OnlyEdits, KInv, NEW t \in Task, NextDependant(t)
    PROVE  KInvAfter
<1> DEFINE todo == work[t].todo
<1>1. pc[t] = "dependants" /\ pc[t] \in InFlight /\ pc[t] \notin Body
      /\ UNCHANGED <<box, nets, faults>>
  BY DEF NextDependant, InFlight, Body, daemon, bounds
<1>2. /\ lock = t /\ lock # None /\ pc \in [Task -> Pcs] /\ work \in [Task -> Frame]
      /\ work[t] \in Frame /\ todo \subseteq Name
  BY <1>1, Holding DEF Frame
<1>3. Tenure /\ \A n \in todo : Parent[n] # None  BY <1>2 DEF KInv, Tenure
<1>4. \A u \in Task : pc[u] \notin Body
  <2>1. ASSUME NEW u \in Task, pc[u] \in Body PROVE FALSE
    BY <1>1, <2>1, Sole DEF InFlight
  <2> QED  BY <2>1
<1>5. ASSUME NEW n \in todo, Here(n), Go(t, "stopping"), UNCHANGED lock,
             work' = [work EXCEPT ![t] = [name |-> n, id |-> box[n].id, conf |-> box[n].conf,
                                          was |-> box[n], todo |-> todo \ {n},
                                          nested |-> TRUE, failed |-> FALSE]]
      PROVE  KInvAfter
  <2> DEFINE f == [name |-> n, id |-> box[n].id, conf |-> box[n].conf, was |-> box[n],
                   todo |-> todo \ {n}, nested |-> TRUE, failed |-> FALSE]
  <2>1. n \in Name /\ box[n] \in Box /\ box[n].id \in Nat /\ box[n].conf \in SUBSET Task
    BY <1>2, <1>5 DEF Here, Shape, DaemonOK, Box
  <2>2. f \in Frame  BY <1>2, <2>1 DEF Frame
  <2>3. /\ f.name = n /\ f.was = box[f.name] /\ f.todo = todo \ {f.name} /\ f.nested
        /\ Found(f) /\ f.name \notin f.todo
    BY <1>5 DEF Found
  <2>4. work' = [work EXCEPT ![t] = f]  BY <1>5
  <2> HIDE DEF f
  <2> QED  BY <1>1, <1>2, <1>3, <1>4, <1>5, <2>1, <2>2, <2>3, <2>4, BeginKeeps
<1>6. ASSUME NEW n \in todo, ~Here(n), work' = [work EXCEPT ![t].todo = @ \ {n}], UNCHANGED <<pc, lock>>
      PROVE  KInvAfter
  <2>1. work'[t].todo = todo \ {n} /\ \A pcs \in SUBSET Body : ~Doing(pcs) /\ ~Doing(pcs)'
    BY <1>1, <1>2, <1>6 DEF Frame, Doing
  <2>2. \A S \in {{"removing", "starting"}, {"restarting"}, {"reverting"}, {"starting"}, {"stopping", "removing"},
                  {"waiting", "creating", "reverting"}, {"removing", "starting", "restarting"},
                  {"stopping", "removing", "starting", "restarting"}, {"starting", "restarting"},
                  {"reverting", "restarting"}, Body} : ~Doing(S) /\ ~Doing(S)'
    BY <2>1 DEF Body
  <2>3. Tenure'  BY <1>1, <1>2, <1>3, <1>6, <2>1, <2>2 DEF Tenure, Here
  <2>4. Smooth => Smooth'
    BY <1>1, <1>2, <1>6, <2>1, <2>2 DEF Smooth, Astray, On, Here
  <2>5. Whole => Whole'  BY <1>1, <1>6, <2>2 DEF Whole, On, Here
  <2>6. Joined => Joined'  BY <1>1, <2>2 DEF Joined, Here
  <2> QED  BY <1>1, <2>3, <2>4, <2>5, <2>6 DEF KInvAfter, KInv
<1>7. ASSUME todo = {}, Go(t, "done"), lock' = None, UNCHANGED work PROVE KInvAfter
  <2>1. \A u \in Task : pc[u] = "halfway" => pc'[u] = "halfway"  BY <1>1, <1>2, <1>7 DEF Go
  <2>2. \A pcs : ~Doing(pcs)'  BY <1>7 DEF Doing
  <2>3. \A pcs \in SUBSET Body : ~Doing(pcs)  BY <1>1, <1>2 DEF Doing
  <2>4. \A S \in {{"removing", "starting"}, {"restarting"}, {"reverting"}, {"starting"}, {"stopping", "removing"},
                  {"waiting", "creating", "reverting"}, {"removing", "starting", "restarting"},
                  {"stopping", "removing", "starting", "restarting"}, {"starting", "restarting"},
                  {"reverting", "restarting"}, Body} : ~Doing(S) /\ ~Doing(S)'
    BY <2>2, <2>3 DEF Body
  <2>5. Tenure'  BY <1>1, <1>3, <1>7, <2>4 DEF Tenure, Here
  <2>6. Smooth => Smooth'
    BY <1>1, <1>2, <1>7, <2>4 DEF Smooth, Astray, On, Here
  <2>7. Whole => Whole'  BY <1>1, <2>1, <2>4 DEF Whole, On, Here
  <2>8. Joined => Joined'  BY <1>1, <2>4 DEF Joined, Here
  <2> QED  BY <1>1, <2>5, <2>6, <2>7, <2>8 DEF KInvAfter, KInv
<1> QED
  <2>1. CASE \E n \in todo :
                IF Here(n)
                THEN /\ work' = [work EXCEPT ![t] = [name |-> n, id |-> box[n].id, conf |-> box[n].conf,
                                                     was |-> box[n], todo |-> todo \ {n}, nested |-> TRUE,
                                                     failed |-> FALSE]]
                     /\ Go(t, "stopping") /\ UNCHANGED lock
                ELSE /\ work' = [work EXCEPT ![t].todo = @ \ {n}]
                     /\ UNCHANGED <<pc, lock>>
    <3>1. PICK n \in todo :
                IF Here(n)
                THEN /\ work' = [work EXCEPT ![t] = [name |-> n, id |-> box[n].id, conf |-> box[n].conf,
                                                     was |-> box[n], todo |-> todo \ {n}, nested |-> TRUE,
                                                     failed |-> FALSE]]
                     /\ Go(t, "stopping") /\ UNCHANGED lock
                ELSE /\ work' = [work EXCEPT ![t].todo = @ \ {n}]
                     /\ UNCHANGED <<pc, lock>>
      BY <2>1
    <3>2. CASE Here(n)  BY <1>5, <3>1, <3>2
    <3>3. CASE ~Here(n)  BY <1>6, <3>1, <3>3
    <3> QED  BY <3>2, <3>3
  <2>2. CASE todo = {} /\ Go(t, "done") /\ lock' = None /\ UNCHANGED work  BY <1>7, <2>2
  <2> QED  BY <2>1, <2>2 DEF NextDependant

LEMMA CleanUpKeeps ==
    ASSUME Shape, Disciplined, OnlyEdits, KInv, NetworkCleanUp
    PROVE  KInvAfter
<1>1. UNCHANGED <<box, lock, pc, work, faults>> /\ lock = None
  BY DEF NetworkCleanUp, CleanUpMayRun, bounds
<1>2. Tenure' /\ (Smooth => Smooth') /\ (Whole => Whole')
  BY <1>1 DEF KInv, Tenure, Smooth, Whole, Astray, Doing, On, Here, Found, Creatable
<1>3. ASSUME Complete, Peopled, faults <= 1 PROVE Joined'
  <2>1. Joined /\ Whole  BY <1>3 DEF KInv
  <2>2. PICK n \in Existing : Parent[n] = None  BY <1>3 DEF Peopled
  <2>3. Here(n) /\ n \in Name /\ Home \in box[n].on  BY <1>1, <2>1, <2>2, Kin DEF Whole, Joined, On, Doing
  <2>4. Home \in nets'  BY <2>1, <2>3 DEF NetworkCleanUp, Joined
  <2> QED  BY <1>1, <2>1, <2>4 DEF Joined, Doing, Here
<1> QED  BY <1>1, <1>2, <1>3 DEF KInv, KInvAfter

LEMMA AskKeeps ==
    ASSUME Shape, Disciplined, OnlyEdits, KInv, NEW t \in Task, Ask(t)
    PROVE  KInvAfter
<1>1. UNCHANGED <<box, nets, lock, faults, work>> /\ pc' = [pc EXCEPT ![t] = "asked"] /\ pc[t] = "new"
      /\ pc \in [Task -> Pcs]
  BY DEF Ask, Go, MayBegin, daemon, bounds, Shape, FramesOK
<1>2. lock # t  BY <1>1 DEF Disciplined, InFlight, Body
<1>3. \A u \in Task : u # t => pc'[u] = pc[u]  BY <1>1
<1>4. lock # None => lock \in Task  BY DEF Shape, FramesOK
<1>5. lock # None => pc'[lock] = pc[lock]  BY <1>2, <1>3, <1>4
<1>6. \A u \in Task : pc[u] = "halfway" => pc'[u] = "halfway"  BY <1>1
<1> QED  BY <1>1, <1>5, <1>6, BesideKeeps

LEMMA EditKeeps ==
    ASSUME Shape, Disciplined, OnlyEdits, KInv, NEW t \in Task, Editing(t)
    PROVE  KInvAfter
BY EnterKeeps, StopKeeps, RemoveKeeps, WaitKeeps, CreateKeeps, StartKeeps, StartFailsKeeps,
   RevertCreateKeeps, RevertStartKeeps, NextDependantKeeps DEF Editing

LEMMA KInvStep == Shape /\ Disciplined /\ KInv /\ [Next]_vars => KInv'
<1> SUFFICES ASSUME Shape, Disciplined, KInv, [Next]_vars, OnlyEdits' PROVE KInv'
  BY DEF KInv
<1> SUFFICES KInvAfter  BY DEF KInvAfter, KInv
<1>1. ASSUME NEW t \in Task, ServiceNetwork(t) \/ Serving(t) PROVE FALSE
  <2>1. PICK l \in Serves \cup {"done", "undone"} : pc' = [pc EXCEPT ![t] = l]  BY <1>1, ServeGoes
  <2>2. Kind[t] = "service" /\ pc'[t] = l /\ l # "new"
    BY <1>1, <2>1, ServeGoes DEF Shape, FramesOK, Serves
  <2> QED  BY <2>2 DEF OnlyEdits, NoService
<1>2. ASSUME NEW t \in Task, Ask(t) PROVE KInvAfter
  <2>1. /\ pc \in [Task -> Pcs] /\ Kind[t] # "service" /\ pc' = [pc EXCEPT ![t] = "asked"]
        /\ hands' = hands
    BY <1>2 DEF Shape, FramesOK, Ask, Go, bounds
  <2>2. OnlyEdits  BY <2>1 DEF OnlyEdits, NoService
  <2> QED  BY <1>2, <2>2, AskKeeps
<1>3. ASSUME NEW t \in Task, Editing(t) PROVE KInvAfter
  <2>1. Kind[t] # "service"  BY <1>3, EditingBegins
  <2>2. (\A u \in Task \ {t} : pc'[u] = pc[u]) /\ hands' = hands
    BY <1>3 DEF Shape, FramesOK, Editing, Enter, Stop, Remove, WaitDestroyed, Create, Start, StartFails,
                RevertCreate, RevertStart, NextDependant, Go, Leave, Works, Fails, bounds
  <2>3. OnlyEdits  BY <2>1, <2>2 DEF OnlyEdits, NoService
  <2> QED  BY <1>3, <2>3, EditKeeps
<1>4. CASE NetworkCleanUp
  <2>1. OnlyEdits  BY <1>4 DEF NetworkCleanUp, OnlyEdits, NoService, bounds
  <2> QED  BY <1>4, <2>1, CleanUpKeeps
<1>5. ASSUME NEW n \in Name, Manage(n) PROVE FALSE
  <2>1. hands \in Nat /\ hands' = hands + 1  BY <1>5 DEF Manage, Shape, BoundsOK
  <2> QED  BY <2>1 DEF OnlyEdits
<1>6. CASE UNCHANGED vars
  <2>1. OnlyEdits  BY <1>6 DEF vars, bounds, OnlyEdits, NoService
  <2> QED  BY <1>6, <2>1, BesideKeeps DEF vars, daemon, bounds
<1> QED  BY <1>1, <1>2, <1>3, <1>4, <1>5, <1>6 DEF Next

LEMMA KInvInit == Init => KInv
<1> SUFFICES ASSUME Init PROVE KInv  OBVIOUS
<1>1. \A n \in Name : IF n \in Existing THEN box[n] = AtStart(n) ELSE box[n] = None  BY DEF Init
<1>2. \A n \in Name : box[n] # None <=> n \in Existing
  <2> SUFFICES ASSUME NEW n \in Existing PROVE AtStart(n) # None  BY <1>1, Kin
  <2>1. box[n] \in Box \cup {None} /\ box[n] = AtStart(n)
    BY <1>1, InitShape, Kin DEF Shape, DaemonOK
  <2>2. AtStart(n) \in Box
    <3>1. \A m \in Name : Number[m] \in Nat \ {0}
      BY DockerAssumption, FS_CardinalityType
    <3> QED  BY <3>1, Kin DEF AtStart, Box
  <2> QED  BY <2>2, NoneAssumption
<1>3. lock = None  BY DEF Init
<1>4. ASSUME NEW n \in Name, Here(n)
      PROVE  /\ box[n].up /\ box[n].id = Number[n]
             /\ box[n].joins = IF Parent[n] = None THEN 0 ELSE Number[Parent[n]]
             /\ Parent[n] = None => Home \in box[n].on
  <2>1. n \in Existing  BY <1>2, <1>4 DEF Here
  <2>2. box[n] = AtStart(n)  BY <1>1, <2>1
  <2> QED  BY <2>2 DEF AtStart
<1>5. Tenure  BY <1>3, <1>4 DEF Tenure, Doing
<1>6. Smooth  BY <1>3, <1>4, Kin DEF Smooth, Astray, Doing
<1>7. Whole  BY <1>2, <1>3, <1>4, Kin DEF Whole, Here, Doing
<1>8. Joined  BY <1>3, <1>4 DEF Joined, Doing, Init
<1> QED  BY <1>5, <1>6, <1>7, <1>8 DEF KInv

LEMMA KInvAlways == Spec => [](Shape /\ Disciplined /\ KInv)
<1>1. Init => Shape /\ Disciplined /\ KInv  BY InitShape, KInvInit
<1>2. Shape /\ Disciplined /\ KInv /\ [Next]_vars => Shape' /\ Disciplined' /\ KInv'
  BY ShapeStep, KInvStep
<1> QED  BY <1>1, <1>2, PTL DEF Spec

-----------------------------------------------------------------------------
(* What that gives.                                                         *)

(* RecreateDepedencies (docker.go:367) reaches every container that shares  *)
(* a network with one that was recreated, however deep the sharing goes,    *)
(* before DockerNetworkLock is free again.                                  *)
THEOREM DependantsCatchUp == Spec => []DependantsFollow
<1>1. Shape /\ Disciplined /\ KInv => DependantsFollow
  BY DEF KInv, Smooth, Astray, DependantsFollow
<1> QED  BY <1>1, KInvAlways, PTL

(* One failed call, at any step of any edit or of those nested in it, costs *)
(* no container (docker.go:318-357): a container that is not there is being *)
(* edited, and the revert of the only failure cannot fail, as its parent is *)
(* there and joining nothing is always possible.                            *)
THEOREM ContainersStay == ASSUME Complete PROVE Spec => []ContainersKept
<1>1. ASSUME Shape, Disciplined, KInv PROVE ContainersKept
  <2> SUFFICES ASSUME OnlyEdits, faults <= 1, NEW n \in Existing
               PROVE  \/ InEdit(n)
                      \/ Here(n) /\ (Parent[n] = None => box[n].up \/ \E t \in Task : pc[t] = "halfway")
    BY DEF ContainersKept
  <2>1. Whole  BY <1>1 DEF KInv
  <2>2. ASSUME NEW pcs \in SUBSET Body, On(pcs, n) PROVE InEdit(n)
    <3>1. lock \in Task /\ pc[lock] \in Body /\ work[lock].name = n
      BY <1>1, <2>2 DEF On, Doing, Shape, FramesOK
    <3>2. pc[lock] \notin Over \cup {"new", "asked"}  BY <3>1 DEF Body, Over
    <3> QED  BY <3>1, <3>2 DEF InEdit
  <2>3. CASE Here(n)
    <3>1. n \in Name  BY Kin
    <3>2. (Parent[n] = None /\ ~box[n].up) =>
              On({"removing", "starting", "restarting"}, n) \/ \E t \in Task : pc[t] = "halfway"
      BY <2>1, <2>3, <3>1 DEF Whole
    <3>3. {"removing", "starting", "restarting"} \in SUBSET Body  BY DEF Body
    <3> QED  BY <2>2, <2>3, <3>2, <3>3
  <2>4. CASE ~Here(n)
    <3>1. On({"waiting", "creating", "reverting"}, n)  BY <2>1, <2>4 DEF Whole
    <3> QED  BY <2>2, <3>1 DEF Body
  <2> QED  BY <2>3, <2>4
<1> QED  BY <1>1, KInvAlways, PTL

(* NetworkCleanUp finds DockerNetworkLock free only when every container is *)
(* there, on its network: between the removal of a container and the        *)
(* creation of the next one, and of those that follow it, it cannot run.    *)
THEOREM NetworksStay == ASSUME Complete, Peopled PROVE Spec => []NetworksKept
<1>1. Shape /\ Disciplined /\ KInv => NetworksKept
  BY Kin DEF KInv, Joined, NetworksKept
<1> QED  BY <1>1, KInvAlways, PTL

-----------------------------------------------------------------------------
(* What a service has noted to undo it with.                                *)

Noted(t, kind, n) == \E i \in 1..Len(undo[t]) : undo[t][i].kind = kind /\ undo[t][i].name = n

(* Nothing but t has happened, and no call of its rollback has failed.      *)
OnlyService(t) ==
    /\ Kind[t] = "service" /\ ~work[t].failed /\ hands = 0
    /\ \A s \in Task \ {t} : pc[s] = "new"

(* The notes say how the containers differ from those of the start.         *)
NotesTrue(t) ==
    /\ t \in nets => Noted(t, "network", None)
    /\ \A n \in Name :
          /\ Noted(t, "remove", n) => Here(n) /\ (Noted(t, "restore", n) <=> n \in Existing)
          /\ (Noted(t, "restore", n) /\ ~Noted(t, "remove", n)) => ~Here(n)
          /\ (~Noted(t, "restore", n) /\ ~Noted(t, "remove", n)) =>
                 (Here(n) <=> n \in Existing) /\ (Here(n) => box[n].conf = {})
    /\ \A i \in 1..Len(undo[t]) : undo[t][i].kind = "restore" =>
          undo[t][i].name \in Existing /\ undo[t][i].was.conf = {}

(* A container that was removed is noted first, the one made in its place   *)
(* next, and each once.                                                     *)
NotesOrdered(t) ==
    /\ \A i, j \in 1..Len(undo[t]) :
          /\ (undo[t][i].kind = undo[t][j].kind /\ undo[t][i].name = undo[t][j].name) => i = j
          /\ (undo[t][i].kind = "restore" /\ undo[t][j].kind = "remove" /\ undo[t][i].name = undo[t][j].name) =>
                 i < j
    /\ \A i \in 1..Len(undo[t]) - 1 : undo[t][i].kind = "restore" =>
          undo[t][i + 1].kind = "remove" /\ undo[t][i + 1].name = undo[t][i].name

Last(t) == undo[t][Len(undo[t])]

(* Where the service is in its notes.                                       *)
NotesCurrent(t) ==
    /\ pc[t] = "new" => undo[t] = <<>>
    /\ (pc[t] \in {"pulling", "next", "emptying", "joining"} /\ undo[t] # <<>>) => Last(t).kind # "restore"
    /\ (pc[t] = "making" /\ undo[t] # <<>> /\ Last(t).kind = "restore") => Last(t).name = work[t].name
    /\ pc[t] \in {"pulling", "next", "emptying", "making", "joining"} =>
          \A n \in work[t].todo \ {work[t].name} : ~Noted(t, "restore", n) /\ ~Noted(t, "remove", n)
    /\ pc[t] \in {"pulling", "next", "emptying"} =>
          \A n \in work[t].todo : ~Noted(t, "restore", n) /\ ~Noted(t, "remove", n)
    /\ pc[t] \in {"emptying", "making"} => work[t].name \in work[t].todo
    /\ pc[t] = "making" => ~Noted(t, "remove", work[t].name)
    /\ pc[t] = "emptying" => work[t].name \in Existing /\ work[t].was.conf = {}

Undoable(t) == NotesTrue(t) /\ NotesOrdered(t) /\ NotesCurrent(t)

UInv ==
    \A t \in Task : /\ pc[t] = "undone" => Kind[t] = "service" /\ undo[t] = <<>>
                    /\ Complete /\ OnlyService(t) => Undoable(t)

(* The containers there are stay, as they are configured.                   *)
Unmoved == \A n \in Name : (Here(n)' <=> Here(n)) /\ (Here(n) => box'[n].conf = box[n].conf)

LEMMA NoteAdded ==
    ASSUME Shape, NEW t \in Task, NEW e \in Entry, Undo(t, e)
    PROVE  /\ Len(undo[t]) \in Nat /\ Len(undo'[t]) = Len(undo[t]) + 1 /\ undo'[t] # <<>>
           /\ \A i \in 1..Len(undo[t]) : undo'[t][i] = undo[t][i]
           /\ undo'[t][Len(undo[t]) + 1] = e
           /\ \A k, n : Noted(t, k, n)' <=> (Noted(t, k, n) \/ (e.kind = k /\ e.name = n))
<1>1. undo[t] \in Seq(Entry) /\ undo'[t] = Append(undo[t], e)  BY DEF Shape, UndoOK, Undo
<1>2. /\ Len(undo[t]) \in Nat /\ Len(undo'[t]) = Len(undo[t]) + 1
      /\ \A i \in 1..Len(undo[t]) : undo'[t][i] = undo[t][i]
      /\ undo'[t][Len(undo[t]) + 1] = e
  BY <1>1
<1>3. undo'[t] # <<>>  BY <1>1
<1>4. \A i \in 1..Len(undo'[t]) : i \in 1..Len(undo[t]) \/ i = Len(undo[t]) + 1  BY <1>2
<1>5. Len(undo[t]) + 1 \in 1..Len(undo'[t]) /\ 1..Len(undo[t]) \subseteq 1..Len(undo'[t])  BY <1>2
<1>6. \A k, n : Noted(t, k, n)' <=> (Noted(t, k, n) \/ (e.kind = k /\ e.name = n))
  BY <1>2, <1>4, <1>5 DEF Noted
<1> QED  BY <1>2, <1>3, <1>6

LEMMA NoteTaken ==
    ASSUME Shape, NEW t \in Task, undo[t] # <<>>, undo' = [undo EXCEPT ![t] = NextUndo(t).rest]
    PROVE  /\ Len(undo[t]) \in Nat \ {0} /\ Len(undo'[t]) = Len(undo[t]) - 1
           /\ \A i \in 1..Len(undo'[t]) : undo'[t][i] = undo[t][i]
           /\ NextUndo(t).next = Last(t)
           /\ \A k, n : Noted(t, k, n) <=> (Noted(t, k, n)' \/ (Last(t).kind = k /\ Last(t).name = n))
<1>1. undo[t] \in Seq(Entry) /\ undo'[t] = SubSeq(undo[t], 1, Len(undo[t]) - 1)
  BY DEF Shape, UndoOK, NextUndo
<1>2. /\ Len(undo[t]) \in Nat \ {0} /\ Len(undo'[t]) = Len(undo[t]) - 1
      /\ \A i \in 1..Len(undo'[t]) : undo'[t][i] = undo[t][i]
  BY <1>1
<1>3. \A i \in 1..Len(undo[t]) : i \in 1..Len(undo'[t]) \/ i = Len(undo[t])  BY <1>2
<1>4. Len(undo[t]) \in 1..Len(undo[t]) /\ 1..Len(undo'[t]) \subseteq 1..Len(undo[t])  BY <1>2
<1>5. \A k, n : Noted(t, k, n) <=> (Noted(t, k, n)' \/ (Last(t).kind = k /\ Last(t).name = n))
  BY <1>2, <1>3, <1>4 DEF Noted, Last
<1> QED  BY <1>2, <1>5 DEF NextUndo, Last

LEMMA OrderedAdd ==
    ASSUME Shape, NEW t \in Task, NotesOrdered(t), NEW e \in Entry, Undo(t, e),
           \A i \in 1..Len(undo[t]) : /\ undo[t][i].kind = e.kind => undo[t][i].name # e.name
                                      /\ (undo[t][i].kind = "remove" /\ e.kind = "restore") =>
                                             undo[t][i].name # e.name,
           (undo[t] # <<>> /\ Last(t).kind = "restore") => e.kind = "remove" /\ Last(t).name = e.name
    PROVE  NotesOrdered(t)'
<1> DEFINE l == Len(undo[t])
           u == undo[t]
           v == undo'[t]
<1>1. l \in Nat /\ Len(v) = l + 1 /\ (\A i \in 1..l : v[i] = u[i]) /\ v[l + 1] = e
  BY NoteAdded
<1>2. l # 0 => u # <<>> /\ Last(t) = u[l]  BY DEF Last
<1>3. /\ \A i, j \in 1..l :
            /\ (u[i].kind = u[j].kind /\ u[i].name = u[j].name) => i = j
            /\ (u[i].kind = "restore" /\ u[j].kind = "remove" /\ u[i].name = u[j].name) => i < j
      /\ \A i \in 1..l - 1 : u[i].kind = "restore" => u[i + 1].kind = "remove" /\ u[i + 1].name = u[i].name
  BY DEF NotesOrdered
<1>4. \A i \in 1..l : /\ u[i].kind = e.kind => u[i].name # e.name
                      /\ (u[i].kind = "remove" /\ e.kind = "restore") => u[i].name # e.name
  OBVIOUS
<1>5. (l # 0 /\ u[l].kind = "restore") => e.kind = "remove" /\ u[l].name = e.name  BY <1>2
<1> HIDE DEF l, u, v
<1>6. \A i \in 1..l + 1 : i \in 1..l \/ i = l + 1  BY <1>1
<1>7. ASSUME NEW i \in 1..l + 1, NEW j \in 1..l + 1
      PROVE  /\ (v[i].kind = v[j].kind /\ v[i].name = v[j].name) => i = j
             /\ (v[i].kind = "restore" /\ v[j].kind = "remove" /\ v[i].name = v[j].name) => i < j
  <2>1. CASE i \in 1..l /\ j \in 1..l
    <3>1. v[i] = u[i] /\ v[j] = u[j]  BY <1>1, <2>1
    <3> QED  BY <1>3, <2>1, <3>1
  <2>2. CASE i = l + 1 /\ j \in 1..l
    <3>1. v[i] = e /\ v[j] = u[j]  BY <1>1, <2>2
    <3> QED  BY <1>4, <2>2, <3>1
  <2>3. CASE i \in 1..l /\ j = l + 1
    <3>1. v[i] = u[i] /\ v[j] = e /\ i < j  BY <1>1, <2>3
    <3> QED  BY <1>4, <2>3, <3>1
  <2>4. CASE i = l + 1 /\ j = l + 1
    <3>1. v[i] = e /\ v[j] = e  BY <1>1, <2>4
    <3> QED  BY <2>4, <3>1
  <2> QED  BY <1>6, <2>1, <2>2, <2>3, <2>4
<1>8. ASSUME NEW i \in 1..l, v[i].kind = "restore"
      PROVE  v[i + 1].kind = "remove" /\ v[i + 1].name = v[i].name
  <2>1. v[i] = u[i]  BY <1>1
  <2>2. CASE i = l
    <3>1. l # 0 /\ v[i + 1] = e  BY <1>1, <2>2
    <3> QED  BY <1>5, <1>8, <2>1, <2>2, <3>1
  <2>3. CASE i # l
    <3>1. i \in 1..l - 1 /\ v[i + 1] = u[i + 1]  BY <1>1, <2>3
    <3> QED  BY <1>3, <1>8, <2>1, <3>1
  <2> QED  BY <2>2, <2>3
<1> QED
  <2>1. Len(v) = l + 1 /\ Len(v) - 1 = l  BY <1>1
  <2> QED  BY <1>7, <1>8, <2>1 DEF NotesOrdered, v

LEMMA NotesStay ==
    ASSUME NEW t \in Task, NotesTrue(t), NotesOrdered(t), undo' = undo, Unmoved, t \in nets' => t \in nets
    PROVE  /\ NotesTrue(t)' /\ NotesOrdered(t)' /\ Last(t)' = Last(t)
           /\ \A k, n : Noted(t, k, n)' <=> Noted(t, k, n)
<1>1. \A k, n : Noted(t, k, n)' <=> Noted(t, k, n)  BY DEF Noted
<1> QED  BY <1>1 DEF NotesTrue, NotesOrdered, Unmoved, Last

-----------------------------------------------------------------------------
(* Each step of a service keeps its notes.                                  *)

LEMMA NetworkUndoable ==
    ASSUME Shape, NEW t \in Task, Undoable(t), ServiceNetwork(t)
    PROVE  Undoable(t)'
<1>1. pc[t] = "new" /\ undo[t] = <<>> /\ UNCHANGED box /\ work \in [Task -> Frame] /\ pc \in [Task -> Pcs]
  BY DEF ServiceNetwork, MayBegin, Undoable, NotesCurrent, Shape, FramesOK
<1>2. \A k, n : ~Noted(t, k, n)  BY <1>1 DEF Noted
<1>3. t \notin nets  BY <1>2 DEF Undoable, NotesTrue
<1>4. Unmoved  BY <1>1 DEF Unmoved, Here
<1>5. CASE nets' = nets \cup {t} /\ Undo(t, ToUndo("network", None, None)) /\ Go(t, "pulling")
  <2> DEFINE e == ToUndo("network", None, None)
  <2>1. e \in Entry /\ e.kind = "network" /\ e.name = None /\ Undo(t, e)  BY <1>5 DEF ToUndo, Entry
  <2> HIDE DEF e
  <2>2. /\ Len(undo[t]) = 0 /\ Len(undo'[t]) = 1 /\ undo'[t][1] = e
        /\ \A k, n : Noted(t, k, n)' <=> (k = "network" /\ n = None)
    <3>1. Len(undo[t]) = 0 /\ 0 + 1 = 1  BY <1>1
    <3>2. /\ Len(undo'[t]) = Len(undo[t]) + 1 /\ undo'[t][Len(undo[t]) + 1] = e
          /\ \A k, n : Noted(t, k, n)' <=> (Noted(t, k, n) \/ (e.kind = k /\ e.name = n))
      BY <2>1, NoteAdded
    <3> QED  BY <1>2, <2>1, <3>1, <3>2
  <2>3. pc'[t] = "pulling"  BY <1>1, <1>5 DEF Go
  <2>4. NotesTrue(t)'
    BY <1>1, <1>2, <2>1, <2>2 DEF Undoable, NotesTrue, Here
  <2>5. NotesOrdered(t)'  BY <2>1, <2>2 DEF NotesOrdered
  <2>6. NotesCurrent(t)'  BY <2>1, <2>2, <2>3 DEF NotesCurrent, Last
  <2> QED  BY <2>4, <2>5, <2>6 DEF Undoable
<1>6. CASE Go(t, "undoing") /\ UNCHANGED <<nets, undo>>
  <2>1. NotesTrue(t)' /\ NotesOrdered(t)'  BY <1>4, <1>6, NotesStay DEF Undoable
  <2>2. pc'[t] = "undoing"  BY <1>1, <1>6 DEF Go
  <2> QED  BY <2>1, <2>2 DEF Undoable, NotesCurrent
<1> QED  BY <1>3, <1>5, <1>6 DEF ServiceNetwork

(* To start undoing nothing need be known but the notes.                    *)
LEMMA GivesUp ==
    ASSUME Shape, NEW t \in Task, Undoable(t), UNCHANGED <<undo, nets, box>>,
           NEW l \in {"undoing", "done"}, Go(t, l)
    PROVE  Undoable(t)'
<1>1. Unmoved  BY DEF Unmoved, Here
<1>2. NotesTrue(t)' /\ NotesOrdered(t)'  BY <1>1, NotesStay DEF Undoable
<1>3. pc'[t] = l  BY DEF Go, Shape, FramesOK
<1> QED  BY <1>2, <1>3 DEF Undoable, NotesCurrent

LEMMA PullUndoable ==
    ASSUME Shape, NEW t \in Task, Undoable(t), ServicePull(t)
    PROVE  Undoable(t)'
<1>1. UNCHANGED <<undo, nets, box, work>>  BY DEF ServicePull, daemon
<1>2. CASE Go(t, "next")
  <2>1. Unmoved  BY <1>1 DEF Unmoved, Here
  <2>2. NotesTrue(t)' /\ NotesOrdered(t)' /\ Last(t)' = Last(t)
        /\ \A k, n : Noted(t, k, n)' <=> Noted(t, k, n)
    BY <1>1, <2>1, NotesStay DEF Undoable
  <2>3. pc'[t] = "next" /\ pc[t] = "pulling"  BY <1>2 DEF Go, Shape, FramesOK, ServicePull
  <2> QED  BY <1>1, <2>2, <2>3 DEF Undoable, NotesCurrent
<1> QED  BY <1>1, <1>2, GivesUp DEF ServicePull

LEMMA ServiceNextUndoable ==
    ASSUME Shape, NEW t \in Task, Undoable(t), ServiceNext(t)
    PROVE  Undoable(t)'
<1>1. PICK n \in work[t].todo :
          /\ work' = [work EXCEPT ![t].name = n, ![t].was = box[n]]
          /\ \/ ~Here(n) /\ Works /\ Go(t, "making") /\ UNCHANGED daemon
             \/ Here(n) /\ Works /\ SetBox(n, Halted(n)) /\ Go(t, "emptying")
             \/ Here(n) /\ Fails /\ Go(t, "undoing") /\ UNCHANGED daemon
  BY DEF ServiceNext
<1>2. /\ n \in Name /\ pc[t] = "next" /\ UNCHANGED undo
      /\ work'[t].name = n /\ work'[t].was = box[n] /\ work'[t].todo = work[t].todo
  BY <1>1 DEF Shape, FramesOK, Frame, ServiceNext
<1>3. CASE Here(n) /\ Fails /\ Go(t, "undoing") /\ UNCHANGED daemon
  BY <1>2, <1>3, GivesUp DEF daemon
<1>4. CASE \/ ~Here(n) /\ Go(t, "making") /\ UNCHANGED daemon
           \/ Here(n) /\ SetBox(n, Halted(n)) /\ Go(t, "emptying")
  <2>1. Unmoved /\ nets' = nets
    <3>1. CASE Here(n) /\ SetBox(n, Halted(n))
      BY <1>2, <3>1, Toggle DEF Toggles, Unmoved, Here
    <3> QED  BY <1>4, <3>1 DEF Unmoved, Here, daemon
  <2>2. NotesTrue(t)' /\ NotesOrdered(t)' /\ Last(t)' = Last(t)
        /\ \A k, m : Noted(t, k, m)' <=> Noted(t, k, m)
    BY <1>2, <2>1, NotesStay DEF Undoable
  <2>3. \A m \in work[t].todo : ~Noted(t, "restore", m) /\ ~Noted(t, "remove", m)
    BY <1>2 DEF Undoable, NotesCurrent
  <2>4. Here(n) => n \in Existing /\ box[n].conf = {}
    BY <1>2, <2>3 DEF Undoable, NotesTrue
  <2>5. (undo[t] # <<>>) => Last(t).kind # "restore"  BY <1>2 DEF Undoable, NotesCurrent
  <2>6. pc'[t] = "making" \/ (pc'[t] = "emptying" /\ Here(n))
    BY <1>4 DEF Go, Shape, FramesOK
  <2>7. n \in work'[t].todo  BY <1>2
  <2> QED  BY <1>2, <2>2, <2>3, <2>4, <2>5, <2>6, <2>7 DEF Undoable, NotesCurrent
<1> QED  BY <1>1, <1>3, <1>4

LEMMA ServiceRemoveUndoable ==
    ASSUME Shape, NEW t \in Task, Undoable(t), ServiceRemove(t)
    PROVE  Undoable(t)'
<1> DEFINE n == work[t].name
<1>1. /\ pc[t] = "emptying" /\ n \in Name /\ work[t].was \in Box /\ work' = work
      /\ n \in work[t].todo /\ n \in Existing /\ work[t].was.conf = {}
      /\ (undo[t] # <<>> => Last(t).kind # "restore")
      /\ \A m \in work[t].todo : ~Noted(t, "restore", m) /\ ~Noted(t, "remove", m)
  BY DEF ServiceRemove, Shape, FramesOK, Undoable, NotesCurrent
<1>2. CASE SetBox(n, None) /\ Undo(t, ToUndo("restore", n, work[t].was)) /\ Go(t, "making")
  <2> DEFINE e == ToUndo("restore", n, work[t].was)
  <2>1. e \in Entry /\ e.kind = "restore" /\ e.name = n /\ e.was = work[t].was /\ Undo(t, e)
    BY <1>1, <1>2 DEF ToUndo, Entry
  <2> HIDE DEF e
  <2>2. /\ Len(undo[t]) \in Nat /\ Len(undo'[t]) = Len(undo[t]) + 1 /\ undo'[t] # <<>>
        /\ \A i \in 1..Len(undo[t]) : undo'[t][i] = undo[t][i]
        /\ undo'[t][Len(undo[t]) + 1] = e
        /\ \A k, m : Noted(t, k, m)' <=> (Noted(t, k, m) \/ (e.kind = k /\ e.name = m))
    BY <2>1, NoteAdded
  <2>3. Removes(n) /\ pc'[t] = "making"
    BY <1>1, <1>2, Removal DEF Go, Shape, FramesOK
  <2>4. NotesTrue(t)'
    <3>1. t \in nets' => Noted(t, "network", None)'
      BY <2>2, <2>3 DEF Undoable, NotesTrue, Removes
    <3>2. ASSUME NEW m \in Name
          PROVE  /\ Noted(t, "remove", m)' => Here(m)' /\ (Noted(t, "restore", m)' <=> m \in Existing)
                 /\ (Noted(t, "restore", m)' /\ ~Noted(t, "remove", m)') => ~Here(m)'
                 /\ (~Noted(t, "restore", m)' /\ ~Noted(t, "remove", m)') =>
                        (Here(m)' <=> m \in Existing) /\ (Here(m)' => box'[m].conf = {})
      <4>1. CASE m = n  BY <1>1, <2>1, <2>2, <2>3, <4>1 DEF Removes, Here
      <4>2. CASE m # n
        <5>1. \A k : Noted(t, k, m)' <=> Noted(t, k, m)  BY <2>1, <2>2, <4>2
        <5> QED  BY <2>3, <4>2, <5>1 DEF Removes, Here, Undoable, NotesTrue
      <4> QED  BY <4>1, <4>2
    <3>3. \A i \in 1..Len(undo'[t]) : undo'[t][i].kind = "restore" =>
              undo'[t][i].name \in Existing /\ undo'[t][i].was.conf = {}
      <4>1. \A i \in 1..Len(undo'[t]) : i \in 1..Len(undo[t]) \/ i = Len(undo[t]) + 1  BY <2>2
      <4> QED  BY <1>1, <2>1, <2>2, <4>1 DEF Undoable, NotesTrue
    <3> QED  BY <3>1, <3>2, <3>3 DEF NotesTrue
  <2>5. NotesOrdered(t)'
    <3>1. \A i \in 1..Len(undo[t]) : undo[t][i].name = n => undo[t][i].kind \notin {"restore", "remove"}
      BY <1>1 DEF Noted
    <3> QED  BY <1>1, <2>1, <3>1, OrderedAdd DEF Undoable
  <2>6. NotesCurrent(t)'
    BY <1>1, <2>1, <2>2, <2>3 DEF NotesCurrent, Last
  <2> QED  BY <2>4, <2>5, <2>6 DEF Undoable
<1>3. CASE Go(t, "undoing") /\ UNCHANGED <<daemon, undo>>
  BY <1>3, GivesUp DEF daemon
<1> QED  BY <1>2, <1>3 DEF ServiceRemove

LEMMA ServiceMakeUndoable ==
    ASSUME Shape, NEW t \in Task, Undoable(t), ServiceMake(t)
    PROVE  Undoable(t)'
<1> DEFINE n == work[t].name
<1>1. /\ pc[t] = "making" /\ n \in Name /\ work' = work /\ n \in work[t].todo
      /\ ~Noted(t, "remove", n)
      /\ (undo[t] # <<>> /\ Last(t).kind = "restore") => Last(t).name = n
      /\ \A m \in work[t].todo \ {n} : ~Noted(t, "restore", m) /\ ~Noted(t, "remove", m)
  BY DEF ServiceMake, Shape, FramesOK, Undoable, NotesCurrent
<1>2. CASE /\ Creatable(n) /\ CreateBox(n, {t}, {}) /\ Undo(t, ToUndo("remove", n, None))
           /\ Go(t, "joining")
  <2> DEFINE e == ToUndo("remove", n, None)
  <2>1. e \in Entry /\ e.kind = "remove" /\ e.name = n /\ Undo(t, e)
    BY <1>1, <1>2 DEF ToUndo, Entry
  <2> HIDE DEF e
  <2>2. /\ Len(undo[t]) \in Nat /\ Len(undo'[t]) = Len(undo[t]) + 1 /\ undo'[t] # <<>>
        /\ \A i \in 1..Len(undo[t]) : undo'[t][i] = undo[t][i]
        /\ undo'[t][Len(undo[t]) + 1] = e
        /\ \A k, m : Noted(t, k, m)' <=> (Noted(t, k, m) \/ (e.kind = k /\ e.name = m))
    BY <2>1, NoteAdded
  <2>3. Makes(n, {t}, {}) /\ pc'[t] = "joining" /\ ~Here(n)
    BY <1>1, <1>2, Make DEF Go, Shape, FramesOK, Creatable
  <2>4. NotesTrue(t)'
    <3>1. t \in nets' => Noted(t, "network", None)'
      BY <2>2, <2>3 DEF Undoable, NotesTrue, Makes
    <3>2. ASSUME NEW m \in Name
          PROVE  /\ Noted(t, "remove", m)' => Here(m)' /\ (Noted(t, "restore", m)' <=> m \in Existing)
                 /\ (Noted(t, "restore", m)' /\ ~Noted(t, "remove", m)') => ~Here(m)'
                 /\ (~Noted(t, "restore", m)' /\ ~Noted(t, "remove", m)') =>
                        (Here(m)' <=> m \in Existing) /\ (Here(m)' => box'[m].conf = {})
      <4>1. CASE m = n
        <5>1. Noted(t, "restore", n) <=> n \in Existing
          <6>1. Noted(t, "restore", n) => n \in Existing
            BY DEF Noted, Undoable, NotesTrue
          <6> QED  BY <1>1, <2>3, <6>1 DEF Undoable, NotesTrue
        <5> QED  BY <2>1, <2>2, <2>3, <4>1, <5>1 DEF Makes, Here
      <4>2. CASE m # n
        <5>1. \A k : Noted(t, k, m)' <=> Noted(t, k, m)  BY <2>1, <2>2, <4>2
        <5> QED  BY <2>3, <4>2, <5>1 DEF Makes, Here, Undoable, NotesTrue
      <4> QED  BY <4>1, <4>2
    <3>3. \A i \in 1..Len(undo'[t]) : undo'[t][i].kind = "restore" =>
              undo'[t][i].name \in Existing /\ undo'[t][i].was.conf = {}
      <4>1. \A i \in 1..Len(undo'[t]) : i \in 1..Len(undo[t]) \/ i = Len(undo[t]) + 1  BY <2>2
      <4> QED  BY <2>1, <2>2, <4>1 DEF Undoable, NotesTrue
    <3> QED  BY <3>1, <3>2, <3>3 DEF NotesTrue
  <2>5. NotesOrdered(t)'
    <3>1. \A i \in 1..Len(undo[t]) : undo[t][i].name = n => undo[t][i].kind # "remove"
      BY <1>1 DEF Noted
    <3> QED  BY <1>1, <2>1, <3>1, OrderedAdd DEF Undoable
  <2>6. NotesCurrent(t)'
    BY <1>1, <2>1, <2>2, <2>3 DEF NotesCurrent, Last
  <2> QED  BY <2>4, <2>5, <2>6 DEF Undoable
<1>3. CASE Go(t, "undoing") /\ UNCHANGED <<daemon, undo>>
  BY <1>3, GivesUp DEF daemon
<1> QED  BY <1>2, <1>3 DEF ServiceMake

LEMMA ServiceJoinUndoable ==
    ASSUME Shape, NEW t \in Task, Undoable(t), ServiceJoin(t)
    PROVE  Undoable(t)'
<1> DEFINE n == work[t].name
           left == work[t].todo \ {n}
<1>1. /\ pc[t] = "joining" /\ n \in Name /\ work \in [Task -> Frame] /\ undo' = undo
      /\ \A m \in left : ~Noted(t, "restore", m) /\ ~Noted(t, "remove", m)
      /\ (undo[t] # <<>> => Last(t).kind # "restore")
  BY DEF ServiceJoin, Shape, FramesOK, Undoable, NotesCurrent
<1>2. CASE /\ Parent[n] = None => Here(n) /\ t \in nets
           /\ IF Parent[n] = None THEN SetBox(n, [box[n] EXCEPT !.on = @ \cup {t}]) ELSE UNCHANGED daemon
           /\ work' = [work EXCEPT ![t].todo = IF left = {} THEN Target[t] ELSE left]
           /\ Go(t, IF left = {} THEN "launching" ELSE "next")
  <2>1. Unmoved /\ nets' = nets
    <3>1. CASE Here(n) /\ SetBox(n, [box[n] EXCEPT !.on = @ \cup {t}])
      <4>1. box[n] \in Box  BY <1>1, <3>1 DEF Here, Shape, DaemonOK
      <4>2. [box[n] EXCEPT !.on = @ \cup {t}] \in Box /\ [box[n] EXCEPT !.on = @ \cup {t}].conf = box[n].conf
        BY <4>1 DEF Box
      <4> QED  BY <1>1, <3>1, <4>1, <4>2, NoneAssumption DEF SetBox, Unmoved, Here, Shape, DaemonOK
    <3>2. CASE UNCHANGED daemon  BY <3>2 DEF Unmoved, Here, daemon
    <3> QED  BY <1>2, <3>1, <3>2
  <2>2. NotesTrue(t)' /\ NotesOrdered(t)' /\ Last(t)' = Last(t)
        /\ \A k, m : Noted(t, k, m)' <=> Noted(t, k, m)
    BY <1>1, <2>1, NotesStay DEF Undoable
  <2>3. pc'[t] = IF left = {} THEN "launching" ELSE "next"  BY <1>2 DEF Go, Shape, FramesOK
  <2>4. left # {} => work'[t].todo = left  BY <1>1, <1>2 DEF Frame
  <2> QED  BY <1>1, <2>2, <2>3, <2>4 DEF Undoable, NotesCurrent
<1>3. CASE Go(t, "undoing") /\ UNCHANGED daemon
  BY <1>1, <1>3, GivesUp DEF daemon
<1> QED  BY <1>2, <1>3 DEF ServiceJoin

LEMMA ServiceStartUndoable ==
    ASSUME Shape, NEW t \in Task, Undoable(t), ServiceStart(t)
    PROVE  Undoable(t)'
<1>1. pc[t] = "launching" /\ undo' = undo /\ MayStart(t) \subseteq Name
  BY DEF ServiceStart, MayStart, Shape, FramesOK, Frame
<1>2. ASSUME NEW n \in MayStart(t), Startable(n), SetBox(n, Started(n)), UNCHANGED pc
      PROVE  Undoable(t)'
  <2>1. Toggles(n, TRUE) /\ n \in Name  BY <1>1, <1>2, Toggle DEF Startable
  <2>2. Unmoved /\ nets' = nets  BY <2>1 DEF Toggles, Unmoved, Here
  <2>3. NotesTrue(t)' /\ NotesOrdered(t)'  BY <1>1, <2>2, NotesStay DEF Undoable
  <2> QED  BY <1>1, <1>2, <2>3 DEF Undoable, NotesCurrent
<1>3. CASE (Go(t, "undoing") \/ Go(t, "done")) /\ UNCHANGED daemon
  BY <1>1, <1>3, GivesUp DEF daemon
<1> QED  BY <1>2, <1>3 DEF ServiceStart

(* The last note is taken off: what it is about is as at the start again.   *)
LEMMA RollbackUndoable ==
    ASSUME Shape, Complete, NEW t \in Task, Undoable(t), Rollback(t), ~work'[t].failed
    PROVE  Undoable(t)'
<1> DEFINE l == Len(undo[t])
<1>0. PICK a \in Entry : a = Last(t)  BY NoteTaken, UndoNext DEF Rollback, Shape
<1>1. pc[t] = "undoing" /\ undo[t] # <<>> /\ work \in [Task -> Frame] /\ pc \in [Task -> Pcs]
  BY DEF Rollback, Shape, FramesOK
<1>2. /\ l \in Nat \ {0} /\ Len(undo'[t]) = l - 1
      /\ \A i \in 1..l - 1 : undo'[t][i] = undo[t][i]
      /\ NextUndo(t).next = a
      /\ \A k, n : Noted(t, k, n) <=> (Noted(t, k, n)' \/ (a.kind = k /\ a.name = n))
  BY <1>0, <1>1, NoteTaken DEF Rollback
<1>3. a \in Entry /\ a = undo[t][l] /\ l \in 1..l
  BY <1>0, <1>2 DEF Last
<1>4. /\ a.kind \in {"network", "remove", "restore"} /\ (a.kind # "network" => a.name \in Name)
      /\ a.kind = "restore" => a.was \in Box /\ a.was.conf \in SUBSET Task
  BY <1>3 DEF Entry, Box
<1>5. ~Noted(t, a.kind, a.name)'
  <2>1. ASSUME NEW i \in 1..l - 1, undo[t][i].kind = a.kind, undo[t][i].name = a.name PROVE FALSE
    <3>1. i \in 1..l /\ i # l  BY <1>2
    <3> QED  BY <1>3, <2>1, <3>1 DEF Undoable, NotesOrdered
  <2> QED  BY <1>2, <2>1 DEF Noted
<1>6. NotesOrdered(t)'
  <2>1. /\ Len(undo'[t]) = l - 1 /\ 1..l - 1 \subseteq 1..l
        /\ \A i \in 1..l - 1 - 1 : i \in 1..l - 1 /\ i + 1 \in 1..l - 1
    BY <1>2
  <2>2. ASSUME NEW i \in 1..l - 1, NEW j \in 1..l - 1
        PROVE  /\ (undo'[t][i].kind = undo'[t][j].kind /\ undo'[t][i].name = undo'[t][j].name) => i = j
               /\ (undo'[t][i].kind = "restore" /\ undo'[t][j].kind = "remove"
                      /\ undo'[t][i].name = undo'[t][j].name) => i < j
    <3>1. undo'[t][i] = undo[t][i] /\ undo'[t][j] = undo[t][j] /\ i \in 1..l /\ j \in 1..l  BY <1>2, <2>1
    <3> QED  BY <3>1 DEF Undoable, NotesOrdered
  <2>3. ASSUME NEW i \in 1..l - 1 - 1, undo'[t][i].kind = "restore"
        PROVE  undo'[t][i + 1].kind = "remove" /\ undo'[t][i + 1].name = undo'[t][i].name
    <3>1. undo'[t][i] = undo[t][i] /\ undo'[t][i + 1] = undo[t][i + 1] /\ i \in 1..l - 1
      BY <1>2, <2>1
    <3> QED  BY <2>3, <3>1 DEF Undoable, NotesOrdered
  <2> QED  BY <2>1, <2>2, <2>3 DEF NotesOrdered
<1>7. NotesCurrent(t)'
  <2>1. pc'[t] \in {"undoing", "resuming"}  BY <1>1 DEF Rollback, Go
  <2> QED  BY <2>1 DEF NotesCurrent
<1>8. \A i \in 1..Len(undo'[t]) : undo'[t][i].kind = "restore" =>
          undo'[t][i].name \in Existing /\ undo'[t][i].was.conf = {}
  BY <1>2 DEF Undoable, NotesTrue
<1>9. \A n \in Name : a.name # n => \A k : Noted(t, k, n)' <=> Noted(t, k, n)
  BY <1>2
<1>10. CASE a.kind = "network" /\ nets' = nets \ {t} /\ UNCHANGED box
  <2>1. \A n \in Name : /\ Noted(t, "remove", n)' <=> Noted(t, "remove", n)
                        /\ Noted(t, "restore", n)' <=> Noted(t, "restore", n)
    BY <1>2, <1>10
  <2>2. NotesTrue(t)'  BY <1>8, <1>10, <2>1 DEF Undoable, NotesTrue, Here
  <2> QED  BY <1>6, <1>7, <2>2 DEF Undoable
<1>11. CASE a.kind = "remove" /\ SetBox(a.name, None)
  <2>1. Removes(a.name)  BY <1>4, <1>11, Removal
  <2>2. Noted(t, "network", None) => Noted(t, "network", None)'  BY <1>2, <1>11
  <2>3. Noted(t, "remove", a.name) /\ ~Noted(t, "remove", a.name)'
        /\ (Noted(t, "restore", a.name)' <=> Noted(t, "restore", a.name))
    BY <1>2, <1>5, <1>11
  <2>4. (Noted(t, "restore", a.name) <=> a.name \in Existing) /\ ~Here(a.name)'
    BY <1>4, <1>11, <2>1, <2>3 DEF Undoable, NotesTrue, Removes, Here
  <2>5. ASSUME NEW n \in Name, n # a.name
        PROVE  (Here(n)' <=> Here(n)) /\ box'[n] = box[n] /\ \A k : Noted(t, k, n)' <=> Noted(t, k, n)
    BY <1>9, <2>1, <2>5 DEF Removes, Here
  <2>6. NotesTrue(t)'
    <3>1. ASSUME NEW n \in Name
          PROVE  /\ Noted(t, "remove", n)' => Here(n)' /\ (Noted(t, "restore", n)' <=> n \in Existing)
                 /\ (Noted(t, "restore", n)' /\ ~Noted(t, "remove", n)') => ~Here(n)'
                 /\ (~Noted(t, "restore", n)' /\ ~Noted(t, "remove", n)') =>
                        (Here(n)' <=> n \in Existing) /\ (Here(n)' => box'[n].conf = {})
      <4>1. CASE n = a.name  BY <2>3, <2>4, <4>1
      <4>2. CASE n # a.name  BY <2>5, <4>2 DEF Undoable, NotesTrue
      <4> QED  BY <4>1, <4>2
    <3>2. t \in nets' => Noted(t, "network", None)'
      BY <2>1, <2>2 DEF Removes, Undoable, NotesTrue
    <3> QED  BY <1>8, <3>1, <3>2 DEF NotesTrue
  <2> QED  BY <1>6, <1>7, <2>6 DEF Undoable
<1>12. a.kind = "restore" => Creatable(a.name)
  <2> SUFFICES ASSUME a.kind = "restore" PROVE Creatable(a.name)  OBVIOUS
  <2>1. ~Noted(t, "remove", a.name)
    <3>1. ASSUME NEW j \in 1..l, undo[t][j].kind = "remove", undo[t][j].name = a.name PROVE FALSE
      <4>1. l < j  BY <1>3, <3>1 DEF Undoable, NotesOrdered
      <4> QED  BY <1>2, <4>1
    <3> QED  BY <3>1 DEF Noted
  <2>2. Noted(t, "restore", a.name) /\ a.name \in Existing /\ a.name \in Name
    BY <1>2, <1>3, <1>4 DEF Undoable, NotesTrue
  <2>3. ~Here(a.name)  BY <2>1, <2>2 DEF Undoable, NotesTrue
  <2>4. ASSUME Parent[a.name] # None PROVE Here(Parent[a.name])
    <3> DEFINE p == Parent[a.name]
    <3>1. p \in Existing /\ p \in Name /\ p # a.name  BY <2>2, <2>4, Kin DEF Complete
    <3>2. ASSUME Noted(t, "restore", p) PROVE Noted(t, "remove", p)
      <4>1. PICK i \in 1..l : undo[t][i].kind = "restore" /\ undo[t][i].name = p  BY <3>2 DEF Noted
      <4>2. i # l  BY <1>3, <3>1, <4>1
      <4>3. i \in 1..l - 1 /\ i + 1 \in 1..l  BY <1>2, <4>2
      <4>4. undo[t][i + 1].kind = "remove" /\ undo[t][i + 1].name = p
        BY <4>1, <4>3 DEF Undoable, NotesOrdered
      <4> QED  BY <4>3, <4>4 DEF Noted
    <3> QED  BY <3>1, <3>2 DEF Undoable, NotesTrue
  <2> QED  BY <2>3, <2>4 DEF Creatable
<1>13. CASE a.kind = "restore" /\ CreateBox(a.name, a.was.conf, a.was.on)
  <2>1. Makes(a.name, a.was.conf, a.was.on)  BY <1>4, <1>12, <1>13, Make
  <2>2. Noted(t, "network", None) => Noted(t, "network", None)'  BY <1>2, <1>13
  <2>3. /\ a.name \in Existing /\ a.was.conf = {} /\ ~Noted(t, "restore", a.name)'
        /\ Here(a.name)' /\ box'[a.name].conf = {}
    BY <1>3, <1>5, <1>13, <2>1 DEF Undoable, NotesTrue, Makes, Here
  <2>4. ~Noted(t, "remove", a.name)'
    <3>1. Noted(t, "restore", a.name) /\ ~Here(a.name)  BY <1>2, <1>12, <1>13 DEF Creatable
    <3>2. ~Noted(t, "remove", a.name)  BY <1>4, <1>13, <3>1 DEF Undoable, NotesTrue
    <3> QED  BY <1>2, <3>2
  <2>5. ASSUME NEW n \in Name, n # a.name
        PROVE  (Here(n)' <=> Here(n)) /\ box'[n] = box[n] /\ \A k : Noted(t, k, n)' <=> Noted(t, k, n)
    BY <1>9, <2>1, <2>5 DEF Makes, Here
  <2>6. NotesTrue(t)'
    <3>1. ASSUME NEW n \in Name
          PROVE  /\ Noted(t, "remove", n)' => Here(n)' /\ (Noted(t, "restore", n)' <=> n \in Existing)
                 /\ (Noted(t, "restore", n)' /\ ~Noted(t, "remove", n)') => ~Here(n)'
                 /\ (~Noted(t, "restore", n)' /\ ~Noted(t, "remove", n)') =>
                        (Here(n)' <=> n \in Existing) /\ (Here(n)' => box'[n].conf = {})
      <4>1. CASE n = a.name  BY <2>3, <2>4, <4>1
      <4>2. CASE n # a.name  BY <2>5, <4>2 DEF Undoable, NotesTrue
      <4> QED  BY <4>1, <4>2
    <3>2. t \in nets' => Noted(t, "network", None)'
      BY <2>1, <2>2 DEF Makes, Undoable, NotesTrue
    <3> QED  BY <1>8, <3>1, <3>2 DEF NotesTrue
  <2> QED  BY <1>6, <1>7, <2>6 DEF Undoable
<1>14. \/ a.kind = "network" /\ nets' = nets \ {t} /\ UNCHANGED box
       \/ a.kind = "remove" /\ SetBox(a.name, None)
       \/ a.kind = "restore" /\ CreateBox(a.name, a.was.conf, a.was.on)
       \/ a.kind = "restore" /\ ~Creatable(a.name)
       \/ work' = [work EXCEPT ![t].failed = TRUE]
  BY <1>2 DEF Rollback
<1>15. work' # [work EXCEPT ![t].failed = TRUE]  BY <1>1 DEF Frame
<1> QED  BY <1>10, <1>11, <1>12, <1>13, <1>14, <1>15

LEMMA RollbackStartUndoable ==
    ASSUME Shape, NEW t \in Task, Undoable(t), RollbackStart(t)
    PROVE  Undoable(t)'
<1>1. work[t].name \in Name /\ undo' = undo /\ pc'[t] = "undoing"
  BY DEF RollbackStart, Go, Shape, FramesOK
<1>2. Unmoved /\ nets' = nets
  <2>1. CASE Found(work[t]) /\ SetBox(work[t].name, Started(work[t].name))
    BY <1>1, <2>1, Toggle DEF Found, Toggles, Unmoved, Here
  <2>2. CASE UNCHANGED daemon  BY <2>2 DEF daemon, Unmoved, Here
  <2> QED  BY <2>1, <2>2 DEF RollbackStart
<1>3. NotesTrue(t)' /\ NotesOrdered(t)'  BY <1>1, <1>2, NotesStay DEF Undoable
<1> QED  BY <1>1, <1>3 DEF Undoable, NotesCurrent

LEMMA RollbackEndsUndoable ==
    ASSUME Shape, NEW t \in Task, Undoable(t), RollbackEnds(t)
    PROVE  Undoable(t)'
<1>1. undo' = undo /\ nets' = nets /\ box' = box /\ pc'[t] = "undone"
  BY DEF RollbackEnds, Go, Shape, FramesOK, daemon
<1>2. Unmoved  BY <1>1 DEF Unmoved, Here
<1>3. NotesTrue(t)' /\ NotesOrdered(t)'  BY <1>1, <1>2, NotesStay DEF Undoable
<1> QED  BY <1>1, <1>3 DEF Undoable, NotesCurrent

(* Who has only ever begun alone: a request that is new has not acted.      *)
LEMMA OnlyServiceBefore ==
    ASSUME Shape, Disciplined, Next, NEW t \in Task, OnlyService(t)'
    PROVE  /\ OnlyService(t)
           /\ \/ ServiceNetwork(t) \/ Serving(t)
              \/ NetworkCleanUp
<1>1. /\ pc \in [Task -> Pcs] /\ work \in [Task -> Frame] /\ hands \in Nat
      /\ hands' = 0 /\ \A s \in Task \ {t} : pc'[s] = "new"
  BY DEF Shape, FramesOK, BoundsOK, OnlyService
<1>2. ASSUME NEW s \in Task, ServiceNetwork(s) \/ Serving(s) PROVE s = t
  <2>1. PICK l \in Serves \cup {"done", "undone"} : pc' = [pc EXCEPT ![s] = l]  BY <1>2, ServeGoes
  <2>2. l # "new"  BY DEF Serves
  <2> QED  BY <1>1, <2>1, <2>2
<1>3. ASSUME NEW s \in Task, Ask(s) \/ Editing(s) PROVE FALSE
  <2>1. Kind[s] # "service"  BY <1>3, EditingBegins DEF Ask
  <2>2. s # t  BY <2>1 DEF OnlyService
  <2>3. pc'[s] # "new"
    BY <1>1, <1>3 DEF Ask, Editing, Enter, Stop, Remove, WaitDestroyed, Create, Start, StartFails,
                      RevertCreate, RevertStart, NextDependant, Go, Leave
  <2> QED  BY <1>1, <2>2, <2>3
<1>4. ASSUME NEW n \in Name, Manage(n) PROVE FALSE
  BY <1>1, <1>4 DEF Manage
<1>5. ServiceNetwork(t) \/ Serving(t) \/ NetworkCleanUp
  BY <1>2, <1>3, <1>4 DEF Next
<1>6. CASE ServiceNetwork(t) \/ Serving(t)
  <2>1. PICK l \in Serves \cup {"done", "undone"} : pc' = [pc EXCEPT ![t] = l]  BY <1>6, ServeGoes
  <2>2. \A s \in Task \ {t} : pc[s] = "new"  BY <1>1, <2>1
  <2>3. hands' = hands
    BY <1>6 DEF ServiceNetwork, Serving, ServicePull, ServiceNext, ServiceRemove, ServiceMake, ServiceJoin,
                ServiceStart, Rollback, RollbackStart, RollbackEnds, Works, Fails, bounds
  <2>4. work[t].failed => work'[t].failed
    <3>1. CASE ServiceNetwork(t) \/ ServicePull(t) \/ ServiceRemove(t) \/ ServiceMake(t) \/ RollbackEnds(t)
      BY <1>1, <3>1 DEF ServiceNetwork, ServicePull, ServiceRemove, ServiceMake, RollbackEnds, Frame
    <3>2. CASE ServiceNext(t)  BY <1>1, <3>2 DEF ServiceNext, Frame
    <3>3. CASE ServiceJoin(t)  BY <1>1, <3>3 DEF ServiceJoin, Frame
    <3>4. CASE ServiceStart(t)
      <4>1. ASSUME NEW n, work' = [work EXCEPT ![t].todo = @ \ {n}] PROVE work'[t].failed = work[t].failed
        BY <1>1, <4>1 DEF Frame
      <4> QED  BY <3>4, <4>1 DEF ServiceStart
    <3>5. CASE Rollback(t) \/ RollbackStart(t)  BY <1>1, <3>5 DEF Rollback, RollbackStart, Frame
    <3> QED  BY <1>6, <3>1, <3>2, <3>3, <3>4, <3>5 DEF Serving
  <2> QED  BY <1>1, <1>5, <2>2, <2>3, <2>4 DEF OnlyService
<1>7. CASE NetworkCleanUp
  BY <1>7 DEF NetworkCleanUp, bounds, OnlyService
<1> QED  BY <1>5, <1>6, <1>7

LEMMA ServeUndoable ==
    ASSUME Shape, Complete, NEW t \in Task, Undoable(t), ServiceNetwork(t) \/ Serving(t), ~work'[t].failed
    PROVE  Undoable(t)'
BY NetworkUndoable, PullUndoable, ServiceNextUndoable, ServiceRemoveUndoable, ServiceMakeUndoable,
   ServiceJoinUndoable, ServiceStartUndoable, RollbackUndoable, RollbackStartUndoable,
   RollbackEndsUndoable DEF Serving

LEMMA UInvStep == Shape /\ Disciplined /\ UInv /\ [Next]_vars => UInv'
<1> SUFFICES ASSUME Shape, Disciplined, UInv, Next, NEW t \in Task
             PROVE  /\ pc'[t] = "undone" => Kind[t] = "service" /\ undo'[t] = <<>>
                    /\ Complete /\ OnlyService(t)' => Undoable(t)'
  <2>1. UInv /\ UNCHANGED vars => UInv'
    BY DEF vars, daemon, bounds, UInv, OnlyService, Undoable, NotesTrue, NotesOrdered, NotesCurrent, Noted,
           Last, Here
  <2> QED  BY <2>1 DEF UInv
<1>1. ASSUME Complete, OnlyService(t)' PROVE Undoable(t)'
  <2>1. OnlyService(t) /\ (ServiceNetwork(t) \/ Serving(t) \/ NetworkCleanUp)
    BY <1>1, OnlyServiceBefore
  <2>2. Undoable(t) /\ ~work'[t].failed  BY <1>1, <2>1 DEF UInv, OnlyService
  <2>3. CASE NetworkCleanUp
    <3>1. Unmoved /\ (t \in nets' => t \in nets) /\ UNCHANGED <<undo, pc, work>>
      BY <2>3 DEF NetworkCleanUp, Unmoved, Here
    <3>2. NotesTrue(t)' /\ NotesOrdered(t)' /\ Last(t)' = Last(t)
          /\ \A k, n : Noted(t, k, n)' <=> Noted(t, k, n)
      BY <2>2, <3>1, NotesStay DEF Undoable
    <3> QED  BY <2>2, <3>1, <3>2 DEF Undoable, NotesCurrent
  <2> QED  BY <1>1, <2>1, <2>2, <2>3, ServeUndoable
<1>2. ASSUME pc'[t] = "undone" PROVE Kind[t] = "service" /\ undo'[t] = <<>>
  <2>1. pc \in [Task -> Pcs]  BY DEF Shape, FramesOK
  <2>2. ASSUME NEW s \in Task, Ask(s) \/ Editing(s)
        PROVE  undo' = undo /\ pc[t] = "undone"
    BY <1>2, <2>1, <2>2 DEF Ask, Editing, Enter, Stop, Remove, WaitDestroyed, Create, Start, StartFails,
                            RevertCreate, RevertStart, NextDependant, Go, Leave
  <2>3. ASSUME NEW s \in Task, ServiceNetwork(s) \/ Serving(s)
        PROVE  Kind[t] = "service" /\ undo'[t] = <<>>
    <3>1. CASE s = t
      BY <1>2, <2>1, <2>3, <3>1, ServeGoes
         DEF ServiceNetwork, Serving, ServicePull, ServiceNext, ServiceRemove, ServiceMake, ServiceJoin,
             ServiceStart, Rollback, RollbackStart, RollbackEnds, Go, MayBegin
    <3>2. CASE s # t
      <4>1. PICK l : pc' = [pc EXCEPT ![s] = l]  BY <2>3, ServeGoes
      <4>2. undo'[t] = undo[t]
        BY <2>3, <3>2 DEF Shape, UndoOK, Undo, ServiceNetwork, Serving, ServicePull, ServiceNext, ServiceRemove,
                          ServiceMake, ServiceJoin, ServiceStart, Rollback, RollbackStart, RollbackEnds
      <4> QED  BY <1>2, <2>1, <3>2, <4>1, <4>2 DEF UInv
    <3> QED  BY <3>1, <3>2
  <2>4. CASE NetworkCleanUp \/ \E n \in Name : Manage(n)
    BY <1>2, <2>4 DEF NetworkCleanUp, Manage, UInv
  <2> QED  BY <2>2, <2>3, <2>4 DEF Next, UInv
<1> QED  BY <1>1, <1>2

(* The rollback of a service that failed (api_blueprint.go:220), alone and  *)
(* with no failure of its own, leaves the containers that were there, as    *)
(* they were, and no others, and not its network, wherever it failed.       *)
THEOREM ServiceUndone == ASSUME Complete PROVE Spec => []RolledBack
<1>1. Init => UInv
  <2> SUFFICES ASSUME Init PROVE UInv  OBVIOUS
  <2>1. \A n \in Name : Here(n) <=> n \in Existing
    <3>1. KInv /\ OnlyEdits /\ faults = 0 /\ lock = None  BY KInvInit DEF Init, OnlyEdits, NoService
    <3> QED  BY <3>1, Kin DEF KInv, Whole, On, Doing
  <2>2. \A n \in Name : Here(n) => box[n].conf = {}
    <3>1. ASSUME NEW n \in Name, Here(n) PROVE box[n] = AtStart(n)  BY <2>1, <3>1 DEF Init
    <3>2. \A n \in Name : AtStart(n).conf = {}  BY DEF AtStart
    <3> QED  BY <3>1, <3>2
  <2>3. ASSUME NEW t \in Task
        PROVE  pc[t] = "new" /\ undo[t] = <<>> /\ t \notin nets /\ \A k, n : ~Noted(t, k, n)
    BY DockerAssumption DEF Init, Noted
  <2> QED  BY <2>1, <2>2, <2>3 DEF UInv, Undoable, NotesTrue, NotesOrdered, NotesCurrent
<1>2. Shape /\ Disciplined /\ UInv /\ [Next]_vars => Shape' /\ Disciplined' /\ UInv'
  BY ShapeStep, UInvStep
<1>3. UInv => RolledBack
  <2> SUFFICES ASSUME UInv, NEW t \in Task, Undone(t)
               PROVE  /\ t \notin nets
                      /\ \A n \in Name : (Here(n) <=> n \in Existing) /\ (Here(n) => box[n].conf = {})
    BY DEF RolledBack
  <2>1. NotesTrue(t) /\ undo[t] = <<>>  BY DEF UInv, Undone, OnlyService, Undoable
  <2>2. \A k, n : ~Noted(t, k, n)  BY <2>1 DEF Noted
  <2> QED  BY <2>1, <2>2 DEF NotesTrue
<1> QED  BY <1>1, <1>2, <1>3, InitShape, PTL DEF Spec

=============================================================================
