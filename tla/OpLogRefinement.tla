--------------------------- MODULE OpLogRefinement ---------------------------
(***************************************************************************)
(* The config op-log implements ReplicatedStore, for any number of nodes,  *)
(* keys and writes, any operation per write, any retention and any number  *)
(* of faults, in a constellation that is formed and not reformed.          *)
(***************************************************************************)
EXTENDS OpLogProofs

-----------------------------------------------------------------------------
(* The contract's reading of stores is ours. *)
LEMMA SameStores ==
    ASSUME NEW s, NEW r
    PROVE  /\ Contract!Accepts(s, r) = Accepts(s, r)
           /\ Contract!Applied(s, r) = Applied(s, r)
           /\ Contract!Tables(s) = Tables(s)
           /\ Contract!Store = Store
  BY DEF Contract!Accepts, Accepts, Contract!Applied, Applied, Contract!Effect, Effect,
         Contract!Tables, Tables, Contract!Store, Store

(* A step that touches neither the log, nor the position and the tables of  *)
(* a node, nor what a client was told, is invisible in the contract.        *)
LEMMA Invisible ==
    ASSUME UNCHANGED <<log, canon, epoch, lastApplied, bootstrapped, wst, wepoch>>,
           \A n \in Node : Tables(store'[n]) = Tables(store[n])
    PROVE  UNCHANGED Contract!pvars
<1>1. Views' = Views  BY DEF Views, MaterializedView, IsOplogBootstrapped
<1>2. Told' = Told  BY DEF Told, ToldTo
<1> QED  BY <1>1, <1>2 DEF Contract!pvars
(* A write that is still open has never been logged, a request that nobody  *)
(* has been asked for has no epoch yet, and one that is over has no handler. *)
ClientInv ==
    /\ \A r \in Req : wst[r] = "new" => wepoch[r] = 0
    /\ \A r \in Req : wnode[r] # NoNode => wst[r] \in {"publishing", "waiting"}
    /\ \A i \in 1..Len(log[1]) : wst[log[1][i]] \notin {"new", "publishing"}

RInv == IInv /\ ClientInv

(* What is known of clients rests on the log and on the requests alone. *)
LEMMA ClientFrame == ClientInv /\ UNCHANGED <<log, wst, wnode, wepoch>> => ClientInv'
  BY DEF ClientInv

(* Ending requests that are not over ends them for good. *)
LEMMA ClientEnds ==
    ASSUME RInv, UNCHANGED <<log, wepoch>>,
           \A r \in Req : \/ wst'[r] = wst[r] /\ wnode'[r] = wnode[r]
                          \/ wst'[r] \notin {"new", "publishing"} /\ wnode'[r] = NoNode
    PROVE  ClientInv'
<1>1. \A i \in 1..Len(log[1]) : log[1][i] \in Req
  <2>1. 1 \in Epoch  BY BoundAssumption DEF Epoch
  <2>2. log[1] \in Seq(Req)  BY <2>1 DEF RInv, IInv, TypeOK, CloudOK
  <2> QED  BY <2>2
<1> QED  BY <1>1 DEF ClientInv, RInv

(* Requests that end without an answer. *)
LEMMA EndsAsGiveUp ==
    ASSUME NEW R \in SUBSET Req, Views' = Views, UNCHANGED <<log, canon>>,
           \A r \in R : ToldTo(r) = "asked" /\ ToldTo(r)' = "unsure",
           \A r \in Req \ R : ToldTo(r)' = ToldTo(r)
    PROVE  Contract!PNext
<1>1. \A r \in R : Told[r] = "asked"  BY DEF Told
<1>2. Told' = [r \in Req |-> IF r \in R THEN "unsure" ELSE Told[r]]  BY DEF Told
<1>3. Contract!GiveUpOn(R)  BY <1>1, <1>2 DEF Contract!GiveUpOn
<1> QED  BY <1>3 DEF Contract!PNext

(* What a node has materialized does not change with its process. *)
LEMMA SameViews ==
    ASSUME UNCHANGED <<epoch, lastApplied, bootstrapped>>,
           \A n \in Node : Tables(store'[n]) = Tables(store[n])
    PROVE  Views' = Views
  BY DEF Views, MaterializedView, IsOplogBootstrapped

(* An install takes a node to the prefix it was sent. *)
LEMMA InstallIsAdopt ==
    ASSUME MaxEpoch = 1, RInv, NEW n \in Node, pc[n] \in {"adopt", "install"}, InstallTables(n),
           UNCHANGED <<log, canon, live, reforming, wst, wepoch>>, TypeOK'
    PROVE  Contract!Adopt(n)
<1> DEFINE i == snap[n].seq
<1>1. bootstrapped'[n] = 1 /\ StoreOK(n)'
      /\ \A p \in Node : p # n => UNCHANGED <<bootstrapped[p], store[p], lastApplied[p]>>
  BY InstallPrefix, SettledIsSeeded DEF RInv
<1>2. \A p \in Node : epoch[p] = 1 /\ epoch'[p] = 1
  <2>1. Epoch = {1}  BY DEF Epoch
  <2> QED  BY <2>1 DEF RInv, IInv, TypeOK, DiskOK
<1>3. lastApplied'[n] = i /\ i \in Nat
  BY DEF InstallTables, RInv, IInv, TypeOK, DiskOK, AttachOK
<1>4. i \in 0..Len(log[1]) /\ Tables(store'[n]) = Tables(canon[1][i + 1])
  <2>1. Len(log[1]) \in Nat  BY <1>2 DEF RInv, IInv, TypeOK, CloudOK, DiskOK
  <2> QED  BY <1>1, <1>3, <2>1 DEF StoreOK, IsPrefix, Tables
<1>5. Views' = [Views EXCEPT ![n] = Contract!View(i)]
  <2>1. MaterializedView(n)' = Contract!View(i)
    BY <1>1, <1>2, <1>3, <1>4, SameStores DEF MaterializedView, IsOplogBootstrapped, Contract!View, Tables
  <2>2. ASSUME NEW p \in Node, p # n PROVE MaterializedView(p)' = MaterializedView(p)
    BY <1>1, <1>2, <2>2 DEF MaterializedView, IsOplogBootstrapped, Tables
  <2> QED  BY <2>1, <2>2 DEF Views
<1>6. Told' = Told  BY DEF Told, ToldTo
<1> QED  BY <1>4, <1>5, <1>6 DEF Contract!Adopt

(* Accepting a row is a matter of the tables. *)
LEMMA AcceptsOfTables ==
    ASSUME NEW s \in Store, NEW t \in Store, NEW r \in Req, Tables(s) = Tables(t)
    PROVE  Accepts(s, r) <=> Accepts(t, r)
  BY DEF Accepts, Tables

(* The commit of an entry is the contract's next entry, answer included. *)
LEMMA CommitIsApplyNext ==
    ASSUME MaxEpoch = 1, RInv, NEW n \in Node, NEW r \in Req, hand[n] # NoHand, hand[n].req = r,
           UNCHANGED <<epoch, bootstrapped, log, canon, wepoch>>,
           lastApplied' = [lastApplied EXCEPT ![n] = hand[n].seq],
           Tables(store'[n]) = Tables(Applied(store[n], r)),
           \A p \in Node : p # n => store'[p] = store[p],
           NEW out \in {"ok", "rejected"}, out = Outcome(n, r), Notify(n, r, out)
    PROVE  Contract!ApplyNext(n) /\ ClientInv'
<1> DEFINE i == lastApplied[n] + 1
<1>1. epoch[n] = 1 /\ bootstrapped[n] = 1 /\ r \in Req /\ lastApplied[n] \in Nat /\ 1 \in Epoch
      /\ store[n] \in Store
  <2>1. Epoch = {1}  BY DEF Epoch
  <2> QED  BY <2>1 DEF RInv, IInv, NodeOK, HandOK, TypeOK, DiskOK, LoopOK
<1>2. hand[n].seq = i /\ InLog(hand[n])  BY DEF RInv, IInv, NodeOK, HandOK
<1>3. log[1] \in Seq(Req) /\ canon[1] \in Seq(Store) /\ Len(canon[1]) = Len(log[1]) + 1
      /\ Len(log[1]) \in Nat
  BY <1>1 DEF RInv, IInv, TypeOK, CloudOK
<1>4. i \in 1..Len(log[1]) /\ log[1][i] = r /\ canon[1][i] \in Store
  BY <1>1, <1>2, <1>3 DEF InLog
<1>5. /\ Tables(store[n]) = Tables(canon[1][i])
      /\ Tables(Applied(store[n], r)) = Tables(canon[1][i + 1])
  BY <1>1, <1>2, NextPrefix, SettledIsSeeded DEF RInv, IsPrefix
<1>6. Views' = [Views EXCEPT ![n] = Contract!View(i)]
  <2>1. MaterializedView(n)' = Contract!View(i)
    <3>1. lastApplied'[n] = i /\ bootstrapped'[n] = 1 /\ epoch'[n] = 1
      BY <1>1, <1>2 DEF RInv, IInv, TypeOK, DiskOK
    <3>2. Tables(store'[n]) = Contract!Tables(canon[1][i + 1])
      BY <1>5, SameStores
    <3> QED  BY <3>1, <3>2 DEF MaterializedView, IsOplogBootstrapped, Contract!View, Tables
  <2>2. ASSUME NEW p \in Node, p # n PROVE MaterializedView(p)' = MaterializedView(p)
    BY <2>2 DEF MaterializedView, IsOplogBootstrapped, Tables, RInv, IInv, TypeOK, DiskOK
  <2> QED  BY <2>1, <2>2 DEF Views
<1>7. Views[n].known /\ Views[n].pos = lastApplied[n]
  BY <1>1 DEF Views, MaterializedView, IsOplogBootstrapped
<1>8. Contract!Verdict(i) = out
  BY <1>1, <1>4, <1>5, SameStores, AcceptsOfTables DEF Contract!Verdict, Outcome
<1>9. \/ Told' = Told
      \/ Told[r] = "asked" /\ Told' = [Told EXCEPT ![r] = out]
  <2>1. CASE wst[r] = "waiting" /\ wnode[r] = n
    <3>1. wst' = [wst EXCEPT ![r] = out] /\ wst \in [Req -> Outcomes]
      BY <2>1 DEF Notify, Finish, RInv, IInv, TypeOK, ClientOK
    <3>2. wepoch[r] \in Epoch  BY <1>1, <2>1 DEF RInv, IInv, TypeOK, ClientOK
    <3>3. wepoch[r] # 0  BY <3>2, BoundAssumption DEF Epoch
    <3>4. ToldTo(r) = "asked"  BY <2>1 DEF ToldTo
    <3>5. ToldTo(r)' = out
      <4>1. wst'[r] = out /\ wepoch'[r] = wepoch[r]  BY <1>1, <3>1
      <4> QED  BY <3>3, <4>1 DEF ToldTo
    <3>6. ASSUME NEW q \in Req, q # r PROVE ToldTo(q)' = ToldTo(q)
      BY <3>1, <3>6 DEF ToldTo
    <3> QED  BY <1>1, <3>4, <3>5, <3>6 DEF Told
  <2>2. CASE ~(wst[r] = "waiting" /\ wnode[r] = n)
    BY <2>2 DEF Notify, Told, ToldTo
  <2> QED  BY <2>1, <2>2
<1>10. Contract!ApplyNext(n)
  <2>1. Views[n].pos < Len(log[1])  BY <1>1, <1>3, <1>4, <1>7
  <2> QED  BY <1>4, <1>6, <1>7, <1>8, <1>9, <2>1 DEF Contract!ApplyNext
<1>11. ClientInv'
  <2>1. CASE wst[r] = "waiting" /\ wnode[r] = n
    BY <1>1, <2>1, ClientEnds DEF Notify, Finish, RInv, IInv, TypeOK, ClientOK
  <2>2. CASE ~(wst[r] = "waiting" /\ wnode[r] = n)
    BY <2>2, ClientFrame DEF Notify, RInv
  <2> QED  BY <2>1, <2>2
<1> QED  BY <1>10, <1>11

(* The publication that the stream stores is the contract's acceptance. *)
LEMMA StoredIsAccept ==
    ASSUME MaxEpoch = 1, RInv, NEW r \in Req, wst[r] = "publishing", Stored(r),
           UNCHANGED <<epoch, lastApplied, bootstrapped, store, wepoch>>,
           NEW s \in {"waiting", "sent", "dropped", "refused"},
           wst' = [wst EXCEPT ![r] = s],
           \/ s = "waiting" /\ UNCHANGED wnode
           \/ wnode' = [wnode EXCEPT ![r] = NoNode]
    PROVE  Contract!Accept(r) /\ ClientInv'
<1>1. wepoch[r] = 1 /\ 1 \in Epoch  BY OneEpoch DEF RInv, IInv
<1>2. /\ log[1] \in Seq(Req) /\ Len(log[1]) \in Nat /\ wst \in [Req -> Outcomes]
      /\ wnode \in [Req -> Node \cup {NoNode}]
  BY <1>1 DEF RInv, IInv, TypeOK, CloudOK, ClientOK
<1>3. /\ log'[1] = Append(log[1], r)
      /\ canon'[1] = Append(canon[1], Applied(canon[1][Len(canon[1])], r))
  BY <1>1 DEF Stored, RInv, IInv, TypeOK, CloudOK
<1>4. ~Contract!Logged(r)
  BY DEF Contract!Logged, RInv, ClientInv
<1>5. Told[r] = "asked"  BY DEF Told, ToldTo
<1>6. Told' \in {Told, [Told EXCEPT ![r] = "unsure"]}
  <2>1. \A q \in Req : q # r => ToldTo(q)' = ToldTo(q)  BY <1>2 DEF ToldTo
  <2>2. wst'[r] = s  BY <1>2
  <2>3. CASE s = "waiting"
    <3>1. ToldTo(r)' = "asked"  BY <2>2, <2>3 DEF ToldTo
    <3> QED  BY <1>5, <2>1, <3>1 DEF Told
  <2>4. CASE s # "waiting"
    <3>1. ToldTo(r)' = "unsure"  BY <2>2, <2>4 DEF ToldTo
    <3> QED  BY <2>1, <3>1 DEF Told
  <2> QED  BY <2>3, <2>4
<1>7. Views' = Views  BY SameViews
<1>8. Contract!Accept(r)
  BY <1>3, <1>4, <1>5, <1>6, <1>7, SameStores DEF Contract!Accept
<1>9. ClientInv'
  <2>1. \A q \in Req : wst'[q] = "new" => wepoch'[q] = 0  BY <1>2 DEF RInv, ClientInv
  <2>2. \A q \in Req : wnode'[q] # NoNode => wst'[q] \in {"publishing", "waiting"}
    BY <1>2 DEF RInv, ClientInv
  <2>3. ASSUME NEW i \in 1..Len(log'[1]) PROVE wst'[log'[1][i]] \notin {"new", "publishing"}
    <3>1. CASE i = Len(log[1]) + 1  BY <1>2, <1>3, <3>1
    <3>2. CASE i # Len(log[1]) + 1
      <4>1. i \in 1..Len(log[1]) /\ log'[1][i] = log[1][i]  BY <1>2, <1>3, <3>2
      <4> QED  BY <1>2, <4>1 DEF RInv, ClientInv
    <3> QED  BY <3>1, <3>2
  <2> QED  BY <2>1, <2>2, <2>3 DEF ClientInv
<1> QED  BY <1>8, <1>9

-----------------------------------------------------------------------------
(* Every step of the op-log is a step of the contract or invisible in it.   *)

StepIsContract == ClientInv' /\ (Contract!PNext \/ UNCHANGED Contract!pvars)

(* A step that leaves the log, the disk and the clients alone is invisible. *)
LEMMA SilentStep ==
    ASSUME RInv,
           UNCHANGED <<log, canon, epoch, lastApplied, bootstrapped, store, wst, wnode, wepoch>>
    PROVE  StepIsContract
  BY Invisible, ClientFrame DEF StepIsContract, RInv

(* Every action of a formed, unreformed constellation is a step of the      *)
(* contract or invisible in it: one case per action of OpLog.               *)
LEMMA ContractStep == ASSUME MaxEpoch = 1 PROVE RInv /\ Next => StepIsContract
<1> SUFFICES ASSUME RInv, Next PROVE StepIsContract  OBVIOUS
<1>a. /\ IInv /\ SInv /\ ClientInv /\ TypeOK /\ TypeOK' /\ Settled
      /\ \A n \in Node : HandOK(n) /\ PathOK(n)
  BY TypeStep, SettledIsSeeded DEF RInv, IInv, NodeOK
<1>b. Epoch = {1} /\ 1 \in Epoch  BY <1>a, OneEpoch
<1>c. \A n \in Node : epoch[n] = 1 /\ formationWriter[n] = 0 /\ (pc[n] # "idle" => at[n].epoch = 1)
  BY <1>a, OneEpoch DEF Settled
<1> USE <1>a, <1>b, <1>c DEF TypeOK
<1>1. ASSUME NEW n \in Node, NEW r \in Req, WriteDirect(n, r) PROVE StepIsContract
  <2>1. Views' = Views
    <3>1. bootstrapped[n] = 0 /\ epoch[n] = 1  BY <1>1, DirectIsUnmaterialized DEF WriteDirect
    <3>2. UNCHANGED kv /\ \A p \in Node : p # n => store'[p] = store[p]
      BY <1>1 DEF WriteDirect, DiskOK
    <3>3. ASSUME NEW p \in Node PROVE MaterializedView(p)' = MaterializedView(p)
      <4>1. UNCHANGED <<epoch, lastApplied, bootstrapped>>  BY <3>2 DEF kv
      <4>2. CASE p = n  BY <3>1, <4>1, <4>2 DEF MaterializedView, IsOplogBootstrapped
      <4>3. CASE p # n
        BY <3>2, <4>1, <4>3 DEF MaterializedView, IsOplogBootstrapped, Tables
      <4> QED  BY <4>2, <4>3
    <3> QED  BY <3>3 DEF Views
  <2>2. UNCHANGED <<log, canon, wepoch, wnode>> /\ wst[r] = "new" /\ wepoch[r] = 0
    BY <1>1 DEF WriteDirect, disk, kv, loop, attach, cloud, client, ClientInv
  <2>3. \E s \in {"direct", "rejected"} : wst' = [wst EXCEPT ![r] = s]
    BY <1>1 DEF WriteDirect
  <2>4. wst \in [Req -> Outcomes] /\ wnode[r] = NoNode  BY <2>2 DEF ClientOK, ClientInv
  <2>5. ToldTo(r) = "asked" /\ ToldTo(r)' = "unsure"  BY <2>2, <2>3, <2>4 DEF ToldTo
  <2>6. \A q \in Req : q # r => ToldTo(q)' = ToldTo(q)  BY <2>2, <2>3, <2>4 DEF ToldTo
  <2>7. Contract!PNext  BY <2>1, <2>2, <2>5, <2>6, EndsAsGiveUp, {r} \in SUBSET Req
  <2>8. ClientInv'  BY <2>2, <2>3, <2>4, ClientEnds
  <2> QED  BY <2>7, <2>8 DEF StepIsContract
<1>2. ASSUME NEW n \in Node, NEW r \in Req, WriteReadOnly(n, r) PROVE StepIsContract
  <2>1. Views' = Views /\ UNCHANGED <<log, canon, wepoch>>
    BY <1>2, SameViews DEF WriteReadOnly, disk, kv, loop, attach, cloud, client
  <2>2. wst \in [Req -> Outcomes] /\ wnode \in [Req -> Node \cup {NoNode}]
    BY DEF ClientOK
  <2>3. \E s \in {"dropped", "refused", "timeout"} : wst' = [wst EXCEPT ![r] = s]
    BY <1>2 DEF WriteReadOnly, Finish
  <2>4. ToldTo(r) = "asked" /\ ToldTo(r)' = "unsure"
    BY <1>2, <2>1, <2>2, <2>3 DEF WriteReadOnly, ToldTo
  <2>5. \A q \in Req : q # r => ToldTo(q)' = ToldTo(q)
    BY <2>1, <2>2, <2>3 DEF ToldTo
  <2>6. Contract!PNext  BY <2>1, <2>4, <2>5, EndsAsGiveUp, {r} \in SUBSET Req
  <2>7. ClientInv'
    BY <1>2, <2>1, <2>2, <2>3, ClientEnds DEF WriteReadOnly, Finish, ClientInv
  <2> QED  BY <2>6, <2>7 DEF StepIsContract
<1>3. ASSUME NEW n \in Node, NEW r \in Req, WritePublish(n, r) PROVE StepIsContract
  <2>1. Views' = Views /\ UNCHANGED <<log, canon>>
    BY <1>3, SameViews DEF WritePublish, disk, kv, loop, attach, cloud, client
  <2>2. wst' = [wst EXCEPT ![r] = "publishing"] /\ wst[r] = "new" /\ wst \in [Req -> Outcomes]
        /\ wnode' = [wnode EXCEPT ![r] = n] /\ wepoch' = [wepoch EXCEPT ![r] = epoch[n]]
    BY <1>3 DEF WritePublish, ClientOK
  <2>3. \A q \in Req : ToldTo(q)' = ToldTo(q)
    BY <2>2 DEF ToldTo, ClientOK
  <2>4. Told' = Told  BY <2>3 DEF Told
  <2>5. ClientInv'
    <3>1. \A q \in Req : wst'[q] = "new" => wepoch'[q] = 0  BY <2>2 DEF ClientInv, ClientOK
    <3>2. \A q \in Req : wnode'[q] # NoNode => wst'[q] \in {"publishing", "waiting"}
      BY <2>2 DEF ClientInv, ClientOK
    <3>3. \A i \in 1..Len(log[1]) : log[1][i] # r  BY <2>2 DEF ClientInv
    <3>4. \A i \in 1..Len(log'[1]) : wst'[log'[1][i]] \notin {"new", "publishing"}
      <4>1. log[1] \in Seq(Req)  BY DEF CloudOK
      <4> QED  BY <2>1, <2>2, <3>3, <4>1 DEF ClientInv
    <3> QED  BY <3>1, <3>2, <3>4 DEF ClientInv
  <2> QED  BY <2>1, <2>4, <2>5 DEF StepIsContract, Contract!pvars
<1>4. ASSUME NEW r \in Req, PublishAcked(r) PROVE StepIsContract
  <2>1. wst[r] = "publishing" /\ Stored(r)
        /\ UNCHANGED <<epoch, lastApplied, bootstrapped, store, wepoch>>
    BY <1>4 DEF PublishAcked, disk, kv, loop, attach, cloud, client
  <2>2. CASE r \in BestEffort
    <3>1. wst' = [wst EXCEPT ![r] = "sent"] /\ wnode' = [wnode EXCEPT ![r] = NoNode]
      BY <1>4, <2>2 DEF PublishAcked, Finish
    <3> QED  BY <2>1, <3>1, StoredIsAccept DEF StepIsContract, Contract!PNext
  <2>3. CASE r \notin BestEffort
    <3>1. wst' = [wst EXCEPT ![r] = "waiting"]
          /\ UNCHANGED wnode
      BY <1>4, <2>3 DEF PublishAcked, Finish
    <3> QED  BY <2>1, <3>1, StoredIsAccept DEF StepIsContract, Contract!PNext
  <2> QED  BY <2>2, <2>3
<1>5. ASSUME NEW r \in Req, PublishAckLost(r) PROVE StepIsContract
  <2>1. wst[r] = "publishing" /\ Stored(r)
        /\ UNCHANGED <<epoch, lastApplied, bootstrapped, store, wepoch>>
    BY <1>5 DEF PublishAckLost, disk, kv, loop, attach, cloud, client
  <2>2. CASE r \in BestEffort
    <3>1. wst' = [wst EXCEPT ![r] = "dropped"] /\ wnode' = [wnode EXCEPT ![r] = NoNode]
      BY <1>5, <2>2 DEF PublishAckLost, Finish
    <3> QED  BY <2>1, <3>1, StoredIsAccept DEF StepIsContract, Contract!PNext
  <2>3. CASE r \notin BestEffort
    <3>1. wst' = [wst EXCEPT ![r] = "refused"]
          /\ wnode' = [wnode EXCEPT ![r] = NoNode]
      BY <1>5, <2>3 DEF PublishAckLost, Finish
    <3> QED  BY <2>1, <3>1, StoredIsAccept DEF StepIsContract, Contract!PNext
  <2> QED  BY <2>2, <2>3
<1>6. ASSUME NEW r \in Req, PublishFails(r) PROVE StepIsContract
  <2>1. Views' = Views /\ UNCHANGED <<log, canon, wepoch>>
    BY <1>6, SameViews DEF PublishFails, disk, kv, loop, attach, cloud, client
  <2>2. wst \in [Req -> Outcomes] /\ wnode \in [Req -> Node \cup {NoNode}]
    BY DEF ClientOK
  <2>3. \E s \in {"dropped", "refused", "timeout"} : wst' = [wst EXCEPT ![r] = s]
    BY <1>6 DEF PublishFails, Finish
  <2>4. ToldTo(r) = "asked" /\ ToldTo(r)' = "unsure"
    BY <1>6, <2>1, <2>2, <2>3 DEF PublishFails, ToldTo
  <2>5. \A q \in Req : q # r => ToldTo(q)' = ToldTo(q)
    BY <2>1, <2>2, <2>3 DEF ToldTo
  <2>6. Contract!PNext  BY <2>1, <2>4, <2>5, EndsAsGiveUp, {r} \in SUBSET Req
  <2>7. ClientInv'
    BY <1>6, <2>1, <2>2, <2>3, ClientEnds DEF PublishFails, Finish, ClientInv
  <2> QED  BY <2>6, <2>7 DEF StepIsContract
<1>7. ASSUME NEW r \in Req, WaitTimesOut(r) PROVE StepIsContract
  <2>1. Views' = Views /\ UNCHANGED <<log, canon, wepoch>>
    BY <1>7, SameViews DEF WaitTimesOut, disk, kv, loop, attach, cloud, client
  <2>2. wst \in [Req -> Outcomes] /\ wnode \in [Req -> Node \cup {NoNode}]
    BY DEF ClientOK
  <2>3. \E s \in {"dropped", "refused", "timeout"} : wst' = [wst EXCEPT ![r] = s]
    BY <1>7 DEF WaitTimesOut, Finish
  <2>4. ToldTo(r) = "asked" /\ ToldTo(r)' = "unsure"
    BY <1>7, <2>1, <2>2, <2>3 DEF WaitTimesOut, ToldTo
  <2>5. \A q \in Req : q # r => ToldTo(q)' = ToldTo(q)
    BY <2>1, <2>2, <2>3 DEF ToldTo
  <2>6. Contract!PNext  BY <2>1, <2>4, <2>5, EndsAsGiveUp, {r} \in SUBSET Req
  <2>7. ClientInv'
    BY <1>7, <2>1, <2>2, <2>3, ClientEnds DEF WaitTimesOut, Finish, ClientInv
  <2> QED  BY <2>6, <2>7 DEF StepIsContract
<1>8. ASSUME NEW n \in Node, HandleDelivery(n) PROVE StepIsContract
  <2>1. UNCHANGED <<log, canon, epoch, lastApplied, bootstrapped, store, wst, wnode, wepoch>>
    BY <1>8 DEF HandleDelivery, disk, kv, loop, attach, cloud, client
  <2> QED  BY <2>1, SilentStep
<1>9. ASSUME NEW n \in Node, HandleLate(n) PROVE StepIsContract
  <2>1. UNCHANGED <<log, canon, epoch, lastApplied, bootstrapped, store, wst, wnode, wepoch>>
    BY <1>9 DEF HandleLate, disk, kv, loop, attach, cloud, client
  <2> QED  BY <2>1, SilentStep
<1>10. ASSUME NEW n \in Node, ConsumeForeign(n) PROVE StepIsContract
  <2>1. FALSE  BY <1>10 DEF ConsumeForeign, HandOK, NoHand
  <2> QED  BY <2>1
<1>11. ASSUME NEW n \in Node, ApplyTableOp(n) PROVE StepIsContract
  <2>1. hand[n] # NoHand /\ hand[n].req \in Req
    BY <1>11, NextPrefix DEF ApplyTableOp, NoHand
  <2>2. PICK r \in Req : r = hand[n].req  BY <2>1
  <2>3. PICK out \in {"ok", "rejected"} : out = Outcome(n, r)  BY DEF Outcome
  <2>4. Notify(n, r, out) /\ UNCHANGED <<epoch, bootstrapped, log, canon, wepoch>>
        /\ lastApplied' = [lastApplied EXCEPT ![n] = hand[n].seq]
        /\ store' = [store EXCEPT ![n] = Applied(store[n], r)]
    BY <1>11, <2>2, <2>3 DEF ApplyTableOp, disk, kv, loop, attach, cloud, client
  <2>5. Tables(store'[n]) = Tables(Applied(store[n], r))
        /\ \A p \in Node : p # n => store'[p] = store[p]
    BY <2>4 DEF DiskOK
  <2>6. Contract!ApplyNext(n) /\ ClientInv'
    BY <2>1, <2>2, <2>3, <2>4, <2>5, CommitIsApplyNext
  <2> QED  BY <2>6 DEF StepIsContract, Contract!PNext
<1>12. ASSUME NEW n \in Node, ApplyDomainOp(n) PROVE StepIsContract
  <2>1. hand[n] # NoHand  BY <1>12 DEF ApplyDomainOp, NoHand
  <2>2. \A p \in Node : Tables(store'[p]) = Tables(store[p])
    <3>1. store' = [store EXCEPT ![n] = Effect(store[n], hand[n].req)]  BY <1>12 DEF ApplyDomainOp
    <3>2. Tables(Effect(store[n], hand[n].req)) = Tables(store[n])
      BY <1>12, <2>1, NextPrefix, DomainKeepsTables DEF ApplyDomainOp
    <3> QED  BY <3>1, <3>2 DEF DiskOK
  <2>3. UNCHANGED <<log, canon, epoch, lastApplied, bootstrapped, wst, wnode, wepoch>>
    BY <1>12 DEF ApplyDomainOp, disk, kv, loop, attach, cloud, client
  <2> QED  BY <2>2, <2>3, Invisible, ClientFrame DEF StepIsContract
<1>13. ASSUME NEW n \in Node, CommitDomainOp(n) PROVE StepIsContract
  <2>1. hand[n] # NoHand /\ hand[n].req \in Req
    BY <1>13, NextPrefix DEF CommitDomainOp, NoHand
  <2>2. PICK r \in Req : r = hand[n].req  BY <2>1
  <2>3. IsDomainOp(r)  BY <1>13, <2>1, <2>2 DEF CommitDomainOp, HandOK
  <2>4. Outcome(n, r) = "ok"  BY <2>3 DEF Outcome, Accepts, IsDomainOp
  <2>5. Notify(n, r, "ok") /\ UNCHANGED <<epoch, bootstrapped, log, canon, wepoch, store>>
        /\ lastApplied' = [lastApplied EXCEPT ![n] = hand[n].seq]
    BY <1>13, <2>2 DEF CommitDomainOp, disk, kv, loop, attach, cloud, client
  <2>6. Tables(store'[n]) = Tables(Applied(store[n], r))
    BY <2>1, <2>2, <2>3, <2>5, NextPrefix, DomainKeepsTables
  <2>7. Contract!ApplyNext(n) /\ ClientInv'
    BY <2>1, <2>2, <2>4, <2>5, <2>6, CommitIsApplyNext
  <2> QED  BY <2>7 DEF StepIsContract, Contract!PNext
<1>14. ASSUME NEW n \in Node, ProbeDetaches(n) PROVE StepIsContract
  <2>1. UNCHANGED <<log, canon, epoch, lastApplied, bootstrapped, store, wst, wnode, wepoch>>
    BY <1>14 DEF ProbeDetaches, disk, kv, loop, attach, cloud, client, Detach
  <2> QED  BY <2>1, SilentStep
<1>15. ASSUME NEW n \in Node, ConsumerDies(n) PROVE StepIsContract
  <2>1. UNCHANGED <<log, canon, epoch, lastApplied, bootstrapped, store, wst, wnode, wepoch>>
    BY <1>15 DEF ConsumerDies, disk, kv, loop, attach, cloud, client
  <2> QED  BY <2>1, SilentStep
<1>16. ASSUME NEW n \in Node, AttachFinds(n) PROVE StepIsContract
  <2>1. UNCHANGED <<log, canon, epoch, lastApplied, bootstrapped, store, wst, wnode, wepoch>>
    BY <1>16 DEF AttachFinds, disk, kv, loop, attach, cloud, client
  <2> QED  BY <2>1, SilentStep
<1>17. ASSUME NEW n \in Node, AttachMisses(n) PROVE StepIsContract
  <2>1. UNCHANGED <<log, canon, epoch, lastApplied, bootstrapped, store, wst, wnode, wepoch>>
    BY <1>17 DEF AttachMisses, disk, kv, loop, attach, cloud, client
  <2> QED  BY <2>1, SilentStep
<1>18. ASSUME NEW n \in Node, NEW m \in Node, AdoptAnswered(n, m) PROVE StepIsContract
  <2>1. UNCHANGED <<log, canon, epoch, lastApplied, bootstrapped, store, wst, wnode, wepoch>>
    BY <1>18 DEF AdoptAnswered, disk, kv, loop, attach, cloud, client
  <2> QED  BY <2>1, SilentStep
<1>19. ASSUME NEW n \in Node, AdoptUnanswered(n) PROVE StepIsContract
  <2>1. UNCHANGED <<log, canon, epoch, lastApplied, bootstrapped, store, wst, wnode, wepoch>>
    BY <1>19 DEF AdoptUnanswered, disk, kv, loop, attach, cloud, client
  <2> QED  BY <2>1, SilentStep
<1>20. ASSUME NEW n \in Node, AdoptTables(n) PROVE StepIsContract
  <2>1. pc[n] \in {"adopt", "install"} /\ InstallTables(n)
        /\ UNCHANGED <<log, canon, live, reforming, wst, wnode, wepoch>>
    BY <1>20 DEF AdoptTables, disk, kv, loop, attach, cloud, client
  <2>2. Contract!Adopt(n)  BY <2>1, InstallIsAdopt
  <2> QED  BY <2>1, <2>2, ClientFrame DEF StepIsContract, Contract!PNext
<1>21. ASSUME NEW n \in Node, AdoptDomains(n) PROVE StepIsContract
  <2>1. store' = [store EXCEPT ![n].dom = snap[n].store.dom]
        /\ UNCHANGED <<log, canon, epoch, lastApplied, bootstrapped, wst, wnode, wepoch>>
    BY <1>21 DEF AdoptDomains, InstallDomains, disk, kv, loop, attach, cloud, client
  <2>2. \A p \in Node : Tables(store'[p]) = Tables(store[p])
    BY <2>1 DEF Tables, DiskOK, Store
  <2> QED  BY <2>1, <2>2, Invisible, ClientFrame DEF StepIsContract
<1>22. ASSUME NEW n \in Node, CreateWins(n) PROVE StepIsContract
  <2>1. FALSE  BY <1>22 DEF CreateWins, Settled
  <2> QED  BY <2>1
<1>23. ASSUME NEW n \in Node, CreateLoses(n) PROVE StepIsContract
  <2>1. UNCHANGED <<log, canon, epoch, lastApplied, bootstrapped, store, wst, wnode, wepoch>>
    BY <1>23 DEF CreateLoses, disk, kv, loop, attach, cloud, client
  <2> QED  BY <2>1, SilentStep
<1>24. ASSUME NEW n \in Node, CreateRefused(n) PROVE StepIsContract
  <2>1. UNCHANGED <<log, canon, epoch, lastApplied, bootstrapped, store, wst, wnode, wepoch>>
    BY <1>24 DEF CreateRefused, disk, kv, loop, attach, cloud, client
  <2> QED  BY <2>1, SilentStep
<1>25. ASSUME NEW n \in Node, MarkCreated(n) PROVE StepIsContract
  <2>1. FALSE  BY <1>25 DEF MarkCreated, PathOK
  <2> QED  BY <2>1
<1>26. ASSUME NEW n \in Node, CatchUp(n) PROVE StepIsContract
  <2>1. UNCHANGED <<log, canon, epoch, lastApplied, bootstrapped, store, wst, wnode, wepoch>>
    BY <1>26 DEF CatchUp, disk, kv, loop, attach, cloud, client
  <2> QED  BY <2>1, SilentStep
<1>27. ASSUME NEW n \in Node, NEW m \in Node, FastForwardAnswered(n, m) PROVE StepIsContract
  <2>1. UNCHANGED <<log, canon, epoch, lastApplied, bootstrapped, store, wst, wnode, wepoch>>
    BY <1>27 DEF FastForwardAnswered, disk, kv, loop, attach, cloud, client
  <2> QED  BY <2>1, SilentStep
<1>28. ASSUME NEW n \in Node, FastForwardUnanswered(n) PROVE StepIsContract
  <2>1. ~MaySelfSeed(n)  BY DEF MaySelfSeed, IsFormationWriter
  <2>2. UNCHANGED <<log, canon, epoch, lastApplied, bootstrapped, store, wst, wnode, wepoch>>
    BY <1>28, <2>1 DEF FastForwardUnanswered, disk, kv, loop, attach, cloud, client
  <2> QED  BY <2>2, SilentStep
<1>29. ASSUME NEW n \in Node, FastForwardTables(n) PROVE StepIsContract
  <2>1. pc[n] \in {"adopt", "install"} /\ InstallTables(n)
        /\ UNCHANGED <<log, canon, live, reforming, wst, wnode, wepoch>>
    BY <1>29 DEF FastForwardTables, disk, kv, loop, attach, cloud, client
  <2>2. Contract!Adopt(n)  BY <2>1, InstallIsAdopt
  <2> QED  BY <2>1, <2>2, ClientFrame DEF StepIsContract, Contract!PNext
<1>30. ASSUME NEW n \in Node, FastForwardDomains(n) PROVE StepIsContract
  <2>1. store' = [store EXCEPT ![n].dom = snap[n].store.dom]
        /\ UNCHANGED <<log, canon, epoch, lastApplied, bootstrapped, wst, wnode, wepoch>>
    BY <1>30 DEF FastForwardDomains, InstallDomains, disk, kv, loop, attach, cloud, client
  <2>2. \A p \in Node : Tables(store'[p]) = Tables(store[p])
    BY <2>1 DEF Tables, DiskOK, Store
  <2> QED  BY <2>1, <2>2, Invisible, ClientFrame DEF StepIsContract
<1>31. ASSUME NEW n \in Node, Subscribe(n) PROVE StepIsContract
  <2>1. UNCHANGED <<log, canon, epoch, lastApplied, bootstrapped, store, wst, wnode, wepoch>>
    BY <1>31 DEF Subscribe, disk, kv, loop, attach, cloud, client
  <2> QED  BY <2>1, SilentStep
<1>32. ASSUME NEW n \in Node, SubscribeFails(n) PROVE StepIsContract
  <2>1. UNCHANGED <<log, canon, epoch, lastApplied, bootstrapped, store, wst, wnode, wepoch>>
    BY <1>32 DEF SubscribeFails, disk, kv, loop, attach, cloud, client
  <2> QED  BY <2>1, SilentStep
<1>33. ASSUME NEW n \in Node, Latch(n) PROVE StepIsContract
  <2>1. UNCHANGED <<log, canon, epoch, lastApplied, bootstrapped, store, wst, wnode, wepoch>>
    BY <1>33 DEF Latch, disk, kv, loop, attach, cloud, client
  <2> QED  BY <2>1, SilentStep
<1>34. ASSUME NEW n \in Node, RestartNebula(n) PROVE StepIsContract
  <2>1. UNCHANGED <<log, canon, epoch, lastApplied, bootstrapped, store, wst, wnode, wepoch>>
    BY <1>34 DEF RestartNebula, disk, kv, loop, attach, cloud, client, Detach
  <2> QED  BY <2>1, SilentStep
<1>35. ASSUME NEW n \in Node, StartNebula(n) PROVE StepIsContract
  <2>1. UNCHANGED <<log, canon, epoch, lastApplied, bootstrapped, store, wst, wnode, wepoch>>
    BY <1>35 DEF StartNebula, disk, kv, loop, attach, cloud, client
  <2> QED  BY <2>1, SilentStep
<1>36. ASSUME NEW n \in Node, StartOplogApply(n) PROVE StepIsContract
  <2>1. UNCHANGED <<log, canon, epoch, lastApplied, bootstrapped, store, wst, wnode, wepoch>>
    BY <1>36 DEF StartOplogApply, disk, kv, loop, attach, cloud, client
  <2> QED  BY <2>1, SilentStep
<1>37. ASSUME NEW n \in Node, Crash(n) PROVE StepIsContract
  <2> DEFINE R == {r \in Req : wnode[r] = n}
  <2>1. UNCHANGED <<log, canon, epoch, lastApplied, bootstrapped, store, wepoch>>
        /\ wst' = [r \in Req |-> IF wnode[r] = n THEN "lost" ELSE wst[r]]
        /\ wnode' = [r \in Req |-> IF wnode[r] = n THEN NoNode ELSE wnode[r]]
    BY <1>37 DEF Crash, disk, kv, loop, attach, cloud, client
  <2>2. Views' = Views  BY <2>1, SameViews
  <2>3. \A r \in R : ToldTo(r) = "asked" /\ ToldTo(r)' = "unsure"
    BY <2>1, RoleAssumption DEF ToldTo, ClientInv
  <2>4. \A r \in Req \ R : ToldTo(r)' = ToldTo(r)  BY <2>1 DEF ToldTo
  <2>5. Contract!PNext  BY <2>1, <2>2, <2>3, <2>4, EndsAsGiveUp, R \in SUBSET Req
  <2>6. ClientInv'  BY <2>1, ClientEnds
  <2> QED  BY <2>5, <2>6 DEF StepIsContract
<1>38. ASSUME NEW n \in Node, StartProcess(n) PROVE StepIsContract
  <2>1. UNCHANGED <<log, canon, epoch, lastApplied, bootstrapped, store, wst, wnode, wepoch>>
    BY <1>38 DEF StartProcess, disk, kv, loop, attach, cloud, client
  <2> QED  BY <2>1, SilentStep
<1>39. ASSUME NEW n \in Node, ReformOplogEpoch(n) PROVE StepIsContract
  <2>1. FALSE  BY <1>39 DEF ReformOplogEpoch
  <2> QED  BY <2>1
<1>40. ASSUME NEW n \in Node, ReformCleanUp(n) PROVE StepIsContract
  <2>1. FALSE  BY <1>40 DEF ReformCleanUp, Settled
  <2> QED  BY <2>1
<1>41. ASSUME NEW e \in Epoch, StreamLost(e) PROVE StepIsContract
  <2>1. FALSE  BY <1>41 DEF StreamLost
  <2> QED  BY <2>1
<1> QED
  BY <1>1, <1>2, <1>3, <1>4, <1>5, <1>6, <1>7, <1>8, <1>9, <1>10, <1>11, <1>12, <1>13, <1>14,
  <1>15, <1>16, <1>17, <1>18, <1>19, <1>20, <1>21, <1>22, <1>23, <1>24, <1>25, <1>26,
  <1>27, <1>28, <1>29, <1>30, <1>31, <1>32, <1>33, <1>34, <1>35, <1>36, <1>37, <1>38,
  <1>39, <1>40, <1>41
  DEF Next, NodeStep, WriteStep, ApplyStep, AdoptStep, CreateStep, AttachStep, LifeStep, RequestStep

(* So is a step that changes nothing. *)
LEMMA ContractStutter == RInv /\ UNCHANGED vars => StepIsContract
<1> SUFFICES ASSUME RInv, UNCHANGED vars PROVE StepIsContract  OBVIOUS
<1>1. UNCHANGED <<log, canon, epoch, lastApplied, bootstrapped, store, wst, wnode, wepoch>>
  BY DEF vars, disk, kv, cloud, client
<1> QED  BY <1>1, SilentStep

(* A formed constellation starts as the contract does: the founder at the   *)
(* seed, the others with nothing, and nobody told anything.                 *)
LEMMA ContractInit == ASSUME MaxEpoch = 1 PROVE InitFormed => RInv /\ Contract!PInit
<1> SUFFICES ASSUME InitFormed PROVE RInv /\ Contract!PInit  OBVIOUS
<1>1. IInv /\ TypeOK /\ Epoch = {1}  BY MaterializedInit, OneEpoch DEF IInv
<1>2. log[1] = <<>> /\ canon[1] = <<FounderStore>>  BY <1>1 DEF InitFormed
<1>3. ClientInv  BY <1>2 DEF ClientInv, InitFormed
<1>4. canon[1] \in Seq(Contract!Store) /\ Len(canon[1]) = 1
  <2>1. canon[1] \in Seq(Store)  BY <1>1 DEF TypeOK, CloudOK
  <2> QED  BY <1>2, <2>1, SameStores
<1>5. Told = [r \in Req |-> "asked"]  BY DEF Told, ToldTo, InitFormed
<1>6. ASSUME NEW n \in Node PROVE Views[n] \in {Contract!NoView, Contract!View(0)}
  <2>1. CASE n = Founder
    <3>1. Views[n] = [known |-> TRUE, pos |-> 0, tables |-> Tables(FounderStore)]
      BY <2>1 DEF InitFormed, Views, MaterializedView, IsOplogBootstrapped
    <3>2. Contract!View(0) = [known |-> TRUE, pos |-> 0, tables |-> Tables(canon[1][1])]
      <4>1. 0 + 1 = 1  OBVIOUS
      <4>2. Contract!Tables(canon[1][1]) = Tables(canon[1][1])  BY SameStores
      <4> QED  BY <4>1, <4>2, Zenon DEF Contract!View
    <3> QED  BY <1>2, <3>1, <3>2
  <2>2. CASE n # Founder
    <3>1. Views[n] = [known |-> FALSE, pos |-> 0, tables |-> Tables(FreshStore)]
      BY <2>2 DEF InitFormed, Views, MaterializedView, IsOplogBootstrapped
    <3>2. Contract!NoView = [known |-> FALSE, pos |-> 0, tables |-> Tables(FreshStore)]
      BY DEF Contract!NoView, Contract!Tables, Contract!FreshStore, Tables, FreshStore
    <3> QED  BY <3>1, <3>2
  <2> QED  BY <2>1, <2>2
<1> QED  BY <1>1, <1>2, <1>3, <1>4, <1>5, <1>6 DEF RInv, Contract!PInit

(* The invariant the steps are taken from is kept. *)
LEMMA RInvStep == ASSUME MaxEpoch = 1 PROVE RInv /\ [Next]_vars => RInv' /\ StepIsContract
  BY ContractStep, ContractStutter, MaterializedStep, MaterializedStutter DEF RInv, StepIsContract

(* The op-log, its apply loop, snapshots, restarts, crashes and waiters,    *)
(* implements the replicated store: each of its steps is one of the         *)
(* contract's or changes nothing the contract speaks of.                    *)
THEOREM FormedImplements == ASSUME MaxEpoch = 1 PROVE FormedSpec => ImplementsContract
<1>1. InitFormed => RInv /\ Contract!PInit  BY ContractInit
<1>2. RInv /\ [Next]_vars => RInv' /\ [Contract!PNext]_(Contract!pvars)
  BY RInvStep DEF StepIsContract
<1> QED  BY <1>1, <1>2, PTL DEF FormedSpec, ImplementsContract, Contract!PSpec

-----------------------------------------------------------------------------
(* What the contract gives its clients. *)

(* An answer is the verdict of the entry that carries the write. *)
AnswersOK ==
    \A r \in Req : Told[r] \in {"ok", "rejected"} =>
        \E i \in 1..Len(log[1]) : log[1][i] = r /\ Told[r] = Contract!Verdict(i)

(* An answer stays the log's verdict while the log grows under it.          *)
LEMMA AnswersStep == ASSUME MaxEpoch = 1 PROVE RInv /\ AnswersOK /\ StepIsContract => AnswersOK'
<1> SUFFICES ASSUME RInv, AnswersOK, StepIsContract PROVE AnswersOK'  OBVIOUS
<1>1. log[1] \in Seq(Req) /\ canon[1] \in Seq(Store) /\ Len(canon[1]) = Len(log[1]) + 1
      /\ Len(log[1]) \in Nat
  <2>1. 1 \in Epoch  BY BoundAssumption DEF Epoch
  <2> QED  BY <2>1 DEF RInv, IInv, TypeOK, CloudOK
<1>2. Told \in [Req -> {"asked", "ok", "rejected", "unsure"}]  BY DEF Told, ToldTo
<1>3. ASSUME NEW r \in Req, Contract!Accept(r) PROVE AnswersOK'
  <2>1. /\ log'[1] = Append(log[1], r)
        /\ canon'[1] = Append(canon[1], Contract!Applied(canon[1][Len(canon[1])], r))
        /\ Told' \in {Told, [Told EXCEPT ![r] = "unsure"]}
    BY <1>3 DEF Contract!Accept
  <2>2. ASSUME NEW q \in Req, Told'[q] \in {"ok", "rejected"}
        PROVE \E i \in 1..Len(log'[1]) : log'[1][i] = q /\ Told'[q] = Contract!Verdict(i)'
    <3>1. Told[q] = Told'[q]  BY <1>2, <2>1, <2>2
    <3>2. PICK i \in 1..Len(log[1]) : log[1][i] = q /\ Told[q] = Contract!Verdict(i)
      BY <2>2, <3>1 DEF AnswersOK
    <3>3. /\ i \in 1..Len(log'[1]) /\ log'[1][i] = log[1][i] /\ canon'[1][i] = canon[1][i]
      BY <1>1, <2>1, <3>2
    <3>4. Contract!Verdict(i)' = Contract!Verdict(i)
      BY <3>3 DEF Contract!Verdict, Contract!Accepts
    <3> QED  BY <3>1, <3>2, <3>3, <3>4
  <2> QED  BY <2>2 DEF AnswersOK
<1>4. ASSUME NEW n \in Node, Contract!ApplyNext(n) PROVE AnswersOK'
  <2> DEFINE i == Views[n].pos + 1
  <2>1. UNCHANGED <<log[1], canon[1]>>
        /\ \/ Told' = Told
           \/ Told[log[1][i]] = "asked" /\ Told' = [Told EXCEPT ![log[1][i]] = Contract!Verdict(i)]
    BY <1>4 DEF Contract!ApplyNext
  <2>2. \A j : Contract!Verdict(j)' = Contract!Verdict(j)
    BY <2>1 DEF Contract!Verdict, Contract!Accepts
  <2>3. i \in 1..Len(log[1])
    <3>1. Views[n].known /\ Views[n].pos < Len(log[1])  BY <1>4 DEF Contract!ApplyNext
    <3>2. Views[n].pos \in Nat  BY DEF Views, MaterializedView, RInv, IInv, TypeOK, DiskOK
    <3> QED  BY <1>1, <3>1, <3>2
  <2>4. CASE Told' = Told  BY <2>1, <2>2, <2>4 DEF AnswersOK
  <2>5. CASE Told' = [Told EXCEPT ![log[1][i]] = Contract!Verdict(i)]
    <3>1. PICK j \in 1..Len(log[1]) : j = i  BY <2>3
    <3>2. \A q \in Req : Told'[q] = IF q = log[1][j] THEN Contract!Verdict(j) ELSE Told[q]
      BY <1>2, <2>5, <3>1
    <3> HIDE DEF i
    <3> QED  BY <2>1, <2>2, <3>1, <3>2 DEF AnswersOK
  <2> QED  BY <2>1, <2>4, <2>5
<1>5. ASSUME UNCHANGED <<log[1], canon[1]>>,
             \A r \in Req : Told'[r] = Told[r] \/ Told'[r] = "unsure"
      PROVE AnswersOK'
  <2>1. \A j : Contract!Verdict(j)' = Contract!Verdict(j)
    BY <1>5 DEF Contract!Verdict, Contract!Accepts
  <2> QED  BY <1>5, <2>1 DEF AnswersOK
<1>6. ASSUME NEW n \in Node, Contract!Adopt(n) PROVE AnswersOK'
  BY <1>5, <1>6 DEF Contract!Adopt
<1>7. ASSUME NEW R \in SUBSET Req, Contract!GiveUpOn(R) PROVE AnswersOK'
  BY <1>5, <1>7 DEF Contract!GiveUpOn
<1>8. CASE UNCHANGED Contract!pvars  BY <1>5, <1>8 DEF Contract!pvars
<1> QED  BY <1>3, <1>4, <1>6, <1>7, <1>8 DEF StepIsContract, Contract!PNext

(* Whatever crashes, redeliveries and snapshots intervene, a client that is *)
(* told "ok" or "duplicate" is told what replaying the log decides.         *)
THEOREM OutcomesCanonical == ASSUME MaxEpoch = 1 PROVE FormedSpec => []OutcomeIsCanonical
<1>1. InitFormed => RInv /\ AnswersOK
  BY ContractInit DEF AnswersOK, Told, ToldTo, InitFormed
<1>2. RInv /\ AnswersOK /\ [Next]_vars => RInv' /\ AnswersOK'
  BY RInvStep, AnswersStep
<1>3. RInv /\ AnswersOK => OutcomeIsCanonical
  <2> SUFFICES ASSUME RInv, AnswersOK, NEW r \in Req, wst[r] \in {"ok", "rejected"}, wepoch[r] # 0
               PROVE \E i \in 1..Len(log[wepoch[r]]) :
                        /\ log[wepoch[r]][i] = r
                        /\ (wst[r] = "ok") <=> Accepts(canon[wepoch[r]][i], r)
    BY DEF OutcomeIsCanonical
  <2>1. wepoch[r] = 1  BY DEF RInv, IInv, TypeOK, ClientOK
  <2>2. Told[r] = wst[r]  BY DEF Told, ToldTo
  <2>3. PICK i \in 1..Len(log[1]) : log[1][i] = r /\ Told[r] = Contract!Verdict(i)
    BY <2>2 DEF AnswersOK
  <2>4. (wst[r] = "ok") <=> Accepts(canon[1][i], r)
    BY <2>2, <2>3, SameStores DEF Contract!Verdict
  <2> QED  BY <2>1, <2>3, <2>4
<1> QED  BY <1>1, <1>2, <1>3, PTL DEF FormedSpec
=============================================================================
