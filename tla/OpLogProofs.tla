---------------------------- MODULE OpLogProofs ----------------------------
(***************************************************************************)
(* Theorems about the config op-log, for any number of nodes, keys and     *)
(* writes, any operation per write, any retention and any number of        *)
(* faults.                                                                 *)
(***************************************************************************)
EXTENDS OpLogProps, TLAPS

-----------------------------------------------------------------------------
(* Lemmas about the operators of the model. *)

(* A node that holds nothing holds a store all the same. *)
LEMMA FreshStoreType == FreshStore \in Store
  BY NoReqAssumption DEF FreshStore, Store

(* Applying an entry to a store, accepted or not, gives a store. *)
LEMMA EffectType ==
    ASSUME NEW s \in Store, NEW r \in Req
    PROVE  Effect(s, r) \in Store /\ Applied(s, r) \in Store
<1> OpOf[r] \in Op  BY OpAssumption
<1>1. CASE OpOf[r].kind = "insert"  BY <1>1 DEF Effect, Applied, Store, Op
<1>2. CASE OpOf[r].kind = "delete"  BY <1>2 DEF Effect, Applied, Store, Op
<1>3. CASE OpOf[r].kind = "block"   BY <1>3 DEF Effect, Applied, Store, Op
<1>4. CASE OpOf[r].kind = "set"     BY <1>4 DEF Effect, Applied, Store, Op
<1> QED  BY <1>1, <1>2, <1>3, <1>4 DEF Op

(* A retention window starts at an entry, not before the first. *)
LEMMA FirstSeqType ==
    ASSUME CloudOK, NEW e \in Epoch
    PROVE  FirstSeq(e) \in Nat \ {0}
  BY BoundAssumption DEF CloudOK, FirstSeq

(* What the ordered consumer hands over is an entry of its stream. *)
LEMMA DeliveryType ==
    ASSUME LoopOK, CloudOK, NEW n \in Node, Deliverable(n)
    PROVE  Delivery(n) \in Message
<1>1. sub[n] \in [epoch : Epoch, next : Nat \ {0}, alive : BOOLEAN]
  BY DEF LoopOK, Deliverable, NoSub
<1>2. NextSeq(n) \in Nat \ {0}  BY <1>1, FirstSeqType DEF NextSeq
<1>3. NextSeq(n) \in 1..Len(log[sub[n].epoch]) /\ log[sub[n].epoch] \in Seq(Req)
  BY <1>1, <1>2 DEF Deliverable, CloudOK
<1> QED  BY <1>1, <1>2, <1>3 DEF Delivery, Message

(* Storing an entry keeps the log and its history in step. *)
LEMMA StoredType ==
    ASSUME CloudOK, ClientOK, NEW r \in Req, wst[r] = "publishing", Stored(r), UNCHANGED live
    PROVE  CloudOK'
<1> DEFINE e == wepoch[r]
           c == canon[e]
<1>1. e \in Epoch  BY DEF ClientOK
<1>2. log[e] \in Seq(Req) /\ c \in Seq(Store) /\ Len(c) = Len(log[e]) + 1 /\ Len(log[e]) \in Nat
  BY <1>1 DEF CloudOK
<1>3. c[Len(c)] \in Store  BY <1>2
<1>4. Applied(c[Len(c)], r) \in Store  BY <1>3, EffectType
<1>5. /\ Append(log[e], r) \in Seq(Req) /\ Len(Append(log[e], r)) = Len(log[e]) + 1
      /\ Append(c, Applied(c[Len(c)], r)) \in Seq(Store)
      /\ Len(Append(c, Applied(c[Len(c)], r))) = Len(c) + 1
  BY <1>2, <1>4
<1>6. /\ log' = [log EXCEPT ![e] = Append(log[e], r)]
      /\ canon' = [canon EXCEPT ![e] = Append(c, Applied(c[Len(c)], r))]
  BY DEF Stored
<1>7. log' \in [Epoch -> Seq(Req)] /\ canon' \in [Epoch -> Seq(Store)]
  BY <1>1, <1>5, <1>6 DEF CloudOK
<1>8. ASSUME NEW d \in Epoch PROVE Len(canon'[d]) = Len(log'[d]) + 1
  <2>1. CASE d = e  BY <1>1, <1>2, <1>5, <1>6, <2>1 DEF CloudOK
  <2>2. CASE d # e  BY <1>6, <2>2 DEF CloudOK
  <2> QED  BY <2>1, <2>2
<1> QED  BY <1>7, <1>8 DEF CloudOK

(* Both halves of an install leave a well-formed disk behind. *)
LEMMA InstallTablesType ==
    ASSUME DiskOK, AttachOK, NEW n \in Node, snap[n].epoch \in Epoch, InstallTables(n)
    PROVE  DiskOK'
<1>1. snap[n].store \in Store /\ store[n] \in Store /\ snap[n].seq \in Nat
  BY DEF DiskOK, AttachOK
<1>2. [snap[n].store EXCEPT !.dom = store[n].dom] \in Store
  BY <1>1 DEF Store
<1>3. store' \in [Node -> Store]
  BY <1>2 DEF InstallTables, DiskOK
<1> QED  BY <1>1, <1>3, BoundAssumption DEF InstallTables, DiskOK, Epoch

LEMMA InstallDomainsType ==
    ASSUME DiskOK, AttachOK, NEW n \in Node, InstallDomains(n), UNCHANGED kv
    PROVE  DiskOK'
<1>1. snap[n].store \in Store /\ store[n] \in Store
  BY DEF DiskOK, AttachOK
<1>2. [store[n] EXCEPT !.dom = snap[n].store.dom] \in Store
  BY <1>1 DEF Store
<1> QED  BY <1>2 DEF InstallDomains, DiskOK, kv

(* What an action leaves alone keeps its shape. *)
LEMMA Frame ==
    /\ DiskOK /\ UNCHANGED disk => DiskOK'
    /\ ProcessOK /\ UNCHANGED <<phase, attached, halted, streamSeen, queued, reforming>> => ProcessOK'
    /\ LoopOK /\ UNCHANGED <<sub, late, hand>> => LoopOK'
    /\ AttachOK /\ UNCHANGED attach => AttachOK'
    /\ CloudOK /\ UNCHANGED cloud => CloudOK'
    /\ ClientOK /\ UNCHANGED client => ClientOK'
<1>1. DiskOK /\ UNCHANGED disk => DiskOK'  BY DEF DiskOK, disk, kv
<1>2. ProcessOK /\ UNCHANGED <<phase, attached, halted, streamSeen, queued, reforming>> => ProcessOK'
  BY DEF ProcessOK
<1>3. LoopOK /\ UNCHANGED <<sub, late, hand>> => LoopOK'  BY DEF LoopOK
<1>4. AttachOK /\ UNCHANGED attach => AttachOK'  BY DEF AttachOK, attach
<1>5. CloudOK /\ UNCHANGED cloud => CloudOK'  BY DEF CloudOK, cloud
<1>6. ClientOK /\ UNCHANGED client => ClientOK'  BY DEF ClientOK, client
<1> QED  BY <1>1, <1>2, <1>3, <1>4, <1>5, <1>6

-----------------------------------------------------------------------------
(* Type correctness. *)

(* Either way a constellation starts, its state has its shape. *)
LEMMA TypeInit == (Init => TypeOK) /\ (InitFormed => TypeOK)
<1> USE RoleAssumption, BoundAssumption, FreshStoreType
    DEF Epoch, Phase, Attaching, Outcomes, NoSub, NoMsg, NoHand, NoAt, NoSnap
<1> FounderStore \in Store  BY NoReqAssumption DEF FounderStore, FreshStore, Store
<1> <<FreshStore>> \in Seq(Store) /\ <<FounderStore>> \in Seq(Store) /\ <<>> \in Seq(Req)
    /\ Len(<<FreshStore>>) = 1 /\ Len(<<FounderStore>>) = 1 /\ Len(<<>>) = 0
  OBVIOUS
<1>1. ASSUME Init PROVE TypeOK
  <2>1. DiskOK  BY <1>1 DEF Init, DiskOK
  <2>2. ProcessOK  BY <1>1 DEF Init, ProcessOK
  <2>3. LoopOK  BY <1>1 DEF Init, LoopOK
  <2>4. AttachOK  BY <1>1 DEF Init, AttachOK
  <2>5. CloudOK  BY <1>1 DEF Init, CloudOK
  <2>6. ClientOK /\ faults \in Nat  BY <1>1 DEF Init, ClientOK
  <2> QED  BY <2>1, <2>2, <2>3, <2>4, <2>5, <2>6 DEF TypeOK
<1>2. ASSUME InitFormed PROVE TypeOK
  <2>1. DiskOK  BY <1>2 DEF InitFormed, DiskOK
  <2>2. ProcessOK  BY <1>2 DEF InitFormed, ProcessOK
  <2>3. LoopOK  BY <1>2 DEF InitFormed, LoopOK
  <2>4. AttachOK  BY <1>2 DEF InitFormed, AttachOK
  <2>5. CloudOK  BY <1>2 DEF InitFormed, CloudOK
  <2>6. ClientOK /\ faults \in Nat  BY <1>2 DEF InitFormed, ClientOK
  <2> QED  BY <2>1, <2>2, <2>3, <2>4, <2>5, <2>6 DEF TypeOK
<1> QED  BY <1>1, <1>2

(* No step of a server, a client or JetStream takes the state out of its shape. *)
LEMMA TypeStep == TypeOK /\ Next => TypeOK'
<1> SUFFICES ASSUME TypeOK, Next PROVE TypeOK'  OBVIOUS
<1> USE BoundAssumption, RoleAssumption DEF TypeOK
<1>1. ASSUME NEW n \in Node, NEW r \in Req, WriteDirect(n, r) PROVE TypeOK'
  <2>1. DiskOK'  BY <1>1, EffectType DEF WriteDirect, DiskOK, Epoch, kv, loop, attach, cloud
  <2>2. ProcessOK'  BY <1>1 DEF WriteDirect, ProcessOK, Phase, kv, loop, attach, cloud
  <2>3. ClientOK'  BY <1>1 DEF WriteDirect, ClientOK, Outcomes, Finish, Epoch, kv, loop,
      attach, cloud
  <2>4. faults' \in Nat  BY <1>1 DEF WriteDirect, Fault, NoFault
  <2> QED  BY <1>1, Frame, <2>1, <2>2, <2>3, <2>4 DEF WriteDirect, kv, loop, attach, cloud
<1>2. ASSUME NEW n \in Node, NEW r \in Req, WriteReadOnly(n, r) PROVE TypeOK'
  <2>1. ClientOK'  BY <1>2 DEF WriteReadOnly, ClientOK, Outcomes, Finish, Epoch, disk, loop,
      attach, cloud, kv
  <2>2. faults' \in Nat  BY <1>2 DEF WriteReadOnly, Fault, NoFault
  <2> QED  BY <1>2, Frame, <2>1, <2>2 DEF WriteReadOnly, disk, loop, attach, cloud, kv
<1>3. ASSUME NEW n \in Node, NEW r \in Req, WritePublish(n, r) PROVE TypeOK'
  <2>1. ClientOK'  BY <1>3 DEF WritePublish, ClientOK, Outcomes, Finish, DiskOK, Epoch, disk,
      loop, attach, cloud, kv
  <2>2. faults' \in Nat  BY <1>3 DEF WritePublish, Fault, NoFault
  <2> QED  BY <1>3, Frame, <2>1, <2>2 DEF WritePublish, disk, loop, attach, cloud, kv
<1>4. ASSUME NEW r \in Req, PublishAcked(r) PROVE TypeOK'
  <2>1. CloudOK'  BY <1>4, StoredType DEF PublishAcked, disk, loop, attach, kv
  <2>2. ClientOK'  BY <1>4 DEF PublishAcked, ClientOK, Outcomes, Finish, Epoch, disk, loop,
      attach, kv
  <2>3. faults' \in Nat  BY <1>4 DEF PublishAcked, Fault, NoFault
  <2> QED  BY <1>4, Frame, <2>1, <2>2, <2>3 DEF PublishAcked, disk, loop, attach, kv
<1>5. ASSUME NEW r \in Req, PublishAckLost(r) PROVE TypeOK'
  <2>1. CloudOK'  BY <1>5, StoredType DEF PublishAckLost, disk, loop, attach, kv
  <2>2. ClientOK'  BY <1>5 DEF PublishAckLost, ClientOK, Outcomes, Finish, Epoch, disk, loop,
      attach, kv
  <2>3. faults' \in Nat  BY <1>5 DEF PublishAckLost, Fault, NoFault
  <2> QED  BY <1>5, Frame, <2>1, <2>2, <2>3 DEF PublishAckLost, disk, loop, attach, kv
<1>6. ASSUME NEW r \in Req, PublishFails(r) PROVE TypeOK'
  <2>1. ClientOK'  BY <1>6 DEF PublishFails, ClientOK, Outcomes, Finish, Epoch, disk, loop,
      attach, cloud, kv
  <2>2. faults' \in Nat  BY <1>6 DEF PublishFails, Fault, NoFault
  <2> QED  BY <1>6, Frame, <2>1, <2>2 DEF PublishFails, disk, loop, attach, cloud, kv
<1>7. ASSUME NEW r \in Req, WaitTimesOut(r) PROVE TypeOK'
  <2>1. ClientOK'  BY <1>7 DEF WaitTimesOut, ClientOK, Outcomes, Finish, Epoch, disk, loop,
      attach, cloud, kv
  <2>2. faults' \in Nat  BY <1>7 DEF WaitTimesOut, Fault, NoFault
  <2> QED  BY <1>7, Frame, <2>1, <2>2 DEF WaitTimesOut, disk, loop, attach, cloud, kv
<1>8. ASSUME NEW n \in Node, HandleDelivery(n) PROVE TypeOK'
  <2>1. ProcessOK'  BY <1>8 DEF HandleDelivery, ProcessOK, Phase, Keeps, Drops, Skipped, Gap,
      Unreadable, Taken, disk, attach, cloud, client, kv
  <2>2. LoopOK'
    <3> DEFINE d == Delivery(n)
    <3>1. d \in Message /\ sub[n] \in [epoch : Epoch, next : Nat \ {0}, alive : BOOLEAN]
      BY <1>8, DeliveryType DEF HandleDelivery, Deliverable, LoopOK, NoSub
    <3>2. [sub[n] EXCEPT !.next = d.seq + 1] \in [epoch : Epoch, next : Nat \ {0}, alive : BOOLEAN]
      BY <3>1 DEF Message
    <3>3. sub' \in [Node -> [epoch : Epoch, next : Nat \ {0}, alive : BOOLEAN] \cup {NoSub}]
      BY <1>8, <3>2 DEF HandleDelivery, LoopOK
    <3>4. hand' = hand \/ hand' = [hand EXCEPT ![n] =
                [epoch |-> d.epoch, seq |-> d.seq, req |-> d.req,
                 step |-> IF d.epoch # epoch[n] THEN "consume" ELSE "apply"]]
      BY <1>8 DEF HandleDelivery, Keeps, Drops, Skipped, Gap, Unreadable, Taken
    <3> QED  BY <1>8, <3>1, <3>3, <3>4 DEF HandleDelivery, LoopOK, Message
  <2>3. faults' \in Nat  BY <1>8 DEF HandleDelivery, Fault, NoFault
  <2> QED  BY <1>8, Frame, <2>1, <2>2, <2>3 DEF HandleDelivery, disk, attach, cloud, client, kv
<1>9. ASSUME NEW n \in Node, HandleLate(n) PROVE TypeOK'
  <2>1. ProcessOK'  BY <1>9 DEF HandleLate, ProcessOK, Phase, Keeps, Drops, Skipped, Gap,
      Unreadable, Taken, disk, attach, cloud, client, kv
  <2>2. LoopOK'  BY <1>9 DEF HandleLate, LoopOK, NoSub, NoMsg, NoHand, Message, Keeps, Drops,
      Skipped, Gap, Unreadable, Taken, disk, attach, cloud, client, kv
  <2>3. faults' \in Nat  BY <1>9 DEF HandleLate, Fault, NoFault
  <2> QED  BY <1>9, Frame, <2>1, <2>2, <2>3 DEF HandleLate, disk, attach, cloud, client, kv
<1>10. ASSUME NEW n \in Node, ConsumeForeign(n) PROVE TypeOK'
  <2>1. DiskOK'  BY <1>10 DEF ConsumeForeign, DiskOK, LoopOK, NoHand, Epoch, loop, attach,
      cloud, client
  <2>2. LoopOK'  BY <1>10 DEF ConsumeForeign, LoopOK, NoSub, NoMsg, NoHand, Message, loop,
      attach, cloud, client
  <2>3. faults' \in Nat  BY <1>10 DEF ConsumeForeign, Fault, NoFault
  <2> QED  BY <1>10, Frame, <2>1, <2>2, <2>3 DEF ConsumeForeign, loop, attach, cloud, client
<1>11. ASSUME NEW n \in Node, ApplyTableOp(n) PROVE TypeOK'
  <2>1. DiskOK'  BY <1>11, EffectType DEF ApplyTableOp, DiskOK, LoopOK, NoHand, Epoch, loop,
      attach, cloud
  <2>2. ProcessOK'  BY <1>11 DEF ApplyTableOp, ProcessOK, Phase, loop, attach, cloud
  <2>3. LoopOK'  BY <1>11 DEF ApplyTableOp, LoopOK, NoSub, NoMsg, NoHand, Message, loop,
      attach, cloud
  <2>4. ClientOK'  BY <1>11 DEF ApplyTableOp, ClientOK, Outcomes, Finish, Notify, Outcome,
      LoopOK, NoHand, Epoch, loop, attach, cloud
  <2>5. faults' \in Nat  BY <1>11 DEF ApplyTableOp, Fault, NoFault
  <2> QED  BY <1>11, Frame, <2>1, <2>2, <2>3, <2>4, <2>5 DEF ApplyTableOp, loop, attach, cloud
<1>12. ASSUME NEW n \in Node, ApplyDomainOp(n) PROVE TypeOK'
  <2>1. DiskOK'  BY <1>12, EffectType DEF ApplyDomainOp, DiskOK, LoopOK, NoHand, Epoch, kv,
      loop, attach, cloud, client
  <2>2. LoopOK'  BY <1>12 DEF ApplyDomainOp, LoopOK, NoSub, NoMsg, NoHand, Message, kv, loop,
      attach, cloud, client
  <2>3. faults' \in Nat  BY <1>12 DEF ApplyDomainOp, Fault, NoFault
  <2> QED  BY <1>12, Frame, <2>1, <2>2, <2>3 DEF ApplyDomainOp, kv, loop, attach, cloud, client
<1>13. ASSUME NEW n \in Node, CommitDomainOp(n) PROVE TypeOK'
  <2>1. DiskOK'  BY <1>13 DEF CommitDomainOp, DiskOK, LoopOK, NoHand, Epoch, loop, attach, cloud
  <2>2. LoopOK'  BY <1>13 DEF CommitDomainOp, LoopOK, NoSub, NoMsg, NoHand, Message, loop,
      attach, cloud
  <2>3. ClientOK'  BY <1>13 DEF CommitDomainOp, ClientOK, Outcomes, Finish, Notify, LoopOK,
      NoHand, Epoch, loop, attach, cloud
  <2>4. faults' \in Nat  BY <1>13 DEF CommitDomainOp, Fault, NoFault
  <2> QED  BY <1>13, Frame, <2>1, <2>2, <2>3, <2>4 DEF CommitDomainOp, loop, attach, cloud
<1>14. ASSUME NEW n \in Node, ProbeDetaches(n) PROVE TypeOK'
  <2>1. ProcessOK'  BY <1>14 DEF ProbeDetaches, ProcessOK, Phase, Detach, disk, attach, cloud,
      client, kv
  <2>2. LoopOK'  BY <1>14, DeliveryType DEF ProbeDetaches, LoopOK, Detach, NoSub, NoMsg,
      NoHand, Message, Stragglers, disk, attach, cloud, client, kv
  <2>3. faults' \in Nat  BY <1>14 DEF ProbeDetaches, Fault, NoFault
  <2> QED  BY <1>14, Frame, <2>1, <2>2, <2>3 DEF ProbeDetaches, disk, attach, cloud, client, kv
<1>15. ASSUME NEW n \in Node, ConsumerDies(n) PROVE TypeOK'
  <2>1. LoopOK'
    <3>1. sub[n] \in [epoch : Epoch, next : Nat \ {0}, alive : BOOLEAN]
      BY <1>15 DEF ConsumerDies, LoopOK, NoSub
    <3>2. [sub[n] EXCEPT !.alive = FALSE] \in [epoch : Epoch, next : Nat \ {0}, alive : BOOLEAN]
      BY <3>1
    <3> QED  BY <1>15, <3>2 DEF ConsumerDies, LoopOK
  <2>2. faults' \in Nat  BY <1>15 DEF ConsumerDies, Fault, NoFault
  <2> QED  BY <1>15, Frame, <2>1, <2>2 DEF ConsumerDies, disk, attach, cloud, client, kv
<1>16. ASSUME NEW n \in Node, AttachFinds(n) PROVE TypeOK'
  <2>1. ProcessOK'  BY <1>16 DEF AttachFinds, ProcessOK, Phase, disk, loop, cloud, client, kv
  <2>2. AttachOK'  BY <1>16, FirstSeqType DEF AttachFinds, AttachOK, Step, GiveUp, Attaching,
      NoAt, DiskOK, Epoch, disk, loop, cloud, client, kv
  <2>3. faults' \in Nat  BY <1>16 DEF AttachFinds, Fault, NoFault
  <2> QED  BY <1>16, Frame, <2>1, <2>2, <2>3 DEF AttachFinds, disk, loop, cloud, client, kv
<1>17. ASSUME NEW n \in Node, AttachMisses(n) PROVE TypeOK'
  <2>1. AttachOK'  BY <1>17 DEF AttachMisses, AttachOK, Step, GiveUp, Attaching, NoAt, DiskOK,
      Epoch, disk, loop, cloud, client, kv
  <2>2. faults' \in Nat  BY <1>17 DEF AttachMisses, Fault, NoFault
  <2> QED  BY <1>17, Frame, <2>1, <2>2 DEF AttachMisses, disk, loop, cloud, client, kv
<1>18. ASSUME NEW n \in Node, NEW m \in Node, AdoptAnswered(n, m) PROVE TypeOK'
  <2>1. AttachOK'
    <3>1. CASE epoch[m] = epoch[n] /\ IsOplogBootstrapped(n)
      BY <1>18, <3>1 DEF AdoptAnswered, AttachOK, Attaching, Step
    <3>2. CASE ~(epoch[m] = epoch[n] /\ IsOplogBootstrapped(n))
      <4>1. Snapshot(m) \in [epoch : 0..MaxEpoch, seq : Nat, store : Store] /\ Snapshot(m).epoch \in Epoch
        BY DEF Snapshot, DiskOK, Epoch
      <4>2. [at[n] EXCEPT !.epoch = epoch[n]] \in [epoch : 0..MaxEpoch, first : Nat]
        BY DEF DiskOK, AttachOK, Epoch
      <4>3. /\ snap' = [snap EXCEPT ![n] = Snapshot(m)]
            /\ at' = [at EXCEPT ![n] = [at[n] EXCEPT !.epoch = epoch[n]]]
            /\ pc' = [pc EXCEPT ![n] = "adopt"]
        BY <1>18, <3>2 DEF AdoptAnswered, Step
      <4>4. epoch[n] \in Epoch
        BY DEF DiskOK
      <4>5. at'[n].epoch = epoch[n] /\ snap'[n] = Snapshot(m)
        BY <4>2, <4>3 DEF AttachOK
      <4>6. pc' \in [Node -> Attaching] /\ at' \in [Node -> [epoch : 0..MaxEpoch, first : Nat]]
            /\ snap' \in [Node -> [epoch : 0..MaxEpoch, seq : Nat, store : Store]]
        BY <4>1, <4>2, <4>3 DEF AttachOK, Attaching
      <4> QED  BY <4>1, <4>3, <4>4, <4>5, <4>6 DEF AttachOK
    <3> QED  BY <3>1, <3>2
  <2>2. faults' \in Nat  BY <1>18 DEF AdoptAnswered, Fault, NoFault
  <2> QED  BY <1>18, Frame, <2>1, <2>2 DEF AdoptAnswered, disk, loop, cloud, client, kv
<1>19. ASSUME NEW n \in Node, AdoptUnanswered(n) PROVE TypeOK'
  <2>1. AttachOK'  BY <1>19 DEF AdoptUnanswered, AttachOK, Step, GiveUp, Attaching, NoAt,
      Epoch, disk, loop, cloud, client, kv
  <2>2. faults' \in Nat  BY <1>19 DEF AdoptUnanswered, Fault, NoFault
  <2> QED  BY <1>19, Frame, <2>1, <2>2 DEF AdoptUnanswered, disk, loop, cloud, client, kv
<1>20. ASSUME NEW n \in Node, AdoptTables(n) PROVE TypeOK'
  <2>1. DiskOK'  BY <1>20, InstallTablesType DEF AdoptTables, AttachOK, Epoch, loop, cloud,
      client
  <2>2. ProcessOK'  BY <1>20 DEF AdoptTables, ProcessOK, Phase, InstallTables, loop, cloud,
      client
  <2>3. AttachOK'  BY <1>20 DEF AdoptTables, AttachOK, Step, GiveUp, Attaching, NoAt, Epoch,
      loop, cloud, client
  <2>4. faults' \in Nat  BY <1>20 DEF AdoptTables, Fault, NoFault
  <2> QED  BY <1>20, Frame, <2>1, <2>2, <2>3, <2>4 DEF AdoptTables, loop, cloud, client
<1>21. ASSUME NEW n \in Node, AdoptDomains(n) PROVE TypeOK'
  <2>1. DiskOK'  BY <1>21, InstallDomainsType DEF AdoptDomains, Epoch, kv, loop, cloud, client
  <2>2. ProcessOK'  BY <1>21 DEF AdoptDomains, ProcessOK, Phase, kv, loop, cloud, client
  <2>3. AttachOK'  BY <1>21, FreshStoreType DEF AdoptDomains, AttachOK, Step, GiveUp,
      Attaching, NoAt, NoSnap, DiskOK, Epoch, kv, loop, cloud, client
  <2>4. faults' \in Nat  BY <1>21 DEF AdoptDomains, Fault, NoFault
  <2> QED  BY <1>21, Frame, <2>1, <2>2, <2>3, <2>4 DEF AdoptDomains, kv, loop, cloud, client
<1>22. ASSUME NEW n \in Node, CreateWins(n) PROVE TypeOK'
  <2>1. AttachOK'  BY <1>22 DEF CreateWins, AttachOK, Step, GiveUp, Attaching, NoAt, Epoch,
      disk, loop, client, kv
  <2>2. CloudOK'
    <3>1. <<store[n]>> \in Seq(Store) /\ Len(<<store[n]>>) = 1
      BY DEF DiskOK
    <3>2. at[n].epoch \in Epoch
      BY <1>22 DEF CreateWins, AttachOK
    <3>3. <<>> \in Seq(Req) /\ Len(<<>>) = 0
      OBVIOUS
    <3> QED  BY <1>22, <3>1, <3>2, <3>3 DEF CreateWins, CloudOK
  <2>3. faults' \in Nat  BY <1>22 DEF CreateWins, Fault, NoFault
  <2> QED  BY <1>22, Frame, <2>1, <2>2, <2>3 DEF CreateWins, disk, loop, client, kv
<1>23. ASSUME NEW n \in Node, CreateLoses(n) PROVE TypeOK'
  <2>1. ProcessOK'  BY <1>23 DEF CreateLoses, ProcessOK, Phase, disk, loop, cloud, client, kv
  <2>2. AttachOK'  BY <1>23, FirstSeqType DEF CreateLoses, AttachOK, Step, GiveUp, Attaching,
      NoAt, Epoch, disk, loop, cloud, client, kv
  <2>3. faults' \in Nat  BY <1>23 DEF CreateLoses, Fault, NoFault
  <2> QED  BY <1>23, Frame, <2>1, <2>2, <2>3 DEF CreateLoses, disk, loop, cloud, client, kv
<1>24. ASSUME NEW n \in Node, CreateRefused(n) PROVE TypeOK'
  <2>1. AttachOK'  BY <1>24 DEF CreateRefused, AttachOK, Step, GiveUp, Attaching, NoAt, Epoch,
      disk, loop, cloud, client, kv
  <2>2. faults' \in Nat  BY <1>24 DEF CreateRefused, Fault, NoFault
  <2> QED  BY <1>24, Frame, <2>1, <2>2 DEF CreateRefused, disk, loop, cloud, client, kv
<1>25. ASSUME NEW n \in Node, MarkCreated(n) PROVE TypeOK'
  <2>1. DiskOK'  BY <1>25 DEF MarkCreated, DiskOK, AttachOK, Epoch, loop, cloud, client
  <2>2. ProcessOK'  BY <1>25 DEF MarkCreated, ProcessOK, Phase, loop, cloud, client
  <2>3. AttachOK'  BY <1>25 DEF MarkCreated, AttachOK, Step, GiveUp, Attaching, NoAt, Epoch,
      loop, cloud, client
  <2>4. faults' \in Nat  BY <1>25 DEF MarkCreated, Fault, NoFault
  <2> QED  BY <1>25, Frame, <2>1, <2>2, <2>3, <2>4 DEF MarkCreated, loop, cloud, client
<1>26. ASSUME NEW n \in Node, CatchUp(n) PROVE TypeOK'
  <2>1. AttachOK'  BY <1>26 DEF CatchUp, AttachOK, Step, GiveUp, Attaching, NoAt, Epoch, disk,
      loop, cloud, client, kv
  <2>2. faults' \in Nat  BY <1>26 DEF CatchUp, Fault, NoFault
  <2> QED  BY <1>26, Frame, <2>1, <2>2 DEF CatchUp, disk, loop, cloud, client, kv
<1>27. ASSUME NEW n \in Node, NEW m \in Node, FastForwardAnswered(n, m) PROVE TypeOK'
  <2>1. AttachOK'  BY <1>27 DEF FastForwardAnswered, AttachOK, Step, GiveUp, Attaching, NoAt,
      DiskOK, Responders, Snapshot, Epoch, disk, loop, cloud, client, kv
  <2>2. faults' \in Nat  BY <1>27 DEF FastForwardAnswered, Fault, NoFault
  <2> QED  BY <1>27, Frame, <2>1, <2>2 DEF FastForwardAnswered, disk, loop, cloud, client, kv
<1>28. ASSUME NEW n \in Node, FastForwardUnanswered(n) PROVE TypeOK'
  <2>1. DiskOK'  BY <1>28 DEF FastForwardUnanswered, DiskOK, AttachOK, Step, GiveUp, Epoch,
      loop, cloud, client
  <2>2. AttachOK'
    <3>1. CASE MaySelfSeed(n)
      BY <1>28, <3>1 DEF FastForwardUnanswered, AttachOK, Attaching, Step
    <3>2. CASE ~MaySelfSeed(n)
      <4>1. pc' = [pc EXCEPT ![n] = "idle"] /\ at' = [at EXCEPT ![n] = NoAt] /\ UNCHANGED snap
        BY <1>28, <3>2 DEF FastForwardUnanswered, Step, GiveUp
      <4> QED  BY <4>1 DEF AttachOK, Attaching, NoAt
    <3> QED  BY <3>1, <3>2
  <2>3. faults' \in Nat  BY <1>28 DEF FastForwardUnanswered, Fault, NoFault
  <2> QED  BY <1>28, Frame, <2>1, <2>2, <2>3 DEF FastForwardUnanswered, loop, cloud, client
<1>29. ASSUME NEW n \in Node, FastForwardTables(n) PROVE TypeOK'
  <2>1. DiskOK'  BY <1>29, InstallTablesType DEF FastForwardTables, AttachOK, Epoch, loop,
      cloud, client
  <2>2. ProcessOK'  BY <1>29 DEF FastForwardTables, ProcessOK, Phase, InstallTables, loop,
      cloud, client
  <2>3. AttachOK'  BY <1>29 DEF FastForwardTables, AttachOK, Step, GiveUp, Attaching, NoAt,
      Epoch, loop, cloud, client
  <2>4. faults' \in Nat  BY <1>29 DEF FastForwardTables, Fault, NoFault
  <2> QED  BY <1>29, Frame, <2>1, <2>2, <2>3, <2>4 DEF FastForwardTables, loop, cloud, client
<1>30. ASSUME NEW n \in Node, FastForwardDomains(n) PROVE TypeOK'
  <2>1. DiskOK'  BY <1>30, InstallDomainsType DEF FastForwardDomains, Epoch, kv, loop, cloud,
      client
  <2>2. ProcessOK'  BY <1>30 DEF FastForwardDomains, ProcessOK, Phase, kv, loop, cloud, client
  <2>3. AttachOK'
    <3>1. snap' \in [Node -> [epoch : 0..MaxEpoch, seq : Nat, store : Store]]
      BY <1>30, FreshStoreType DEF FastForwardDomains, AttachOK, NoSnap
    <3>2. CASE GiveUp(n)
      BY <1>30, <3>1, <3>2 DEF FastForwardDomains, AttachOK, Attaching, GiveUp, Step, NoAt
    <3>3. CASE Step(n, "subscribe") /\ UNCHANGED at
      BY <1>30, <3>1, <3>3 DEF FastForwardDomains, AttachOK, Attaching, Step
    <3>4. CASE Step(n, "fast-forward") /\ UNCHANGED at
      BY <1>30, <3>1, <3>4 DEF FastForwardDomains, AttachOK, Attaching, Step
    <3> QED  BY <1>30, <3>2, <3>3, <3>4 DEF FastForwardDomains
  <2>4. faults' \in Nat  BY <1>30 DEF FastForwardDomains, Fault, NoFault
  <2> QED  BY <1>30, Frame, <2>1, <2>2, <2>3, <2>4 DEF FastForwardDomains, kv, loop, cloud,
      client
<1>31. ASSUME NEW n \in Node, Subscribe(n) PROVE TypeOK'
  <2>1. LoopOK'  BY <1>31 DEF Subscribe, LoopOK, NoSub, NoMsg, NoHand, Message, StartSequence,
      DiskOK, AttachOK, disk, cloud, client, kv
  <2>2. AttachOK'  BY <1>31 DEF Subscribe, AttachOK, Step, GiveUp, Attaching, NoAt, Epoch,
      disk, cloud, client, kv
  <2>3. faults' \in Nat  BY <1>31 DEF Subscribe, Fault, NoFault
  <2> QED  BY <1>31, Frame, <2>1, <2>2, <2>3 DEF Subscribe, disk, cloud, client, kv
<1>32. ASSUME NEW n \in Node, SubscribeFails(n) PROVE TypeOK'
  <2>1. AttachOK'  BY <1>32 DEF SubscribeFails, AttachOK, Step, GiveUp, Attaching, NoAt, Epoch,
      disk, loop, cloud, client, kv
  <2>2. faults' \in Nat  BY <1>32 DEF SubscribeFails, Fault, NoFault
  <2> QED  BY <1>32, Frame, <2>1, <2>2 DEF SubscribeFails, disk, loop, cloud, client, kv
<1>33. ASSUME NEW n \in Node, Latch(n) PROVE TypeOK'
  <2>1. DiskOK'  BY <1>33 DEF Latch, DiskOK, Epoch, cloud, client
  <2>2. ProcessOK'  BY <1>33 DEF Latch, ProcessOK, Phase, cloud, client
  <2>3. AttachOK'  BY <1>33 DEF Latch, AttachOK, Step, GiveUp, Attaching, NoAt, Epoch, cloud,
      client
  <2>4. faults' \in Nat  BY <1>33 DEF Latch, Fault, NoFault
  <2> QED  BY <1>33, Frame, <2>1, <2>2, <2>3, <2>4 DEF Latch, cloud, client
<1>34. ASSUME NEW n \in Node, RestartNebula(n) PROVE TypeOK'
  <2>1. ProcessOK'  BY <1>34 DEF RestartNebula, ProcessOK, Phase, Detach, disk, attach, cloud,
      client, kv
  <2>2. LoopOK'  BY <1>34, DeliveryType DEF RestartNebula, LoopOK, Detach, NoSub, NoMsg,
      NoHand, Message, Stragglers, disk, attach, cloud, client, kv
  <2>3. faults' \in Nat  BY <1>34 DEF RestartNebula, Fault, NoFault
  <2> QED  BY <1>34, Frame, <2>1, <2>2, <2>3 DEF RestartNebula, disk, attach, cloud, client, kv
<1>35. ASSUME NEW n \in Node, StartNebula(n) PROVE TypeOK'
  <2>1. ProcessOK'  BY <1>35 DEF StartNebula, ProcessOK, Phase, disk, loop, attach, cloud,
      client, kv
  <2>2. faults' \in Nat  BY <1>35 DEF StartNebula, Fault, NoFault
  <2> QED  BY <1>35, Frame, <2>1, <2>2 DEF StartNebula, disk, loop, attach, cloud, client, kv
<1>36. ASSUME NEW n \in Node, StartOplogApply(n) PROVE TypeOK'
  <2>1. ProcessOK'  BY <1>36 DEF StartOplogApply, ProcessOK, Phase, disk, loop, attach, cloud,
      client, kv
  <2>2. faults' \in Nat  BY <1>36 DEF StartOplogApply, Fault, NoFault
  <2> QED  BY <1>36, Frame, <2>1, <2>2 DEF StartOplogApply, disk, loop, attach, cloud, client,
      kv
<1>37. ASSUME NEW n \in Node, Crash(n) PROVE TypeOK'
  <2>1. ProcessOK'  BY <1>37 DEF Crash, ProcessOK, Phase, disk, cloud, kv
  <2>2. LoopOK'  BY <1>37 DEF Crash, LoopOK, NoSub, NoMsg, NoHand, Message, disk, cloud, kv
  <2>3. AttachOK'  BY <1>37, FreshStoreType DEF Crash, AttachOK, Step, GiveUp, Attaching, NoAt,
      NoSnap, Epoch, disk, cloud, kv
  <2>4. ClientOK'  BY <1>37 DEF Crash, ClientOK, Outcomes, Finish, Epoch, disk, cloud, kv
  <2>5. faults' \in Nat  BY <1>37 DEF Crash, Fault, NoFault
  <2> QED  BY <1>37, Frame, <2>1, <2>2, <2>3, <2>4, <2>5 DEF Crash, disk, cloud, kv
<1>38. ASSUME NEW n \in Node, StartProcess(n) PROVE TypeOK'
  <2>1. ProcessOK'  BY <1>38 DEF StartProcess, ProcessOK, Phase, disk, loop, attach, cloud,
      client, kv
  <2>2. faults' \in Nat  BY <1>38 DEF StartProcess, Fault, NoFault
  <2> QED  BY <1>38, Frame, <2>1, <2>2 DEF StartProcess, disk, loop, attach, cloud, client, kv
<1>39. ASSUME NEW n \in Node, ReformOplogEpoch(n) PROVE TypeOK'
  <2>1. DiskOK'  BY <1>39 DEF ReformOplogEpoch, DiskOK, Epoch, loop, attach, cloud, client
  <2>2. ProcessOK'  BY <1>39 DEF ReformOplogEpoch, ProcessOK, Phase, loop, attach, cloud, client
  <2>3. faults' \in Nat  BY <1>39 DEF ReformOplogEpoch, Fault, NoFault
  <2> QED  BY <1>39, Frame, <2>1, <2>2, <2>3 DEF ReformOplogEpoch, loop, attach, cloud, client
<1>40. ASSUME NEW n \in Node, ReformCleanUp(n) PROVE TypeOK'
  <2>1. DiskOK'  BY <1>40 DEF ReformCleanUp, DiskOK, Store, Epoch, kv, attach, cloud, client
  <2>2. ProcessOK'  BY <1>40 DEF ReformCleanUp, ProcessOK, Phase, Detach, kv, attach, cloud,
      client
  <2>3. LoopOK'  BY <1>40, DeliveryType DEF ReformCleanUp, LoopOK, Detach, NoSub, NoMsg,
      NoHand, Message, Stragglers, kv, attach, cloud, client
  <2>4. faults' \in Nat  BY <1>40 DEF ReformCleanUp, Fault, NoFault
  <2> QED  BY <1>40, Frame, <2>1, <2>2, <2>3, <2>4 DEF ReformCleanUp, kv, attach, cloud, client
<1>41. ASSUME NEW e \in Epoch, StreamLost(e) PROVE TypeOK'
  <2>1. CloudOK'  BY <1>41 DEF StreamLost, CloudOK, disk, loop, attach, client, kv
  <2>2. faults' \in Nat  BY <1>41 DEF StreamLost, Fault, NoFault
  <2> QED  BY <1>41, Frame, <2>1, <2>2 DEF StreamLost, disk, loop, attach, client, kv
<1> QED  BY <1>1, <1>2, <1>3, <1>4, <1>5, <1>6, <1>7, <1>8, <1>9, <1>10, <1>11, <1>12, <1>13,
  <1>14, <1>15, <1>16, <1>17, <1>18, <1>19, <1>20, <1>21, <1>22, <1>23, <1>24, <1>25, <1>26,
  <1>27, <1>28, <1>29, <1>30, <1>31, <1>32, <1>33, <1>34, <1>35, <1>36, <1>37, <1>38, <1>39,
  <1>40, <1>41
  DEF Next, NodeStep, WriteStep, ApplyStep, AdoptStep, CreateStep, AttachStep, LifeStep, RequestStep

LEMMA TypeStutter == TypeOK /\ UNCHANGED vars => TypeOK'
  BY Frame DEF TypeOK, vars, disk, kv, loop, attach, cloud, client

(* Type correctness, from the founding of a constellation on, reforms       *)
(* included.                                                                *)
THEOREM TypeCorrect == Spec => []TypeOK
<1>1. Init => TypeOK  BY TypeInit
<1>2. TypeOK /\ [Next]_vars => TypeOK'  BY TypeStep, TypeStutter
<1> QED  BY <1>1, <1>2, PTL DEF Spec

(* The same from the end of formation on. *)
THEOREM FormedTypeCorrect == FormedSpec => []TypeOK
<1>1. InitFormed => TypeOK  BY TypeInit
<1>2. TypeOK /\ [Next]_vars => TypeOK'  BY TypeStep, TypeStutter
<1> QED  BY <1>1, <1>2, PTL DEF FormedSpec

-----------------------------------------------------------------------------
(* Epochs and the formation licence, reforms included.  Both rest on one    *)
(* proviso: ReformOplogEpoch does not take the lock, and a reform that hits *)
(* an install in progress has its epoch overwritten by the snapshot's.      *)

Installing == {"adopt", "adopt-domains", "install", "install-domains"}

(* No epoch number is licensed to two nodes, no licence is for an epoch yet *)
(* to come, and a snapshot on its way in does not take its node back.       *)
LicencesDiffer ==
    \A m, n \in Node : m # n /\ formationWriter[m] = formationWriter[n] => formationWriter[m] = 0
LicencesPast == \A n \in Node : formationWriter[n] <= epoch[n]
SnapsForward == \A n \in Node : pc[n] \in {"adopt", "install"} => epoch[n] <= snap[n].epoch
EpochInv     == TypeOK /\ LicencesDiffer /\ LicencesPast /\ SnapsForward

(* What a step does to the epochs and the licences: nothing, the end of a   *)
(* formation, a reform or an install.                                       *)
EpochsKept == UNCHANGED <<epoch, formationWriter>>
Installs(n) == pc[n] \in {"adopt", "install"} /\ InstallTables(n) /\ UNCHANGED <<at, snap>>
                 /\ \E p \in {"adopt-domains", "install-domains"} : Step(n, p)

LEMMA EpochMoves ==
    ASSUME TypeOK, Next
    PROVE  \/ EpochsKept
           \/ \E n \in Node : UNCHANGED epoch /\ formationWriter' = [formationWriter EXCEPT ![n] = 0]
           \/ \E n \in Node : ReformOplogEpoch(n)
           \/ \E n \in Node : Installs(n)
<1> USE DEF disk, kv, EpochsKept
<1>1. ASSUME NEW n \in Node, WriteStep(n) PROVE EpochsKept
  BY <1>1 DEF WriteStep, WriteDirect, WriteReadOnly, WritePublish
<1>2. ASSUME NEW n \in Node, ApplyStep(n) PROVE EpochsKept
  BY <1>2 DEF ApplyStep, HandleDelivery, HandleLate, ConsumeForeign, ApplyTableOp, ApplyDomainOp,
    CommitDomainOp
<1>3. ASSUME NEW n \in Node, AdoptTables(n) \/ FastForwardTables(n) PROVE Installs(n)
  BY <1>3 DEF AdoptTables, FastForwardTables, Installs
<1>4. ASSUME NEW n \in Node, AdoptStep(n), ~AdoptTables(n) PROVE EpochsKept
  BY <1>4 DEF AdoptStep, AttachMisses, AdoptUnanswered, AdoptAnswered, AdoptDomains
<1>5. ASSUME NEW n \in Node, CreateStep(n) PROVE EpochsKept
  BY <1>5 DEF CreateStep, CreateWins, CreateLoses, CreateRefused, MarkCreated
<1>6. ASSUME NEW n \in Node, Latch(n)
      PROVE  EpochsKept \/ (UNCHANGED epoch /\ formationWriter' = [formationWriter EXCEPT ![n] = 0])
  <2>1. CASE IsFormationWriter(n)  BY <1>6, <2>1 DEF Latch
  <2>2. CASE ~IsFormationWriter(n)
    <3>1. formationWriter' = [formationWriter EXCEPT ![n] = formationWriter[n]] /\ UNCHANGED epoch
      BY <1>6, <2>2 DEF Latch
    <3> QED  BY <3>1 DEF TypeOK, DiskOK
  <2> QED  BY <2>1, <2>2
<1>7. ASSUME NEW n \in Node, AttachStep(n), ~Latch(n), ~FastForwardTables(n) PROVE EpochsKept
  BY <1>7 DEF AttachStep, AttachFinds, CatchUp, FastForwardAnswered, FastForwardUnanswered,
    FastForwardDomains, Subscribe, SubscribeFails
<1>8. ASSUME NEW n \in Node, LifeStep(n), ~ReformOplogEpoch(n) PROVE EpochsKept
  BY <1>8 DEF LifeStep, ProbeDetaches, ConsumerDies, RestartNebula, StartNebula, StartOplogApply,
    Crash, StartProcess, ReformCleanUp
<1>9. ASSUME NEW r \in Req, RequestStep(r) PROVE EpochsKept
  BY <1>9 DEF RequestStep, PublishAcked, PublishAckLost, PublishFails, WaitTimesOut
<1>10. ASSUME NEW e \in Epoch, StreamLost(e) PROVE EpochsKept
  BY <1>10 DEF StreamLost
<1> QED  BY <1>1, <1>2, <1>3, <1>4, <1>5, <1>6, <1>7, <1>8, <1>9, <1>10 DEF Next, NodeStep

(* A snapshot in hand is either the one that was there or a fresh answer,   *)
(* and the router never answers a node that is ahead of it.                 *)
LEMMA SnapMoves ==
    ASSUME TypeOK, SnapsForward, Next, UNCHANGED epoch
    PROVE  SnapsForward'
<1> USE DEF SnapsForward
<1>1. CASE UNCHANGED <<pc, snap>>  BY <1>1
<1>2. ASSUME NEW n \in Node, pc'[n] \notin {"adopt", "install"},
             \A p \in Node : p # n => UNCHANGED <<pc[p], snap[p]>>
      PROVE  SnapsForward'
  BY <1>2
<1>3. ASSUME NEW n \in Node, NEW m \in Node, m \in Responders(n), snap'[n] = Snapshot(m),
             \A p \in Node : p # n => UNCHANGED <<pc[p], snap[p]>>
      PROVE  SnapsForward'
  BY <1>3 DEF Responders, Snapshot
<1>4. ASSUME NEW n \in Node, WriteStep(n) PROVE UNCHANGED <<pc, snap>>
  BY <1>4 DEF WriteStep, WriteDirect, WriteReadOnly, WritePublish, attach
<1>5. ASSUME NEW n \in Node, ApplyStep(n) PROVE UNCHANGED <<pc, snap>>
  BY <1>5 DEF ApplyStep, HandleDelivery, HandleLate, ConsumeForeign, ApplyTableOp, ApplyDomainOp,
    CommitDomainOp, attach
<1>6. ASSUME NEW n \in Node, AdoptStep(n) PROVE SnapsForward'
  <2>1. ASSUME NEW m \in Node, AdoptAnswered(n, m) PROVE SnapsForward'
    <3>1. CASE epoch[m] = epoch[n] /\ IsOplogBootstrapped(n)
      BY <1>2, <2>1, <3>1 DEF AdoptAnswered, Step, TypeOK, AttachOK
    <3>2. CASE ~(epoch[m] = epoch[n] /\ IsOplogBootstrapped(n))
      BY <1>3, <2>1, <3>2 DEF AdoptAnswered, Step, TypeOK, AttachOK
    <3> QED  BY <3>1, <3>2
  <2>2. CASE AttachMisses(n)     BY <1>2, <2>2 DEF AttachMisses, Step, TypeOK, AttachOK
  <2>3. CASE AdoptUnanswered(n)  BY <1>2, <2>3 DEF AdoptUnanswered, Step, TypeOK, AttachOK
  <2>4. CASE AdoptTables(n)      BY <1>2, <2>4 DEF AdoptTables, Step, TypeOK, AttachOK
  <2>5. CASE AdoptDomains(n)     BY <1>2, <2>5 DEF AdoptDomains, GiveUp, Step, TypeOK, AttachOK
  <2> QED  BY <1>6, <2>1, <2>2, <2>3, <2>4, <2>5 DEF AdoptStep
<1>7. ASSUME NEW n \in Node, CreateStep(n) PROVE SnapsForward'
  <2>1. CASE CreateWins(n)     BY <1>2, <2>1 DEF CreateWins, Step, TypeOK, AttachOK
  <2>2. CASE CreateLoses(n)    BY <1>2, <2>2 DEF CreateLoses, Step, TypeOK, AttachOK
  <2>3. CASE CreateRefused(n)  BY <1>2, <2>3 DEF CreateRefused, GiveUp, Step, TypeOK, AttachOK
  <2>4. CASE MarkCreated(n)    BY <1>2, <2>4 DEF MarkCreated, Step, TypeOK, AttachOK
  <2> QED  BY <1>7, <2>1, <2>2, <2>3, <2>4 DEF CreateStep
<1>8. ASSUME NEW n \in Node, AttachStep(n) PROVE SnapsForward'
  <2>1. ASSUME NEW m \in Node, FastForwardAnswered(n, m) PROVE SnapsForward'
    BY <1>3, <2>1 DEF FastForwardAnswered, Step, TypeOK, AttachOK
  <2>2. CASE AttachFinds(n)    BY <1>2, <2>2 DEF AttachFinds, Step, TypeOK, AttachOK
  <2>3. CASE CatchUp(n)        BY <1>2, <2>3 DEF CatchUp, Step, TypeOK, AttachOK
  <2>4. CASE FastForwardUnanswered(n)
    <3>1. Step(n, "subscribe") \/ Step(n, "idle")
      BY <2>4 DEF FastForwardUnanswered, GiveUp
    <3> QED  BY <1>2, <2>4, <3>1 DEF FastForwardUnanswered, Step, TypeOK, AttachOK
  <2>5. CASE FastForwardTables(n)   BY <1>2, <2>5 DEF FastForwardTables, Step, TypeOK, AttachOK
  <2>6. CASE FastForwardDomains(n)
    <3>1. Step(n, "subscribe") \/ Step(n, "idle") \/ Step(n, "fast-forward")
      BY <2>6 DEF FastForwardDomains, GiveUp
    <3> QED  BY <1>2, <2>6, <3>1 DEF FastForwardDomains, Step, TypeOK, AttachOK
  <2>7. CASE Subscribe(n)       BY <1>2, <2>7 DEF Subscribe, Step, TypeOK, AttachOK
  <2>8. CASE SubscribeFails(n)  BY <1>2, <2>8 DEF SubscribeFails, GiveUp, Step, TypeOK, AttachOK
  <2>9. CASE Latch(n)           BY <1>2, <2>9 DEF Latch, Step, TypeOK, AttachOK
  <2> QED  BY <1>8, <2>1, <2>2, <2>3, <2>4, <2>5, <2>6, <2>7, <2>8, <2>9 DEF AttachStep
<1>9. ASSUME NEW n \in Node, LifeStep(n) PROVE SnapsForward'
  <2>1. CASE Crash(n)  BY <1>2, <2>1 DEF Crash, TypeOK, AttachOK
  <2>2. CASE ~Crash(n)
    BY <1>1, <1>9, <2>2 DEF LifeStep, ProbeDetaches, ConsumerDies, RestartNebula, StartNebula,
      StartOplogApply, StartProcess, ReformOplogEpoch, ReformCleanUp, attach
  <2> QED  BY <2>1, <2>2
<1>10. ASSUME NEW r \in Req, RequestStep(r) PROVE UNCHANGED <<pc, snap>>
  BY <1>10 DEF RequestStep, PublishAcked, PublishAckLost, PublishFails, WaitTimesOut, attach
<1>11. ASSUME NEW e \in Epoch, StreamLost(e) PROVE UNCHANGED <<pc, snap>>
  BY <1>11 DEF StreamLost, attach
<1> QED  BY <1>1, <1>4, <1>5, <1>6, <1>7, <1>8, <1>9, <1>10, <1>11 DEF Next, NodeStep

LEMMA EpochStep ==
    ASSUME EpochInv, Next, ReformFindsNoInstall'
    PROVE  EpochInv' /\ \A n \in Node : epoch'[n] >= epoch[n]
<1>0. /\ TypeOK /\ TypeOK' /\ LicencesDiffer /\ LicencesPast /\ SnapsForward
      /\ formationWriter \in [Node -> 0..MaxEpoch] /\ epoch \in [Node -> Epoch]
      /\ \A n \in Node : epoch[n] \in Nat \ {0} /\ formationWriter[n] \in Nat
  BY TypeStep, BoundAssumption DEF EpochInv, TypeOK, DiskOK, Epoch
<1>1. CASE EpochsKept
  <2>1. SnapsForward'  BY <1>0, <1>1, SnapMoves DEF EpochsKept
  <2> QED  BY <1>0, <1>1, <2>1 DEF EpochInv, EpochsKept, LicencesDiffer, LicencesPast
<1>2. ASSUME NEW n \in Node, UNCHANGED epoch, formationWriter' = [formationWriter EXCEPT ![n] = 0],
             ~EpochsKept
      PROVE  EpochInv' /\ \A p \in Node : epoch'[p] >= epoch[p]
  <2>1. LicencesDiffer' /\ LicencesPast'  BY <1>0, <1>2 DEF LicencesDiffer, LicencesPast
  <2>2. SnapsForward'  BY <1>0, <1>2, SnapMoves
  <2> QED  BY <1>0, <1>2, <2>1, <2>2 DEF EpochInv
<1>3. ASSUME NEW n \in Node, ReformOplogEpoch(n)
      PROVE  EpochInv' /\ \A p \in Node : epoch'[p] >= epoch[p]
  <2>1. /\ formationWriter' = [formationWriter EXCEPT ![n] = epoch[n] + 1]
        /\ epoch' = [epoch EXCEPT ![n] = epoch[n] + 1]
        /\ \A p \in Node : epoch[p] <= epoch[n]
        /\ UNCHANGED <<pc, snap>> /\ reforming' = [reforming EXCEPT ![n] = TRUE]
    BY <1>3 DEF ReformOplogEpoch, SurvivorIsCurrent, attach
  <2>2. pc'[n] \notin Installing
    BY <1>0, <2>1 DEF ReformFindsNoInstall, Installing, TypeOK, ProcessOK
  <2>3. LicencesDiffer'
    <3>1. \A p \in Node : formationWriter[p] # epoch[n] + 1  BY <1>0, <2>1 DEF LicencesPast
    <3> QED  BY <1>0, <2>1, <3>1 DEF LicencesDiffer
  <2>4. LicencesPast'  BY <1>0, <2>1 DEF LicencesPast
  <2>5. SnapsForward'  BY <1>0, <2>1, <2>2 DEF SnapsForward, Installing
  <2> QED  BY <1>0, <2>1, <2>3, <2>4, <2>5 DEF EpochInv
<1>4. ASSUME NEW n \in Node, Installs(n)
      PROVE  EpochInv' /\ \A p \in Node : epoch'[p] >= epoch[p]
  <2>1. /\ epoch' = [epoch EXCEPT ![n] = snap[n].epoch] /\ epoch[n] <= snap[n].epoch
        /\ snap[n].epoch \in Nat /\ UNCHANGED <<formationWriter, snap>>
        /\ pc'[n] \notin {"adopt", "install"} /\ \A p \in Node : p # n => pc'[p] = pc[p]
    BY <1>0, <1>4, BoundAssumption DEF Installs, InstallTables, Step, SnapsForward, TypeOK, AttachOK
  <2>2. LicencesDiffer' /\ LicencesPast'  BY <1>0, <2>1 DEF LicencesDiffer, LicencesPast
  <2>3. SnapsForward'  BY <1>0, <2>1 DEF SnapsForward
  <2> QED  BY <1>0, <2>1, <2>2, <2>3 DEF EpochInv
<1> QED  BY <1>0, <1>1, <1>2, <1>3, <1>4, EpochMoves

LEMMA EpochBase == Init => EpochInv
<1> SUFFICES ASSUME Init PROVE EpochInv  OBVIOUS
<1>1. TypeOK  BY TypeInit
<1>2. LicencesDiffer  BY RoleAssumption DEF Init, LicencesDiffer
<1>3. LicencesPast /\ SnapsForward  BY DEF Init, LicencesPast, SnapsForward
<1> QED  BY <1>1, <1>2, <1>3 DEF EpochInv

LEMMA EpochStutter == EpochInv /\ UNCHANGED vars => EpochInv'
<1> SUFFICES ASSUME EpochInv, UNCHANGED vars PROVE EpochInv'  OBVIOUS
<1>1. TypeOK'  BY TypeStutter DEF EpochInv
<1> QED  BY <1>1 DEF EpochInv, LicencesDiffer, LicencesPast, SnapsForward, vars, disk, kv, attach

(* As long as no reform hits an install in progress, the licence to write   *)
(* directly and to seed the log is held by at most one node of an epoch,    *)
(* from the founding on and through any number of force-reforms.            *)
THEOREM LicenceExclusive == Spec /\ []ReformFindsNoInstall => []LicenceIsExclusive
<1>1. Init => EpochInv  BY EpochBase
<1>2. EpochInv /\ ReformFindsNoInstall' /\ [Next]_vars => EpochInv'  BY EpochStep, EpochStutter
<1>3. EpochInv => LicenceIsExclusive
  <2> SUFFICES ASSUME EpochInv PROVE LicenceIsExclusive  OBVIOUS
  <2>1. \A n \in Node : epoch[n] \in Nat \ {0}
    BY BoundAssumption DEF EpochInv, TypeOK, DiskOK, Epoch
  <2> QED  BY <2>1 DEF EpochInv, LicencesDiffer, LicenceIsExclusive, IsFormationWriter
<1> QED  BY <1>1, <1>2, <1>3, PTL DEF Spec

(* Under the same proviso a node never goes back to an epoch it left.       *)
THEOREM EpochsForward == Spec /\ []ReformFindsNoInstall => EpochNeverBack
<1>1. Init => EpochInv  BY EpochBase
<1>2. EpochInv /\ ReformFindsNoInstall' /\ [Next]_vars => EpochInv'  BY EpochStep, EpochStutter
<1>3. EpochInv /\ ReformFindsNoInstall' /\ [Next]_vars
        => [\A n \in Node : epoch'[n] >= epoch[n]]_vars
  BY EpochStep
<1> QED  BY <1>1, <1>2, <1>3, PTL DEF Spec, EpochNeverBack

-----------------------------------------------------------------------------
(* Without the proviso: how far back an install can take a node.            *)

(* An attach began at no later epoch than its node's, and holds no snapshot *)
(* of an earlier one.                                                       *)
AtsBelow   == \A n \in Node : at[n].epoch <= epoch[n]
SnapsAhead == \A n \in Node : pc[n] \in {"adopt", "install"} => at[n].epoch <= snap[n].epoch
BackInv    == TypeOK /\ AtsBelow /\ SnapsAhead

(* What a step can do to the attach of a node: drop it, take it on from     *)
(* there or from the present epoch, or give it a peer's answer.             *)
Goes(n)     == pc'[n] \notin {"adopt", "install"}
                 /\ (at'[n].epoch = 0 \/ at'[n].epoch = at[n].epoch \/ at'[n].epoch = epoch[n])
Answered(n) == /\ \E m \in Responders(n) : snap'[n] = Snapshot(m)
               /\ at'[n].epoch = at[n].epoch \/ at'[n].epoch = epoch[n]

LEMMA AttachMoves ==
    ASSUME TypeOK, Next, NEW n \in Node
    PROVE  UNCHANGED <<pc[n], at[n], snap[n]>> \/ Goes(n) \/ Answered(n)
<1> DEFINE Goal == UNCHANGED <<pc[n], at[n], snap[n]>> \/ Goes(n) \/ Answered(n)
<1> USE DEF attach, GiveUp, Step, NoAt, Goes, TypeOK, AttachOK
<1>1. ASSUME NEW p \in Node, WriteStep(p) PROVE Goal
  BY <1>1 DEF WriteStep, WriteDirect, WriteReadOnly, WritePublish
<1>2. ASSUME NEW p \in Node, ApplyStep(p) PROVE Goal
  BY <1>2 DEF ApplyStep, HandleDelivery, HandleLate, ConsumeForeign, ApplyTableOp, ApplyDomainOp,
    CommitDomainOp
<1>3. ASSUME NEW p \in Node, AdoptStep(p) PROVE Goal
  <2>1. ASSUME NEW m \in Node, AdoptAnswered(p, m) PROVE Goal
    BY <2>1 DEF AdoptAnswered, Answered
  <2>2. CASE AttachMisses(p)     BY <2>2 DEF AttachMisses
  <2>3. CASE AdoptUnanswered(p)  BY <2>3 DEF AdoptUnanswered
  <2>4. CASE AdoptTables(p)      BY <2>4 DEF AdoptTables
  <2>5. CASE AdoptDomains(p)     BY <2>5 DEF AdoptDomains
  <2> QED  BY <1>3, <2>1, <2>2, <2>3, <2>4, <2>5 DEF AdoptStep
<1>4. ASSUME NEW p \in Node, CreateStep(p) PROVE Goal
  BY <1>4 DEF CreateStep, CreateWins, CreateLoses, CreateRefused, MarkCreated
<1>5. ASSUME NEW p \in Node, AttachStep(p) PROVE Goal
  <2>1. ASSUME NEW m \in Node, FastForwardAnswered(p, m) PROVE Goal
    BY <2>1 DEF FastForwardAnswered, Answered
  <2>2. CASE AttachFinds(p)            BY <2>2 DEF AttachFinds
  <2>3. CASE CatchUp(p)                BY <2>3 DEF CatchUp
  <2>4. CASE FastForwardUnanswered(p)  BY <2>4 DEF FastForwardUnanswered
  <2>5. CASE FastForwardTables(p)      BY <2>5 DEF FastForwardTables
  <2>6. CASE FastForwardDomains(p)     BY <2>6 DEF FastForwardDomains
  <2>7. CASE Subscribe(p) \/ SubscribeFails(p) \/ Latch(p)
    BY <2>7 DEF Subscribe, SubscribeFails, Latch
  <2> QED  BY <1>5, <2>1, <2>2, <2>3, <2>4, <2>5, <2>6, <2>7 DEF AttachStep
<1>6. ASSUME NEW p \in Node, LifeStep(p) PROVE Goal
  BY <1>6 DEF LifeStep, ProbeDetaches, ConsumerDies, RestartNebula, StartNebula, StartOplogApply,
    Crash, StartProcess, ReformOplogEpoch, ReformCleanUp
<1>7. ASSUME NEW r \in Req, RequestStep(r) PROVE Goal
  BY <1>7 DEF RequestStep, PublishAcked, PublishAckLost, PublishFails, WaitTimesOut
<1>8. ASSUME NEW e \in Epoch, StreamLost(e) PROVE Goal
  BY <1>8 DEF StreamLost
<1> QED  BY <1>1, <1>2, <1>3, <1>4, <1>5, <1>6, <1>7, <1>8 DEF Next, NodeStep

LEMMA BackStep ==
    ASSUME BackInv, Next
    PROVE  /\ BackInv'
           /\ \A n \in Node : epoch'[n] < epoch[n] =>
                 pc[n] \in {"adopt", "install"} /\ at[n].epoch <= epoch'[n]
<1>0. /\ TypeOK /\ TypeOK' /\ AtsBelow /\ SnapsAhead
      /\ \A n \in Node : /\ epoch[n] \in Nat \ {0} /\ at[n].epoch \in Nat /\ snap[n].epoch \in Nat
                         /\ at'[n].epoch \in Nat /\ snap'[n].epoch \in Nat
  BY TypeStep, BoundAssumption DEF BackInv, TypeOK, DiskOK, AttachOK, Epoch
<1>1. ASSUME NEW n \in Node, epoch'[n] = epoch[n]
      PROVE  /\ at'[n].epoch <= epoch'[n]
             /\ pc'[n] \in {"adopt", "install"} => at'[n].epoch <= snap'[n].epoch
  <2>1. CASE UNCHANGED <<pc[n], at[n], snap[n]>>  BY <1>0, <1>1, <2>1 DEF AtsBelow, SnapsAhead
  <2>2. CASE Goes(n)  BY <1>0, <1>1, <2>2 DEF AtsBelow, Goes
  <2>3. CASE Answered(n)
    <3>1. PICK m \in Responders(n) : snap'[n] = Snapshot(m)  BY <2>3 DEF Answered
    <3>2. m \in Node /\ epoch[n] <= epoch[m]  BY <3>1 DEF Responders
    <3>3. snap'[n].epoch = epoch[m]  BY <3>1 DEF Snapshot
    <3> QED  BY <1>0, <1>1, <2>3, <3>2, <3>3 DEF Answered, AtsBelow
  <2> QED  BY <1>0, <2>1, <2>2, <2>3, AttachMoves
<1>2. ASSUME UNCHANGED epoch
      PROVE  BackInv' /\ \A n \in Node : epoch'[n] >= epoch[n]
  BY <1>0, <1>1, <1>2 DEF BackInv, AtsBelow, SnapsAhead
<1>3. ASSUME NEW p \in Node, ReformOplogEpoch(p)
      PROVE  BackInv' /\ \A n \in Node : epoch'[n] >= epoch[n]
  <2>1. UNCHANGED attach /\ epoch' = [epoch EXCEPT ![p] = epoch[p] + 1]
    BY <1>3 DEF ReformOplogEpoch
  <2>2. \A n \in Node : epoch'[n] \in Nat /\ epoch'[n] >= epoch[n]
    BY <1>0, <2>1 DEF TypeOK, DiskOK
  <2> QED  BY <1>0, <2>1, <2>2 DEF BackInv, AtsBelow, SnapsAhead, attach
<1>4. ASSUME NEW p \in Node, Installs(p)
      PROVE  /\ BackInv'
             /\ \A n \in Node : epoch'[n] < epoch[n] =>
                   pc[n] \in {"adopt", "install"} /\ at[n].epoch <= epoch'[n]
  <2>1. /\ pc[p] \in {"adopt", "install"} /\ pc'[p] \notin {"adopt", "install"}
        /\ epoch' = [epoch EXCEPT ![p] = snap[p].epoch] /\ UNCHANGED snap
    BY <1>0, <1>4 DEF Installs, InstallTables, Step, TypeOK, AttachOK
  <2>2. epoch'[p] = snap[p].epoch /\ \A n \in Node : n # p => epoch'[n] = epoch[n]
    BY <1>0, <2>1 DEF TypeOK, DiskOK
  <2>3. UNCHANGED at  BY <1>4 DEF Installs
  <2>4. at'[p].epoch <= epoch'[p]  BY <1>0, <2>1, <2>2, <2>3 DEF SnapsAhead
  <2>5. BackInv'  BY <1>0, <1>1, <2>1, <2>2, <2>4 DEF BackInv, AtsBelow, SnapsAhead
  <2> QED  BY <1>0, <2>1, <2>2, <2>3, <2>4, <2>5
<1>5. CASE \A n \in Node : epoch'[n] >= epoch[n]
  <2>1. \A n \in Node : ~(epoch'[n] < epoch[n])
    <3>1. TypeOK' => \A n \in Node : epoch'[n] \in Nat
      BY BoundAssumption DEF TypeOK, DiskOK, Epoch
    <3> QED  BY <1>0, <1>5, <3>1
  <2>2. BackInv'  BY <1>0, <1>2, <1>3, <1>4, <2>1, EpochMoves DEF EpochsKept
  <2> QED  BY <2>1, <2>2
<1>6. CASE ~\A n \in Node : epoch'[n] >= epoch[n]
  <2>1. ~UNCHANGED epoch /\ \A p \in Node : ~ReformOplogEpoch(p)  BY <1>2, <1>3, <1>6
  <2> QED  BY <1>0, <1>4, <2>1, EpochMoves DEF EpochsKept
<1> QED  BY <1>5, <1>6

LEMMA BackBase == Init \/ InitFormed => BackInv
<1> SUFFICES ASSUME Init \/ InitFormed PROVE BackInv  OBVIOUS
<1>1. TypeOK  BY TypeInit
<1>2. AtsBelow /\ SnapsAhead  BY DEF Init, InitFormed, AtsBelow, SnapsAhead, NoAt
<1> QED  BY <1>1, <1>2 DEF BackInv

LEMMA BackStutter == BackInv /\ UNCHANGED vars => BackInv'
<1> SUFFICES ASSUME BackInv, UNCHANGED vars PROVE BackInv'  OBVIOUS
<1>1. TypeOK'  BY TypeStutter DEF BackInv
<1> QED  BY <1>1 DEF BackInv, AtsBelow, SnapsAhead, vars, disk, kv, attach

(* Whatever reforms hit whatever installs: a node loses its epoch only to   *)
(* the snapshot in hand, and keeps the one its attach began at.             *)
THEOREM ReformsLoseOneAttach == FormedSpec => BackNoFurtherThanAttach
<1>1. InitFormed => BackInv  BY BackBase
<1>2. BackInv /\ [Next]_vars => BackInv'  BY BackStep, BackStutter
<1>3. BackInv /\ [Next]_vars
        => [\A n \in Node : epoch'[n] < epoch[n] =>
              pc[n] \in {"adopt", "install"} /\ at[n].epoch <= epoch'[n]]_vars
  BY BackStep
<1> QED  BY <1>1, <1>2, <1>3, PTL DEF FormedSpec, BackNoFurtherThanAttach

-----------------------------------------------------------------------------
(* The inductive invariant behind Materialized, from the moment a log       *)
(* exists and while no force-reform moves the epoch.                        *)

(* canon records the replay of the log. *)
Replay ==
    \A i \in 1..Len(log[1]) : canon[1][i + 1] = Applied(canon[1][i], log[1][i])

(* The log exists, and nobody is reforming. *)
Seeded == live[1] /\ \A n \in Node : ~reforming[n]

(* The tables in s are those of log position i. *)
IsPrefix(s, i) == i <= Len(log[1]) /\ Tables(s) = Tables(canon[1][i + 1])

InLog(m) == m.seq <= Len(log[1]) /\ m.req = log[1][m.seq]

(* A node whose loop has anything to apply holds the state of its epoch;    *)
(* what it is handling is the next entry, and the lock keeps the position   *)
(* from moving under it.                                                    *)
HandOK(n) ==
    hand[n] # NoHand =>
        /\ bootstrapped[n] = 1 /\ pc[n] \notin Locked
        /\ hand[n].step # "consume" /\ hand[n].seq = lastApplied[n] + 1 /\ InLog(hand[n])
        /\ hand[n].step = "commit" => IsDomainOp(hand[n].req)

QueueOK(n) ==
    /\ sub[n] # NoSub => bootstrapped[n] = 1
    /\ late[n] # NoMsg => bootstrapped[n] = 1 /\ InLog(late[n])
    /\ attached[n] => bootstrapped[n] = 1

(* The attach path: whoever created the log was licensed to, adoption is    *)
(* for a node without state, a subscription for one with, and a snapshot on *)
(* its way in is a prefix of the log.                                       *)
PathOK(n) ==
    /\ pc[n] = "created" => formationWriter[n] = 1
    /\ pc[n] = "adopt" => bootstrapped[n] = 0
    /\ pc[n] \in {"install-domains", "subscribe", "latch"} => bootstrapped[n] = 1
    /\ pc[n] \in {"adopt", "install"} => IsPrefix(snap[n].store, snap[n].seq)

(* The licensed node holds the seed before it says so. *)
StoreOK(n) == bootstrapped[n] = 1 \/ formationWriter[n] = 1 => IsPrefix(store[n], lastApplied[n])

NodeOK(n) == HandOK(n) /\ QueueOK(n) /\ PathOK(n) /\ StoreOK(n)

SInv == TypeOK /\ Replay /\ Seeded /\ \A n \in Node : NodeOK(n)

(* Formation is over: nobody is left with a licence. *)
Settled == live[1] /\ \A n \in Node : formationWriter[n] = 0 /\ ~reforming[n]

IInv == TypeOK /\ Replay /\ Settled /\ \A n \in Node : NodeOK(n)

-----------------------------------------------------------------------------
(* Lemmas about the tables and the history of the log. *)

(* What an entry makes of the tables depends on the tables alone. *)
LEMMA TablesOfApplied ==
    ASSUME NEW s \in Store, NEW t \in Store, NEW r \in Req, Tables(s) = Tables(t)
    PROVE  Tables(Applied(s, r)) = Tables(Applied(t, r))
<1> OpOf[r] \in Op  BY OpAssumption
<1>0. s.rows = t.rows /\ s.blocked = t.blocked /\ s.devices = t.devices
  BY DEF Tables
<1>1. CASE OpOf[r].kind = "insert"  BY <1>0, <1>1 DEF Effect, Applied, Accepts, Tables, Store, Op
<1>2. CASE OpOf[r].kind = "delete"  BY <1>0, <1>2 DEF Effect, Applied, Accepts, Tables, Store, Op
<1>3. CASE OpOf[r].kind = "block"   BY <1>0, <1>3 DEF Effect, Applied, Accepts, Tables, Store, Op
<1>4. CASE OpOf[r].kind = "set"     BY <1>0, <1>4 DEF Effect, Applied, Accepts, Tables, Store, Op
<1> QED  BY <1>1, <1>2, <1>3, <1>4 DEF Op

(* A domain op leaves the tables alone and is never rejected. *)
LEMMA DomainKeepsTables ==
    ASSUME NEW s \in Store, NEW r \in Req, IsDomainOp(r)
    PROVE  Tables(Effect(s, r)) = Tables(s) /\ Applied(s, r) = Effect(s, r)
  BY DEF IsDomainOp, Effect, Applied, Accepts, Tables, Store

(* The log only grows, and so does its history. *)
Grown ==
    /\ Len(log[1]) <= Len(log'[1])
    /\ \A i \in 1..Len(log[1]) : log'[1][i] = log[1][i]
    /\ \A i \in 0..Len(log[1]) : canon'[1][i + 1] = canon[1][i + 1]

(* Storing an entry extends both, and the history goes on recording the replay. *)
LEMMA StoredGrows ==
    ASSUME SInv, NEW r \in Req, wepoch[r] = 1, 1 \in Epoch, Stored(r)
    PROVE  Grown /\ Replay'
<1> DEFINE c == canon[1]
<1>1. log[1] \in Seq(Req) /\ c \in Seq(Store) /\ Len(c) = Len(log[1]) + 1 /\ Len(log[1]) \in Nat
  BY DEF SInv, TypeOK, CloudOK
<1>2. Applied(c[Len(c)], r) \in Store  BY <1>1, EffectType
<1>3. /\ log'[1] = Append(log[1], r)
      /\ canon'[1] = Append(c, Applied(c[Len(c)], r))
  BY DEF Stored, SInv, TypeOK, CloudOK
<1>4. /\ Len(log'[1]) = Len(log[1]) + 1 /\ log'[1][Len(log[1]) + 1] = r
      /\ canon'[1][Len(c) + 1] = Applied(c[Len(c)], r)
      /\ \A i \in 1..Len(log[1]) : log'[1][i] = log[1][i]
      /\ \A i \in 1..Len(c) : canon'[1][i] = c[i]
  BY <1>1, <1>2, <1>3
<1>5. Grown  BY <1>1, <1>4 DEF Grown
<1>6. ASSUME NEW i \in 1..Len(log'[1]) PROVE canon'[1][i + 1] = Applied(canon'[1][i], log'[1][i])
  <2>1. CASE i = Len(log[1]) + 1  BY <1>1, <1>4, <2>1
  <2>2. CASE i # Len(log[1]) + 1
    <3>1. i \in 1..Len(log[1]) /\ i \in 1..Len(c) /\ i + 1 \in 1..Len(c)  BY <1>1, <1>4, <2>2
    <3> QED  BY <1>4, <3>1 DEF SInv, Replay
  <2> QED  BY <2>1, <2>2
<1> QED  BY <1>5, <1>6 DEF Replay

(* The parts of a node's invariant that an action which leaves their state  *)
(* alone preserves, the log standing still ...                              *)
LEMMA PartsUnchanged ==
    ASSUME NEW n \in Node, UNCHANGED <<log, canon>>
    PROVE  /\ HandOK(n) /\ hand'[n] = hand[n] /\ bootstrapped'[n] = bootstrapped[n] /\ pc'[n] = pc[n]
                /\ lastApplied'[n] = lastApplied[n] => HandOK(n)'
           /\ QueueOK(n) /\ sub'[n] = sub[n] /\ late'[n] = late[n] /\ attached'[n] = attached[n]
                /\ bootstrapped'[n] = bootstrapped[n] => QueueOK(n)'
           /\ PathOK(n) /\ pc'[n] = pc[n] /\ bootstrapped'[n] = bootstrapped[n]
                /\ formationWriter'[n] = formationWriter[n] /\ snap'[n] = snap[n] => PathOK(n)'
           /\ StoreOK(n) /\ bootstrapped'[n] = bootstrapped[n] /\ store'[n] = store[n]
                /\ formationWriter'[n] = formationWriter[n] /\ lastApplied'[n] = lastApplied[n]
                => StoreOK(n)'
<1>1. HandOK(n) /\ hand'[n] = hand[n] /\ bootstrapped'[n] = bootstrapped[n] /\ pc'[n] = pc[n]
        /\ lastApplied'[n] = lastApplied[n] => HandOK(n)'
  BY DEF HandOK, InLog
<1>2. QueueOK(n) /\ sub'[n] = sub[n] /\ late'[n] = late[n] /\ attached'[n] = attached[n]
        /\ bootstrapped'[n] = bootstrapped[n] => QueueOK(n)'
  BY DEF QueueOK, InLog
<1>3. PathOK(n) /\ pc'[n] = pc[n] /\ bootstrapped'[n] = bootstrapped[n]
        /\ formationWriter'[n] = formationWriter[n] /\ snap'[n] = snap[n] => PathOK(n)'
  BY DEF PathOK, IsPrefix, Tables
<1>4. StoreOK(n) /\ bootstrapped'[n] = bootstrapped[n] /\ store'[n] = store[n]
        /\ formationWriter'[n] = formationWriter[n] /\ lastApplied'[n] = lastApplied[n] => StoreOK(n)'
  BY DEF StoreOK, IsPrefix, Tables
<1> QED  BY <1>1, <1>2, <1>3, <1>4

NodeVars(n) == <<hand[n], sub[n], late[n], attached[n], bootstrapped[n], pc[n], snap[n],
                 store[n], lastApplied[n], formationWriter[n]>>

(* ... and the whole of it for a node nothing happened to. *)
LEMMA NodeUnchanged ==
    ASSUME NEW n \in Node, NodeOK(n), UNCHANGED NodeVars(n), UNCHANGED <<log, canon>>
    PROVE  NodeOK(n)'
  BY PartsUnchanged DEF NodeOK, NodeVars

(* A node nothing happened to stays right while the log grows. *)
LEMMA NodeBesideGrowth ==
    ASSUME NEW n \in Node, TypeOK, NodeOK(n), UNCHANGED NodeVars(n), Grown, 1 \in Epoch,
           Len(log'[1]) \in Nat
    PROVE  NodeOK(n)'
<1>1. Len(log[1]) \in Nat  BY DEF TypeOK, CloudOK
<1>2. ASSUME NEW s, NEW i \in Nat, IsPrefix(s, i)
      PROVE  i <= Len(log'[1]) /\ Tables(s) = Tables(canon'[1][i + 1])
  BY <1>1, <1>2 DEF IsPrefix, Grown
<1>3. ASSUME NEW m \in Message, InLog(m)
      PROVE  m.seq <= Len(log'[1]) /\ m.req = log'[1][m.seq]
  BY <1>1, <1>3 DEF InLog, Grown, Message
<1>4. HandOK(n)'
  <2>1. CASE hand[n] = NoHand  BY <2>1 DEF HandOK, NodeVars
  <2>2. CASE hand[n] # NoHand
    <3>1. hand[n].seq <= Len(log'[1]) /\ hand[n].req = log'[1][hand[n].seq]
      BY <1>1, <2>2 DEF NodeOK, HandOK, InLog, Grown, TypeOK, LoopOK
    <3> QED  BY <2>2, <3>1 DEF NodeOK, HandOK, InLog, NodeVars
  <2> QED  BY <2>1, <2>2
<1>5. QueueOK(n)'  BY <1>3 DEF NodeOK, QueueOK, NodeVars, InLog, TypeOK, LoopOK
<1>6. PathOK(n)'
  <2>1. snap[n].seq \in Nat  BY DEF TypeOK, AttachOK
  <2> QED  BY <1>2, <2>1 DEF NodeOK, PathOK, NodeVars, IsPrefix, Tables
<1>7. StoreOK(n)'
  <2>1. lastApplied[n] \in Nat  BY DEF TypeOK, DiskOK
  <2> QED  BY <1>2, <2>1 DEF NodeOK, StoreOK, NodeVars, IsPrefix, Tables
<1> QED  BY <1>4, <1>5, <1>6, <1>7 DEF NodeOK

(* With one epoch, everybody is in it. *)
LEMMA OneEpoch ==
    ASSUME MaxEpoch = 1, TypeOK
    PROVE  /\ Epoch = {1}
           /\ \A n \in Node : /\ epoch[n] = 1 /\ bootstrapped[n] \in {0, 1}
                              /\ pc[n] # "idle" => at[n].epoch = 1
                              /\ sub[n] # NoSub => sub[n].epoch = 1
                              /\ late[n] # NoMsg => late[n].epoch = 1
                              /\ pc[n] \in {"adopt", "install"} => snap[n].epoch = 1
           /\ \A r \in Req : wst[r] = "publishing" => wepoch[r] = 1
<1>1. Epoch = {1} /\ 0..MaxEpoch = {0, 1}  BY DEF Epoch
<1> QED  BY <1>1 DEF TypeOK, DiskOK, LoopOK, AttachOK, ClientOK, Message

(* What the consumer delivers is in the log. *)
LEMMA DeliveryInLog ==
    ASSUME MaxEpoch = 1, TypeOK, NEW n \in Node, Deliverable(n)
    PROVE  Delivery(n) \in Message /\ Delivery(n).epoch = 1 /\ InLog(Delivery(n)) /\ sub[n] # NoSub
<1>1. sub[n] # NoSub  BY DEF Deliverable, NoSub
<1>2. sub[n].epoch = 1  BY <1>1, OneEpoch
<1>3. Delivery(n) \in Message  BY DeliveryType DEF TypeOK
<1> QED  BY <1>1, <1>2, <1>3 DEF Delivery, Deliverable, InLog

(* Whoever answers a snapshot request holds a prefix of the log. *)
LEMMA SnapshotIsPrefix ==
    ASSUME MaxEpoch = 1, SInv, NEW n \in Node, NEW m \in Node, m \in Responders(n)
    PROVE  /\ IsPrefix(Snapshot(m).store, Snapshot(m).seq) /\ Snapshot(m).epoch = 1
           /\ Snapshot(m) \in [epoch : 0..MaxEpoch, seq : Nat, store : Store]
<1>1. epoch[m] = 1 /\ NodeOK(m)
  BY OneEpoch DEF SInv
<1>2. attached[m] \/ formationWriter[m] = 1
  BY <1>1 DEF Responders, MayServeSnapshot, IsFormationWriter
<1>3. IsPrefix(store[m], lastApplied[m])  BY <1>1, <1>2 DEF NodeOK, QueueOK, StoreOK
<1>4. lastApplied[m] \in Nat /\ store[m] \in Store  BY DEF SInv, TypeOK, DiskOK
<1> QED  BY <1>1, <1>3, <1>4 DEF Snapshot

(* Nobody writes beside the log on top of a materialized store. *)
LEMMA DirectIsUnmaterialized ==
    ASSUME MaxEpoch = 1, SInv, NEW n \in Node, WriteMode(n) = "direct"
    PROVE  bootstrapped[n] = 0
<1>1. epoch[n] = 1 /\ bootstrapped[n] \in {0, 1} /\ attached[n] \in BOOLEAN
  BY OneEpoch DEF SInv, TypeOK, ProcessOK
<1>2. ~IsOplogBootstrapped(n)
  <2> SUFFICES ASSUME IsOplogBootstrapped(n) PROVE FALSE  OBVIOUS
  <2>1. CASE attached[n]  BY <2>1 DEF WriteMode
  <2>2. CASE ~attached[n]  BY <2>2 DEF WriteMode
  <2> QED  BY <2>1, <2>2
<1> QED  BY <1>1, <1>2 DEF IsOplogBootstrapped

(* The next entry takes tables from one log position to the next. *)
LEMMA NextPrefix ==
    ASSUME SInv, 1 \in Epoch, NEW n \in Node, hand[n] # NoHand
    PROVE  /\ hand[n].req \in Req /\ store[n] \in Store
           /\ IsPrefix(store[n], lastApplied[n])
           /\ IsPrefix(Applied(store[n], hand[n].req), hand[n].seq)
<1> DEFINE r == hand[n].req
           i == lastApplied[n]
<1>1. r \in Req /\ store[n] \in Store /\ i \in Nat
  BY DEF SInv, TypeOK, LoopOK, DiskOK
<1>2. IsPrefix(store[n], i) /\ hand[n].seq = i + 1 /\ InLog(hand[n])
  BY DEF SInv, NodeOK, HandOK, StoreOK
<1>3. /\ canon[1] \in Seq(Store) /\ Len(canon[1]) = Len(log[1]) + 1 /\ Len(log[1]) \in Nat
  BY DEF SInv, TypeOK, CloudOK
<1>4. i + 1 \in 1..Len(log[1]) /\ r = log[1][i + 1]
  BY <1>1, <1>2, <1>3 DEF InLog
<1>5. canon[1][i + 1] \in Store
  BY <1>3, <1>4
<1>6. canon[1][i + 2] = Applied(canon[1][i + 1], r)
  BY <1>1, <1>4 DEF SInv, Replay
<1>7. Tables(Applied(store[n], r)) = Tables(Applied(canon[1][i + 1], r))
  BY <1>1, <1>2, <1>5, TablesOfApplied DEF IsPrefix
<1>8. (i + 1) + 1 = i + 2  BY <1>1
<1> QED  BY <1>1, <1>2, <1>4, <1>6, <1>7, <1>8 DEF IsPrefix

(* A step of the attach path takes the lock only when no handler has it. *)
LEMMA HandAfterStep ==
    ASSUME NEW n \in Node, HandOK(n), UNCHANGED <<hand[n], bootstrapped[n], lastApplied[n], log>>,
           pc'[n] \notin Locked \/ hand[n] = NoHand
    PROVE  HandOK(n)'
  BY DEF HandOK, InLog

(* A dropped subscription leaves at most an entry of the log behind. *)
LEMMA DetachQueue ==
    ASSUME MaxEpoch = 1, SInv, NEW n \in Node, Detach(n), UNCHANGED <<log, bootstrapped>>
    PROVE  QueueOK(n)'
<1>1. sub'[n] = NoSub /\ attached'[n] = FALSE /\ late'[n] \in Stragglers(n)
  BY DEF Detach, SInv, TypeOK, LoopOK, ProcessOK
<1>2. QueueOK(n)  BY DEF SInv, NodeOK
<1>3. late'[n] # NoMsg => bootstrapped[n] = 1 /\ InLog(late'[n])
  BY <1>1, <1>2, DeliveryInLog DEF Stragglers, QueueOK, SInv
<1> QED  BY <1>1, <1>3 DEF QueueOK, InLog

(* An install of a prefix materializes the node. *)
LEMMA InstallPrefix ==
    ASSUME MaxEpoch = 1, SInv, NEW n \in Node, pc[n] \in {"adopt", "install"}, InstallTables(n),
           UNCHANGED <<log, canon, live, reforming>>
    PROVE  /\ bootstrapped'[n] = 1 /\ StoreOK(n)' /\ Seeded' /\ hand[n] = NoHand
           /\ \A p \in Node : p # n =>
                UNCHANGED <<bootstrapped[p], store[p], lastApplied[p], formationWriter[p]>>
<1>1. snap[n].epoch = 1 /\ IsPrefix(snap[n].store, snap[n].seq) /\ hand[n] = NoHand
  <2>1. snap[n].epoch = 1 /\ NodeOK(n)  BY OneEpoch DEF SInv
  <2> QED  BY <2>1 DEF NodeOK, PathOK, HandOK, Locked
<1>2. snap[n].store \in Store /\ store[n] \in Store  BY DEF SInv, TypeOK, AttachOK, DiskOK
<1>3. Tables([snap[n].store EXCEPT !.dom = store[n].dom]) = Tables(snap[n].store)
  BY <1>2 DEF Tables, Store
<1>4. /\ bootstrapped'[n] = 1 /\ lastApplied'[n] = snap[n].seq
      /\ store'[n] = [snap[n].store EXCEPT !.dom = store[n].dom]
      /\ \A p \in Node : p # n =>
           UNCHANGED <<bootstrapped[p], store[p], lastApplied[p], formationWriter[p]>>
  BY <1>1 DEF InstallTables, SInv, TypeOK, DiskOK
<1>5. StoreOK(n)'  BY <1>1, <1>3, <1>4 DEF StoreOK, IsPrefix, Tables
<1>6. Seeded'  BY DEF InstallTables, SInv, Seeded
<1> QED  BY <1>1, <1>4, <1>5, <1>6

-----------------------------------------------------------------------------
(* The invariant is inductive, as long as the licensed node writes nothing  *)
(* beside a log that exists.                                                *)

SeedFrozen ==
    \A n \in Node, r \in Req : WriteDirect(n, r) => ~(IsFormationWriter(n) /\ live[epoch[n]])

LEMMA MaterializedInit == ASSUME MaxEpoch = 1 PROVE InitFormed => IInv
<1> SUFFICES ASSUME InitFormed PROVE IInv  OBVIOUS
<1>1. TypeOK /\ Epoch = {1}  BY TypeInit, OneEpoch
<1>2. log[1] = <<>> /\ canon[1] = <<FounderStore>> /\ live[1]  BY <1>1 DEF InitFormed
<1>3. Len(log[1]) = 0  BY <1>2
<1>4. Replay  BY <1>3 DEF Replay
<1>5. Settled  BY <1>2 DEF Settled, InitFormed
<1>6. ASSUME NEW n \in Node PROVE NodeOK(n)
  <2>1. HandOK(n) /\ PathOK(n)  BY DEF InitFormed, HandOK, PathOK
  <2>2. QueueOK(n)  BY DEF InitFormed, QueueOK
  <2>3. StoreOK(n)  BY <1>2, <1>3 DEF InitFormed, StoreOK, IsPrefix
  <2> QED  BY <2>1, <2>2, <2>3 DEF NodeOK
<1> QED  BY <1>1, <1>4, <1>5, <1>6 DEF IInv

LEMMA SeededStep == ASSUME MaxEpoch = 1, SeedFrozen PROVE SInv /\ Next => SInv'
<1> SUFFICES ASSUME SInv, Next PROVE SInv'  OBVIOUS
<1>a. TypeOK /\ TypeOK' /\ Replay /\ Seeded /\ \A n \in Node : NodeOK(n)
  BY TypeStep DEF SInv
<1>b. Epoch = {1} /\ 1 \in Epoch  BY <1>a, OneEpoch
<1>c. \A n \in Node : HandOK(n) /\ QueueOK(n) /\ PathOK(n) /\ StoreOK(n)  BY <1>a DEF NodeOK
<1>d. \A n \in Node : /\ epoch[n] = 1 /\ bootstrapped[n] \in {0, 1}
                      /\ pc[n] \in Locked => hand[n] = NoHand
                      /\ pc[n] # "idle" => at[n].epoch = 1
  BY <1>a, <1>c, OneEpoch DEF HandOK
<1> USE <1>a, <1>b, <1>c, <1>d DEF TypeOK
<1>1. ASSUME NEW n \in Node, NEW r \in Req, WriteDirect(n, r) PROVE SInv'
  <2>1. Replay' /\ Seeded'  BY <1>1 DEF WriteDirect, Replay, Seeded, kv, loop, attach, cloud
  <2>2. ASSUME NEW p \in Node, p # n PROVE NodeOK(p)'
    BY <1>1, <2>2, NodeUnchanged DEF WriteDirect, NodeVars, kv, loop, attach, cloud, DiskOK,
      ProcessOK, LoopOK, AttachOK
  <2>3. StoreOK(n)'
    <3>1. bootstrapped[n] = 0  BY <1>1, DirectIsUnmaterialized DEF WriteDirect
    <3>2. formationWriter[n] # 1
      BY <1>1 DEF SeedFrozen, IsFormationWriter, Seeded
    <3> QED  BY <1>1, <3>1, <3>2 DEF WriteDirect, StoreOK, kv
  <2>4. HandOK(n)' /\ QueueOK(n)' /\ PathOK(n)'  BY <1>1, PartsUnchanged DEF WriteDirect, kv,
      loop, attach, cloud
  <2> QED  BY <2>1, <2>2, <2>3, <2>4, TypeStep DEF SInv, NodeOK
<1>2. ASSUME NEW n \in Node, NEW r \in Req, WriteReadOnly(n, r) PROVE SInv'
  <2>1. Replay' /\ Seeded'  BY <1>2 DEF WriteReadOnly, Replay, Seeded, disk, loop, attach,
      cloud, kv
  <2>2. ASSUME NEW p \in Node, p # n PROVE NodeOK(p)'
    BY <1>2, <2>2, NodeUnchanged DEF WriteReadOnly, NodeVars, disk, loop, attach, cloud, kv,
      DiskOK, ProcessOK, LoopOK, AttachOK
  <2>3. HandOK(n)' /\ QueueOK(n)' /\ PathOK(n)' /\ StoreOK(n)'  BY <1>2,
      PartsUnchanged DEF WriteReadOnly, disk, loop, attach, cloud, kv
  <2> QED  BY <2>1, <2>2, <2>3, TypeStep DEF SInv, NodeOK
<1>3. ASSUME NEW n \in Node, NEW r \in Req, WritePublish(n, r) PROVE SInv'
  <2>1. Replay' /\ Seeded'  BY <1>3 DEF WritePublish, Replay, Seeded, disk, loop, attach,
      cloud, kv
  <2>2. ASSUME NEW p \in Node, p # n PROVE NodeOK(p)'
    BY <1>3, <2>2, NodeUnchanged DEF WritePublish, NodeVars, disk, loop, attach, cloud, kv,
      DiskOK, ProcessOK, LoopOK, AttachOK
  <2>3. HandOK(n)' /\ QueueOK(n)' /\ PathOK(n)' /\ StoreOK(n)'  BY <1>3,
      PartsUnchanged DEF WritePublish, disk, loop, attach, cloud, kv
  <2> QED  BY <2>1, <2>2, <2>3, TypeStep DEF SInv, NodeOK
<1>4. ASSUME NEW r \in Req, PublishAcked(r) PROVE SInv'
  <2>1. wepoch[r] = 1 /\ Stored(r)  BY <1>4, OneEpoch DEF PublishAcked
  <2>2. Grown /\ Replay'  BY <2>1, StoredGrows
  <2>3. Seeded'  BY <1>4 DEF PublishAcked, Seeded, disk, kv
  <2>4. ASSUME NEW p \in Node PROVE NodeOK(p)'
    <3>1. Len(log'[1]) \in Nat  BY DEF CloudOK
    <3>2. UNCHANGED NodeVars(p)  BY <1>4 DEF PublishAcked, NodeVars, disk, kv, loop, attach
    <3> QED  BY <2>2, <3>1, <3>2, NodeBesideGrowth
  <2> QED  BY <2>2, <2>3, <2>4 DEF SInv
<1>5. ASSUME NEW r \in Req, PublishAckLost(r) PROVE SInv'
  <2>1. wepoch[r] = 1 /\ Stored(r)  BY <1>5, OneEpoch DEF PublishAckLost
  <2>2. Grown /\ Replay'  BY <2>1, StoredGrows
  <2>3. Seeded'  BY <1>5 DEF PublishAckLost, Seeded, disk, kv
  <2>4. ASSUME NEW p \in Node PROVE NodeOK(p)'
    <3>1. Len(log'[1]) \in Nat  BY DEF CloudOK
    <3>2. UNCHANGED NodeVars(p)  BY <1>5 DEF PublishAckLost, NodeVars, disk, kv, loop, attach
    <3> QED  BY <2>2, <3>1, <3>2, NodeBesideGrowth
  <2> QED  BY <2>2, <2>3, <2>4 DEF SInv
<1>6. ASSUME NEW r \in Req, PublishFails(r) PROVE SInv'
  <2>1. Replay' /\ Seeded' /\ \A n \in Node : NodeOK(n)'
    BY <1>6, NodeUnchanged DEF PublishFails, NodeVars, Replay, Seeded, disk, loop, attach,
      cloud, kv
  <2> QED  BY <2>1, TypeStep DEF SInv
<1>7. ASSUME NEW r \in Req, WaitTimesOut(r) PROVE SInv'
  <2>1. Replay' /\ Seeded' /\ \A n \in Node : NodeOK(n)'
    BY <1>7, NodeUnchanged DEF WaitTimesOut, NodeVars, Replay, Seeded, disk, loop, attach,
      cloud, kv
  <2> QED  BY <2>1, TypeStep DEF SInv
<1>8. ASSUME NEW n \in Node, HandleDelivery(n) PROVE SInv'
  <2> DEFINE d == Delivery(n)
  <2>1. Replay' /\ Seeded'
    BY <1>8 DEF HandleDelivery, Replay, Seeded, disk, kv, cloud
  <2>2. d \in Message /\ d.epoch = 1 /\ InLog(d) /\ bootstrapped[n] = 1 /\ hand[n] = NoHand
        /\ pc[n] \notin Locked
    BY <1>8, DeliveryInLog DEF HandleDelivery, QueueOK, LockFree, LoopOK, NoHand
  <2>3. \/ UNCHANGED hand
        \/ /\ d.seq = lastApplied[n] + 1
           /\ hand' = [hand EXCEPT ![n] = [epoch |-> 1, seq |-> d.seq, req |-> d.req, step |-> "apply"]]
    <3>1. CASE Taken(n, d)
      <4>1. d.seq = lastApplied[n] + 1
        BY <2>2, <3>1 DEF Taken, SeqAction, Message, DiskOK
      <4>2. hand' = [hand EXCEPT ![n] = [epoch |-> d.epoch, seq |-> d.seq, req |-> d.req,
                        step |-> IF d.epoch # epoch[n] THEN "consume" ELSE "apply"]]
        BY <3>1 DEF Taken
      <4>3. d.epoch = 1 /\ epoch[n] = 1
        BY <2>2
      <4> HIDE DEF d
      <4> QED  BY <4>1, <4>2, <4>3
    <3>2. CASE Skipped(n, d) \/ Gap(n, d) \/ Unreadable(n, d)
      BY <3>2 DEF Skipped, Gap, Unreadable
    <3> QED  BY <1>8, <3>1, <3>2 DEF HandleDelivery, Keeps, Drops
  <2>4. HandOK(n)'
    <3>1. CASE UNCHANGED hand
      BY <1>8, <2>2, <3>1, HandAfterStep DEF HandleDelivery, disk, kv, attach, cloud
    <3>2. CASE /\ d.seq = lastApplied[n] + 1
               /\ hand' = [hand EXCEPT ![n] = [epoch |-> 1, seq |-> d.seq, req |-> d.req, step |-> "apply"]]
      BY <1>8, <2>2, <3>2 DEF HandleDelivery, HandOK, InLog, LoopOK, disk, kv, attach, cloud
    <3> QED  BY <2>3, <3>1, <3>2
  <2>5. QueueOK(n)'
    BY <1>8, <2>2 DEF HandleDelivery, QueueOK, InLog, disk, kv, cloud
  <2>6. PathOK(n)' /\ StoreOK(n)'
    BY <1>8, PartsUnchanged DEF HandleDelivery, disk, kv, attach, cloud
  <2>7. ASSUME NEW p \in Node, p # n PROVE NodeOK(p)'
    <3>1. UNCHANGED <<hand[p], sub[p], late[p], attached[p]>>
      BY <1>8, <2>3, <2>7 DEF HandleDelivery, Keeps, Drops, Skipped, Gap, Unreadable, Taken, LoopOK, ProcessOK
    <3> QED  BY <1>8, <3>1, NodeUnchanged DEF HandleDelivery, NodeVars, disk, kv, attach, cloud
  <2> QED  BY <2>1, <2>4, <2>5, <2>6, <2>7 DEF SInv, NodeOK
<1>9. ASSUME NEW n \in Node, HandleLate(n) PROVE SInv'
  <2> DEFINE d == late[n]
  <2>1. Replay' /\ Seeded'
    BY <1>9 DEF HandleLate, Replay, Seeded, disk, kv, cloud
  <2>2. d \in Message /\ d.epoch = 1 /\ InLog(d) /\ bootstrapped[n] = 1 /\ hand[n] = NoHand
        /\ pc[n] \notin Locked
    BY <1>9, OneEpoch DEF HandleLate, QueueOK, LockFree, LoopOK, NoHand, NoMsg, Message
  <2>3. \/ UNCHANGED hand
        \/ /\ d.seq = lastApplied[n] + 1
           /\ hand' = [hand EXCEPT ![n] = [epoch |-> 1, seq |-> d.seq, req |-> d.req, step |-> "apply"]]
    <3>1. CASE Taken(n, d)
      <4>1. d.seq = lastApplied[n] + 1
        BY <2>2, <3>1 DEF Taken, SeqAction, Message, DiskOK
      <4>2. hand' = [hand EXCEPT ![n] = [epoch |-> d.epoch, seq |-> d.seq, req |-> d.req,
                        step |-> IF d.epoch # epoch[n] THEN "consume" ELSE "apply"]]
        BY <3>1 DEF Taken
      <4>3. d.epoch = 1 /\ epoch[n] = 1
        BY <2>2
      <4> HIDE DEF d
      <4> QED  BY <4>1, <4>2, <4>3
    <3>2. CASE Skipped(n, d) \/ Gap(n, d) \/ Unreadable(n, d)
      BY <3>2 DEF Skipped, Gap, Unreadable
    <3> QED  BY <1>9, <3>1, <3>2 DEF HandleLate, Keeps, Drops
  <2>4. HandOK(n)'
    <3>1. CASE UNCHANGED hand
      BY <1>9, <2>2, <3>1, HandAfterStep DEF HandleLate, disk, kv, attach, cloud
    <3>2. CASE /\ d.seq = lastApplied[n] + 1
               /\ hand' = [hand EXCEPT ![n] = [epoch |-> 1, seq |-> d.seq, req |-> d.req, step |-> "apply"]]
      BY <1>9, <2>2, <3>2 DEF HandleLate, HandOK, InLog, LoopOK, disk, kv, attach, cloud
    <3> QED  BY <2>3, <3>1, <3>2
  <2>5. QueueOK(n)'
    BY <1>9, <2>2 DEF HandleLate, QueueOK, InLog, disk, kv, cloud, LoopOK
  <2>6. PathOK(n)' /\ StoreOK(n)'
    BY <1>9, PartsUnchanged DEF HandleLate, disk, kv, attach, cloud
  <2>7. ASSUME NEW p \in Node, p # n PROVE NodeOK(p)'
    <3>1. UNCHANGED <<hand[p], sub[p], late[p], attached[p]>>
      BY <1>9, <2>3, <2>7 DEF HandleLate, Keeps, Drops, Skipped, Gap, Unreadable, Taken, LoopOK, ProcessOK
    <3> QED  BY <1>9, <3>1, NodeUnchanged DEF HandleLate, NodeVars, disk, kv, attach, cloud
  <2> QED  BY <2>1, <2>4, <2>5, <2>6, <2>7 DEF SInv, NodeOK
<1>10. ASSUME NEW n \in Node, ConsumeForeign(n) PROVE SInv'
  <2>1. FALSE  BY <1>10 DEF ConsumeForeign, HandOK, NoHand
  <2> QED  BY <2>1
<1>11. ASSUME NEW n \in Node, ApplyTableOp(n) PROVE SInv'
  <2>1. Replay' /\ Seeded'  BY <1>11 DEF ApplyTableOp, Replay, Seeded, loop, attach, cloud
  <2>2. ASSUME NEW p \in Node, p # n PROVE NodeOK(p)'
    BY <1>11, <2>2, NodeUnchanged DEF ApplyTableOp, NodeVars, loop, attach, cloud, DiskOK,
      ProcessOK, LoopOK, AttachOK
  <2>3. HandOK(n)'
    BY <1>11 DEF ApplyTableOp, HandOK, LoopOK
  <2>4. StoreOK(n)'
    <3>1. hand[n] # NoHand  BY <1>11 DEF ApplyTableOp, NoHand
    <3>2. store'[n] = Applied(store[n], hand[n].req) /\ lastApplied'[n] = hand[n].seq
      BY <1>11 DEF ApplyTableOp, DiskOK
    <3> QED  BY <1>11, <3>1, <3>2, NextPrefix DEF ApplyTableOp, StoreOK, IsPrefix, Tables, cloud
  <2>5. QueueOK(n)' /\ PathOK(n)'  BY <1>11, PartsUnchanged DEF ApplyTableOp, loop, attach,
      cloud
  <2> QED  BY <2>1, <2>2, <2>3, <2>4, <2>5, TypeStep DEF SInv, NodeOK
<1>12. ASSUME NEW n \in Node, ApplyDomainOp(n) PROVE SInv'
  <2>1. Replay' /\ Seeded'  BY <1>12 DEF ApplyDomainOp, Replay, Seeded, kv, loop, attach,
      cloud, client
  <2>2. ASSUME NEW p \in Node, p # n PROVE NodeOK(p)'
    BY <1>12, <2>2, NodeUnchanged DEF ApplyDomainOp, NodeVars, kv, loop, attach, cloud, client,
      DiskOK, ProcessOK, LoopOK, AttachOK
  <2>3. HandOK(n)'
    <3>1. hand[n] # NoHand  BY <1>12 DEF ApplyDomainOp, NoHand
    <3>2. hand'[n] = [epoch |-> hand[n].epoch, seq |-> hand[n].seq, req |-> hand[n].req, step |-> "commit"]
      BY <1>12, <3>1 DEF ApplyDomainOp, LoopOK
    <3> QED  BY <1>12, <3>1, <3>2 DEF ApplyDomainOp, HandOK, InLog, kv, attach, cloud
  <2>4. StoreOK(n)'
    <3>1. hand[n] # NoHand  BY <1>12 DEF ApplyDomainOp, NoHand
    <3>2. store'[n] = Effect(store[n], hand[n].req) /\ lastApplied'[n] = lastApplied[n]
      BY <1>12 DEF ApplyDomainOp, DiskOK, kv
    <3>3. Tables(store'[n]) = Tables(store[n])
      BY <1>12, <3>1, <3>2, NextPrefix, DomainKeepsTables DEF ApplyDomainOp
    <3> QED  BY <1>12, <3>2, <3>3 DEF ApplyDomainOp, StoreOK, IsPrefix, Tables, kv, cloud
  <2>5. QueueOK(n)' /\ PathOK(n)'  BY <1>12, PartsUnchanged DEF ApplyDomainOp, kv, loop,
      attach, cloud, client
  <2> QED  BY <2>1, <2>2, <2>3, <2>4, <2>5, TypeStep DEF SInv, NodeOK
<1>13. ASSUME NEW n \in Node, CommitDomainOp(n) PROVE SInv'
  <2>1. Replay' /\ Seeded'  BY <1>13 DEF CommitDomainOp, Replay, Seeded, loop, attach, cloud
  <2>2. ASSUME NEW p \in Node, p # n PROVE NodeOK(p)'
    BY <1>13, <2>2, NodeUnchanged DEF CommitDomainOp, NodeVars, loop, attach, cloud, DiskOK,
      ProcessOK, LoopOK, AttachOK
  <2>3. HandOK(n)'
    BY <1>13 DEF CommitDomainOp, HandOK, LoopOK
  <2>4. StoreOK(n)'
    <3>1. hand[n] # NoHand  BY <1>13 DEF CommitDomainOp, NoHand
    <3>2. Tables(Applied(store[n], hand[n].req)) = Tables(store[n])
      BY <1>13, <3>1, NextPrefix, DomainKeepsTables DEF CommitDomainOp, HandOK
    <3>3. store'[n] = store[n] /\ lastApplied'[n] = hand[n].seq
      BY <1>13 DEF CommitDomainOp, DiskOK
    <3> QED  BY <1>13, <3>1, <3>2, <3>3, NextPrefix DEF CommitDomainOp, StoreOK, IsPrefix, Tables, cloud
  <2>5. QueueOK(n)' /\ PathOK(n)'  BY <1>13, PartsUnchanged DEF CommitDomainOp, loop, attach,
      cloud
  <2> QED  BY <2>1, <2>2, <2>3, <2>4, <2>5, TypeStep DEF SInv, NodeOK
<1>14. ASSUME NEW n \in Node, ProbeDetaches(n) PROVE SInv'
  <2>1. Replay' /\ Seeded'  BY <1>14 DEF ProbeDetaches, Replay, Seeded, disk, attach, cloud,
      client, kv
  <2>2. ASSUME NEW p \in Node, p # n PROVE NodeOK(p)'
    BY <1>14, <2>2, NodeUnchanged DEF ProbeDetaches, NodeVars, Detach, disk, attach, cloud,
      client, kv, DiskOK, ProcessOK, LoopOK, AttachOK
  <2>3. QueueOK(n)'
    BY <1>14, DetachQueue DEF ProbeDetaches, disk, kv, cloud
  <2>4. HandOK(n)' /\ PathOK(n)' /\ StoreOK(n)'  BY <1>14, PartsUnchanged DEF ProbeDetaches,
      Detach, disk, attach, cloud, client, kv
  <2> QED  BY <2>1, <2>2, <2>3, <2>4, TypeStep DEF SInv, NodeOK
<1>15. ASSUME NEW n \in Node, ConsumerDies(n) PROVE SInv'
  <2>1. Replay' /\ Seeded'  BY <1>15 DEF ConsumerDies, Replay, Seeded, disk, attach, cloud,
      client, kv
  <2>2. ASSUME NEW p \in Node, p # n PROVE NodeOK(p)'
    BY <1>15, <2>2, NodeUnchanged DEF ConsumerDies, NodeVars, disk, attach, cloud, client, kv,
      DiskOK, ProcessOK, LoopOK, AttachOK
  <2>3. QueueOK(n)'
    <3>1. sub[n] # NoSub  BY <1>15 DEF ConsumerDies, NoSub
    <3> QED  BY <1>15, <3>1 DEF ConsumerDies, QueueOK, InLog, disk, kv, cloud
  <2>4. HandOK(n)' /\ PathOK(n)' /\ StoreOK(n)'  BY <1>15, PartsUnchanged DEF ConsumerDies,
      disk, attach, cloud, client, kv
  <2> QED  BY <2>1, <2>2, <2>3, <2>4, TypeStep DEF SInv, NodeOK
<1>16. ASSUME NEW n \in Node, AttachFinds(n) PROVE SInv'
  <2>1. Replay' /\ Seeded'  BY <1>16 DEF AttachFinds, Replay, Seeded, disk, loop, cloud,
      client, kv
  <2>2. ASSUME NEW p \in Node, p # n PROVE NodeOK(p)'
    BY <1>16, <2>2, NodeUnchanged DEF AttachFinds, NodeVars, Step, disk, loop, cloud, client,
      kv, DiskOK, ProcessOK, LoopOK, AttachOK
  <2>3. HandOK(n)'
    BY <1>16, HandAfterStep DEF AttachFinds, Step, Locked, AttachOK, disk, loop, cloud, client, kv
  <2>4. PathOK(n)'  BY <1>16 DEF AttachFinds, PathOK, Step, AttachOK, disk, loop, cloud,
      client, kv
  <2>5. QueueOK(n)' /\ StoreOK(n)'  BY <1>16, PartsUnchanged DEF AttachFinds, Step, disk, loop,
      cloud, client, kv
  <2> QED  BY <2>1, <2>2, <2>3, <2>4, <2>5, TypeStep DEF SInv, NodeOK
<1>17. ASSUME NEW n \in Node, AttachMisses(n) PROVE SInv'
  <2>1. Replay' /\ Seeded'  BY <1>17 DEF AttachMisses, Replay, Seeded, disk, loop, cloud,
      client, kv
  <2>2. ASSUME NEW p \in Node, p # n PROVE NodeOK(p)'
    BY <1>17, <2>2, NodeUnchanged DEF AttachMisses, NodeVars, Step, disk, loop, cloud, client,
      kv, DiskOK, ProcessOK, LoopOK, AttachOK
  <2>3. HandOK(n)'
    BY <1>17, HandAfterStep DEF AttachMisses, Step, Locked, AttachOK, disk, loop, cloud, client,
      kv
  <2>4. PathOK(n)'  BY <1>17 DEF AttachMisses, PathOK, Step, AttachOK, disk, loop, cloud,
      client, kv
  <2>5. QueueOK(n)' /\ StoreOK(n)'  BY <1>17, PartsUnchanged DEF AttachMisses, Step, disk,
      loop, cloud, client, kv
  <2> QED  BY <2>1, <2>2, <2>3, <2>4, <2>5, TypeStep DEF SInv, NodeOK
<1>18. ASSUME NEW n \in Node, NEW m \in Node, AdoptAnswered(n, m) PROVE SInv'
  <2>1. Replay' /\ Seeded'  BY <1>18 DEF AdoptAnswered, Replay, Seeded, disk, loop, cloud,
      client, kv
  <2>2. ASSUME NEW p \in Node, p # n PROVE NodeOK(p)'
    BY <1>18, <2>2, NodeUnchanged DEF AdoptAnswered, NodeVars, Step, disk, loop, cloud, client,
      kv, DiskOK, ProcessOK, LoopOK, AttachOK
  <2>3. HandOK(n)'
    BY <1>18, HandAfterStep DEF AdoptAnswered, Step, Locked, AttachOK, disk, loop, cloud, client,
      kv
  <2>4. PathOK(n)'
    <3>1. CASE epoch[m] = epoch[n] /\ IsOplogBootstrapped(n)
      BY <1>18, <3>1 DEF AdoptAnswered, PathOK, Step, AttachOK, disk, kv
    <3>2. CASE ~(epoch[m] = epoch[n] /\ IsOplogBootstrapped(n))
      <4>0. epoch[m] = 1 /\ epoch[n] = 1 /\ bootstrapped[n] \in {0, 1}
        OBVIOUS
      <4>1. bootstrapped[n] = 0  BY <3>2, <4>0 DEF IsOplogBootstrapped
      <4>2. pc'[n] = "adopt" /\ snap'[n] = Snapshot(m) /\ IsPrefix(Snapshot(m).store, Snapshot(m).seq)
        BY <1>18, <3>2, SnapshotIsPrefix DEF AdoptAnswered, Step, AttachOK
      <4> QED  BY <1>18, <4>1, <4>2 DEF AdoptAnswered, PathOK, IsPrefix, Tables, disk, kv, cloud
    <3> QED  BY <3>1, <3>2
  <2>5. QueueOK(n)' /\ StoreOK(n)'  BY <1>18, PartsUnchanged DEF AdoptAnswered, Step, disk,
      loop, cloud, client, kv
  <2> QED  BY <2>1, <2>2, <2>3, <2>4, <2>5, TypeStep DEF SInv, NodeOK
<1>19. ASSUME NEW n \in Node, AdoptUnanswered(n) PROVE SInv'
  <2>1. Replay' /\ Seeded'  BY <1>19 DEF AdoptUnanswered, Replay, Seeded, disk, loop, cloud,
      client, kv
  <2>2. ASSUME NEW p \in Node, p # n PROVE NodeOK(p)'
    BY <1>19, <2>2, NodeUnchanged DEF AdoptUnanswered, NodeVars, Step, disk, loop, cloud,
      client, kv, DiskOK, ProcessOK, LoopOK, AttachOK
  <2>3. HandOK(n)'
    BY <1>19, HandAfterStep DEF AdoptUnanswered, Step, Locked, AttachOK, disk, loop, cloud,
      client, kv
  <2>4. PathOK(n)'  BY <1>19 DEF AdoptUnanswered, PathOK, Step, AttachOK, disk, loop, cloud,
      client, kv
  <2>5. QueueOK(n)' /\ StoreOK(n)'  BY <1>19, PartsUnchanged DEF AdoptUnanswered, Step, disk,
      loop, cloud, client, kv
  <2> QED  BY <2>1, <2>2, <2>3, <2>4, <2>5, TypeStep DEF SInv, NodeOK
<1>20. ASSUME NEW n \in Node, AdoptTables(n) PROVE SInv'
  <2>1. /\ bootstrapped'[n] = 1 /\ StoreOK(n)' /\ Seeded' /\ hand[n] = NoHand
        /\ \A p \in Node : p # n =>
             UNCHANGED <<bootstrapped[p], store[p], lastApplied[p], formationWriter[p]>>
    BY <1>20, InstallPrefix DEF AdoptTables, cloud
  <2>2. Replay'  BY <1>20 DEF AdoptTables, Replay, cloud
  <2>3. pc'[n] = "adopt-domains"  BY <1>20 DEF AdoptTables, Step, AttachOK
  <2>4. HandOK(n)'  BY <1>20, <2>1 DEF AdoptTables, HandOK
  <2>5. QueueOK(n)'  BY <1>20, <2>1 DEF AdoptTables, QueueOK, InLog, loop, cloud
  <2>6. PathOK(n)'  BY <2>1, <2>3 DEF PathOK
  <2>7. ASSUME NEW p \in Node, p # n PROVE NodeOK(p)'
    BY <1>20, <2>1, <2>7, NodeUnchanged DEF AdoptTables, NodeVars, Step, AttachOK, loop, cloud
  <2> QED  BY <2>1, <2>2, <2>4, <2>5, <2>6, <2>7 DEF SInv, NodeOK
<1>21. ASSUME NEW n \in Node, AdoptDomains(n) PROVE SInv'
  <2>1. Replay' /\ Seeded'  BY <1>21 DEF AdoptDomains, Replay, Seeded, kv, loop, cloud, client
  <2>2. ASSUME NEW p \in Node, p # n PROVE NodeOK(p)'
    BY <1>21, <2>2, NodeUnchanged DEF AdoptDomains, NodeVars, InstallDomains, GiveUp, Step, kv,
      loop, cloud, client, DiskOK, ProcessOK, LoopOK, AttachOK
  <2>3. HandOK(n)'
    BY <1>21, HandAfterStep DEF AdoptDomains, Step, GiveUp, Locked, AttachOK, kv, loop, cloud,
      client
  <2>4. PathOK(n)'  BY <1>21 DEF AdoptDomains, PathOK, InstallDomains, GiveUp, Step, AttachOK,
      kv, loop, cloud, client
  <2>5. StoreOK(n)'
    <3>1. Tables([store[n] EXCEPT !.dom = snap[n].store.dom]) = Tables(store[n])
      BY DEF Tables, Store, DiskOK
    <3>2. store'[n] = [store[n] EXCEPT !.dom = snap[n].store.dom]
      BY <1>21 DEF AdoptDomains, InstallDomains, DiskOK
    <3> QED  BY <1>21, <3>1, <3>2 DEF AdoptDomains, StoreOK, IsPrefix, Tables, kv, cloud
  <2>6. QueueOK(n)'  BY <1>21, PartsUnchanged DEF AdoptDomains, InstallDomains, GiveUp, Step,
      kv, loop, cloud, client
  <2> QED  BY <2>1, <2>2, <2>3, <2>4, <2>5, <2>6, TypeStep DEF SInv, NodeOK
<1>22. ASSUME NEW n \in Node, CreateWins(n) PROVE SInv'
  <2>1. pc[n] # "idle" /\ ~live[at[n].epoch]  BY <1>22 DEF CreateWins
  <2>2. at[n].epoch = 1  BY <2>1
  <2> QED  BY <2>1, <2>2 DEF Seeded
<1>23. ASSUME NEW n \in Node, CreateLoses(n) PROVE SInv'
  <2>1. Replay' /\ Seeded'  BY <1>23 DEF CreateLoses, Replay, Seeded, disk, loop, cloud,
      client, kv
  <2>2. ASSUME NEW p \in Node, p # n PROVE NodeOK(p)'
    BY <1>23, <2>2, NodeUnchanged DEF CreateLoses, NodeVars, Step, disk, loop, cloud, client,
      kv, DiskOK, ProcessOK, LoopOK, AttachOK
  <2>3. HandOK(n)'
    BY <1>23, HandAfterStep DEF CreateLoses, Step, Locked, AttachOK, disk, loop, cloud, client, kv
  <2>4. PathOK(n)'  BY <1>23 DEF CreateLoses, PathOK, Step, AttachOK, disk, loop, cloud,
      client, kv
  <2>5. QueueOK(n)' /\ StoreOK(n)'  BY <1>23, PartsUnchanged DEF CreateLoses, Step, disk, loop,
      cloud, client, kv
  <2> QED  BY <2>1, <2>2, <2>3, <2>4, <2>5, TypeStep DEF SInv, NodeOK
<1>24. ASSUME NEW n \in Node, CreateRefused(n) PROVE SInv'
  <2>1. Replay' /\ Seeded'  BY <1>24 DEF CreateRefused, Replay, Seeded, disk, loop, cloud,
      client, kv
  <2>2. ASSUME NEW p \in Node, p # n PROVE NodeOK(p)'
    BY <1>24, <2>2, NodeUnchanged DEF CreateRefused, NodeVars, GiveUp, Step, disk, loop, cloud,
      client, kv, DiskOK, ProcessOK, LoopOK, AttachOK
  <2>3. HandOK(n)'
    BY <1>24, HandAfterStep DEF CreateRefused, Step, GiveUp, Locked, AttachOK, disk, loop, cloud,
      client, kv
  <2>4. PathOK(n)'  BY <1>24 DEF CreateRefused, PathOK, GiveUp, Step, AttachOK, disk, loop,
      cloud, client, kv
  <2>5. QueueOK(n)' /\ StoreOK(n)'  BY <1>24, PartsUnchanged DEF CreateRefused, GiveUp, Step,
      disk, loop, cloud, client, kv
  <2> QED  BY <2>1, <2>2, <2>3, <2>4, <2>5, TypeStep DEF SInv, NodeOK
<1>25. ASSUME NEW n \in Node, MarkCreated(n) PROVE SInv'
  <2>1. /\ bootstrapped'[n] = 1 /\ pc'[n] = "subscribe" /\ hand[n] = NoHand
        /\ \A p \in Node : p # n => UNCHANGED <<bootstrapped[p], pc[p]>>
    BY <1>25 DEF MarkCreated, Step, LoopOK, NoHand, DiskOK, AttachOK
  <2>2. Replay' /\ Seeded'  BY <1>25 DEF MarkCreated, Replay, Seeded, cloud
  <2>3. HandOK(n)'  BY <1>25, <2>1 DEF MarkCreated, HandOK
  <2>4. QueueOK(n)'  BY <1>25, <2>1 DEF MarkCreated, QueueOK, InLog, loop, cloud
  <2>5. PathOK(n)'  BY <2>1 DEF PathOK
  <2>6. StoreOK(n)'
    <3>1. IsPrefix(store[n], lastApplied[n])  BY <1>25 DEF MarkCreated, PathOK, StoreOK
    <3> QED  BY <1>25, <3>1 DEF MarkCreated, StoreOK, IsPrefix, Tables, cloud
  <2>7. ASSUME NEW p \in Node, p # n PROVE NodeOK(p)'
    BY <1>25, <2>1, <2>7, NodeUnchanged DEF MarkCreated, NodeVars, loop, cloud
  <2> QED  BY <2>2, <2>3, <2>4, <2>5, <2>6, <2>7 DEF SInv, NodeOK
<1>26. ASSUME NEW n \in Node, CatchUp(n) PROVE SInv'
  <2>1. Replay' /\ Seeded'  BY <1>26 DEF CatchUp, Replay, Seeded, disk, loop, cloud, client,
      kv
  <2>2. ASSUME NEW p \in Node, p # n PROVE NodeOK(p)'
    BY <1>26, <2>2, NodeUnchanged DEF CatchUp, NodeVars, Step, disk, loop, cloud, client, kv,
      DiskOK, ProcessOK, LoopOK, AttachOK
  <2>3. HandOK(n)'
    BY <1>26, HandAfterStep DEF CatchUp, Step, Locked, AttachOK, NoHand, LoopOK, disk, loop,
      cloud, client, kv
  <2>4. PathOK(n)'
    <3>1. pc'[n] = "fast-forward" \/ (pc'[n] = "subscribe" /\ bootstrapped[n] = 1)
      <4>1. CASE BehindRetention(n) \/ ~IsOplogBootstrapped(n)
        BY <1>26, <4>1 DEF CatchUp, Step, AttachOK
      <4>2. CASE ~(BehindRetention(n) \/ ~IsOplogBootstrapped(n))
        <5>1. bootstrapped[n] = 1  BY <4>2 DEF IsOplogBootstrapped
        <5> QED  BY <1>26, <4>2, <5>1 DEF CatchUp, Step, AttachOK
      <4> QED  BY <4>1, <4>2
    <3> QED  BY <1>26, <3>1 DEF CatchUp, PathOK, disk, kv
  <2>5. QueueOK(n)' /\ StoreOK(n)'  BY <1>26, PartsUnchanged DEF CatchUp, Step, disk, loop,
      cloud, client, kv
  <2> QED  BY <2>1, <2>2, <2>3, <2>4, <2>5, TypeStep DEF SInv, NodeOK
<1>27. ASSUME NEW n \in Node, NEW m \in Node, FastForwardAnswered(n, m) PROVE SInv'
  <2>1. Replay' /\ Seeded'  BY <1>27 DEF FastForwardAnswered, Replay, Seeded, disk, loop,
      cloud, client, kv
  <2>2. ASSUME NEW p \in Node, p # n PROVE NodeOK(p)'
    BY <1>27, <2>2, NodeUnchanged DEF FastForwardAnswered, NodeVars, Step, disk, loop, cloud,
      client, kv, DiskOK, ProcessOK, LoopOK, AttachOK
  <2>3. HandOK(n)'
    <3>1. hand[n] = NoHand  BY <1>27 DEF FastForwardAnswered, Locked
    <3> QED  BY <1>27, <3>1, HandAfterStep DEF FastForwardAnswered, disk, loop, cloud, client, kv
  <2>4. PathOK(n)'
    <3>1. pc'[n] = "install" /\ snap'[n] = Snapshot(m) /\ IsPrefix(Snapshot(m).store, Snapshot(m).seq)
      BY <1>27, SnapshotIsPrefix DEF FastForwardAnswered, Step, AttachOK
    <3> QED  BY <1>27, <3>1 DEF FastForwardAnswered, PathOK, IsPrefix, Tables, disk, kv, cloud
  <2>5. QueueOK(n)' /\ StoreOK(n)'  BY <1>27, PartsUnchanged DEF FastForwardAnswered, Step,
      disk, loop, cloud, client, kv
  <2> QED  BY <2>1, <2>2, <2>3, <2>4, <2>5, TypeStep DEF SInv, NodeOK
<1>28. ASSUME NEW n \in Node, FastForwardUnanswered(n) PROVE SInv'
  <2>1. /\ pc[n] = "fast-forward" /\ hand[n] = NoHand
        /\ UNCHANGED <<epoch, lastApplied, formationWriter, store, loop, hand, snap, reforming, cloud>>
    BY <1>28 DEF FastForwardUnanswered, Locked
  <2>2. Replay' /\ Seeded'  BY <2>1 DEF Replay, Seeded, cloud
  <2>3. \/ /\ MaySelfSeed(n) /\ bootstrapped'[n] = 1 /\ pc'[n] = "subscribe"
        \/ /\ bootstrapped'[n] = bootstrapped[n] /\ pc'[n] = "idle"
    BY <1>28 DEF FastForwardUnanswered, GiveUp, Step, DiskOK, AttachOK
  <2>4. \A p \in Node : p # n => UNCHANGED <<bootstrapped[p], pc[p]>>
    BY <1>28 DEF FastForwardUnanswered, GiveUp, Step, DiskOK, AttachOK
  <2>5. HandOK(n)'  BY <2>1 DEF HandOK, loop
  <2>6. QueueOK(n)'  BY <2>1, <2>3 DEF QueueOK, InLog, loop, cloud
  <2>7. PathOK(n)'  BY <2>3 DEF PathOK
  <2>8. StoreOK(n)'
    <3>1. MaySelfSeed(n) => IsPrefix(store[n], lastApplied[n])
      BY DEF MaySelfSeed, IsFormationWriter, StoreOK
    <3> QED  BY <2>1, <2>3, <3>1 DEF StoreOK, IsPrefix, Tables, cloud
  <2>9. ASSUME NEW p \in Node, p # n PROVE NodeOK(p)'
    BY <2>1, <2>4, <2>9, NodeUnchanged DEF NodeVars, loop, cloud
  <2> QED  BY <2>2, <2>5, <2>6, <2>7, <2>8, <2>9 DEF SInv, NodeOK
<1>29. ASSUME NEW n \in Node, FastForwardTables(n) PROVE SInv'
  <2>1. /\ bootstrapped'[n] = 1 /\ StoreOK(n)' /\ Seeded' /\ hand[n] = NoHand
        /\ \A p \in Node : p # n =>
             UNCHANGED <<bootstrapped[p], store[p], lastApplied[p], formationWriter[p]>>
    BY <1>29, InstallPrefix DEF FastForwardTables, cloud
  <2>2. Replay'  BY <1>29 DEF FastForwardTables, Replay, cloud
  <2>3. pc'[n] = "install-domains"  BY <1>29 DEF FastForwardTables, Step, AttachOK
  <2>4. HandOK(n)'  BY <1>29, <2>1 DEF FastForwardTables, HandOK
  <2>5. QueueOK(n)'  BY <1>29, <2>1 DEF FastForwardTables, QueueOK, InLog, loop, cloud
  <2>6. PathOK(n)'  BY <2>1, <2>3 DEF PathOK
  <2>7. ASSUME NEW p \in Node, p # n PROVE NodeOK(p)'
    BY <1>29, <2>1, <2>7, NodeUnchanged DEF FastForwardTables, NodeVars, Step, AttachOK, loop, cloud
  <2> QED  BY <2>1, <2>2, <2>4, <2>5, <2>6, <2>7 DEF SInv, NodeOK
<1>30. ASSUME NEW n \in Node, FastForwardDomains(n) PROVE SInv'
  <2>1. Replay' /\ Seeded'  BY <1>30 DEF FastForwardDomains, Replay, Seeded, kv, loop, cloud,
      client
  <2>2. ASSUME NEW p \in Node, p # n PROVE NodeOK(p)'
    BY <1>30, <2>2, NodeUnchanged DEF FastForwardDomains, NodeVars, InstallDomains, GiveUp,
      Step, kv, loop, cloud, client, DiskOK, ProcessOK, LoopOK, AttachOK
  <2>3. HandOK(n)'
    <3>1. hand[n] = NoHand  BY <1>30 DEF FastForwardDomains, Locked
    <3> QED  BY <1>30, <3>1, HandAfterStep DEF FastForwardDomains, kv, loop, cloud, client
  <2>4. PathOK(n)'  BY <1>30 DEF FastForwardDomains, PathOK, InstallDomains, GiveUp, Step,
      AttachOK, kv, loop, cloud, client
  <2>5. StoreOK(n)'
    <3>1. Tables([store[n] EXCEPT !.dom = snap[n].store.dom]) = Tables(store[n])
      BY DEF Tables, Store, DiskOK
    <3>2. store'[n] = [store[n] EXCEPT !.dom = snap[n].store.dom]
      BY <1>30 DEF FastForwardDomains, InstallDomains, DiskOK
    <3> QED  BY <1>30, <3>1, <3>2 DEF FastForwardDomains, StoreOK, IsPrefix, Tables, kv, cloud
  <2>6. QueueOK(n)'  BY <1>30, PartsUnchanged DEF FastForwardDomains, InstallDomains, GiveUp,
      Step, kv, loop, cloud, client
  <2> QED  BY <2>1, <2>2, <2>3, <2>4, <2>5, <2>6, TypeStep DEF SInv, NodeOK
<1>31. ASSUME NEW n \in Node, Subscribe(n) PROVE SInv'
  <2>1. Replay' /\ Seeded'  BY <1>31 DEF Subscribe, Replay, Seeded, disk, cloud, client, kv
  <2>2. ASSUME NEW p \in Node, p # n PROVE NodeOK(p)'
    BY <1>31, <2>2, NodeUnchanged DEF Subscribe, NodeVars, Step, disk, cloud, client, kv,
      DiskOK, ProcessOK, LoopOK, AttachOK
  <2>3. HandOK(n)'
    <3>1. hand[n] = NoHand  BY <1>31 DEF Subscribe, Locked
    <3> QED  BY <1>31, <3>1, HandAfterStep DEF Subscribe, disk, cloud, client, kv
  <2>4. QueueOK(n)'
    BY <1>31 DEF Subscribe, QueueOK, PathOK, InLog, disk, kv, cloud
  <2>5. PathOK(n)'  BY <1>31 DEF Subscribe, PathOK, Step, AttachOK, disk, cloud, client, kv
  <2>6. StoreOK(n)'  BY <1>31, PartsUnchanged DEF Subscribe, Step, disk, cloud, client, kv
  <2> QED  BY <2>1, <2>2, <2>3, <2>4, <2>5, <2>6, TypeStep DEF SInv, NodeOK
<1>32. ASSUME NEW n \in Node, SubscribeFails(n) PROVE SInv'
  <2>1. Replay' /\ Seeded'  BY <1>32 DEF SubscribeFails, Replay, Seeded, disk, loop, cloud,
      client, kv
  <2>2. ASSUME NEW p \in Node, p # n PROVE NodeOK(p)'
    BY <1>32, <2>2, NodeUnchanged DEF SubscribeFails, NodeVars, GiveUp, Step, disk, loop,
      cloud, client, kv, DiskOK, ProcessOK, LoopOK, AttachOK
  <2>3. HandOK(n)'
    BY <1>32, HandAfterStep DEF SubscribeFails, Step, GiveUp, Locked, AttachOK, disk, loop,
      cloud, client, kv
  <2>4. PathOK(n)'  BY <1>32 DEF SubscribeFails, PathOK, GiveUp, Step, AttachOK, disk, loop,
      cloud, client, kv
  <2>5. QueueOK(n)' /\ StoreOK(n)'  BY <1>32, PartsUnchanged DEF SubscribeFails, GiveUp, Step,
      disk, loop, cloud, client, kv
  <2> QED  BY <2>1, <2>2, <2>3, <2>4, <2>5, TypeStep DEF SInv, NodeOK
<1>33. ASSUME NEW n \in Node, Latch(n) PROVE SInv'
  <2>1. Replay' /\ Seeded'  BY <1>33 DEF Latch, Replay, Seeded, cloud, client
  <2>2. ASSUME NEW p \in Node, p # n PROVE NodeOK(p)'
    BY <1>33, <2>2, NodeUnchanged DEF Latch, NodeVars, Step, cloud, client, DiskOK, ProcessOK,
      LoopOK, AttachOK
  <2>3. HandOK(n)'
    BY <1>33, HandAfterStep DEF Latch, Step, Locked, AttachOK, cloud, client
  <2>4. QueueOK(n)'
    BY <1>33 DEF Latch, QueueOK, PathOK, InLog, cloud
  <2>5. PathOK(n)'
    <3>1. pc'[n] = "idle"  BY <1>33 DEF Latch, Step, AttachOK
    <3> QED  BY <3>1 DEF PathOK
  <2>6. StoreOK(n)'
    <3>1. IsPrefix(store[n], lastApplied[n])  BY <1>33 DEF Latch, PathOK, StoreOK
    <3> QED  BY <1>33, <3>1 DEF Latch, StoreOK, IsPrefix, Tables, cloud
  <2> QED  BY <2>1, <2>2, <2>3, <2>4, <2>5, <2>6, TypeStep DEF SInv, NodeOK
<1>34. ASSUME NEW n \in Node, RestartNebula(n) PROVE SInv'
  <2>1. Replay' /\ Seeded'  BY <1>34 DEF RestartNebula, Replay, Seeded, disk, attach, cloud,
      client, kv
  <2>2. ASSUME NEW p \in Node, p # n PROVE NodeOK(p)'
    BY <1>34, <2>2, NodeUnchanged DEF RestartNebula, NodeVars, Detach, disk, attach, cloud,
      client, kv, DiskOK, ProcessOK, LoopOK, AttachOK
  <2>3. QueueOK(n)'
    BY <1>34, DetachQueue DEF RestartNebula, disk, kv, cloud
  <2>4. HandOK(n)' /\ PathOK(n)' /\ StoreOK(n)'  BY <1>34, PartsUnchanged DEF RestartNebula,
      Detach, disk, attach, cloud, client, kv
  <2> QED  BY <2>1, <2>2, <2>3, <2>4, TypeStep DEF SInv, NodeOK
<1>35. ASSUME NEW n \in Node, StartNebula(n) PROVE SInv'
  <2>1. Replay' /\ Seeded'  BY <1>35 DEF StartNebula, Replay, Seeded, disk, loop, attach,
      cloud, client, kv
  <2>2. ASSUME NEW p \in Node, p # n PROVE NodeOK(p)'
    BY <1>35, <2>2, NodeUnchanged DEF StartNebula, NodeVars, disk, loop, attach, cloud, client,
      kv, DiskOK, ProcessOK, LoopOK, AttachOK
  <2>3. HandOK(n)' /\ QueueOK(n)' /\ PathOK(n)' /\ StoreOK(n)'  BY <1>35,
      PartsUnchanged DEF StartNebula, disk, loop, attach, cloud, client, kv
  <2> QED  BY <2>1, <2>2, <2>3, TypeStep DEF SInv, NodeOK
<1>36. ASSUME NEW n \in Node, StartOplogApply(n) PROVE SInv'
  <2>1. Replay' /\ Seeded'  BY <1>36 DEF StartOplogApply, Replay, Seeded, disk, loop, attach,
      cloud, client, kv
  <2>2. ASSUME NEW p \in Node, p # n PROVE NodeOK(p)'
    BY <1>36, <2>2, NodeUnchanged DEF StartOplogApply, NodeVars, disk, loop, attach, cloud,
      client, kv, DiskOK, ProcessOK, LoopOK, AttachOK
  <2>3. HandOK(n)' /\ QueueOK(n)' /\ PathOK(n)' /\ StoreOK(n)'  BY <1>36,
      PartsUnchanged DEF StartOplogApply, disk, loop, attach, cloud, client, kv
  <2> QED  BY <2>1, <2>2, <2>3, TypeStep DEF SInv, NodeOK
<1>37. ASSUME NEW n \in Node, Crash(n) PROVE SInv'
  <2>1. Replay' /\ Seeded'  BY <1>37 DEF Crash, Replay, Seeded, disk, kv, cloud, ProcessOK
  <2>2. /\ pc'[n] = "idle" /\ hand'[n] = NoHand /\ sub'[n] = NoSub /\ late'[n] = NoMsg
        /\ attached'[n] = FALSE
        /\ \A p \in Node : p # n => UNCHANGED <<pc[p], hand[p], sub[p], late[p], attached[p], snap[p]>>
    BY <1>37 DEF Crash, ProcessOK, LoopOK, AttachOK
  <2>3. HandOK(n)' /\ QueueOK(n)' /\ PathOK(n)'
    BY <2>2 DEF HandOK, QueueOK, PathOK
  <2>4. StoreOK(n)'  BY <1>37, PartsUnchanged DEF Crash, disk, kv, cloud
  <2>5. ASSUME NEW p \in Node, p # n PROVE NodeOK(p)'
    BY <1>37, <2>2, <2>5, NodeUnchanged DEF Crash, NodeVars, disk, kv, cloud
  <2> QED  BY <2>1, <2>3, <2>4, <2>5 DEF SInv, NodeOK
<1>38. ASSUME NEW n \in Node, StartProcess(n) PROVE SInv'
  <2>1. Replay' /\ Seeded'  BY <1>38 DEF StartProcess, Replay, Seeded, disk, loop, attach,
      cloud, client, kv
  <2>2. ASSUME NEW p \in Node, p # n PROVE NodeOK(p)'
    BY <1>38, <2>2, NodeUnchanged DEF StartProcess, NodeVars, disk, loop, attach, cloud,
      client, kv, DiskOK, ProcessOK, LoopOK, AttachOK
  <2>3. HandOK(n)' /\ QueueOK(n)' /\ PathOK(n)' /\ StoreOK(n)'  BY <1>38,
      PartsUnchanged DEF StartProcess, disk, loop, attach, cloud, client, kv
  <2> QED  BY <2>1, <2>2, <2>3, TypeStep DEF SInv, NodeOK
<1>39. ASSUME NEW n \in Node, ReformOplogEpoch(n) PROVE SInv'
  <2>1. FALSE  BY <1>39 DEF ReformOplogEpoch, DiskOK
  <2> QED  BY <2>1
<1>40. ASSUME NEW n \in Node, ReformCleanUp(n) PROVE SInv'
  <2>1. FALSE  BY <1>40 DEF ReformCleanUp, Seeded
  <2> QED  BY <2>1
<1>41. ASSUME NEW e \in Epoch, StreamLost(e) PROVE SInv'
  <2>1. FALSE  BY <1>41 DEF StreamLost, DiskOK
  <2> QED  BY <2>1
<1> QED  BY <1>1, <1>2, <1>3, <1>4, <1>5, <1>6, <1>7, <1>8, <1>9, <1>10, <1>11, <1>12, <1>13,
  <1>14, <1>15, <1>16, <1>17, <1>18, <1>19, <1>20, <1>21, <1>22, <1>23, <1>24, <1>25, <1>26,
  <1>27, <1>28, <1>29, <1>30, <1>31, <1>32, <1>33, <1>34, <1>35, <1>36, <1>37, <1>38, <1>39,
  <1>40, <1>41
  DEF Next, NodeStep, WriteStep, ApplyStep, AdoptStep, CreateStep, AttachStep, LifeStep, RequestStep

LEMMA SeededStutter == SInv /\ UNCHANGED vars => SInv'
<1> SUFFICES ASSUME SInv, UNCHANGED vars PROVE SInv'  OBVIOUS
<1>1. TypeOK'  BY TypeStutter DEF SInv
<1>2. Replay' /\ Seeded'
  BY DEF SInv, Replay, Seeded, vars, disk, kv, cloud
<1>3. ASSUME NEW n \in Node PROVE NodeOK(n)'
  BY NodeUnchanged DEF SInv, NodeVars, vars, disk, kv, loop, attach, cloud
<1> QED  BY <1>1, <1>2, <1>3 DEF SInv

(* What the invariant is for. *)
LEMMA SeededMaterialized == ASSUME MaxEpoch = 1 PROVE SInv => Materialized
<1> SUFFICES ASSUME SInv PROVE Materialized  OBVIOUS
<1>1. \A n \in Node : epoch[n] = 1 /\ StoreOK(n)
  BY OneEpoch DEF SInv, NodeOK
<1> QED  BY <1>1 DEF Materialized, IsOplogBootstrapped, StoreOK, IsPrefix

-----------------------------------------------------------------------------
(* Once formation is over nobody has a licence any more, so nobody writes   *)
(* beside the log.                                                          *)

LEMMA SettledIsSeeded ==
    /\ IInv => SInv
    /\ SInv /\ (\A n \in Node : formationWriter[n] = 0) => IInv
  BY DEF IInv, SInv, Settled, Seeded

(* Only a force-reform gives a licence. *)
LEMMA NoLicenceGiven ==
    ASSUME MaxEpoch = 1, TypeOK, Next, NEW n \in Node, formationWriter[n] = 0
    PROVE  formationWriter'[n] = 0
<1>1. ASSUME NEW p \in Node, NodeStep(p) PROVE formationWriter'[n] = 0
  <2>1. CASE WriteStep(p)
    BY <2>1 DEF WriteStep, WriteDirect, WriteReadOnly, WritePublish, disk, kv
  <2>2. CASE ApplyStep(p)
    BY <2>2 DEF ApplyStep, HandleDelivery, HandleLate, ConsumeForeign, ApplyTableOp, ApplyDomainOp,
      CommitDomainOp, disk, kv
  <2>3. CASE AdoptStep(p)
    BY <2>3 DEF AdoptStep, AttachMisses, AdoptUnanswered, AdoptAnswered, AdoptTables, AdoptDomains,
      InstallTables, disk, kv
  <2>4. CASE CreateStep(p)
    BY <2>4 DEF CreateStep, CreateWins, CreateLoses, CreateRefused, MarkCreated, disk, kv
  <2>5. CASE AttachStep(p)
    BY <2>5 DEF AttachStep, AttachFinds, CatchUp, FastForwardAnswered, FastForwardUnanswered,
      FastForwardTables, FastForwardDomains, Subscribe, SubscribeFails, Latch, InstallTables,
      disk, kv, TypeOK, DiskOK
  <2>6. CASE LifeStep(p)
    <3>1. ~ReformOplogEpoch(p)  BY OneEpoch DEF ReformOplogEpoch
    <3> QED
      BY <2>6, <3>1 DEF LifeStep, ProbeDetaches, ConsumerDies, RestartNebula, StartNebula,
        StartOplogApply, Crash, StartProcess, ReformCleanUp, disk, kv
  <2> QED  BY <1>1, <2>1, <2>2, <2>3, <2>4, <2>5, <2>6 DEF NodeStep
<1>2. ASSUME NEW r \in Req, RequestStep(r) PROVE formationWriter'[n] = 0
  BY <1>2 DEF RequestStep, PublishAcked, PublishAckLost, PublishFails, WaitTimesOut, disk, kv
<1>3. ASSUME NEW e \in Epoch, StreamLost(e) PROVE formationWriter'[n] = 0
  BY <1>3 DEF StreamLost, disk, kv
<1> QED  BY <1>1, <1>2, <1>3 DEF Next

LEMMA MaterializedStep == ASSUME MaxEpoch = 1 PROVE IInv /\ Next => IInv'
<1> SUFFICES ASSUME IInv, Next PROVE IInv'  OBVIOUS
<1>1. SInv /\ TypeOK /\ \A n \in Node : formationWriter[n] = 0 /\ epoch[n] = 1
  BY SettledIsSeeded, OneEpoch DEF IInv, Settled
<1>2. SeedFrozen  BY <1>1 DEF SeedFrozen, IsFormationWriter
<1>3. SInv'  BY <1>1, <1>2, SeededStep
<1>4. \A n \in Node : formationWriter'[n] = 0  BY <1>1, NoLicenceGiven
<1> QED  BY <1>3, <1>4 DEF IInv, SInv, Settled, Seeded

LEMMA MaterializedStutter == IInv /\ UNCHANGED vars => IInv'
<1> SUFFICES ASSUME IInv, UNCHANGED vars PROVE IInv'  OBVIOUS
<1>1. SInv'  BY SettledIsSeeded, SeededStutter
<1>2. \A n \in Node : formationWriter'[n] = 0  BY DEF IInv, Settled, vars, disk, kv
<1> QED  BY <1>1, <1>2 DEF IInv, SInv, Settled, Seeded

(* Once formation is over and as long as nobody re-forms the constellation, *)
(* a node that holds the state of the epoch holds exactly the tables the    *)
(* log produces up to its position: through crashes, restarts, redelivered  *)
(* and lost entries, gaps and snapshots, however many nodes and writes.     *)
THEOREM FormedMaterialized == ASSUME MaxEpoch = 1 PROVE FormedSpec => []Materialized
<1>1. InitFormed => IInv  BY MaterializedInit
<1>2. IInv /\ [Next]_vars => IInv'  BY MaterializedStep, MaterializedStutter
<1>3. IInv => Materialized  BY SettledIsSeeded, SeededMaterialized
<1> QED  BY <1>1, <1>2, <1>3, PTL DEF FormedSpec

-----------------------------------------------------------------------------
(* Formation, from the founding on.                                         *)

(* What the seed has to wait for.  The INVARIANT of oplogSnapshotRouter     *)
(* (oplog_snapshot.go:77-86): nobody is given a snapshot before the log     *)
(* exists.  The licence ends with the log (oplog.go:170-173): the licensed  *)
(* node writes nothing beside it.  And the deferral of createOplogStream    *)
(* (oplog.go:393-458) is long enough: whoever creates the log is licensed.  *)
(* The code aims at all three and ensures none: without any one of them TLC *)
(* finds a behaviour after which two stores differ for good.                *)
SeedsInOrder ==
    /\ \A m, n \in Node : AdoptAnswered(n, m) => live[epoch[m]]
    /\ SeedFrozen
    /\ \A n \in Node : CreateWins(n) => IsFormationWriter(n)

(* Before the log exists nobody has anything of it, and only the founder    *)
(* may write and create it.                                                 *)
UnseededNode(n) ==
    /\ ~reforming[n] /\ bootstrapped[n] = 0 /\ lastApplied[n] = 0 /\ ~attached[n]
    /\ formationWriter[n] = 1 => n = Founder
    /\ pc[n] \in {"idle", "ask", "create"}
    /\ hand[n] = NoHand /\ sub[n] = NoSub /\ late[n] = NoMsg

Unseeded == TypeOK /\ ~live[1] /\ log[1] = <<>> /\ \A n \in Node : UnseededNode(n)

LEMMA UnseededInit == ASSUME MaxEpoch = 1 PROVE Init => Unseeded
<1> SUFFICES ASSUME Init PROVE Unseeded  OBVIOUS
<1>1. TypeOK /\ Epoch = {1}  BY TypeInit, OneEpoch
<1>2. ~live[1] /\ log[1] = <<>>  BY <1>1 DEF Init
<1>3. ASSUME NEW n \in Node PROVE UnseededNode(n)  BY DEF Init, UnseededNode
<1> QED  BY <1>1, <1>2, <1>3 DEF Unseeded

(* The variables a node's part speaks of. *)
FormationVars == <<reforming, bootstrapped, lastApplied, attached, formationWriter, hand, sub, late,
                   live, log>>

(* An action that leaves the disk markers, the loop and JetStream alone     *)
(* keeps the formation going, wherever on its way to the log it takes n.    *)
LEMMA UnseededKept ==
    ASSUME Unseeded, TypeOK', NEW n \in Node, UNCHANGED FormationVars,
           pc'[n] \in {"idle", "ask", "create"}, \A p \in Node : p # n => pc'[p] = pc[p]
    PROVE  Unseeded'
<1>1. ~live'[1] /\ log'[1] = <<>>  BY DEF Unseeded, FormationVars
<1>2. ASSUME NEW p \in Node PROVE UnseededNode(p)'
  BY DEF Unseeded, UnseededNode, FormationVars
<1> QED  BY <1>1, <1>2 DEF Unseeded

(* The creation of the log makes the creator's store its seed. *)
LEMMA CreationSeeds ==
    ASSUME MaxEpoch = 1, Unseeded, TypeOK', NEW n \in Node, CreateWins(n), IsFormationWriter(n)
    PROVE  SInv'
<1>1. /\ epoch[n] = 1 /\ formationWriter[n] = 1 /\ at[n].epoch = 1 /\ 1 \in Epoch
      /\ Epoch = {1} /\ \A p \in Node : UnseededNode(p)
  BY OneEpoch DEF Unseeded, CreateWins, IsFormationWriter
<1>2. live'[1] /\ log'[1] = <<>> /\ canon'[1] = <<store[n]>>
  BY <1>1 DEF CreateWins, Unseeded, TypeOK, CloudOK
<1>3. Len(log'[1]) = 0 /\ canon'[1][0 + 1] = store[n]  BY <1>2
<1>4. Replay'  BY <1>3 DEF Replay
<1>5. Seeded'  BY <1>1, <1>2 DEF CreateWins, Seeded, UnseededNode
<1>6. /\ UNCHANGED <<bootstrapped, lastApplied, formationWriter, store, hand, sub, late, attached>>
      /\ pc'[n] = "created" /\ \A p \in Node : p # n => pc'[p] = pc[p]
  BY DEF CreateWins, Step, disk, kv, loop, Unseeded, TypeOK, AttachOK
<1>7. ASSUME NEW p \in Node PROVE NodeOK(p)'
  <2>1. HandOK(p)' /\ QueueOK(p)'  BY <1>1, <1>6 DEF HandOK, QueueOK, UnseededNode
  <2>2. PathOK(p)'  BY <1>1, <1>6 DEF PathOK, UnseededNode
  <2>3. StoreOK(p)'
    <3>1. CASE p = n
      BY <1>1, <1>3, <1>6, <3>1 DEF StoreOK, IsPrefix, UnseededNode, Tables
    <3>2. CASE p # n
      BY <1>1, <1>6, <3>2 DEF StoreOK, UnseededNode
    <3> QED  BY <3>1, <3>2
  <2> QED  BY <2>1, <2>2, <2>3 DEF NodeOK
<1> QED  BY <1>4, <1>5, <1>7 DEF SInv

(* Formation goes on until the log is created. *)
LEMMA UnseededStep ==
    ASSUME MaxEpoch = 1, Unseeded, Next, SeedsInOrder
    PROVE  Unseeded' \/ SInv'
<1>a. TypeOK /\ TypeOK' /\ ~live[1] /\ log[1] = <<>> /\ Epoch = {1}
  BY TypeStep, OneEpoch DEF Unseeded
<1>b. \A n \in Node : /\ UnseededNode(n) /\ epoch[n] = 1 /\ (pc[n] # "idle" => at[n].epoch = 1)
                      /\ hand[n].step = "none" /\ sub[n].epoch = 0 /\ late[n].epoch = 0
                      /\ pc[n] \in {"idle", "ask", "create"}
  BY <1>a, OneEpoch DEF Unseeded, UnseededNode, NoHand, NoSub, NoMsg
<1> USE <1>a, <1>b
<1>1. ASSUME NEW n \in Node, WriteStep(n) PROVE Unseeded'
  <2>1. PICK r \in Req : WriteDirect(n, r) \/ WriteReadOnly(n, r) \/ WritePublish(n, r)
    BY <1>1 DEF WriteStep
  <2>2. UNCHANGED FormationVars /\ UNCHANGED pc
    BY <2>1 DEF WriteDirect, WriteReadOnly, WritePublish, FormationVars, disk, kv, loop, attach, cloud
  <2> QED  BY <2>2, UnseededKept
<1>2. ASSUME NEW n \in Node, ApplyStep(n) PROVE FALSE
  BY <1>2 DEF ApplyStep, HandleDelivery, HandleLate, ConsumeForeign, ApplyTableOp, ApplyDomainOp,
    CommitDomainOp, Deliverable
<1>3. ASSUME NEW n \in Node, AdoptStep(n) PROVE Unseeded'
  <2>1. \A m \in Node : ~AdoptAnswered(n, m)  BY DEF SeedsInOrder
  <2>2. AttachMisses(n) \/ AdoptUnanswered(n)
    BY <1>3, <2>1 DEF AdoptStep, AdoptTables, AdoptDomains
  <2>3. UNCHANGED FormationVars
    BY <2>2 DEF AttachMisses, AdoptUnanswered, FormationVars, disk, kv, loop, cloud
  <2>4. pc'[n] \in {"ask", "create"} /\ \A p \in Node : p # n => pc'[p] = pc[p]
    BY <2>2 DEF AttachMisses, AdoptUnanswered, Step, TypeOK, AttachOK
  <2> QED  BY <2>3, <2>4, UnseededKept
<1>4. ASSUME NEW n \in Node, CreateStep(n) PROVE Unseeded' \/ SInv'
  <2>1. CASE CreateWins(n)  BY <2>1, CreationSeeds DEF SeedsInOrder
  <2>2. CASE CreateRefused(n)
    <3>1. UNCHANGED FormationVars
      BY <2>2 DEF CreateRefused, FormationVars, disk, kv, loop, cloud
    <3>2. pc'[n] = "idle" /\ \A p \in Node : p # n => pc'[p] = pc[p]
      BY <2>2 DEF CreateRefused, GiveUp, Step, TypeOK, AttachOK
    <3> QED  BY <3>1, <3>2, UnseededKept
  <2> QED  BY <1>4, <2>1, <2>2 DEF CreateStep, CreateLoses, MarkCreated
<1>5. ASSUME NEW n \in Node, AttachStep(n) PROVE FALSE
  BY <1>5 DEF AttachStep, AttachFinds, CatchUp, FastForwardAnswered, FastForwardUnanswered,
    FastForwardTables, FastForwardDomains, Subscribe, SubscribeFails, Latch
<1>6. ASSUME NEW n \in Node, LifeStep(n) PROVE Unseeded'
  <2>1. ~ProbeDetaches(n) /\ ~ConsumerDies(n) /\ ~ReformOplogEpoch(n) /\ ~ReformCleanUp(n)
    BY DEF ProbeDetaches, ConsumerDies, ReformOplogEpoch, ReformCleanUp, UnseededNode
  <2>2. CASE StartNebula(n) \/ StartOplogApply(n) \/ StartProcess(n)
    <3>1. UNCHANGED FormationVars /\ UNCHANGED pc
      BY <2>2 DEF StartNebula, StartOplogApply, StartProcess, FormationVars, disk, kv, loop, attach, cloud
    <3> QED  BY <3>1, UnseededKept
  <2>3. CASE RestartNebula(n)
    <3>1. Stragglers(n) = {NoMsg}  BY DEF Stragglers, Deliverable, UnseededNode
    <3>2. sub'[n] = NoSub /\ late'[n] = NoMsg /\ attached'[n] = FALSE
          /\ \A p \in Node : p # n => UNCHANGED <<sub[p], late[p], attached[p]>>
      BY <2>3, <3>1 DEF RestartNebula, Detach, TypeOK, LoopOK, ProcessOK
    <3>3. UNCHANGED <<reforming, bootstrapped, lastApplied, formationWriter, hand, live, log, pc>>
      BY <2>3 DEF RestartNebula, disk, kv, attach, cloud
    <3>4. ASSUME NEW p \in Node PROVE UnseededNode(p)'  BY <3>2, <3>3 DEF UnseededNode
    <3> QED  BY <3>3, <3>4 DEF Unseeded
  <2>4. CASE Crash(n)
    <3>1. /\ sub'[n] = NoSub /\ late'[n] = NoMsg /\ attached'[n] = FALSE /\ hand'[n] = NoHand
          /\ pc'[n] = "idle" /\ reforming'[n] = FALSE
          /\ \A p \in Node : p # n =>
               UNCHANGED <<sub[p], late[p], attached[p], hand[p], pc[p], reforming[p]>>
      BY <2>4 DEF Crash, TypeOK, LoopOK, ProcessOK, AttachOK
    <3>2. UNCHANGED <<bootstrapped, lastApplied, formationWriter, live, log>>
      BY <2>4 DEF Crash, disk, kv, cloud
    <3>3. ASSUME NEW p \in Node PROVE UnseededNode(p)'  BY <3>1, <3>2 DEF UnseededNode
    <3> QED  BY <3>2, <3>3 DEF Unseeded
  <2> QED  BY <1>6, <2>1, <2>2, <2>3, <2>4 DEF LifeStep
<1>7. ASSUME NEW r \in Req, RequestStep(r) PROVE Unseeded'
  <2>1. wst[r] = "publishing" => wepoch[r] = 1  BY OneEpoch
  <2>2. PublishFails(r) \/ WaitTimesOut(r)
    BY <1>7, <2>1 DEF RequestStep, PublishAcked, PublishAckLost
  <2>3. UNCHANGED FormationVars /\ UNCHANGED pc
    BY <2>2 DEF PublishFails, WaitTimesOut, FormationVars, disk, kv, loop, attach, cloud
  <2> QED  BY <2>3, RoleAssumption, UnseededKept
<1>8. ASSUME NEW e \in Epoch, StreamLost(e) PROVE FALSE
  BY <1>8 DEF StreamLost
<1> QED  BY <1>1, <1>2, <1>3, <1>4, <1>5, <1>6, <1>7, <1>8 DEF Next, NodeStep

LEMMA UnseededStutter == Unseeded /\ UNCHANGED vars => Unseeded'
<1> SUFFICES ASSUME Unseeded, UNCHANGED vars PROVE Unseeded'  OBVIOUS
<1>1. TypeOK'  BY TypeStutter DEF Unseeded
<1> QED  BY <1>1 DEF Unseeded, UnseededNode, vars, disk, kv, loop, attach, cloud

(* From the founding on the formation is under way or the log is seeded.     *)
LEMMA FormationKept ==
    ASSUME MaxEpoch = 1
    PROVE  /\ Init => Unseeded \/ SInv
           /\ (Unseeded \/ SInv) /\ [Next]_vars /\ [SeedsInOrder]_vars => (Unseeded \/ SInv)'
<1>1. Init => Unseeded \/ SInv  BY UnseededInit
<1>2. (Unseeded \/ SInv) /\ [Next]_vars /\ [SeedsInOrder]_vars => (Unseeded \/ SInv)'
  <2>1. CASE Unseeded /\ Next /\ SeedsInOrder  BY <2>1, UnseededStep
  <2>2. CASE SInv /\ Next /\ SeedsInOrder  BY <2>2, SeededStep DEF SeedsInOrder
  <2>3. CASE UNCHANGED vars  BY <2>3, UnseededStutter, SeededStutter
  <2> QED  BY <2>1, <2>2, <2>3
<1> QED  BY <1>1, <1>2

(* From the founding of a constellation on, as long as its seed is in order *)
(* and nobody re-forms it: whoever holds the state of the epoch holds       *)
(* exactly the tables the log produces up to its position.                  *)
THEOREM FormationMaterialized ==
    ASSUME MaxEpoch = 1
    PROVE  Spec /\ [][SeedsInOrder]_vars => []Materialized
<1>1. /\ Init => Unseeded \/ SInv
      /\ (Unseeded \/ SInv) /\ [Next]_vars /\ [SeedsInOrder]_vars => (Unseeded \/ SInv)'
  BY FormationKept
<1>2. Unseeded \/ SInv => Materialized
  <2>1. Unseeded => Materialized
    BY OneEpoch DEF Unseeded, UnseededNode, Materialized, IsOplogBootstrapped
  <2> QED  BY <2>1, SeededMaterialized
<1> QED  BY <1>1, <1>2, PTL DEF Spec

(* Whoever holds the same position of the same epoch holds the same tables, *)
(* in a formed constellation and, its seed in order, from the founding on:  *)
(* what goes wrong without that order cannot go wrong with it.              *)
THEOREM FormationAgrees ==
    ASSUME MaxEpoch = 1
    PROVE  /\ FormedSpec => []ReplicasAgree
           /\ Spec /\ [][SeedsInOrder]_vars => []ReplicasAgree
<1>1. /\ Init => Unseeded \/ SInv
      /\ (Unseeded \/ SInv) /\ [Next]_vars /\ [SeedsInOrder]_vars => (Unseeded \/ SInv)'
  BY FormationKept
<1>2. /\ InitFormed => IInv
      /\ IInv /\ [Next]_vars => IInv'
  BY MaterializedInit, MaterializedStep, MaterializedStutter
<1>3. Unseeded => ReplicasAgree
  BY OneEpoch DEF Unseeded, UnseededNode, ReplicasAgree, IsOplogBootstrapped
<1>4. SInv => ReplicasAgree
  <2> SUFFICES ASSUME SInv PROVE ReplicasAgree  OBVIOUS
  <2>1. \A n \in Node : epoch[n] = 1 /\ StoreOK(n)  BY OneEpoch DEF SInv, NodeOK
  <2> QED  BY <2>1 DEF ReplicasAgree, IsOplogBootstrapped, StoreOK, IsPrefix
<1>5. IInv => ReplicasAgree  BY <1>4, SettledIsSeeded
<1> QED  BY <1>1, <1>2, <1>3, <1>4, <1>5, PTL DEF Spec, FormedSpec

=============================================================================
