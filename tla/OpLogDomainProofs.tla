------------------------- MODULE OpLogDomainProofs -------------------------
(***************************************************************************)
(* The config domain and the log position: a theorem about the one part of *)
(* a node's state that SQLite does not hold.                               *)
(***************************************************************************)
EXTENDS OpLogProofs

-----------------------------------------------------------------------------
(* The inductive invariant behind DomainsNotBehind, on top of IInv.         *)

(* d is the domain of log position i or of a later one. *)
DomainFrom(d, i) == \E j \in i..Len(log[1]) : canon[1][j + 1].dom = d

(* An install has committed its tables and not yet written its domains. *)
Midway  == {"adopt-domains", "install-domains"}
Holding == {"adopt", "install"} \cup Midway

(* The snapshot in hand is no further ahead of its domain than a node is;   *)
(* whoever is in the middle of an install answers nobody, applies nothing   *)
(* and stands at the snapshot's position; and a domain that is on file but  *)
(* not committed is that of the entry being handled or of a later one.      *)
DomainOK(n) ==
    /\ attached[n] => pc[n] = "idle"
    /\ pc[n] \in Holding => DomainFrom(snap[n].store.dom, snap[n].seq)
    /\ pc[n] = "adopt-domains" => sub[n] = NoSub /\ late[n] = NoMsg
    /\ pc[n] \in Midway => hand[n] = NoHand /\ lastApplied[n] = snap[n].seq
    /\ hand[n].step = "commit" => DomainFrom(store[n].dom, hand[n].seq)
    /\ bootstrapped[n] = 1 /\ pc[n] \notin Midway => DomainFrom(store[n].dom, lastApplied[n])

DInv == IInv /\ \A n \in Node : DomainOK(n)

(* No process dies between the two halves of an install. *)
InstallsSpared == \A n \in Node : Crash(n) => pc[n] \notin Midway

-----------------------------------------------------------------------------
(* Lemmas about the domains of the log. *)

(* The domain an entry leaves behind. *)
LEMMA DomainOfApplied ==
    ASSUME NEW s \in Store, NEW r \in Req
    PROVE  Applied(s, r).dom = IF IsDomainOp(r) THEN r ELSE s.dom
<1> OpOf[r] \in Op  BY OpAssumption
<1>1. CASE OpOf[r].kind = "insert"  BY <1>1 DEF Effect, Applied, IsDomainOp, Store, Op
<1>2. CASE OpOf[r].kind = "delete"  BY <1>2 DEF Effect, Applied, IsDomainOp, Store, Op
<1>3. CASE OpOf[r].kind = "block"   BY <1>3 DEF Effect, Applied, IsDomainOp, Store, Op
<1>4. CASE OpOf[r].kind = "set"     BY <1>4 DEF Effect, Applied, Accepts, IsDomainOp, Store, Op
<1> QED  BY <1>1, <1>2, <1>3, <1>4 DEF Op

(* A domain no log entry has yet overtaken is good for earlier positions. *)
LEMMA EarlierDomain ==
    ASSUME NEW d, NEW i \in Nat, NEW k \in Nat, k <= i, DomainFrom(d, i), Len(log[1]) \in Nat
    PROVE  DomainFrom(d, k)
<1>1. PICK j \in i..Len(log[1]) : canon[1][j + 1].dom = d  BY DEF DomainFrom
<1>2. j \in k..Len(log[1])  BY <1>1
<1> QED  BY <1>1, <1>2 DEF DomainFrom

(* What the entry in hand does to the domain of the log: its own, or none. *)
LEMMA HandedDomain ==
    ASSUME IInv, 1 \in Epoch, NEW n \in Node, hand[n] # NoHand
    PROVE  /\ IsDomainOp(hand[n].req) => DomainFrom(hand[n].req, hand[n].seq)
           /\ ~IsDomainOp(hand[n].req) =>
                \A d : DomainFrom(d, lastApplied[n]) => DomainFrom(d, hand[n].seq)
<1> DEFINE r == hand[n].req
           i == lastApplied[n]
<1>1. r \in Req /\ i \in Nat  BY DEF IInv, TypeOK, LoopOK, DiskOK
<1>2. hand[n].seq = i + 1 /\ InLog(hand[n])  BY DEF IInv, NodeOK, HandOK
<1>3. /\ canon[1] \in Seq(Store) /\ Len(canon[1]) = Len(log[1]) + 1 /\ Len(log[1]) \in Nat
  BY DEF IInv, TypeOK, CloudOK
<1>4. i + 1 \in 1..Len(log[1]) /\ r = log[1][i + 1]  BY <1>1, <1>2, <1>3 DEF InLog
<1>5. canon[1][i + 1] \in Store  BY <1>3, <1>4
<1>6. canon[1][(i + 1) + 1] = Applied(canon[1][i + 1], r)  BY <1>1, <1>4 DEF IInv, Replay
<1>7. canon[1][(i + 1) + 1].dom = IF IsDomainOp(r) THEN r ELSE canon[1][i + 1].dom
  BY <1>1, <1>5, <1>6, DomainOfApplied
<1>8. i + 1 \in (i + 1)..Len(log[1])  BY <1>1, <1>3, <1>4
<1>9. IsDomainOp(r) => DomainFrom(r, i + 1)  BY <1>7, <1>8 DEF DomainFrom
<1>10. ASSUME ~IsDomainOp(r), NEW d, DomainFrom(d, i) PROVE DomainFrom(d, i + 1)
  <2>1. PICK j \in i..Len(log[1]) : canon[1][j + 1].dom = d  BY <1>10 DEF DomainFrom
  <2>2. CASE j = i  BY <1>7, <1>8, <1>10, <2>1, <2>2 DEF DomainFrom
  <2>3. CASE j # i
    <3>1. j \in (i + 1)..Len(log[1])  BY <1>1, <1>3, <2>1, <2>3
    <3> QED  BY <2>1, <3>1 DEF DomainFrom
  <2> QED  BY <2>2, <2>3
<1> QED  BY <1>2, <1>9, <1>10

(* Whoever answers a snapshot request is not behind with its domain. *)
LEMMA SnapshotDomain ==
    ASSUME MaxEpoch = 1, DInv, NEW n \in Node, NEW m \in Node, m \in Responders(n)
    PROVE  DomainFrom(Snapshot(m).store.dom, Snapshot(m).seq)
<1>1. /\ epoch[m] = 1 /\ formationWriter[m] = 0 /\ NodeOK(m) /\ DomainOK(m)
  BY OneEpoch DEF DInv, IInv, Settled
<1>2. attached[m]  BY <1>1 DEF Responders, MayServeSnapshot, IsFormationWriter
<1>3. bootstrapped[m] = 1 /\ pc[m] = "idle"  BY <1>1, <1>2 DEF NodeOK, QueueOK, DomainOK
<1>4. DomainFrom(store[m].dom, lastApplied[m])  BY <1>1, <1>3 DEF DomainOK, Midway
<1> QED  BY <1>4 DEF Snapshot

-----------------------------------------------------------------------------
(* Lemmas about the steps. *)

(* A node nothing happened to. *)
LEMMA DomainUnchanged ==
    ASSUME NEW n \in Node, DomainOK(n), UNCHANGED NodeVars(n), UNCHANGED <<log, canon>>
    PROVE  DomainOK(n)'
  BY DEF DomainOK, DomainFrom, NodeVars

(* A node nothing happened to while the log grew. *)
LEMMA DomainBesideGrowth ==
    ASSUME NEW n \in Node, TypeOK, DomainOK(n), UNCHANGED NodeVars(n), Grown, 1 \in Epoch,
           Len(log'[1]) \in Nat
    PROVE  DomainOK(n)'
<1>1. Len(log[1]) \in Nat /\ lastApplied[n] \in Nat /\ snap[n].seq \in Nat /\ hand[n].seq \in Nat
  BY DEF TypeOK, CloudOK, DiskOK, AttachOK, LoopOK, NoHand
<1>2. ASSUME NEW d, NEW i \in Nat, DomainFrom(d, i)
      PROVE  \E j \in i..Len(log'[1]) : canon'[1][j + 1].dom = d
  <2>1. PICK j \in i..Len(log[1]) : canon[1][j + 1].dom = d  BY <1>2 DEF DomainFrom
  <2>2. j \in i..Len(log'[1]) /\ canon'[1][j + 1] = canon[1][j + 1]
    BY <1>1, <2>1 DEF Grown
  <2> QED  BY <2>1, <2>2
<1>3. /\ pc[n] \in Holding => \E j \in snap[n].seq..Len(log'[1]) : canon'[1][j + 1].dom = snap[n].store.dom
      /\ hand[n].step = "commit" => \E j \in hand[n].seq..Len(log'[1]) : canon'[1][j + 1].dom = store[n].dom
      /\ bootstrapped[n] = 1 /\ pc[n] \notin Midway =>
            \E j \in lastApplied[n]..Len(log'[1]) : canon'[1][j + 1].dom = store[n].dom
  BY <1>1, <1>2 DEF DomainOK
<1> QED  BY <1>3 DEF DomainOK, DomainFrom, NodeVars

(* A step of the attach path that has no snapshot to deal with. *)
LEMMA DomainBesideAttach ==
    ASSUME NEW n \in Node, DomainOK(n), UNCHANGED <<log, canon>>,
           UNCHANGED <<hand[n], bootstrapped[n], store[n], lastApplied[n]>>,
           pc[n] \notin Midway, pc'[n] \notin Holding, attached'[n] => pc'[n] = "idle"
    PROVE  DomainOK(n)'
  BY DEF DomainOK, DomainFrom, Midway, Holding

(* The first half of an install. *)
LEMMA DomainMidway ==
    ASSUME MaxEpoch = 1, DInv, NEW n \in Node, pc[n] \in {"adopt", "install"}, InstallTables(n),
           UNCHANGED <<log, canon, attached[n], sub[n], late[n], hand[n], snap[n]>>,
           pc'[n] = IF pc[n] = "adopt" THEN "adopt-domains" ELSE "install-domains"
    PROVE  DomainOK(n)'
<1>1. NodeOK(n) /\ DomainOK(n)  BY DEF DInv, IInv
<1>2. ~attached[n] /\ DomainFrom(snap[n].store.dom, snap[n].seq)
  BY <1>1 DEF DomainOK, Holding
<1>3. pc[n] = "adopt" => sub[n] = NoSub /\ late[n] = NoMsg /\ hand[n] = NoHand
  BY <1>1 DEF NodeOK, PathOK, QueueOK, HandOK
<1>4. hand[n] = NoHand  BY <1>1, <1>3 DEF NodeOK, HandOK, Locked
<1>5. lastApplied'[n] = snap[n].seq
  BY DEF InstallTables, DInv, IInv, TypeOK, DiskOK
<1> QED  BY <1>2, <1>3, <1>4, <1>5 DEF DomainOK, DomainFrom, Midway, Holding, NoHand

(* The second. *)
LEMMA DomainInstalled ==
    ASSUME DInv, NEW n \in Node, pc[n] \in Midway, InstallDomains(n),
           UNCHANGED <<log, canon, attached[n], hand[n], lastApplied[n]>>,
           pc'[n] \notin Holding
    PROVE  DomainOK(n)'
<1>1. DomainOK(n) /\ store[n] \in Store  BY DEF DInv, IInv, TypeOK, DiskOK
<1>2. store'[n].dom = snap[n].store.dom
  BY <1>1 DEF InstallDomains, DInv, IInv, TypeOK, DiskOK, Store
<1>3. ~attached[n] /\ hand[n] = NoHand /\ DomainFrom(snap[n].store.dom, lastApplied[n])
  BY <1>1 DEF DomainOK, Midway, Holding
<1> QED  BY <1>2, <1>3 DEF DomainOK, DomainFrom, Midway, Holding, NoHand

(* Whatever a node does, it does to itself. *)
LEMMA OthersApart ==
    ASSUME MaxEpoch = 1, TypeOK, NEW n \in Node, NodeStep(n), NEW p \in Node, p # n
    PROVE  UNCHANGED NodeVars(p)
<1> USE DEF TypeOK, DiskOK, ProcessOK, LoopOK, AttachOK, NodeVars, disk, kv, loop, attach, cloud, client
<1>1. CASE WriteStep(n)
  BY <1>1 DEF WriteStep, WriteDirect, WriteReadOnly, WritePublish
<1>2. CASE ApplyStep(n)
  <2>1. CASE HandleDelivery(n)
    BY <2>1 DEF HandleDelivery, Keeps, Drops, Skipped, Gap, Unreadable, Taken
  <2>2. CASE HandleLate(n)
    BY <2>2 DEF HandleLate, Keeps, Drops, Skipped, Gap, Unreadable, Taken
  <2>3. CASE ConsumeForeign(n) \/ ApplyTableOp(n)
    BY <2>3 DEF ConsumeForeign, ApplyTableOp
  <2>4. CASE ApplyDomainOp(n) \/ CommitDomainOp(n)
    BY <2>4 DEF ApplyDomainOp, CommitDomainOp
  <2> QED  BY <1>2, <2>1, <2>2, <2>3, <2>4 DEF ApplyStep
<1>3. CASE AdoptStep(n)
  <2>1. CASE AttachMisses(n) \/ AdoptUnanswered(n)
    BY <2>1 DEF AttachMisses, AdoptUnanswered, Step
  <2>2. CASE \E m \in Node : AdoptAnswered(n, m)
    BY <2>2 DEF AdoptAnswered, Step
  <2>3. CASE AdoptTables(n)
    BY <2>3 DEF AdoptTables, InstallTables, Step
  <2>4. CASE AdoptDomains(n)
    BY <2>4 DEF AdoptDomains, InstallDomains, GiveUp, Step
  <2> QED  BY <1>3, <2>1, <2>2, <2>3, <2>4 DEF AdoptStep
<1>4. CASE CreateStep(n)
  BY <1>4 DEF CreateStep, CreateWins, CreateLoses, CreateRefused, MarkCreated, GiveUp, Step
<1>5. CASE AttachStep(n)
  <2>1. CASE AttachFinds(n) \/ CatchUp(n) \/ (\E m \in Node : FastForwardAnswered(n, m))
    BY <2>1 DEF AttachFinds, CatchUp, FastForwardAnswered, Step
  <2>2. CASE FastForwardUnanswered(n)
    BY <2>2 DEF FastForwardUnanswered, GiveUp, Step
  <2>3. CASE FastForwardTables(n)
    BY <2>3 DEF FastForwardTables, InstallTables, Step
  <2>4. CASE FastForwardDomains(n)
    BY <2>4 DEF FastForwardDomains, InstallDomains, GiveUp, Step
  <2>5. CASE Subscribe(n) \/ SubscribeFails(n) \/ Latch(n)
    BY <2>5 DEF Subscribe, SubscribeFails, Latch, GiveUp, Step
  <2> QED  BY <1>5, <2>1, <2>2, <2>3, <2>4, <2>5 DEF AttachStep
<1>6. CASE LifeStep(n)
  <2>1. CASE ProbeDetaches(n) \/ ConsumerDies(n) \/ RestartNebula(n)
    BY <2>1 DEF ProbeDetaches, ConsumerDies, RestartNebula, Detach
  <2>2. CASE StartNebula(n) \/ StartOplogApply(n) \/ StartProcess(n)
    BY <2>2 DEF StartNebula, StartOplogApply, StartProcess
  <2>3. CASE Crash(n)
    BY <2>3 DEF Crash
  <2>4. CASE ReformOplogEpoch(n) \/ ReformCleanUp(n)
    BY <2>4 DEF ReformOplogEpoch, ReformCleanUp, Detach
  <2> QED  BY <1>6, <2>1, <2>2, <2>3, <2>4 DEF LifeStep
<1> QED  BY <1>1, <1>2, <1>3, <1>4, <1>5, <1>6 DEF NodeStep

(* No step of a node writes to the log: it exists already. *)
LEMMA LogApart ==
    ASSUME MaxEpoch = 1, IInv, NEW n \in Node, NodeStep(n)
    PROVE  UNCHANGED <<log, canon>>
<1>1. Epoch = {1} /\ live[1] /\ (pc[n] # "idle" => at[n].epoch = 1)
  BY OneEpoch DEF IInv, Settled
<1>2. ~CreateWins(n)
  <2>1. CreateWins(n) => pc[n] # "idle" /\ ~live[at[n].epoch]  BY DEF CreateWins
  <2> QED  BY <1>1, <2>1
<1> USE <1>2 DEF disk, kv, loop, attach, cloud, client
<1>3. CASE WriteStep(n)
  BY <1>3 DEF WriteStep, WriteDirect, WriteReadOnly, WritePublish
<1>4. CASE ApplyStep(n)
  BY <1>4 DEF ApplyStep, HandleDelivery, HandleLate, ConsumeForeign, ApplyTableOp, ApplyDomainOp,
    CommitDomainOp
<1>5. CASE AdoptStep(n)
  BY <1>5 DEF AdoptStep, AttachMisses, AdoptUnanswered, AdoptAnswered, AdoptTables, AdoptDomains
<1>6. CASE CreateStep(n)
  BY <1>6 DEF CreateStep, CreateLoses, CreateRefused, MarkCreated
<1>7. CASE AttachStep(n)
  BY <1>7 DEF AttachStep, AttachFinds, CatchUp, FastForwardAnswered, FastForwardUnanswered,
    FastForwardTables, FastForwardDomains, Subscribe, SubscribeFails, Latch
<1>8. CASE LifeStep(n)
  BY <1>8 DEF LifeStep, ProbeDetaches, ConsumerDies, RestartNebula, StartNebula, StartOplogApply,
    Crash, StartProcess, ReformOplogEpoch, ReformCleanUp
<1> QED  BY <1>3, <1>4, <1>5, <1>6, <1>7, <1>8 DEF NodeStep

-----------------------------------------------------------------------------
(* The invariant is inductive as long as no crash hits an install. *)

LEMMA DomainInit == ASSUME MaxEpoch = 1 PROVE InitFormed => DInv
<1> SUFFICES ASSUME InitFormed PROVE DInv  OBVIOUS
<1>1. IInv /\ 1 \in Epoch  BY MaterializedInit, OneEpoch DEF IInv
<1>2. log[1] = <<>> /\ canon[1] = <<FounderStore>>  BY <1>1 DEF InitFormed
<1>3. canon[1][0 + 1].dom = FounderStore.dom /\ 0 \in 0..Len(log[1])  BY <1>2
<1>4. DomainFrom(FounderStore.dom, 0)  BY <1>3 DEF DomainFrom
<1>5. ASSUME NEW n \in Node PROVE DomainOK(n)
  BY <1>4 DEF InitFormed, DomainOK, Midway, Holding, NoHand
<1> QED  BY <1>1, <1>5 DEF DInv

(* The node that acts: its writes and its apply loop. *)
LEMMA DomainApplied ==
    ASSUME MaxEpoch = 1, DInv, NEW n \in Node, WriteStep(n) \/ ApplyStep(n), UNCHANGED <<log, canon>>
    PROVE  DomainOK(n)'
<1>a. IInv /\ SInv /\ TypeOK /\ NodeOK(n) /\ DomainOK(n) /\ 1 \in Epoch /\ epoch[n] = 1
  BY SettledIsSeeded, OneEpoch DEF DInv, IInv
<1>b. HandOK(n) /\ QueueOK(n) /\ PathOK(n)  BY <1>a DEF NodeOK
<1> USE <1>a, <1>b DEF TypeOK
<1>1. ASSUME NEW r \in Req, WriteDirect(n, r) PROVE DomainOK(n)'
  <2>1. bootstrapped[n] = 0 /\ hand[n] = NoHand
    BY <1>1, DirectIsUnmaterialized DEF WriteDirect, HandOK
  <2> QED  BY <1>1, <2>1 DEF WriteDirect, DomainOK, DomainFrom, NoHand, kv, loop, attach, cloud
<1>2. ASSUME NEW r \in Req, WriteReadOnly(n, r) \/ WritePublish(n, r) PROVE DomainOK(n)'
  BY <1>2, DomainUnchanged DEF WriteReadOnly, WritePublish, NodeVars, disk, kv, loop, attach, cloud
<1>3. CASE HandleDelivery(n)
  <2>1. pc[n] \notin Midway /\ hand[n] = NoHand /\ hand'[n].step # "commit"
    <3>1. sub[n] # NoSub /\ pc[n] \notin Locked /\ hand[n] = NoHand
      BY <1>3 DEF HandleDelivery, Deliverable, LockFree, NoSub, NoHand, LoopOK
    <3>2. hand'[n].step # "commit"
      BY <1>3, <3>1 DEF HandleDelivery, Keeps, Drops, Skipped, Gap, Unreadable, Taken, NoHand, LoopOK
    <3> QED  BY <3>1, <3>2 DEF Midway, Locked, DomainOK
  <2>2. attached'[n] => attached[n]
    BY <1>3 DEF HandleDelivery, Keeps, Drops, Skipped, Gap, Unreadable, Taken, ProcessOK
  <2> QED  BY <1>3, <2>1, <2>2 DEF HandleDelivery, DomainOK, DomainFrom, Midway, disk, kv, attach
<1>4. CASE HandleLate(n)
  <2>1. pc[n] \notin Midway /\ hand[n] = NoHand /\ hand'[n].step # "commit"
    <3>1. late[n] # NoMsg /\ pc[n] \notin Locked /\ hand[n] = NoHand
      BY <1>4 DEF HandleLate, LockFree, NoMsg, NoHand, LoopOK
    <3>2. hand'[n].step # "commit"
      BY <1>4, <3>1 DEF HandleLate, Keeps, Drops, Skipped, Gap, Unreadable, Taken, NoHand, LoopOK
    <3> QED  BY <3>1, <3>2 DEF Midway, Locked, DomainOK
  <2>2. attached'[n] => attached[n]
    BY <1>4 DEF HandleLate, Keeps, Drops, Skipped, Gap, Unreadable, Taken, ProcessOK
  <2> QED  BY <1>4, <2>1, <2>2 DEF HandleLate, DomainOK, DomainFrom, Midway, disk, kv, attach
<1>5. CASE ConsumeForeign(n)
  BY <1>5 DEF ConsumeForeign, HandOK, NoHand
<1>6. CASE ApplyTableOp(n)
  <2>1. hand[n] # NoHand /\ bootstrapped[n] = 1 /\ pc[n] \notin Midway
    BY <1>6 DEF ApplyTableOp, NoHand, HandOK, DomainOK
  <2>2. /\ hand[n].req \in Req /\ store[n] \in Store /\ ~IsDomainOp(hand[n].req)
        /\ store'[n] = Applied(store[n], hand[n].req) /\ lastApplied'[n] = hand[n].seq
        /\ hand'[n] = NoHand
    BY <1>6, <2>1, NextPrefix DEF ApplyTableOp, DiskOK, LoopOK
  <2>3. store'[n].dom = store[n].dom  BY <2>2, DomainOfApplied
  <2>4. DomainFrom(store[n].dom, hand[n].seq)  BY <2>1, <2>2, HandedDomain DEF DomainOK
  <2> QED  BY <1>6, <2>1, <2>2, <2>3, <2>4 DEF ApplyTableOp, DomainOK, DomainFrom, NoHand, Midway,
      Holding, loop, attach
<1>7. CASE ApplyDomainOp(n)
  <2>1. hand[n] # NoHand /\ pc[n] \notin Midway /\ hand[n].seq = lastApplied[n] + 1
    BY <1>7 DEF ApplyDomainOp, NoHand, HandOK, DomainOK
  <2>2. /\ hand[n].req \in Req /\ store[n] \in Store /\ IsDomainOp(hand[n].req)
        /\ store'[n] = Effect(store[n], hand[n].req)
        /\ hand'[n].seq = hand[n].seq
    BY <1>7, <2>1, NextPrefix DEF ApplyDomainOp, DiskOK, LoopOK
  <2>3. store'[n].dom = hand[n].req  BY <2>2, DomainKeepsTables, DomainOfApplied
  <2>4. DomainFrom(hand[n].req, hand[n].seq)  BY <2>1, <2>2, HandedDomain
  <2>5. DomainFrom(hand[n].req, lastApplied[n])
    <3>1. lastApplied[n] \in Nat /\ Len(log[1]) \in Nat  BY DEF DiskOK, CloudOK
    <3> QED  BY <2>1, <2>4, <3>1, EarlierDomain
  <2> QED  BY <1>7, <2>1, <2>2, <2>3, <2>4, <2>5 DEF ApplyDomainOp, DomainOK, DomainFrom, Midway,
      Holding, kv, loop, attach
<1>8. CASE CommitDomainOp(n)
  <2>1. hand[n] # NoHand /\ pc[n] \notin Midway /\ DomainFrom(store[n].dom, hand[n].seq)
    BY <1>8 DEF CommitDomainOp, NoHand, DomainOK
  <2>2. lastApplied'[n] = hand[n].seq /\ hand'[n] = NoHand
    BY <1>8 DEF CommitDomainOp, DiskOK, LoopOK
  <2> QED  BY <1>8, <2>1, <2>2 DEF CommitDomainOp, DomainOK, DomainFrom, NoHand, Midway, Holding,
      loop, attach
<1> QED  BY <1>1, <1>2, <1>3, <1>4, <1>5, <1>6, <1>7, <1>8 DEF WriteStep, ApplyStep

(* The node that acts: its attach path. *)
LEMMA DomainAttached ==
    ASSUME MaxEpoch = 1, DInv, NEW n \in Node, AdoptStep(n) \/ CreateStep(n) \/ AttachStep(n),
           UNCHANGED <<log, canon>>
    PROVE  DomainOK(n)'
<1>a. IInv /\ TypeOK /\ NodeOK(n) /\ DomainOK(n) /\ 1 \in Epoch /\ epoch[n] = 1
  BY OneEpoch DEF DInv, IInv
<1>b. /\ HandOK(n) /\ QueueOK(n) /\ PathOK(n) /\ formationWriter[n] = 0 /\ live[1]
      /\ pc[n] # "idle" => at[n].epoch = 1
      /\ pc[n] # "idle" => ~attached[n]
  BY <1>a, OneEpoch DEF NodeOK, DomainOK, IInv, Settled
<1>c. pc \in [Node -> Attaching] /\ attached \in [Node -> BOOLEAN]
  BY <1>a DEF TypeOK, AttachOK, ProcessOK
<1> USE <1>a, <1>b, <1>c DEF Midway, Holding
<1>1. CASE AttachFinds(n) \/ AttachMisses(n)
  BY <1>1, DomainBesideAttach DEF AttachFinds, AttachMisses, MayAttach, Step, disk, kv, loop
<1>2. CASE AdoptUnanswered(n) \/ CreateLoses(n) \/ CreateRefused(n)
  BY <1>2, DomainBesideAttach DEF AdoptUnanswered, CreateLoses, CreateRefused, GiveUp, Step, disk, kv, loop
<1>3. ASSUME NEW m \in Node, AdoptAnswered(n, m) PROVE DomainOK(n)'
  <2>1. CASE epoch[m] = epoch[n] /\ IsOplogBootstrapped(n)
    BY <1>3, <2>1, DomainBesideAttach DEF AdoptAnswered, Step, disk, kv, loop
  <2>2. CASE ~(epoch[m] = epoch[n] /\ IsOplogBootstrapped(n))
    <3>1. pc'[n] = "adopt" /\ snap'[n] = Snapshot(m) /\ DomainFrom(Snapshot(m).store.dom, Snapshot(m).seq)
      BY <1>3, <2>2, SnapshotDomain DEF AdoptAnswered, Step, TypeOK, AttachOK
    <3>2. pc[n] = "ask" /\ UNCHANGED <<attached, hand, store, lastApplied, bootstrapped>>
      BY <1>3 DEF AdoptAnswered, disk, kv, loop
    <3> QED  BY <3>1, <3>2 DEF DomainOK, DomainFrom
  <2> QED  BY <2>1, <2>2
<1>4. CASE AdoptTables(n)
  BY <1>4, DomainMidway DEF AdoptTables, Step, loop
<1>5. CASE AdoptDomains(n)
  BY <1>5, DomainInstalled DEF AdoptDomains, GiveUp, Step, kv, loop
<1>6. CASE CreateWins(n)
  <2>1. pc[n] # "idle" /\ ~live[at[n].epoch]  BY <1>6 DEF CreateWins
  <2> QED  BY <2>1
<1>7. CASE MarkCreated(n)
  BY <1>7 DEF MarkCreated, PathOK
<1>8. CASE CatchUp(n)
  <2>1. pc'[n] \in {"fast-forward", "subscribe"}  BY <1>8 DEF CatchUp, Step
  <2> QED  BY <1>8, <2>1, DomainBesideAttach DEF CatchUp, disk, kv, loop
<1>9. ASSUME NEW m \in Node, FastForwardAnswered(n, m) PROVE DomainOK(n)'
  <2>1. pc'[n] = "install" /\ snap'[n] = Snapshot(m) /\ DomainFrom(Snapshot(m).store.dom, Snapshot(m).seq)
    BY <1>9, SnapshotDomain DEF FastForwardAnswered, Step, TypeOK, AttachOK
  <2>2. pc[n] = "fast-forward" /\ UNCHANGED <<attached, hand, store, lastApplied, bootstrapped>>
    BY <1>9 DEF FastForwardAnswered, disk, kv, loop
  <2> QED  BY <2>1, <2>2 DEF DomainOK, DomainFrom
<1>10. CASE FastForwardUnanswered(n)
  <2>1. ~MaySelfSeed(n)  BY DEF MaySelfSeed, IsFormationWriter
  <2>2. GiveUp(n) /\ UNCHANGED bootstrapped  BY <1>10, <2>1 DEF FastForwardUnanswered
  <2> QED  BY <1>10, <2>2, DomainBesideAttach DEF FastForwardUnanswered, GiveUp, Step, loop
<1>11. CASE FastForwardTables(n)
  BY <1>11, DomainMidway DEF FastForwardTables, Step, loop
<1>12. CASE FastForwardDomains(n)
  <2>1. pc'[n] \in {"idle", "subscribe", "fast-forward"}
    BY <1>12 DEF FastForwardDomains, GiveUp, Step
  <2> QED  BY <1>12, <2>1, DomainInstalled DEF FastForwardDomains, kv, loop
<1>13. CASE Subscribe(n) \/ SubscribeFails(n)
  BY <1>13, DomainBesideAttach DEF Subscribe, SubscribeFails, GiveUp, Step, disk, kv, loop
<1>14. CASE Latch(n)
  BY <1>14, DomainBesideAttach DEF Latch, Step
<1> QED  BY <1>1, <1>2, <1>3, <1>4, <1>5, <1>6, <1>7, <1>8, <1>9, <1>10, <1>11, <1>12, <1>13, <1>14
  DEF AdoptStep, CreateStep, AttachStep

(* The node that acts: its restarts and its crashes. *)
LEMMA DomainRestarted ==
    ASSUME MaxEpoch = 1, DInv, NEW n \in Node, LifeStep(n), Crash(n) => pc[n] \notin Midway,
           UNCHANGED <<log, canon>>
    PROVE  DomainOK(n)'
<1>a. IInv /\ TypeOK /\ DomainOK(n) /\ epoch[n] = 1 /\ ~reforming[n]
  BY OneEpoch DEF DInv, IInv, Settled
<1> USE <1>a DEF TypeOK, LoopOK, ProcessOK, AttachOK
<1>1. CASE ProbeDetaches(n) \/ RestartNebula(n)
  <2>1. /\ UNCHANGED <<hand, bootstrapped, store, lastApplied, pc, snap>>
        /\ sub'[n] = NoSub /\ attached'[n] = FALSE
        /\ late'[n] \in Stragglers(n)
    BY <1>1 DEF ProbeDetaches, RestartNebula, Detach, disk, kv, attach
  <2>2. pc[n] = "adopt-domains" => late'[n] = NoMsg
    BY <2>1 DEF DomainOK, Stragglers, Deliverable, NoSub
  <2> QED  BY <2>1, <2>2 DEF DomainOK, DomainFrom
<1>2. CASE ConsumerDies(n)
  <2>1. pc[n] # "adopt-domains"  BY <1>2 DEF ConsumerDies, DomainOK, NoSub
  <2> QED  BY <1>2, <2>1 DEF ConsumerDies, DomainOK, DomainFrom, disk, kv, attach
<1>3. CASE StartNebula(n) \/ StartOplogApply(n) \/ StartProcess(n)
  BY <1>3, DomainUnchanged DEF StartNebula, StartOplogApply, StartProcess, NodeVars, disk, kv, loop, attach
<1>4. CASE Crash(n)
  <2>1. /\ pc'[n] = "idle" /\ hand'[n] = NoHand /\ UNCHANGED <<bootstrapped, store, lastApplied>>
    BY <1>4 DEF Crash, disk, kv
  <2> QED  BY <1>4, <2>1 DEF DomainOK, DomainFrom, NoHand, Midway, Holding
<1>5. CASE ReformOplogEpoch(n) \/ ReformCleanUp(n)
  BY <1>5 DEF ReformOplogEpoch, ReformCleanUp
<1> QED  BY <1>1, <1>2, <1>3, <1>4, <1>5 DEF LifeStep

LEMMA DomainStep == ASSUME MaxEpoch = 1 PROVE DInv /\ Next /\ InstallsSpared => DInv'
<1> SUFFICES ASSUME DInv, Next, InstallsSpared PROVE DInv'  OBVIOUS
<1>a. IInv /\ IInv' /\ SInv /\ TypeOK /\ TypeOK' /\ 1 \in Epoch
  BY MaterializedStep, SettledIsSeeded, OneEpoch DEF DInv, IInv
<1>1. ASSUME NEW n \in Node, NodeStep(n) PROVE DInv'
  <2>1. UNCHANGED <<log, canon>>  BY <1>a, <1>1, LogApart
  <2>2. DomainOK(n)'
    BY <1>1, <2>1, DomainApplied, DomainAttached, DomainRestarted DEF NodeStep, InstallsSpared
  <2>3. ASSUME NEW p \in Node, p # n PROVE DomainOK(p)'
    BY <1>a, <1>1, <2>1, <2>3, OthersApart, DomainUnchanged DEF DInv
  <2> QED  BY <1>a, <2>2, <2>3 DEF DInv
<1>2. ASSUME NEW r \in Req, RequestStep(r) PROVE DInv'
  <2>1. \A n \in Node : UNCHANGED NodeVars(n)
    BY <1>2 DEF RequestStep, PublishAcked, PublishAckLost, PublishFails, WaitTimesOut, NodeVars, disk,
      kv, loop, attach
  <2>2. UNCHANGED <<log, canon>> \/ Grown
    <3>1. CASE PublishAcked(r) \/ PublishAckLost(r)
      <4>1. wepoch[r] = 1 /\ Stored(r)  BY <1>a, <3>1, OneEpoch DEF PublishAcked, PublishAckLost
      <4> QED  BY <1>a, <4>1, StoredGrows
    <3>2. CASE PublishFails(r) \/ WaitTimesOut(r)
      BY <3>2 DEF PublishFails, WaitTimesOut, cloud
    <3> QED  BY <1>2, <3>1, <3>2 DEF RequestStep
  <2>3. Len(log'[1]) \in Nat  BY <1>a DEF TypeOK, CloudOK
  <2> QED  BY <1>a, <2>1, <2>2, <2>3, DomainUnchanged, DomainBesideGrowth DEF DInv
<1>3. ASSUME NEW e \in Epoch, StreamLost(e) PROVE DInv'
  BY <1>a, <1>3, OneEpoch DEF StreamLost, TypeOK, DiskOK
<1> QED  BY <1>1, <1>2, <1>3 DEF Next

LEMMA DomainStutter == DInv /\ UNCHANGED vars => DInv'
<1> SUFFICES ASSUME DInv, UNCHANGED vars PROVE DInv'  OBVIOUS
<1>1. IInv'  BY MaterializedStutter DEF DInv
<1>2. ASSUME NEW n \in Node PROVE DomainOK(n)'
  BY DomainUnchanged DEF DInv, NodeVars, vars, disk, kv, loop, attach, cloud
<1> QED  BY <1>1, <1>2 DEF DInv

(* Of the failures of a formed constellation that OpLog has, a crash        *)
(* between the two halves of an install (oplog_snapshot.go:301 commits the  *)
(* tables and the position, the domains follow file by file) is the only    *)
(* one that can leave a node with a domain older than its log position:     *)
(* crashes anywhere else, between a domain's files and its commit too, lost *)
(* acks, dead consumers, gaps, restarts and late callbacks cannot.          *)
THEOREM DomainsFollow ==
    ASSUME MaxEpoch = 1 PROVE FormedSpec /\ [][InstallsSpared]_vars => []DomainsNotBehind
<1>1. InitFormed => DInv  BY DomainInit
<1>2. DInv /\ [Next]_vars /\ [InstallsSpared]_vars => DInv'  BY DomainStep, DomainStutter
<1>3. DInv => DomainsNotBehind
  <2> SUFFICES ASSUME DInv PROVE DomainsNotBehind  OBVIOUS
  <2>1. \A n \in Node : epoch[n] = 1 /\ DomainOK(n)  BY OneEpoch DEF DInv, IInv
  <2> QED  BY <2>1 DEF DomainsNotBehind, IsOplogBootstrapped, DomainOK, DomainFrom, Midway
<1> QED  BY <1>1, <1>2, <1>3, PTL DEF FormedSpec

=============================================================================
