------------------------------- MODULE OpLog -------------------------------
(***************************************************************************)
(* The config op-log of a Cosmos constellation                             *)
(* (src/src/constellation/oplog.go, oplog_apply.go, oplog_snapshot.go,     *)
(* api_force_reform.go, nebula.go; src/src/utils/store_op.go).             *)
(*                                                                         *)
(* One JetStream stream per epoch is the source of truth for users,        *)
(* devices and config domains.  Every node materializes its local store by *)
(* applying that stream in order, catches up by a peer's snapshot when it  *)
(* has fallen off the retention window, and publishes its own writes into  *)
(* the stream, waiting to see them come back.                              *)
(*                                                                         *)
(* Covered: the write-mode ladder, publication and its waiters, the apply  *)
(* loop with its lock, gate and commits, halting, the supervisor's attach  *)
(* path (adopt, create, fast-forward, self-seed, subscribe), its probes,   *)
(* snapshots, force-reform, restarts of the mesh and of the process, lost  *)
(* acks, dead consumers, unanswered requests.                              *)
(* Not covered: stream replication (R1 to R3), ResetNebula and enrollment  *)
(* into another constellation, SQLite faults, the standalone server (which *)
(* never starts the apply loop).                                           *)
(***************************************************************************)
EXTENDS OpLogStore

CONSTANTS
    Manager,      \* nodes that run JetStream; the others are agents
    Founder,      \* the manager that creates the constellation
    NoNode,       \* "no node": nobody is handling the write
    Old,          \* nodes of an older release: they read only version 1 envelopes
    BestEffort,   \* writes whose loss is tolerated (Mutation.BestEffort)
    MaxMsgs,      \* oplogMaxMsgs: the entries a stream retains
    MaxEpoch,     \* bound: force-reforms are explored up to this epoch
    MaxFaults     \* bound: crashes, lost replies, dead consumers, stray bounces

ASSUME RoleAssumption  == Manager \subseteq Node /\ Founder \in Manager /\ Old \subseteq Node
                          /\ NoNode \notin Node
ASSUME BoundAssumption == /\ MaxMsgs \in Nat \ {0}
                          /\ MaxEpoch \in Nat \ {0}
                          /\ MaxFaults \in Nat
ASSUME BestEffortAssumption == BestEffort \subseteq Req

VARIABLES
    (* SQLite, per node *)
    epoch,            \* kv oplog_epoch
    lastApplied,      \* kv last_applied_seq
    bootstrapped,     \* kv bootstrapped: the epoch the store was materialized for
    formationWriter,  \* kv formation_writer: the epoch the licence is for
    store,            \* tables and domains
    (* memory, per node *)
    phase,            \* how far the process is up: down, boot, nebula, loop
    attached,         \* oplogAttached
    halted,           \* oplogHalted
    streamSeen,       \* oplogStreamSeen
    sub,              \* oplogSub: the ordered consumer
    late,             \* a delivery of a dropped subscription, still waiting for the lock
    hand,             \* the entry whose handler holds oplogApplyMu
    pc,               \* where the supervisor's oplogAttach is
    at,               \* its locals: the epoch it read and, until it subscribes, the stream's first sequence
    snap,             \* the snapshot it is installing
    queued,           \* restartQueued: a RestartNebula is on its way
    reforming,        \* performForceReform is between its transaction and its clean-up
    (* JetStream *)
    live,             \* whether the stream of an epoch exists
    log,              \* every entry ever published to it
    canon,            \* history: the store its seed and each entry lead to
    (* clients *)
    wst,              \* how far each write got, and what its client was told
    wnode,            \* the node handling it (opWaiters: where its waiter is)
    wepoch,           \* the epoch its envelope carries
    (* environment *)
    faults            \* failures still to be explored

kv     == <<epoch, lastApplied, bootstrapped, formationWriter>>
disk   == <<kv, store>>
loop   == <<attached, sub, late>>
attach == <<pc, at, snap>>
cloud  == <<live, log, canon>>
client == <<wst, wnode, wepoch>>
vars   == <<disk, phase, loop, halted, streamSeen, hand, attach, queued,
            reforming, cloud, client, faults>>

Epoch  == 1..MaxEpoch
NoSub  == [epoch |-> 0, next |-> 0, alive |-> FALSE]
NoMsg  == [epoch |-> 0, seq |-> 0, req |-> NoReq]
NoHand == [epoch |-> 0, seq |-> 0, req |-> NoReq, step |-> "none"]
NoAt   == [epoch |-> 0, first |-> 0]
NoSnap == [epoch |-> 0, seq |-> 0, store |-> FreshStore]

(* Attach steps under oplogApplyMu (the defer keeps it until the return). *)
Locked == {"fast-forward", "install", "install-domains", "subscribe", "latch"}

-----------------------------------------------------------------------------
(* Reading the kv table and the process state. *)

IsOplogBootstrapped(n) == bootstrapped[n] = epoch[n]

(* Mutant: the licence read as a flag, whatever epoch it was given for. *)
IsFormationWriterAsFlag(n) == formationWriter[n] # 0

IsFormationWriter(n) == formationWriter[n] = epoch[n]

IsSelfBlocked(n)       == n \in store[n].blocked
NebulaStarted(n)       == phase[n] \in {"nebula", "loop"}
Connected(n)           == phase[n] = "loop"
LockFree(n)            == hand[n].step = "none" /\ pc[n] \notin Locked

(* The retention window of a stream: MaxMsgs entries, oldest discarded. *)
FirstSeq(e) == IF Len(log[e]) > MaxMsgs THEN Len(log[e]) - MaxMsgs + 1 ELSE 1

(* The write-mode ladder, in the order the code tries it.  Constellation is *)
(* enabled and no node is standalone here.  In the window stop() opens a    *)
(* node may look standalone, but it is not NebulaStarted either, and both   *)
(* lead to the same mode.                                                   *)
WriteMode(n) ==
    CASE IsSelfBlocked(n)                            -> "readonly"
      [] ~IsSelfBlocked(n) /\ attached[n]            -> "publish"
      [] ~IsSelfBlocked(n) /\ ~attached[n] /\ IsOplogBootstrapped(n) -> "readonly"
      [] OTHER -> IF ~NebulaStarted(n) \/ (IsFormationWriter(n) /\ ~streamSeen[n])
                  THEN "direct" ELSE "readonly"

MayServeSnapshot(n) ==
    ~halted[n] /\ ~IsSelfBlocked(n) /\ (attached[n] \/ IsFormationWriter(n))

(* Mutant: a router that also answers nodes that are ahead of it. *)
RespondersOfAnyEpoch(n) ==
    {m \in Node \ {n} : Connected(m) /\ MayServeSnapshot(m) /\ store[m].devices}

(* The peers that answer a snapshot request of n: the router stays silent   *)
(* when it is behind the asker or its tables are empty.  NoEcho keeps a     *)
(* node from answering itself.                                              *)
Responders(n) ==
    {m \in Node \ {n} : /\ Connected(m)
                        /\ MayServeSnapshot(m)
                        /\ epoch[n] <= epoch[m]
                        /\ store[m].devices}

Snapshot(m) == [epoch |-> epoch[m], seq |-> lastApplied[m], store |-> store[m]]

(* Mutant: nobody creates a log without a licence, however long it waits. *)
MayCreateLicensedOnly(n) == n \in Manager /\ IsFormationWriter(n)

(* Agents never create the log, and neither does a node that has            *)
(* materialized from one.                                                   *)
MayCreateStream(n) == n \in Manager /\ (IsFormationWriter(n) \/ ~IsOplogBootstrapped(n))

(* Without a licence, creation is deferred for kvCreatorFallbackAfter.  60s *)
(* are meant to be enough for a node that can help to answer and for a      *)
(* formation writer to create the log first: that they were not is a fault. *)
CreatorDeferred(n) ==
    /\ ~IsFormationWriter(n)
    /\ Responders(n) # {} \/ \E m \in Node : IsFormationWriter(m) /\ epoch[m] >= epoch[n]

Fault   == faults > 0 /\ faults' = faults - 1
NoFault == UNCHANGED faults

-----------------------------------------------------------------------------
(* Initial states.                                                          *)

(* API_NewConstellation has licensed the founder; no log exists and the     *)
(* other nodes have been enrolled but have materialized nothing.            *)
Init ==
    /\ epoch           = [n \in Node |-> 1]
    /\ lastApplied     = [n \in Node |-> 0]
    /\ bootstrapped    = [n \in Node |-> 0]
    /\ formationWriter = [n \in Node |-> IF n = Founder THEN 1 ELSE 0]
    /\ store           = [n \in Node |-> IF n = Founder THEN FounderStore ELSE FreshStore]
    /\ phase           = [n \in Node |-> "boot"]
    /\ attached        = [n \in Node |-> FALSE]
    /\ halted          = [n \in Node |-> FALSE]
    /\ streamSeen      = [n \in Node |-> FALSE]
    /\ sub             = [n \in Node |-> NoSub]
    /\ late            = [n \in Node |-> NoMsg]
    /\ hand            = [n \in Node |-> NoHand]
    /\ pc              = [n \in Node |-> "idle"]
    /\ at              = [n \in Node |-> NoAt]
    /\ snap            = [n \in Node |-> NoSnap]
    /\ queued          = [n \in Node |-> FALSE]
    /\ reforming       = [n \in Node |-> FALSE]
    /\ live            = [e \in Epoch |-> FALSE]
    /\ log             = [e \in Epoch |-> <<>>]
    /\ canon           = [e \in Epoch |-> <<FreshStore>>]
    /\ wst             = [r \in Req |-> "new"]
    /\ wnode           = [r \in Req |-> NoNode]
    /\ wepoch          = [r \in Req |-> 0]
    /\ faults          = MaxFaults

(* Formation is over: the founder created the log from its store, attached  *)
(* and gave its licence up.  The other nodes have yet to materialize.       *)
InitFormed ==
    /\ epoch           = [n \in Node |-> 1]
    /\ lastApplied     = [n \in Node |-> 0]
    /\ bootstrapped    = [n \in Node |-> IF n = Founder THEN 1 ELSE 0]
    /\ formationWriter = [n \in Node |-> 0]
    /\ store           = [n \in Node |-> IF n = Founder THEN FounderStore ELSE FreshStore]
    /\ phase           = [n \in Node |-> "loop"]
    /\ attached        = [n \in Node |-> n = Founder]
    /\ halted          = [n \in Node |-> FALSE]
    /\ streamSeen      = [n \in Node |-> n = Founder]
    /\ sub             = [n \in Node |-> IF n = Founder
                                         THEN [epoch |-> 1, next |-> 1, alive |-> TRUE]
                                         ELSE NoSub]
    /\ late            = [n \in Node |-> NoMsg]
    /\ hand            = [n \in Node |-> NoHand]
    /\ pc              = [n \in Node |-> "idle"]
    /\ at              = [n \in Node |-> IF n = Founder THEN [epoch |-> 1, first |-> 0] ELSE NoAt]
    /\ snap            = [n \in Node |-> NoSnap]
    /\ queued          = [n \in Node |-> FALSE]
    /\ reforming       = [n \in Node |-> FALSE]
    /\ live            = [e \in Epoch |-> e = 1]
    /\ log             = [e \in Epoch |-> <<>>]
    /\ canon           = [e \in Epoch |-> IF e = 1 THEN <<FounderStore>> ELSE <<FreshStore>>]
    /\ wst             = [r \in Req |-> "new"]
    /\ wnode           = [r \in Req |-> NoNode]
    /\ wepoch          = [r \in Req |-> 0]
    /\ faults          = MaxFaults

-----------------------------------------------------------------------------
(* Client writes: publishOp, PublishDomainOp, publishEnvelope.              *)

(* Provably the only writer: straight to the local store.  A device op      *)
(* fires its reaction here, as the apply loop would.                        *)
WriteDirect(n, r) ==
    /\ wst[r] = "new" /\ phase[n] # "down"
    /\ WriteMode(n) = "direct"
    /\ store' = [store EXCEPT ![n] = Applied(@, r)]
    /\ wst'   = [wst EXCEPT ![r] = IF Accepts(store[n], r) THEN "direct" ELSE "rejected"]
    /\ queued' = [queued EXCEPT ![n] = @ \/ (OpOf[r].kind = "block")]
    /\ NoFault
    /\ UNCHANGED <<kv, phase, loop, halted, streamSeen, hand, attach, reforming, cloud, wnode, wepoch>>

(* Nothing to write to: refused, or dropped when best-effort. *)
WriteReadOnly(n, r) ==
    /\ wst[r] = "new" /\ phase[n] # "down"
    /\ WriteMode(n) = "readonly"
    /\ wst'   = [wst EXCEPT ![r] = IF r \in BestEffort THEN "dropped" ELSE "refused"]
    /\ NoFault
    /\ UNCHANGED <<disk, phase, loop, halted, streamSeen, hand, attach, queued, reforming, cloud, wnode, wepoch>>

(* The envelope is stamped with the epoch of this moment and a waiter is    *)
(* registered; the publication itself comes after.                          *)
WritePublish(n, r) ==
    /\ wst[r] = "new" /\ phase[n] # "down"
    /\ WriteMode(n) = "publish"
    /\ wst'    = [wst EXCEPT ![r] = "publishing"]
    /\ wnode'  = [wnode EXCEPT ![r] = n]
    /\ wepoch' = [wepoch EXCEPT ![r] = epoch[n]]
    /\ NoFault
    /\ UNCHANGED <<disk, phase, loop, halted, streamSeen, hand, attach, queued, reforming, cloud>>

(* The client is told the outcome and the waiter is released. *)
Finish(r, outcome) ==
    /\ wst'   = [wst EXCEPT ![r] = outcome]
    /\ wnode' = [wnode EXCEPT ![r] = NoNode]

(* The stream stores the entry; canon records what it makes of the state. *)
Stored(r) ==
    LET e == wepoch[r] IN
    /\ log'   = [log EXCEPT ![e] = Append(@, r)]
    /\ canon' = [canon EXCEPT ![e] = Append(@, Applied(@[Len(@)], r))]

(* The epoch in the subject is the fence: only a stream of the envelope's   *)
(* epoch stores the message and acks it.                                    *)
PublishAcked(r) ==
    /\ wst[r] = "publishing" /\ Connected(wnode[r]) /\ live[wepoch[r]]
    /\ Stored(r)
    /\ IF r \in BestEffort THEN Finish(r, "sent")
                           ELSE wst' = [wst EXCEPT ![r] = "waiting"] /\ UNCHANGED wnode
    /\ NoFault
    /\ UNCHANGED <<disk, phase, loop, halted, streamSeen, hand, attach, queued, reforming, live, wepoch>>

(* Stored, but the ack did not make it within oplogPublishTimeout. *)
PublishAckLost(r) ==
    /\ wst[r] = "publishing" /\ Connected(wnode[r]) /\ live[wepoch[r]]
    /\ Stored(r)
    /\ Finish(r, IF r \in BestEffort THEN "dropped" ELSE "refused")
    /\ Fault
    /\ UNCHANGED <<disk, phase, loop, halted, streamSeen, hand, attach, queued, reforming, live, wepoch>>

(* No stream, no client, or the message was lost on its way. *)
PublishFails(r) ==
    /\ wst[r] = "publishing"
    /\ IF live[wepoch[r]] /\ Connected(wnode[r]) THEN Fault ELSE NoFault
    /\ Finish(r, IF r \in BestEffort THEN "dropped" ELSE "refused")
    /\ UNCHANGED <<disk, phase, loop, halted, streamSeen, hand, attach, queued, reforming, cloud, wepoch>>

(* oplogApplyWait passed without the entry coming back. *)
WaitTimesOut(r) ==
    /\ wst[r] = "waiting"
    /\ Finish(r, "timeout")
    /\ NoFault
    /\ UNCHANGED <<disk, phase, loop, halted, streamSeen, hand, attach, queued, reforming, cloud, wepoch>>

(* notifyOpWaiter: only a waiter registered on this node hears of it. *)
Notify(n, r, outcome) ==
    IF wst[r] = "waiting" /\ wnode[r] = n
    THEN Finish(r, outcome) ELSE UNCHANGED <<wst, wnode>>

-----------------------------------------------------------------------------
(* The apply loop: oplogHandleMsg and what it calls.                        *)

NextSeq(n) == IF sub[n].next < FirstSeq(sub[n].epoch)
              THEN FirstSeq(sub[n].epoch) ELSE sub[n].next

(* The ordered consumer has an entry for us; entries discarded before they  *)
(* were delivered show as a gap.                                            *)
Deliverable(n) ==
    /\ sub[n].epoch # 0 /\ sub[n].alive
    /\ live[sub[n].epoch]
    /\ NextSeq(n) <= Len(log[sub[n].epoch])

Delivery(n) == [epoch |-> sub[n].epoch, seq |-> NextSeq(n), req |-> log[sub[n].epoch][NextSeq(n)]]

(* Dropping a subscription does not recall the callback that is already     *)
(* waiting for the apply lock.                                              *)
Stragglers(n) == {late[n]} \cup (IF Deliverable(n) THEN {Delivery(n)} ELSE {})

Detach(n) ==
    /\ sub'      = [sub EXCEPT ![n] = NoSub]
    /\ attached' = [attached EXCEPT ![n] = FALSE]
    /\ \E m \in Stragglers(n) : late' = [late EXCEPT ![n] = m]

CanRead(n, r) == OpOf[r].v = 1 \/ n \notin Old

(* Mutant: a gap is applied over. *)
SeqActionOverGaps(seq, last) == IF seq <= last THEN "skip" ELSE "apply"

(* oplogSeqAction: delivery is gated on strict contiguity. *)
SeqAction(seq, last) ==
    IF seq <= last THEN "skip" ELSE IF seq > last + 1 THEN "gap" ELSE "apply"

(* The handler of message m has the lock, gates m against last_applied_seq   *)
(* and reads its envelope.                                                   *)
Skipped(n, m) ==
    /\ halted[n] \/ SeqAction(m.seq, lastApplied[n]) = "skip"
    /\ UNCHANGED <<attached, hand, halted>>

Gap(n, m) ==
    /\ ~halted[n] /\ SeqAction(m.seq, lastApplied[n]) = "gap"
    /\ attached' = [attached EXCEPT ![n] = FALSE]
    /\ UNCHANGED <<hand, halted>>

Unreadable(n, m) ==
    /\ ~halted[n] /\ SeqAction(m.seq, lastApplied[n]) = "apply"
    /\ m.epoch = epoch[n] /\ ~CanRead(n, m.req)
    /\ halted' = [halted EXCEPT ![n] = TRUE]
    /\ attached' = [attached EXCEPT ![n] = FALSE]
    /\ UNCHANGED hand

Taken(n, m) ==
    /\ ~halted[n] /\ SeqAction(m.seq, lastApplied[n]) = "apply"
    /\ m.epoch # epoch[n] \/ CanRead(n, m.req)
    /\ hand' = [hand EXCEPT ![n] =
                  [epoch |-> m.epoch, seq |-> m.seq, req |-> m.req,
                   step |-> IF m.epoch # epoch[n] THEN "consume" ELSE "apply"]]
    /\ UNCHANGED <<attached, halted>>

(* A gap or an unreadable entry also drops whatever subscription is current *)
(* by then (go oplogDetach).                                                *)
Drops(n, m) == Gap(n, m) \/ Unreadable(n, m)
Keeps(n, m) == Skipped(n, m) \/ Taken(n, m)

HandleDelivery(n) ==
    /\ LockFree(n) /\ Deliverable(n)
    /\ LET m == Delivery(n) IN
         \/ Keeps(n, m) /\ sub' = [sub EXCEPT ![n].next = m.seq + 1]
         \/ Drops(n, m) /\ sub' = [sub EXCEPT ![n] = NoSub]
    /\ NoFault
    /\ UNCHANGED <<disk, phase, late, streamSeen, attach, queued, reforming, cloud, client>>

HandleLate(n) ==
    /\ LockFree(n) /\ late[n].epoch # 0 /\ phase[n] # "down"
    /\ \/ Keeps(n, late[n]) /\ UNCHANGED sub
       \/ Drops(n, late[n]) /\ sub' = [sub EXCEPT ![n] = NoSub]
    /\ late' = [late EXCEPT ![n] = NoMsg]
    /\ NoFault
    /\ UNCHANGED <<disk, phase, streamSeen, attach, queued, reforming, cloud, client>>

(* An entry whose epoch is not ours is consumed without being applied. *)
ConsumeForeign(n) ==
    /\ hand[n].step = "consume"
    /\ lastApplied' = [lastApplied EXCEPT ![n] = hand[n].seq]
    /\ hand' = [hand EXCEPT ![n] = NoHand]
    /\ NoFault
    /\ UNCHANGED <<epoch, bootstrapped, formationWriter, store, phase, loop, halted, streamSeen,
                   attach, queued, reforming, cloud, client>>

(* Mutant: the rejection is recorded in the log position but not reported. *)
OutcomeUnreported(n, r) == "ok"

(* What the origin's client is told: a uniqueness rejection is a duplicate. *)
Outcome(n, r) == IF Accepts(store[n], r) THEN "ok" ELSE "rejected"

(* ApplyOpTx: the mutation and its sequence in one transaction.  A          *)
(* uniqueness rejection rolls the data back and commits the sequence alone. *)
ApplyTableOp(n) ==
    /\ hand[n].step = "apply" /\ ~IsDomainOp(hand[n].req)
    /\ LET r == hand[n].req IN
         /\ store' = [store EXCEPT ![n] = Applied(@, r)]
         /\ lastApplied' = [lastApplied EXCEPT ![n] = hand[n].seq]
         /\ Notify(n, r, Outcome(n, r))
         /\ queued' = [queued EXCEPT ![n] = @ \/ (OpOf[r].kind = "block")]
    /\ hand' = [hand EXCEPT ![n] = NoHand]
    /\ NoFault
    /\ UNCHANGED <<epoch, bootstrapped, formationWriter, phase, loop, halted, streamSeen,
                   attach, reforming, cloud, wepoch>>

(* A domain op: the files first, ... *)
ApplyDomainOp(n) ==
    /\ hand[n].step = "apply" /\ IsDomainOp(hand[n].req)
    /\ store' = [store EXCEPT ![n] = Effect(@, hand[n].req)]
    /\ hand'  = [hand EXCEPT ![n].step = "commit"]
    /\ NoFault
    /\ UNCHANGED <<kv, phase, loop, halted, streamSeen, attach, queued, reforming, cloud, client>>

(* ... and the sequence after, in a transaction of its own. *)
CommitDomainOp(n) ==
    /\ hand[n].step = "commit"
    /\ lastApplied' = [lastApplied EXCEPT ![n] = hand[n].seq]
    /\ Notify(n, hand[n].req, "ok")
    /\ hand' = [hand EXCEPT ![n] = NoHand]
    /\ NoFault
    /\ UNCHANGED <<epoch, bootstrapped, formationWriter, store, phase, loop, halted, streamSeen,
                   attach, queued, reforming, cloud, wepoch>>

-----------------------------------------------------------------------------
(* The supervisor: oplogCheckAttachedStream and oplogAttach.                *)

(* Mutant: no stall probe. *)
NeverStalled(n) == FALSE

(* The log is ahead and our own position may look frozen across the probes. *)
Stalled(n) == Len(log[epoch[n]]) > lastApplied[n]

(* The probe of an attached node: its epoch moved, its stream is gone, or   *)
(* it has stalled.  A live but slow consumer may be taken for a dead one.   *)
ProbeDetaches(n) ==
    /\ phase[n] = "loop" /\ attached[n] /\ pc[n] = "idle"
    /\ \/ at[n].epoch # epoch[n] /\ NoFault
       \/ at[n].epoch = epoch[n] /\ ~live[epoch[n]] /\ NoFault
       \/ /\ at[n].epoch = epoch[n] /\ live[epoch[n]]
          /\ Stalled(n)
          /\ IF Deliverable(n) THEN Fault ELSE NoFault
    /\ Detach(n)
    /\ UNCHANGED <<disk, phase, halted, streamSeen, hand, attach, queued, reforming, cloud, client>>

(* nats.go lost the ordered consumer: the subscription goes quiet. *)
ConsumerDies(n) ==
    /\ sub[n].epoch # 0 /\ sub[n].alive
    /\ sub' = [sub EXCEPT ![n].alive = FALSE]
    /\ Fault
    /\ UNCHANGED <<disk, phase, attached, late, halted, streamSeen, hand, attach, queued, reforming, cloud, client>>

Step(n, p) == pc' = [pc EXCEPT ![n] = p]

(* oplogAttach returns without having attached. *)
GiveUp(n) == Step(n, "idle") /\ at' = [at EXCEPT ![n] = NoAt]

MayAttach(n) == phase[n] = "loop" /\ ~attached[n] /\ ~halted[n] /\ pc[n] = "idle"

(* StreamInfo finds the log of our epoch: formation is over for this node. *)
AttachFinds(n) ==
    /\ MayAttach(n) /\ live[epoch[n]]
    /\ at' = [at EXCEPT ![n] = [epoch |-> epoch[n], first |-> FirstSeq(epoch[n])]]
    /\ streamSeen' = [streamSeen EXCEPT ![n] = TRUE]
    /\ Step(n, "caught-up?")
    /\ NoFault
    /\ UNCHANGED <<disk, phase, loop, halted, hand, snap, queued, reforming, cloud, client>>

(* StreamInfo fails, for want of a stream or of an answer: ask a peer. *)
AttachMisses(n) ==
    /\ MayAttach(n)
    /\ IF live[epoch[n]] THEN Fault ELSE NoFault
    /\ at' = [at EXCEPT ![n] = [epoch |-> epoch[n], first |-> 0]]
    /\ Step(n, "ask")
    /\ UNCHANGED <<disk, phase, loop, halted, streamSeen, hand, snap, queued, reforming, cloud, client>>

(* oplogAdoptFromPeer: peer m answers.  A snapshot of our own epoch is      *)
(* declined when we already hold that epoch's state.                        *)
AdoptAnswered(n, m) ==
    /\ pc[n] = "ask" /\ Connected(n) /\ m \in Responders(n)
    /\ IF epoch[m] = epoch[n] /\ IsOplogBootstrapped(n)
       THEN Step(n, "create") /\ UNCHANGED <<at, snap>>
       ELSE /\ at' = [at EXCEPT ![n].epoch = epoch[n]]
            /\ snap' = [snap EXCEPT ![n] = Snapshot(m)]
            /\ Step(n, "adopt")
    /\ NoFault
    /\ UNCHANGED <<disk, phase, loop, halted, streamSeen, hand, queued, reforming, cloud, client>>

AdoptUnanswered(n) ==
    /\ pc[n] = "ask"
    /\ IF Connected(n) /\ Responders(n) # {} THEN Fault ELSE NoFault
    /\ Step(n, "create")
    /\ UNCHANGED <<disk, phase, loop, halted, streamSeen, hand, at, snap, queued, reforming, cloud, client>>

(* installOplogSnapshot, first part: ApplyLogicalDump replaces the tables   *)
(* and adopts the position and the bootstrapped marker in one transaction.  *)
InstallTables(n) ==
    /\ epoch'        = [epoch EXCEPT ![n] = snap[n].epoch]
    /\ lastApplied'  = [lastApplied EXCEPT ![n] = snap[n].seq]
    /\ bootstrapped' = [bootstrapped EXCEPT ![n] = snap[n].epoch]
    /\ store'        = [store EXCEPT ![n] = [snap[n].store EXCEPT !.dom = store[n].dom]]
    /\ queued'       = [queued EXCEPT ![n] = @ \/ Tables(store[n]) # Tables(snap[n].store)]
    /\ UNCHANGED formationWriter

(* Mutant: a domain's dump fails to apply and the error is only logged. *)
SkipDomains(n) == UNCHANGED store

(* Second part: the domains, file by file. *)
InstallDomains(n) ==
    store' = [store EXCEPT ![n].dom = snap[n].store.dom]

(* Adoption does not hold the apply lock. *)
AdoptTables(n) ==
    /\ pc[n] = "adopt"
    /\ InstallTables(n)
    /\ Step(n, "adopt-domains")
    /\ NoFault
    /\ UNCHANGED <<phase, loop, halted, streamSeen, hand, at, snap, reforming, cloud, client>>

(* A manager that changed epochs also drops its JetStream directory and     *)
(* restarts (oplogDropStaleJetStream).                                      *)
AdoptDomains(n) ==
    /\ pc[n] = "adopt-domains"
    /\ InstallDomains(n)
    /\ queued' = [queued EXCEPT ![n] = @ \/ (snap[n].epoch # at[n].epoch /\ n \in Manager)]
    /\ snap' = [snap EXCEPT ![n] = NoSnap]
    /\ GiveUp(n)
    /\ NoFault
    /\ UNCHANGED <<kv, phase, loop, halted, streamSeen, hand, reforming, cloud, client>>

(* createOplogStream: AddStream has one winner, which has created the log   *)
(* of the epoch it read when the attach began.                              *)
CreateWins(n) ==
    /\ pc[n] = "create" /\ Connected(n) /\ MayCreateStream(n) /\ ~live[at[n].epoch]
    /\ live' = [live EXCEPT ![at[n].epoch] = TRUE]
    /\ log'  = [log EXCEPT ![at[n].epoch] = <<>>]
    /\ canon' = [canon EXCEPT ![at[n].epoch] = <<store[n]>>]
    /\ Step(n, "created")
    /\ IF CreatorDeferred(n) THEN Fault ELSE NoFault
    /\ UNCHANGED <<disk, phase, loop, halted, streamSeen, hand, at, snap, queued, reforming, client>>

(* Losing the race is as good: the winner's stream is attached to. *)
CreateLoses(n) ==
    /\ pc[n] = "create" /\ Connected(n) /\ MayCreateStream(n) /\ live[at[n].epoch]
    /\ at' = [at EXCEPT ![n].first = FirstSeq(at[n].epoch)]
    /\ streamSeen' = [streamSeen EXCEPT ![n] = TRUE]
    /\ Step(n, "caught-up?")
    /\ NoFault
    /\ UNCHANGED <<disk, phase, loop, halted, hand, snap, queued, reforming, cloud, client>>

CreateRefused(n) ==
    /\ pc[n] = "create"
    /\ IF Connected(n) /\ MayCreateStream(n) /\ ~CreatorDeferred(n) THEN Fault ELSE NoFault
    /\ GiveUp(n)
    /\ UNCHANGED <<disk, phase, loop, halted, streamSeen, hand, snap, queued, reforming, cloud, client>>

(* The creator's own store is the seed: MarkOplogBootstrapped. *)
MarkCreated(n) ==
    /\ pc[n] = "created" /\ hand[n].step = "none"
    /\ streamSeen' = [streamSeen EXCEPT ![n] = TRUE]
    /\ bootstrapped' = [bootstrapped EXCEPT ![n] = at[n].epoch]
    /\ Step(n, "subscribe")
    /\ NoFault
    /\ UNCHANGED <<epoch, lastApplied, formationWriter, store, phase, loop, halted, hand, at, snap,
                   queued, reforming, cloud, client>>

BehindRetention(n) == at[n].first > lastApplied[n] + 1

(* The lock is taken.  A node behind retention, or without this epoch's state,  *)
(* has to install a snapshot before it may subscribe.                       *)
CatchUp(n) ==
    /\ pc[n] = "caught-up?" /\ hand[n].step = "none"
    /\ Step(n, IF BehindRetention(n) \/ ~IsOplogBootstrapped(n) THEN "fast-forward" ELSE "subscribe")
    /\ NoFault
    /\ UNCHANGED <<disk, phase, loop, halted, streamSeen, hand, at, snap, queued, reforming, cloud, client>>

FastForwardAnswered(n, m) ==
    /\ pc[n] = "fast-forward" /\ Connected(n) /\ m \in Responders(n)
    /\ snap' = [snap EXCEPT ![n] = Snapshot(m)]
    /\ Step(n, "install")
    /\ NoFault
    /\ UNCHANGED <<disk, phase, loop, halted, streamSeen, hand, at, queued, reforming, cloud, client>>

(* Mutant: no self-seed. *)
NeverSelfSeeds(n) == FALSE

(* The self-seed gate, in the case that is not behind retention. *)
MaySelfSeed(n) == ~BehindRetention(n) /\ IsFormationWriter(n)

(* Nobody answered.  The formation writer, re-attaching to the log it       *)
(* created, declares its own store the seed; anyone else tries again later. *)
FastForwardUnanswered(n) ==
    /\ pc[n] = "fast-forward"
    /\ IF Connected(n) /\ Responders(n) # {} THEN Fault ELSE NoFault
    /\ IF MaySelfSeed(n)
       THEN /\ bootstrapped' = [bootstrapped EXCEPT ![n] = at[n].epoch]
            /\ Step(n, "subscribe") /\ UNCHANGED at
       ELSE UNCHANGED bootstrapped /\ GiveUp(n)
    /\ UNCHANGED <<epoch, lastApplied, formationWriter, store, phase, loop, halted, streamSeen,
                   hand, snap, queued, reforming, cloud, client>>

FastForwardTables(n) ==
    /\ pc[n] = "install"
    /\ InstallTables(n)
    /\ Step(n, "install-domains")
    /\ NoFault
    /\ UNCHANGED <<phase, loop, halted, streamSeen, hand, at, snap, reforming, cloud, client>>

(* The install ends; another epoch sends the supervisor back to its start,  *)
(* and the gap check sends it for another snapshot (or, after               *)
(* oplogFastForwardAttempts of them, back to its start too).                *)
FastForwardDomains(n) ==
    /\ pc[n] = "install-domains"
    /\ InstallDomains(n)
    /\ queued' = [queued EXCEPT ![n] = @ \/ (snap[n].epoch # at[n].epoch /\ n \in Manager)]
    /\ snap' = [snap EXCEPT ![n] = NoSnap]
    /\ IF snap[n].epoch # at[n].epoch \/ ~live[at[n].epoch] THEN GiveUp(n)
       ELSE IF FirstSeq(at[n].epoch) <= snap[n].seq + 1 THEN Step(n, "subscribe") /\ UNCHANGED at
       ELSE (Step(n, "fast-forward") /\ UNCHANGED at) \/ GiveUp(n)
    /\ NoFault
    /\ UNCHANGED <<kv, phase, loop, halted, streamSeen, hand, reforming, cloud, client>>

(* Mutant: the consumer starts at the last entry applied. *)
StartAtLastApplied(n) == lastApplied[n]

(* The consumer starts at the entry after the last one applied. *)
StartSequence(n) == lastApplied[n] + 1

Subscribe(n) ==
    /\ pc[n] = "subscribe"
    /\ epoch[n] = at[n].epoch /\ live[at[n].epoch] /\ phase[n] = "loop"
    /\ sub' = [sub EXCEPT ![n] = [epoch |-> at[n].epoch, next |-> StartSequence(n), alive |-> TRUE]]
    /\ at' = [at EXCEPT ![n].first = 0]
    /\ Step(n, "latch")
    /\ NoFault
    /\ UNCHANGED <<disk, phase, attached, late, halted, streamSeen, hand, snap, queued, reforming, cloud, client>>

(* The epoch moved, the loop was stopped, or the stream cannot be reached. *)
SubscribeFails(n) ==
    /\ pc[n] = "subscribe"
    /\ IF epoch[n] = at[n].epoch /\ live[at[n].epoch] /\ phase[n] = "loop" THEN Fault ELSE NoFault
    /\ GiveUp(n)
    /\ UNCHANGED <<disk, phase, loop, halted, streamSeen, hand, snap, queued, reforming, cloud, client>>

(* oplogAttached is set and the formation licence, if any, given up; the    *)
(* stop of the loop may have come in between.                               *)
Latch(n) ==
    /\ pc[n] = "latch"
    /\ attached' = [attached EXCEPT ![n] = TRUE]
    /\ formationWriter' = [formationWriter EXCEPT ![n] = IF IsFormationWriter(n) THEN 0 ELSE @]
    /\ Step(n, "idle")
    /\ NoFault
    /\ UNCHANGED <<epoch, lastApplied, bootstrapped, store, phase, sub, late, halted, streamSeen,
                   hand, at, snap, queued, reforming, cloud, client>>

-----------------------------------------------------------------------------
(* Restarts, crashes and force-reform.                                      *)

(* RestartNebula: StopNATS, CloseNATSClient and stop(), then Init again. *)
RestartNebula(n) ==
    /\ phase[n] # "down"
    /\ IF queued[n] THEN NoFault ELSE Fault
    /\ phase'  = [phase EXCEPT ![n] = "boot"]
    /\ queued' = [queued EXCEPT ![n] = FALSE]
    /\ Detach(n)
    /\ UNCHANGED <<disk, halted, streamSeen, hand, attach, reforming, cloud, client>>

StartNebula(n) ==
    /\ phase[n] = "boot"
    /\ phase' = [phase EXCEPT ![n] = "nebula"]
    /\ NoFault
    /\ UNCHANGED <<disk, loop, halted, streamSeen, hand, attach, queued, reforming, cloud, client>>

(* InitNATSClient connects and calls StartOplogApply, which clears the halt. *)
StartOplogApply(n) ==
    /\ phase[n] = "nebula" /\ ~reforming[n] /\ pc[n] = "idle"
    /\ phase'  = [phase EXCEPT ![n] = "loop"]
    /\ halted' = [halted EXCEPT ![n] = FALSE]
    /\ NoFault
    /\ UNCHANGED <<disk, loop, streamSeen, hand, attach, queued, reforming, cloud, client>>

(* The process dies: what is not in SQLite or on file is gone, and so are   *)
(* the HTTP requests that were waiting on it.                               *)
Crash(n) ==
    /\ phase[n] # "down"
    /\ Fault
    /\ phase'      = [phase EXCEPT ![n] = "down"]
    /\ attached'   = [attached EXCEPT ![n] = FALSE]
    /\ halted'     = [halted EXCEPT ![n] = FALSE]
    /\ streamSeen' = [streamSeen EXCEPT ![n] = FALSE]
    /\ sub'        = [sub EXCEPT ![n] = NoSub]
    /\ late'       = [late EXCEPT ![n] = NoMsg]
    /\ hand'       = [hand EXCEPT ![n] = NoHand]
    /\ pc'         = [pc EXCEPT ![n] = "idle"]
    /\ at'         = [at EXCEPT ![n] = NoAt]
    /\ snap'       = [snap EXCEPT ![n] = NoSnap]
    /\ queued'     = [queued EXCEPT ![n] = FALSE]
    /\ reforming'  = [reforming EXCEPT ![n] = FALSE]
    /\ wst'        = [r \in Req |-> IF wnode[r] = n THEN "lost" ELSE wst[r]]
    /\ wnode'      = [r \in Req |-> IF wnode[r] = n THEN NoNode ELSE wnode[r]]
    /\ UNCHANGED <<disk, cloud, wepoch>>

StartProcess(n) ==
    /\ phase[n] = "down"
    /\ phase' = [phase EXCEPT ![n] = "boot"]
    /\ NoFault
    /\ UNCHANGED <<disk, loop, halted, streamSeen, hand, attach, queued, reforming, cloud, client>>

(* What the operator of a force-reform sees to: the survivor is a server no  *)
(* other one is ahead of.  Reforms on both sides of a split would found two *)
(* clusters with one epoch number, and this model has one JetStream.        *)
SurvivorIsCurrent(n) == \A m \in Node : epoch[m] <= epoch[n]

(* ReformOplogEpoch, the first thing performForceReform does.  It does not  *)
(* take the apply lock.  API_ForceReform wants an admin and an HA           *)
(* constellation, so this server has device rows.                           *)
ReformOplogEpoch(n) ==
    /\ n \in Manager /\ phase[n] # "down" /\ ~reforming[n] /\ store[n].devices
    /\ epoch[n] < MaxEpoch
    /\ SurvivorIsCurrent(n)
    /\ epoch'           = [epoch EXCEPT ![n] = @ + 1]
    /\ lastApplied'     = [lastApplied EXCEPT ![n] = 0]
    /\ bootstrapped'    = [bootstrapped EXCEPT ![n] = 0]
    /\ formationWriter' = [formationWriter EXCEPT ![n] = epoch[n] + 1]
    /\ reforming'       = [reforming EXCEPT ![n] = TRUE]
    /\ NoFault
    /\ UNCHANGED <<store, phase, loop, halted, streamSeen, hand, attach, queued, cloud, client>>

(* The rest of it: the licence to write direct re-opens, the loop and NATS  *)
(* stop, the other managers are blocked by local writes, and a restart is   *)
(* under way.                                                               *)
ReformCleanUp(n) ==
    /\ reforming[n]
    /\ reforming'  = [reforming EXCEPT ![n] = FALSE]
    /\ streamSeen' = [streamSeen EXCEPT ![n] = FALSE]
    /\ phase'      = [phase EXCEPT ![n] = IF @ = "loop" THEN "nebula" ELSE @]
    /\ Detach(n)
    /\ store'      = [store EXCEPT ![n].blocked = @ \cup (Manager \ {n})]
    /\ queued'     = [queued EXCEPT ![n] = TRUE]
    /\ NoFault
    /\ UNCHANGED <<kv, halted, hand, attach, cloud, client>>

(* The cluster a reform abandoned loses its last JetStream directory. *)
StreamLost(e) ==
    /\ live[e] /\ \E n \in Node : epoch[n] > e
    /\ live' = [live EXCEPT ![e] = FALSE]
    /\ NoFault
    /\ UNCHANGED <<disk, phase, loop, halted, streamSeen, hand, attach, queued, reforming, log, canon, client>>

-----------------------------------------------------------------------------
WriteStep(n) == \E r \in Req : WriteDirect(n, r) \/ WriteReadOnly(n, r) \/ WritePublish(n, r)

RequestStep(r) == PublishAcked(r) \/ PublishAckLost(r) \/ PublishFails(r) \/ WaitTimesOut(r)

ApplyStep(n) == HandleDelivery(n) \/ HandleLate(n) \/ ConsumeForeign(n)
                  \/ ApplyTableOp(n) \/ ApplyDomainOp(n) \/ CommitDomainOp(n)

AdoptStep(n) == AttachMisses(n) \/ AdoptUnanswered(n) \/ (\E m \in Node : AdoptAnswered(n, m))
                  \/ AdoptTables(n) \/ AdoptDomains(n)

CreateStep(n) == CreateWins(n) \/ CreateLoses(n) \/ CreateRefused(n) \/ MarkCreated(n)

AttachStep(n) == AttachFinds(n) \/ CatchUp(n)
                  \/ (\E m \in Node : FastForwardAnswered(n, m)) \/ FastForwardUnanswered(n)
                  \/ FastForwardTables(n) \/ FastForwardDomains(n)
                  \/ Subscribe(n) \/ SubscribeFails(n) \/ Latch(n)

LifeStep(n) == ProbeDetaches(n) \/ ConsumerDies(n) \/ RestartNebula(n) \/ StartNebula(n)
                  \/ StartOplogApply(n) \/ Crash(n) \/ StartProcess(n)
                  \/ ReformOplogEpoch(n) \/ ReformCleanUp(n)

NodeStep(n) == WriteStep(n) \/ ApplyStep(n) \/ AdoptStep(n) \/ CreateStep(n)
                 \/ AttachStep(n) \/ LifeStep(n)

Next == \/ \E n \in Node : NodeStep(n)
        \/ \E r \in Req : RequestStep(r)
        \/ \E e \in Epoch : StreamLost(e)

Spec       == Init /\ [][Next]_vars
FormedSpec == InitFormed /\ [][Next]_vars

(* Scheduling.  The supervisor and the NATS callbacks run as long as the    *)
(* process does, a restart that was requested happens, a process that died  *)
(* is started again, every request ends (its waits are bounded by           *)
(* oplogPublishTimeout and oplogApplyWait), and the servers of an abandoned *)
(* cluster are eventually taken down.  Faults are finite by their bound.    *)
SuperviseStep(n) == ProbeDetaches(n) \/ AdoptStep(n) \/ CreateStep(n) \/ AttachStep(n)
BringUpStep(n)   == StartProcess(n) \/ StartNebula(n) \/ StartOplogApply(n) \/ ReformCleanUp(n)

Fairness == /\ \A n \in Node : /\ WF_vars(ApplyStep(n))
                              /\ WF_vars(SuperviseStep(n))
                              /\ WF_vars(BringUpStep(n))
                              /\ WF_vars(queued[n] /\ RestartNebula(n))
            /\ \A r \in Req : WF_vars(RequestStep(r))
            /\ \A e \in Epoch : WF_vars(StreamLost(e))

FairSpec       == Spec /\ Fairness
FairFormedSpec == FormedSpec /\ Fairness
=============================================================================
