----------------------------- MODULE OpLogProps -----------------------------
(***************************************************************************)
(* What the config op-log promises, as invariants, action properties and   *)
(* liveness properties of OpLog.                                           *)
(***************************************************************************)
EXTENDS OpLog

Phase == {"down", "boot", "nebula", "loop"}
Attaching == {"idle", "ask", "adopt", "adopt-domains", "create", "created", "caught-up?",
              "fast-forward", "install", "install-domains", "subscribe", "latch"}
Outcomes == {"new", "direct", "publishing", "waiting", "ok", "rejected", "refused",
             "dropped", "sent", "timeout", "lost"}

DiskOK ==
    /\ epoch \in [Node -> Epoch] /\ lastApplied \in [Node -> Nat]
    /\ bootstrapped \in [Node -> 0..MaxEpoch] /\ formationWriter \in [Node -> 0..MaxEpoch]
    /\ store \in [Node -> Store]

ProcessOK ==
    /\ phase \in [Node -> Phase]
    /\ attached \in [Node -> BOOLEAN] /\ halted \in [Node -> BOOLEAN]
    /\ streamSeen \in [Node -> BOOLEAN] /\ queued \in [Node -> BOOLEAN]
    /\ reforming \in [Node -> BOOLEAN]

Message == [epoch : Epoch, seq : Nat \ {0}, req : Req]

LoopOK ==
    /\ sub \in [Node -> [epoch : Epoch, next : Nat \ {0}, alive : BOOLEAN] \cup {NoSub}]
    /\ late \in [Node -> Message \cup {NoMsg}]
    /\ hand \in [Node -> [epoch : Epoch, seq : Nat \ {0}, req : Req,
                          step : {"consume", "apply", "commit"}] \cup {NoHand}]

AttachOK ==
    /\ pc \in [Node -> Attaching]
    /\ at \in [Node -> [epoch : 0..MaxEpoch, first : Nat]]
    /\ snap \in [Node -> [epoch : 0..MaxEpoch, seq : Nat, store : Store]]
    /\ \A n \in Node : /\ pc[n] # "idle" => at[n].epoch \in Epoch
                       /\ pc[n] \in {"adopt", "install"} => snap[n].epoch \in Epoch

CloudOK ==
    /\ live \in [Epoch -> BOOLEAN]
    /\ log \in [Epoch -> Seq(Req)] /\ canon \in [Epoch -> Seq(Store)]
    /\ \A e \in Epoch : Len(canon[e]) = Len(log[e]) + 1

ClientOK ==
    /\ wst \in [Req -> Outcomes] /\ wnode \in [Req -> Node \cup {NoNode}]
    /\ wepoch \in [Req -> 0..MaxEpoch]
    /\ \A r \in Req : wst[r] \in {"publishing", "waiting"} => wnode[r] \in Node /\ wepoch[r] \in Epoch

(* The shape of the state: what SQLite, the process, the apply loop, the    *)
(* attach path, JetStream and the clients may hold, and that an attach that *)
(* is under way knows its epoch.                                            *)
TypeOK == DiskOK /\ ProcessOK /\ LoopOK /\ AttachOK /\ CloudOK /\ ClientOK /\ faults \in Nat

(* A node that holds the state of its epoch holds exactly the tables that   *)
(* the prefix of the log up to last_applied_seq produces from the seed,     *)
(* whatever restarts, redeliveries, gaps and snapshots it went through      *)
(* (oplog.go: "Every node materializes its local state by applying that     *)
(* stream in order").                                                       *)
Materialized ==
    \A n \in Node :
        IsOplogBootstrapped(n) /\ live[epoch[n]] =>
            /\ lastApplied[n] <= Len(log[epoch[n]])
            /\ Tables(store[n]) = Tables(canon[epoch[n]][lastApplied[n] + 1])

(* Two nodes that hold the state of one epoch at one position hold the same *)
(* tables.  In particular nobody has a snapshot of a store that its writer  *)
(* goes on writing to before the log exists: "a peer [that] could snapshot  *)
(* mid-formation ... would install state at (epoch, 0) while the writer     *)
(* kept making direct writes that appear in no log and in no snapshot, and  *)
(* nothing would ever reconcile the two" (oplog_snapshot.go:77-86).         *)
ReplicasAgree ==
    \A m, n \in Node :
        /\ IsOplogBootstrapped(m) /\ IsOplogBootstrapped(n)
        /\ epoch[m] = epoch[n] /\ lastApplied[m] = lastApplied[n]
        => Tables(store[m]) = Tables(store[n])

(* Once no install is in progress, the domain a node holds is the one of    *)
(* its log position or of a later one: a committed position never stands    *)
(* for a domain change that was not applied (oplog_apply.go:618).           *)
DomainsNotBehind ==
    \A n \in Node :
        IsOplogBootstrapped(n) /\ live[epoch[n]] /\ pc[n] \notin {"adopt-domains", "install-domains"} =>
            \E i \in lastApplied[n]..Len(log[epoch[n]]) : store[n].dom = canon[epoch[n]][i + 1].dom

(* What a client hears about a published write is what the log says: it is  *)
(* told "ok" or "duplicate" exactly as the replay up to that entry decides. *)
OutcomeIsCanonical ==
    \A r \in Req :
        wst[r] \in {"ok", "rejected"} /\ wepoch[r] # 0 =>
            \E i \in 1..Len(log[wepoch[r]]) :
                /\ log[wepoch[r]][i] = r
                /\ (wst[r] = "ok") <=> Accepts(canon[wepoch[r]][i], r)

(* A node never goes back to an epoch it left: a snapshot that was asked    *)
(* for, answered or read before a reform does not undo the reform           *)
(* (api_force_reform.go:124, oplog_snapshot.go:84).                         *)
EpochNeverBack == [][\A n \in Node : epoch'[n] >= epoch[n]]_vars

(* A reform can catch the supervisor with a snapshot in hand, and no lock   *)
(* keeps them apart.  What is lost to it is bounded: a node goes back only  *)
(* as that snapshot is installed, and no further than to the epoch at which *)
(* the attach began, since peers behind the asker stay silent               *)
(* (oplog_snapshot.go:84-103, 184-188, 231-234).                            *)
BackNoFurtherThanAttach ==
    [][\A n \in Node : epoch'[n] < epoch[n] =>
          pc[n] \in {"adopt", "install"} /\ at[n].epoch <= epoch'[n]]_vars

(* Somebody entitled to serve, or to go on from the log alone, remains. *)
SomeoneCovers ==
    \E n \in Node : /\ IsOplogBootstrapped(n) /\ ~IsSelfBlocked(n)
                    /\ FirstSeq(epoch[n]) <= lastApplied[n] + 1

CaughtUp == \A n \in Node : attached[n] /\ live[epoch[n]] /\ lastApplied[n] = Len(log[epoch[n]])

(* Every node ends up attached with the whole log applied, whatever         *)
(* consumers died, acks and answers were lost and processes were restarted  *)
(* on the way: the supervisor's probes and its attach path lose nobody      *)
(* (oplog_apply.go:87-118, 195-252, 297-448).                               *)
Converges == <>[]SomeoneCovers => <>[]CaughtUp

(* Formation ends: from a founder that has created no log yet, every node   *)
(* gets to attach and the founder's licence is spent, even if it crashes    *)
(* between creating the log and marking itself as its seed                  *)
(* (oplog_apply.go:391-430, oplog_snapshot.go:218-267).                     *)
FormationEnds == <>[](\A n \in Node : attached[n] /\ ~IsFormationWriter(n))

(* No force-reform on this server hits an install of the supervisor. *)
ReformFindsNoInstall ==
    \A n \in Node : reforming[n] => pc[n] \notin {"adopt", "adopt-domains", "install", "install-domains"}

(* The licence to create the log of an epoch, and to write beside it until  *)
(* it exists, is held by one node: what enrollment and reforms hand out is  *)
(* spent, expires with its epoch and is never given twice                   *)
(* (store_op.go:105-112), as long as ReformFindsNoInstall holds.  A reform  *)
(* that an install undoes leaves its licence behind, the next reform goes   *)
(* to an epoch of the same number, and who adopts that epoch from it holds  *)
(* the licence too.                                                         *)
LicenceIsExclusive ==
    \A m, n \in Node : IsFormationWriter(m) /\ IsFormationWriter(n) /\ epoch[m] = epoch[n] => m = n

(* Provided no reform hits an install in progress, every node ends up       *)
(* attached, and all at one epoch, whatever reforms were performed and      *)
(* whatever the supervisor was doing when they were: an attach that takes   *)
(* the new epoch's licence away (oplog_apply.go:430-446) is made up for by  *)
(* the unlicensed creation (oplog.go:393-458).                              *)
ReformHeals ==
    []ReformFindsNoInstall => <>[](\A m, n \in Node : attached[n] /\ epoch[m] = epoch[n])

(* A node that halted before an entry it cannot read (a newer envelope,     *)
(* oplog_apply.go:514-528) stops offering to publish: the latch that an     *)
(* attach in progress sets after the halt is taken away by the stall probe. *)
HaltedGoesReadOnly == \A n \in Old : halted[n] ~> ~attached[n] \/ ~halted[n]
-----------------------------------------------------------------------------
(* The contract.  In a constellation that is formed and not reformed, what  *)
(* a server has materialized and what a client knows are read off the       *)
(* detailed state.                                                          *)

MaterializedView(n) == IF IsOplogBootstrapped(n)
                       THEN [known |-> TRUE, pos |-> lastApplied[n], tables |-> Tables(store[n])]
                       ELSE [known |-> FALSE, pos |-> 0, tables |-> Tables(FreshStore)]

ToldTo(r) == CASE wst[r] \in {"new", "publishing", "waiting"} -> "asked"
               [] wst[r] \in {"ok", "rejected"} /\ wepoch[r] # 0 -> wst[r]
               [] OTHER -> "unsure"

Views == [n \in Node |-> MaterializedView(n)]
Told  == [r \in Req |-> ToldTo(r)]

Contract == INSTANCE ReplicatedStore
              WITH log <- log[1], history <- canon[1], view <- Views, told <- Told

(* The apply loop, its snapshots, its restarts and its waiters implement    *)
(* the contract: every step of the code is one step of a replicated store   *)
(* or is invisible in it (oplog.go: "Every node materializes its local      *)
(* state by applying that stream in order").                                *)
ImplementsContract == Contract!PSpec
=============================================================================
