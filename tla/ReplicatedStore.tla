--------------------------- MODULE ReplicatedStore ---------------------------
(***************************************************************************)
(* What the config op-log promises to the servers of a constellation and   *)
(* to their clients, without streams, snapshots, locks or restarts: the    *)
(* contract of src/src/constellation/oplog.go ("Every node materializes    *)
(* its local state by applying that stream in order").                     *)
(*                                                                         *)
(* There is one log.  A server holds the tables of some prefix of it, or   *)
(* none yet; it moves on by one entry or jumps to another prefix.  A write *)
(* enters the log at most once.  Its client is answered yes or no exactly  *)
(* as the log decides, at the moment a server applies the entry; any other *)
(* end of the request leaves it unsure.                                    *)
(***************************************************************************)
EXTENDS OpLogStore

VARIABLES
    log,        \* the writes accepted so far, in order
    history,    \* the store before the first of them and after each
    view,       \* what each server has materialized
    told        \* what the client of each write knows

pvars == <<log, history, view, told>>

Answer == {"asked", "ok", "rejected", "unsure"}
NoView == [known |-> FALSE, pos |-> 0, tables |-> Tables(FreshStore)]
View(i) == [known |-> TRUE, pos |-> i, tables |-> Tables(history[i + 1])]

Logged(r) == \E i \in 1..Len(log) : log[i] = r

PInit ==
    /\ log = <<>>
    /\ history \in Seq(Store) /\ Len(history) = 1
    /\ \A n \in Node : view[n] \in {NoView, View(0)}
    /\ told = [r \in Req |-> "asked"]

(* The log takes a write; its client may already have been told otherwise   *)
(* by then, or be as soon as the answer is lost.                            *)
Accept(r) ==
    /\ told[r] = "asked" /\ ~Logged(r)
    /\ log' = Append(log, r)
    /\ history' = Append(history, Applied(history[Len(history)], r))
    /\ told' \in {told, [told EXCEPT ![r] = "unsure"]}
    /\ UNCHANGED view

(* What replaying the log says of its i-th entry. *)
Verdict(i) == IF Accepts(history[i], log[i]) THEN "ok" ELSE "rejected"

(* A server applies the entry after its prefix, and may answer its client.  *)
ApplyNext(n) ==
    /\ view[n].known /\ view[n].pos < Len(log)
    /\ LET i == view[n].pos + 1
           r == log[i] IN
         /\ view' = [view EXCEPT ![n] = View(i)]
         /\ \/ UNCHANGED told
            \/ told[r] = "asked" /\ told' = [told EXCEPT ![r] = Verdict(i)]
    /\ UNCHANGED <<log, history>>

(* A server takes another one's prefix over, older than its own or not. *)
Adopt(n) ==
    /\ \E i \in 0..Len(log) : view' = [view EXCEPT ![n] = View(i)]
    /\ UNCHANGED <<log, history, told>>

(* Requests end without an answer: refused, dropped, timed out or lost. *)
GiveUpOn(R) ==
    /\ \A r \in R : told[r] = "asked"
    /\ told' = [r \in Req |-> IF r \in R THEN "unsure" ELSE told[r]]
    /\ UNCHANGED <<log, history, view>>

PNext == \/ \E R \in SUBSET Req : GiveUpOn(R)
         \/ \E r \in Req : Accept(r)
         \/ \E n \in Node : ApplyNext(n) \/ Adopt(n)

PSpec == PInit /\ [][PNext]_pvars
=============================================================================
