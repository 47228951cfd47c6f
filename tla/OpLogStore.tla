----------------------------- MODULE OpLogStore -----------------------------
(***************************************************************************)
(* The state a Cosmos node materializes from the config op-log, and what   *)
(* one entry of the log does to it (src/src/utils/store_op.go,             *)
(* store_mutation.go, src/src/constellation/oplog_apply.go).               *)
(*                                                                         *)
(* A store abstracts the users and devices tables and the config domains:  *)
(*   rows     which request inserted the row of each unique key, if any    *)
(*            (users are keyed by nickname, active devices by name and IP) *)
(*   blocked  the nodes whose device record is marked Blocked              *)
(*   dom      the request whose full-state "set" the config domain holds   *)
(*   devices  whether the tables hold any row at all (dumpIsEmpty)         *)
(*                                                                         *)
(* rows, blocked and devices live in SQLite and change in one transaction; *)
(* dom lives in config.json and loose files, which no transaction spans.   *)
(***************************************************************************)
EXTENDS Naturals, Sequences

CONSTANTS
    Node,      \* the Cosmos servers of the constellation
    Key,       \* unique keys of rows: nicknames, device names, device IPs
    Req,       \* client writes; each carries a fresh ReqID
    NoReq,     \* "no request": an absent row, an untouched domain
    OpOf       \* what each write does: [kind, arg, v]

(* The mutations of store_mutation.go, cut down to what replicas can tell  *)
(* apart, and the one domain op.  v is the envelope version.               *)
Op == [kind : {"insert", "delete"}, arg : Key, v : {1, 2}]
        \cup [kind : {"block"}, arg : Node, v : {1}]
        \cup [kind : {"set"}, arg : {"domain"}, v : {1}]

ASSUME NoReqAssumption == NoReq \notin Req
ASSUME OpAssumption    == OpOf \in [Req -> Op]

Store == [rows : [Key -> Req \cup {NoReq}], blocked : SUBSET Node,
          dom : Req \cup {NoReq}, devices : BOOLEAN]

(* A fresh install: no row at all.  The founder's store holds its own device. *)
FreshStore   == [rows |-> [k \in Key |-> NoReq], blocked |-> {},
                 dom |-> NoReq, devices |-> FALSE]
FounderStore == [FreshStore EXCEPT !.devices = TRUE]

(* A uniqueness index rejects the insert of a key already present          *)
(* (mapSQLError turns it into ErrConstraint).                              *)
Accepts(s, r) == OpOf[r].kind = "insert" => s.rows[OpOf[r].arg] = NoReq

(* The effect of an accepted mutation, or of a domain's Apply. *)
Effect(s, r) ==
    LET o == OpOf[r] IN
    CASE o.kind = "insert" -> [s EXCEPT !.rows[o.arg] = r, !.devices = TRUE]
      [] o.kind = "delete" -> [s EXCEPT !.rows[o.arg] = NoReq]
      [] o.kind = "block"  -> [s EXCEPT !.blocked = @ \cup {o.arg}, !.devices = TRUE]
      [] o.kind = "set"    -> [s EXCEPT !.dom = r]

(* One log entry: a rejected one consumes its sequence and changes nothing. *)
Applied(s, r) == IF Accepts(s, r) THEN Effect(s, r) ELSE s

IsDomainOp(r) == OpOf[r].kind = "set"

(* The part of a store SQLite holds. *)
Tables(s) == [rows |-> s.rows, blocked |-> s.blocked, devices |-> s.devices]
=============================================================================
