------------------------------ MODULE MCOpLog ------------------------------
(* Small constellations for TLC: two servers, one unique key, at most two   *)
(* writes.                                                                  *)
EXTENDS OpLogProps, TLC

CONSTANTS n1, n2, k1, r1, r2

Insert == [kind |-> "insert", arg |-> k1, v |-> 1]
Newer  == [kind |-> "insert", arg |-> k1, v |-> 2]
Set    == [kind |-> "set", arg |-> "domain", v |-> 1]

OpsRows   == [r \in Req |-> Insert]
OpsDomain == [r \in Req |-> Set]
OpsMixed  == [r \in Req |-> IF r = r1 THEN Newer ELSE Set]

(* Sound where both writes carry the same operation and neither is named. *)
SameOps == Permutations({r1, r2})
=============================================================================
