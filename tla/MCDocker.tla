------------------------------ MODULE MCDocker ------------------------------
(* A container, another that shares its network, and requests about both. *)
EXTENDS DockerProps

CONSTANTS main, side, e1, e2, e3, r1, s1, s2

Kinds == [t \in Task |-> CASE t \in {e1, e2, e3} -> "edit" [] t = r1 -> "recreate" [] t \in {s1, s2} -> "service"]

Targets == [t \in Task |-> CASE t \in {e1, e2, r1} -> {main} [] t = e3 -> {side} [] t = s1 -> {main}
                             [] t = s2 -> {main, side}]

Parents == [n \in Name |-> IF n = side THEN main ELSE None]

Numbers == [n \in Name |-> IF n = side THEN 2 ELSE 1]
=============================================================================
