------------------------------- MODULE MCMesh -------------------------------
(* Up to two calls that take the mesh down, and one sender. *)
EXTENDS MeshProps

CONSTANTS t1, t2, s1
=============================================================================
