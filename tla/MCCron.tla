------------------------------- MODULE MCCron -------------------------------
(* Two registered jobs, one of each scheduler, and a one-time job. *)
EXTENDS CronProps, TLC

CONSTANTS custom, backup, restore, x1, x2, x3, c1, c2

Schedulers == [j \in Job |-> IF j = custom THEN "Custom" ELSE "Restic"]
=============================================================================
