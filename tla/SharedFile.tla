---------------------------- MODULE SharedFile ----------------------------
(***************************************************************************)
(* Processes that read a file and write it later, from what they have      *)
(* read, with nothing that locks it: the log of a prefix (History) and the *)
(* configuration of a user (Configuration).                                *)
(***************************************************************************)
CONSTANT
    Procs       \* the processes that use the file

VARIABLES
    pc,         \* pc[p]: the step of p
    disturbed   \* disturbed[p]: another process wrote since p has read

GoTo(p, step) == pc' = [pc EXCEPT ![p] = step]

(* p writes. *)
Disturb(p) == disturbed' = [q \in Procs |-> q # p \/ disturbed[q]]
=============================================================================
