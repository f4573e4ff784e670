------------------------------- MODULE MCStaff -------------------------------
(* Staff for TLC: one user of a team and one who sees every team. *)
EXTENDS Staff

SomeRoster == <<[role |-> "sales_rep", team |-> "sales-inbound"],
                [role |-> "ops_admin", team |-> "ops"]>>
=============================================================================
