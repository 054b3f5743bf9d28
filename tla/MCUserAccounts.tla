--------------------------- MODULE MCUserAccounts --------------------------
(***************************************************************************)
(* UserAccounts for TLC: four UIDs, and accounts that are there before.    *)
(***************************************************************************)
EXTENDS UserAccounts

\* A user of the range, with its group, made by somebody else.
OneUser  == {[name |-> "old", uid |-> 2, gid |-> 2]}
OneGroup == {[name |-> "old", gid |-> 2]}
=============================================================================
