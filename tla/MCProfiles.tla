------------------------------ MODULE MCProfiles ------------------------------
(***************************************************************************)
(* Load order and profiles on a small instance.                            *)
(***************************************************************************)
EXTENDS Profiles
===============================================================================
