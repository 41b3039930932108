--------------------------- MODULE MCFetchSession ---------------------------
(***************************************************************************)
(* FetchSession on a small instance.                                       *)
(***************************************************************************)
EXTENDS FetchSession
=============================================================================
