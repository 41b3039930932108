---------------------------- MODULE MCInstallFlow ----------------------------
(***************************************************************************)
(* InstallFlow on a small instance.                                        *)
(***************************************************************************)
EXTENDS InstallFlow
=============================================================================
