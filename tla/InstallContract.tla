--------------------------- MODULE InstallContract ---------------------------
(***************************************************************************)
(* What the install service promises the window: one attempt at a time, of *)
(* one mod; each ends in exactly one outcome and is counted once when it   *)
(* does; a mod goes on record only with an attempt at it that ends well,   *)
(* never with a preview or an attempt that failed or was cancelled; and an *)
(* outcome stays until the next attempt or until it is dismissed.          *)
(***************************************************************************)
EXTENDS Naturals

CONSTANT Mods

VARIABLES
  status,  \* "running", or how the last attempt ended
  settled, \* how many attempts have ended
  mod,     \* what the last attempt is at
  details, \* whether it is a preview
  record   \* the mods on record as installed

contractVars == <<status, settled, mod, details, record>>

Outcomes == {"Idle", "Done", "Failed"}

Init ==
  /\ status = "Idle" /\ settled = 0
  /\ mod \in Mods /\ details = FALSE /\ record \in SUBSET Mods

Start ==
  /\ status \in Outcomes /\ status' = "running"
  /\ mod' \in Mods /\ details' \in BOOLEAN
  /\ UNCHANGED <<settled, record>>

Settle ==
  /\ status = "running" /\ status' \in Outcomes /\ settled' = settled + 1
  /\ \/ UNCHANGED record
     \/ status' = "Done" /\ ~details /\ record' = record \cup {mod}
  /\ UNCHANGED <<mod, details>>

\* A cancel that finds the attempt already over.
Dismiss ==
  /\ status \in Outcomes /\ status' = "Idle"
  /\ UNCHANGED <<settled, mod, details, record>>

Next == Start \/ Settle \/ Dismiss

Spec == Init /\ [][Next]_contractVars
=============================================================================
