------------------------------ MODULE MCDownloads ------------------------------
(***************************************************************************)
(* What the program takes from the web on small instances: the registry of *)
(* keys (Registry), and the program's update and the game's patcher        *)
(* (Updates). They share HttpsClient and no state, so a behaviour is one   *)
(* of either: `part' says which, and the other keeps its first state.      *)
(***************************************************************************)
EXTENDS Registry, Updates

CONSTANTS
  shipped, own,
  Explored  \* which of "registry" and "updates" are explored

VARIABLE part

partVars == <<part, registryVars, updateVars>>

AnyInit == part \in Explored /\ RegistryInit /\ UpdatesInit

AnyNext ==
  /\ UNCHANGED part
  /\ \/ part = "registry" /\ RegistryNext /\ UNCHANGED updateVars
     \/ part = "updates" /\ UpdatesNext /\ UNCHANGED registryVars

Registering(Step) == part = "registry" /\ Step /\ UNCHANGED <<part, updateVars>>

\* The fairness of FairRegistrySpec.
AnySpec ==
  /\ AnyInit /\ [][AnyNext]_partVars
  /\ WF_partVars(Registering(WorkerStep)) /\ WF_partVars(Registering(WindowStep))
  /\ WF_partVars(Registering(Tick)) /\ WF_partVars(Registering(TimePasses))
=============================================================================
