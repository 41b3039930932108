------------------------------ MODULE MCSession -------------------------------
(***************************************************************************)
(* A run of the program on small instances: the services and their threads *)
(* (Session), and what TorrentSession looks after while it runs: what is   *)
(* seeded (Seeding), who is dialled and how fast torrents run (Swarm), and *)
(* what a peer may send (Throttle). The four share no state, so a          *)
(* behaviour is one of them: `part' says which, and the others keep their  *)
(* first state. A part that may stop ends in a step that changes nothing;  *)
(* the run of the program itself may not stop before it has ended.         *)
(***************************************************************************)
EXTENDS Session, Seeding, Swarm, Throttle

CONSTANTS
  here, there, none,                \* game folders
  peer, other, own, port, mod, mod2,
  alice, bob, carol,                \* peers that send records
  Explored                          \* the parts that are explored

VARIABLE part

partVars == <<part, sessionVars, vars, swarmVars, throttleVars>>

\* Behaviours of the other parts have one control torrent.
AnyInit ==
  /\ part \in Explored
  /\ SessionInit /\ SeedInit /\ SwarmInit /\ ThrottleInit
  /\ part # "swarm" => control

AnyNext ==
  /\ UNCHANGED part
  /\ \/ part = "program" /\ SessionNext /\ UNCHANGED <<vars, swarmVars, throttleVars>>
     \/ part = "seeding" /\ SeedNext /\ UNCHANGED <<sessionVars, swarmVars, throttleVars>>
     \/ part = "swarm" /\ SwarmNext /\ UNCHANGED <<sessionVars, vars, throttleVars>>
     \/ part = "throttle" /\ ThrottleNext /\ UNCHANGED <<sessionVars, vars, swarmVars>>
     \/ part # "program" /\ UNCHANGED partVars

AnySpec == AnyInit /\ [][AnyNext]_partVars
=============================================================================
