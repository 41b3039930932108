----------------------------- MODULE MCPublishing -----------------------------
(***************************************************************************)
(* From a mod's folder to the release subscribers work from: Packing and   *)
(* Delivery (the document and the torrent) and Publishing (keys, announce, *)
(* catalogue and the records on disk) on small instances. The two meet in  *)
(* the sealed document only, so a behaviour is one of either: `part' says  *)
(* which and the other keeps its first state, which sums their states      *)
(* where running both at once would multiply them.                         *)
(***************************************************************************)
EXTENDS Delivery, Publishing

CONSTANTS
  a, b, author, other, mod,
  Explored   \* which of "document" and "record" are explored

VARIABLE part

partVars == <<part, vars, publishVars>>

\* two bytes and what they add to the fingerprint
MCGear == (0 :> 3) @@ (1 :> 7)

\* Long is cut at the largest size, at a mark and at its end; Edited shares its first
\* chunk; Short is one chunk, an approved library and a metadata file's content
Long == <<0, 0, 0, 0, 0, 0, 0, 0, 0, 1, 0, 0, 0>>
Edited == <<0, 0, 0, 0, 0, 0, 0, 1, 1, 0, 1>>
Short == <<0, 1, 1>>
MCContents == {Long, Edited, Short, <<>>}
MCApproved == {Short}
MCSays == (Long :> "long") @@ (Edited :> "") @@ (Short :> "plain") @@ (<<>> :> "")
SaysNul == (Long :> "long") @@ (Edited :> "") @@ (Short :> "nul") @@ (<<>> :> "")

\* a file of the root, one below it, the two special names, and one not allowed
Deep == [AtRoot("dat") EXCEPT !.parts = <<Plain("dat"), Plain("dat")>>]
Stray == AtRoot("other")
MCNames == {AtRoot("dat"), Deep, ExtensionPath, MetadataPath, Stray}

MCRegistries == {(author :> x) @@ (other :> y) : x \in {"usable", "unknown"}, y \in {"usable", "revoked"}}

MCArts == {NoArt, [thumbnail |-> "png", image |-> "none"], [thumbnail |-> "none", image |-> "broken"]}

\* A behaviour of the records has one folder, empty, and one set of keys beside it.
AnyInit ==
  /\ part \in Explored
  /\ Init /\ PublishingInit
  /\ part = "record" =>
       folder = <<>> /\ art = NoArt /\ keys[author] = "usable" /\ keys[other] = "usable"

AnyNext ==
  /\ UNCHANGED part
  /\ \/ part = "document" /\ Next /\ UNCHANGED publishVars
     \/ part = "record" /\ PublishingNext /\ UNCHANGED vars

AnySpec == AnyInit /\ [][AnyNext]_partVars
=============================================================================
