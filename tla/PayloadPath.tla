---------------------------- MODULE PayloadPath ----------------------------
(***************************************************************************)
(* Which paths a release may hold: PayloadPathPolicy.  The builder asks it *)
(* about every file of the author's folder, the decoder asks it again about*)
(* every path a manifest declares.                                         *)
(*                                                                         *)
(* A path is a record of what the policy looks at: whether it is too long, *)
(* whether it holds a control character or a colon, how its separators are *)
(* written, and its components in order, each with its shape and with the  *)
(* kind of file name it is.                                                *)
(***************************************************************************)
EXTENDS Naturals, Sequences

Shapes == {"fine", "empty", "dots", "trailing", "device"}

\* "dat" ends in the payload extension; "meta" and "extension" are the two
\* names with a meaning of their own, in any case of letters
Leaves == {"dat", "meta", "extension", "other"}

Component == [shape: Shapes, leaf: Leaves, exact: BOOLEAN]

PathRecord == [long: BOOLEAN, mark: {"none", "control", "colon"}, back: BOOLEAN,
               parts: Seq(Component)]

\* a component the author wrote as the program spells it
Plain(leaf) == [shape |-> "fine", leaf |-> leaf, exact |-> TRUE]
AtRoot(leaf) == [long |-> FALSE, mark |-> "none", back |-> FALSE, parts |-> <<Plain(leaf)>>]

\* the extension library and the metadata file have their place in the root
ExtensionPath == AtRoot("extension")
MetadataPath == AtRoot("meta")

ValidComponent(c) == c.shape = "fine"

\* where a file of that name may lie
InPlace(path) ==
    LET leaf == path.parts[Len(path.parts)].leaf
    IN  \/ leaf = "dat"
        \/ leaf \in {"meta", "extension"} /\ Len(path.parts) = 1

\* Normalise: the checks in one conjunction, a leading separator being an empty
\* first component
Acceptable(path) ==
    /\ path.parts # <<>>
    /\ ~path.long
    /\ path.mark = "none"
    /\ \A k \in 1 .. Len(path.parts): ValidComponent(path.parts[k])
    /\ InPlace(path)

\* what an accepted path becomes: separators turned, the library's name respelled
Normalise(path) ==
    IF path.parts[Len(path.parts)].leaf = "extension"
    THEN ExtensionPath
    ELSE [path EXCEPT !.back = FALSE]
=============================================================================
