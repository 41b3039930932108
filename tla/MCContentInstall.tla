-------------------------- MODULE MCContentInstall --------------------------
EXTENDS ContentInstall, TLC

(* The second release moves chunks between files, repeats one, drops a     *)
(* file and adds one out of the first; the third grows a file out of a     *)
(* dropped one and adds one of no bytes.                                   *)
Mixed == <<(1 :> <<1, 2>>) @@ (2 :> <<3>>),
           (1 :> <<3, 2>>) @@ (3 :> <<1, 4, 4>>),
           (2 :> <<2, 3, 6>>) @@ (3 :> <<4>>) @@ (4 :> <<>>)>>
=============================================================================
