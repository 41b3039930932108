-------------------------------- MODULE Https --------------------------------
(***************************************************************************)
(* What a request of HttpsClient comes to, for the services that read      *)
(* lists, keys and packages from the web. The web and the disk are         *)
(* external: `working' says that the server answers and the file can be    *)
(* written. Fetch_ ends a body at the first empty read and compares it     *)
(* with no announced length, so a connection that goes down in the middle  *)
(* may count as an answer that was cut.                                    *)
(***************************************************************************)

\* Fetch_: the body arrived whole, was cut short, or the request failed (address, session,
\* status other than 200, reading, size limit, writing).
Answers(working) == IF working THEN {"whole"} ELSE {"cut", "failed"}

\* Get: whether the caller may parse what came. A cut document is no JSON document.
Readable(answer) == answer = "whole"

\* Download returns a count of bytes for everything but a failed request.
Downloaded(answer) == answer # "failed"

\* Download opens its target with trunc and writes in place: until the body is there the
\* file is torn.
Opened == "torn"

\* Download: the state of the file it leaves. After a failed request it removes the target,
\* and with it what the target held before.
FileAfter(answer) ==
  IF answer = "whole" THEN "whole" ELSE IF answer = "cut" THEN "torn" ELSE "none"
=============================================================================
