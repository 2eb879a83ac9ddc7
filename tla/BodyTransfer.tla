----------------------------- MODULE BodyTransfer -----------------------------
(***************************************************************************)
(* What receiving a request body comes to, however it is framed and        *)
(* whatever pieces it arrives in: its content is written to a file from    *)
(* the beginning on, each byte once, and the request goes on when the file *)
(* is complete.  Only a body that is not well formed is refused, and only  *)
(* one that is kept on a disk may be lost.                                 *)
(***************************************************************************)
EXTENDS Sequences, Integers

CONSTANT Bodies    \* bodies that may be announced: content, whether it is whole, and
                   \* whether it is kept on a disk

VARIABLES
    body,      \* the body the peer sends
    file,      \* what is in the file
    verdict    \* "receiving", "stored", "refused" or "failed"

vars == <<body, file, verdict>>

Init == /\ body \in Bodies
        /\ file = <<>>
        /\ verdict = "receiving"

Write == /\ verdict = "receiving"
         /\ \E n \in (Len(file) + 1)..Len(body.content) : file' = SubSeq(body.content, 1, n)
         /\ UNCHANGED <<body, verdict>>

Stored == /\ verdict = "receiving" /\ body.whole /\ file = body.content
          /\ verdict' = "stored"
          /\ UNCHANGED <<body, file>>

Refused == /\ verdict = "receiving" /\ ~body.whole
           /\ verdict' = "refused"
           /\ UNCHANGED <<body, file>>

Failed == /\ verdict = "receiving" /\ body.disk
          /\ verdict' = "failed"
          /\ UNCHANGED <<body, file>>

Next == Write \/ Stored \/ Refused \/ Failed

Spec == Init /\ [][Next]_vars
==============================================================================
