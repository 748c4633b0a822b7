---------------------------- MODULE ByteStream ----------------------------
(***************************************************************************)
(* What one direction of a relayed tunnel promises its two applications: a *)
(* byte stream. Bytes come out in the order they went in, each once; the   *)
(* reader sees the end only behind the last byte, unless the connection    *)
(* under the stream was broken.                                            *)
(***************************************************************************)
EXTENDS Naturals

CONSTANT Size  \* bound on the bytes of a stream

VARIABLES put,     \* bytes written by the sending application
          closed,  \* the sending application has closed its side
          got,     \* bytes handed to the receiving application
          ended,   \* the receiving application sees the end of the stream
          broken   \* the connection in between was cut, or damaged

vars == <<put, closed, got, ended, broken>>

Init == put = 0 /\ ~closed /\ got = 0 /\ ~ended /\ ~broken

Put ==
  /\ ~closed /\ put < Size
  /\ put' = put + 1
  /\ UNCHANGED <<closed, got, ended, broken>>

Close ==
  /\ ~closed
  /\ closed' = TRUE
  /\ UNCHANGED <<put, got, ended, broken>>

\* Several bytes may come out at once, and none after the end; the last ones
\* over a broken connection may come with it.
Get ==
  /\ ~ended
  /\ got' \in (got + 1)..put
  /\ ended' \in {FALSE, broken}
  /\ UNCHANGED <<put, closed, broken>>

End ==
  /\ ~ended
  /\ broken \/ (closed /\ got = put)
  /\ ended' = TRUE
  /\ UNCHANGED <<put, closed, got, broken>>

Break ==
  /\ ~broken
  /\ broken' = TRUE
  /\ UNCHANGED <<put, closed, got, ended>>

Next == Put \/ Close \/ Get \/ End \/ Break

Spec == Init /\ [][Next]_vars
=============================================================================
