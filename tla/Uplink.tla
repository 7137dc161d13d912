------------------------------- MODULE Uplink -------------------------------
(***************************************************************************)
(* What the daemon promises about the texts it copies to the server.  The  *)
(* clipboard is notified of texts 1, 2, 3...; the server receives some of  *)
(* them, in order and never twice.  A text may be skipped: _send_text      *)
(* holds one, and a send that fails is not repeated.                       *)
(***************************************************************************)
EXTENDS Naturals, Sequences

VARIABLES
  offered,  \* the number of texts notified so far
  received  \* those the server has received, in order

Newest == IF received = <<>> THEN 0 ELSE received[Len(received)]

Init == offered = 0 /\ received = <<>>

Post == offered' = offered + 1 /\ UNCHANGED received

Ship == /\ \E n \in (Newest + 1)..offered : received' = Append(received, n)
        /\ UNCHANGED offered

Next == Post \/ Ship

UplinkSpec == Init /\ [][Next]_<<offered, received>>
=============================================================================
