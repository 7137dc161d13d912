------------------------------- MODULE Copier -------------------------------
(***************************************************************************)
(* How a daemon handles the texts it is notified of, whatever its session  *)
(* does: each one takes the place of the one that is kept, send_copy hands *)
(* the kept one to the server, and forgets what is kept when it is back.   *)
(* Session is shown to implement this, and so is each machine of Relay.    *)
(***************************************************************************)
EXTENDS Naturals, Sequences

VARIABLES
  offered,   \* the number of texts notified so far
  greeted,   \* whether there is a handler
  kept,      \* _send_text: the number of a text, or 0
  inside,    \* the text that send_copy is inside the send of, or 0
  received   \* those that the server has received, in order

vars == <<offered, greeted, kept, inside, received>>

Newest == IF received = <<>> THEN 0 ELSE received[Len(received)]

Init == /\ offered = 0 /\ greeted = FALSE
        /\ kept = 0 /\ inside = 0 /\ received = <<>>

(* Without a handler a text is not kept.                                   *)
Post == /\ offered' = offered + 1
        /\ kept' = IF greeted THEN offered + 1 ELSE kept
        /\ UNCHANGED <<greeted, inside, received>>

Greet == /\ greeted' = TRUE
         /\ UNCHANGED <<offered, kept, inside, received>>

Hand == /\ inside = 0 /\ kept # 0
        /\ inside' = kept
        /\ received' \in {received, Append(received, kept)}
        /\ UNCHANGED <<offered, greeted, kept>>

(* What has not arrived with the send may arrive while it is under way.    *)
Arrive == /\ Newest < inside
          /\ received' = Append(received, inside)
          /\ UNCHANGED <<offered, greeted, kept, inside>>

(* A text that has come while the send was under way is forgotten with it. *)
Return == /\ inside # 0
          /\ inside' = 0 /\ kept' = 0
          /\ UNCHANGED <<offered, greeted, received>>

(* The daemon has ended and been started again.                            *)
Restart == /\ greeted' = FALSE /\ kept' = 0 /\ inside' = 0
           /\ UNCHANGED <<offered, received>>

Next == Post \/ Greet \/ Hand \/ Arrive \/ Return \/ Restart

CopierSpec == Init /\ [][Next]_vars
=============================================================================
