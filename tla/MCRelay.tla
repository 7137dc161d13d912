------------------------------ MODULE MCRelay ------------------------------
(* Relay for TLC: a Windows machine, a Linux machine, and one that does not*)
(* convert; texts with either line end, and one with a CR too many.        *)
EXTENDS Relay, TLC
CONSTANTS win, lin, raw
MCMode == (win :> "crlf") @@ (lin :> "lf") @@ (raw :> "none")
MCChar == {"a", CR, LF}
MCText == {<<"a", LF>>, <<CR, CR, LF>>}
MCMaxCopy == (win :> 1) @@ (lin :> 1) @@ (raw :> 1)
=============================================================================
