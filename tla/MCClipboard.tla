---------------------------- MODULE MCClipboard ----------------------------
(* Clipboard for TLC: the first client's text has two blocks, every other  *)
(* text one, so that a short text can be written over a long one.          *)
EXTENDS Clipboard, TLC
CONSTANTS c1, c2, c3   \* the clients
MCSize == [w \in Writer |-> IF w = c1 THEN 2 ELSE 1]
=============================================================================
