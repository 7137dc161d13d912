----------------------------- MODULE MCSession -----------------------------
(* Session for TLC.  Connections are interchangeable; the symmetry is used *)
(* in the runs that check no liveness.                                     *)
EXTENDS Session, TLC
Symmetry == Permutations(Conn)
=============================================================================
