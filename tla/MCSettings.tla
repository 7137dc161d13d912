----------------------------- MODULE MCSettings -----------------------------
(* Settings for TLC: two clients, one of which reads a file, a daemon that *)
(* the user starts, and a run that prints the usage.                       *)
EXTENDS Settings, GetOpt, TLC
CONSTANTS r1, r2, r3, r4
MCDoes == (r1 :> Command(<<Short(<<"i">>)>>))
          @@ (r2 :> Command(<<Short(<<"i">>), Plain>>))
          @@ (r3 :> Command(<<>>))
          @@ (r4 :> Command(<<Short(<<"h">>)>>))

Words == {Short(s) : s \in UNION {[1..n -> {"i", "o", "x"}] : n \in 1..3}}
         \union {Long("i"), Valued("o"), Valued("x"), Plain}
ArgLists == UNION {[1..n -> Words] : n \in 0..2}

ParserRight == \A arg \in ArgLists : OptionsOf(arg, {"i", "o", "x"})

(* What a process does is what its words say.  getopt's two loops, over all*)
(* command lines of two words: an option is set exactly when a word speaks *)
(* of it, and by the last that does.                                       *)
OptionsRight == (\E p \in Process : at[p] = "run") => ParserRight
=============================================================================
