------------------------------- MODULE GetOpt -------------------------------
(***************************************************************************)
(* The command line of oclip: getopt, which folds the words into a table   *)
(* of options, and the choice that is made from the table.                 *)
(*                                                                         *)
(* A word is short (-i, -ho), long (--name, --name=value) or plain.  What  *)
(* the table holds for an option is a pair: "flag" for Lua's true, or a    *)
(* string, which is the rest of a short word, the next word or the value.  *)
(***************************************************************************)
EXTENDS Naturals, Sequences, SequencesExt

Options == {"i", "o", "c", "h"}     \* the letters that take an argument

Short(letters) == [form |-> "short", letters |-> letters]
Long(name) == [form |-> "long", letters |-> <<name>>]
Valued(name) == [form |-> "valued", letters |-> <<name>>]
Plain == [form |-> "plain", letters |-> <<>>]

Flag == <<"flag", <<>> >>

(* arg[k + 1] or true                                                      *)
NextWord(arg, k) == IF k < Len(arg) THEN <<"word", arg[k + 1].letters>> ELSE Flag

(* The table with one more entry.                                          *)
Entered(tab, name, value) ==
  [x \in DOMAIN tab \union {name} |-> IF x = name THEN value ELSE tab[x]]

(* Bug: the loop goes on after an option letter that has taken its argument*)
LetterBug(arg, k, acc, y) ==
  LET ls == arg[k].letters
  IN  [over |-> FALSE,
       tab |-> Entered(acc.tab, ls[y],
                 IF ls[y] \notin Options THEN Flag
                 ELSE IF y < Len(ls)
                      THEN <<"rest", SubSeq(ls, y + 1, Len(ls))>>
                      ELSE NextWord(arg, k))]

(* Letter y of the k-th word, whose scan may be over.                      *)
Letter(arg, k, acc, y) ==
  LET ls == arg[k].letters
  IN  IF acc.over THEN acc
      ELSE IF ls[y] \notin Options
           THEN [over |-> FALSE, tab |-> Entered(acc.tab, ls[y], Flag)]
           ELSE [over |-> TRUE,
                 tab |-> Entered(acc.tab, ls[y],
                           IF y < Len(ls)
                           THEN <<"rest", SubSeq(ls, y + 1, Len(ls))>>
                           ELSE NextWord(arg, k))]

(* The while loop over the letters of a short word; y = l ends it.         *)
ScanShort(tab, arg, k) ==
  FoldLeftDomain(LAMBDA acc, y : Letter(arg, k, acc, y),
                 [over |-> FALSE, tab |-> tab], arg[k].letters).tab

(* The k-th word.                                                          *)
Scan(arg, tab, k) ==
  CASE arg[k].form = "long"   -> Entered(tab, arg[k].letters[1], Flag)
    [] arg[k].form = "valued" -> Entered(tab, arg[k].letters[1],
                                         <<"value", <<>> >>)
    [] arg[k].form = "short"  -> ScanShort(tab, arg, k)
    [] arg[k].form = "plain"  -> tab

getopt(arg) == FoldLeftDomain(LAMBDA tab, k : Scan(arg, tab, k), <<>>, arg)

(* What the process does: nothing given, it is a daemon.                   *)
Command(arg) ==
  LET given == DOMAIN getopt(arg)
  IN  CASE arg = <<>>    -> "daemon"
        [] arg # <<>> /\ "i" \in given -> "-i"
        [] arg # <<>> /\ "i" \notin given /\ "o" \in given -> "-o"
        [] arg # <<>> /\ {"i", "o"} \cap given = {} /\ "c" \in given -> "-c"
        [] OTHER -> "usage"

----------------------------------------------------------------------------
(* The reference: what each word says on its own.                          *)

(* In a short word the first option letter takes the letters after it for  *)
(* its argument, or the next word if there are none; letters before it are *)
(* flags.                                                                  *)
Says(arg, k, o, value) ==
  LET w == arg[k]
      Before(y) == \A x \in 1..(y - 1) : w.letters[x] \notin Options
  IN  \/ w.form = "long" /\ w.letters = <<o>> /\ value = Flag
      \/ w.form = "valued" /\ w.letters = <<o>> /\ value = <<"value", <<>> >>
      \/ /\ w.form = "short"
         /\ \E y \in DOMAIN w.letters :
              /\ w.letters[y] = o /\ Before(y)
              /\ \/ o \notin Options /\ value = Flag
                 \/ o \in Options /\ y = Len(w.letters)
                      /\ value = NextWord(arg, k)
                 \/ o \in Options /\ y < Len(w.letters)
                      /\ value = <<"rest", SubSeq(w.letters, y + 1,
                                                  Len(w.letters))>>

Speaks(arg, k, o) ==
  LET w == arg[k]
  IN  \E y \in DOMAIN w.letters :
        /\ w.letters[y] = o
        /\ w.form = "short" => \A x \in 1..(y - 1) : w.letters[x] \notin Options

(* An option is in the table exactly when some word speaks of it, and the  *)
(* last one that does decides.                                             *)
OptionsOf(arg, names) ==
  LET tab == getopt(arg)
  IN  /\ DOMAIN tab \subseteq names
      /\ \A o \in names :
           LET words == {k \in DOMAIN arg : Speaks(arg, k, o)}
           IN  /\ (o \in DOMAIN tab) = (words # {})
               /\ \A k \in words : (\A j \in words : j <= k) =>
                                     Says(arg, k, o, tab[o])
=============================================================================
