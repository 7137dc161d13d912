------------------------------- MODULE Folding -------------------------------
(***************************************************************************)
(* Induction over numbers and sequences, and what FoldLeft does, for the   *)
(* modules that compute with sequences.                                    *)
(*                                                                         *)
(* The library's induction theorems speak of any predicate, which the      *)
(* provers cannot supply.  Here a predicate is the set of what satisfies   *)
(* it, and what is folded is a function; both follow from the fact that the*)
(* natural numbers are well-founded.                                       *)
(***************************************************************************)
EXTENDS Naturals, SequencesExt, SequenceTheorems, WellFoundedInduction, TLAPS

LEMMA Least ==
  ASSUME NEW T, T \subseteq Nat, T # {}
  PROVE  \E x \in T : \A y \in T : x <= y
<1>1. IsWellFoundedOn(OpToRel(<, Nat), Nat)
  BY NatLessThanWellFounded
<1>2. PICK x \in T : \A y \in T : ~ (<<y, x>> \in OpToRel(<, Nat))
  BY <1>1, WFMin
<1>3. ASSUME NEW y \in T, y < x PROVE FALSE
  <2>1. <<y, x>> \in OpToRel(<, Nat)
    BY <1>3 DEF OpToRel
  <2>2. QED
    BY <1>2, <2>1
<1>4. QED
  BY <1>3

(* A set that has 0, and n + 1 with each n, has every number.              *)
LEMMA NatIn ==
  ASSUME NEW S, 0 \in S, \A n \in Nat : n \in S => n + 1 \in S
  PROVE  \A n \in Nat : n \in S
<1>1. SUFFICES ASSUME Nat \ S # {} PROVE FALSE
  OBVIOUS
<1>2. PICK x \in Nat \ S : \A y \in Nat \ S : x <= y
  <2>1. Nat \ S \subseteq Nat
    OBVIOUS
  <2>2. QED
    BY <2>1, <1>1, Least
<1>3. x - 1 \in Nat /\ x - 1 \in S
  BY <1>2
<1>4. QED
  BY <1>2, <1>3

(* The same up to some number.                                             *)
LEMMA UpToIn ==
  ASSUME NEW n \in Nat, NEW S, 0 \in S,
         \A i \in 1..n : i - 1 \in S => i \in S
  PROVE  \A i \in 0..n : i \in S
<1> DEFINE R == {i \in Nat : i <= n => i \in S}
<1>1. 0 \in R
  OBVIOUS
<1>2. ASSUME NEW i \in Nat, i \in R PROVE i + 1 \in R
  <2>1. CASE i + 1 <= n
    <3>1. i + 1 \in 1..n /\ (i + 1) - 1 = i /\ i \in S
      BY <1>2, <2>1
    <3>2. QED
      BY <3>1
  <2>2. QED
    BY <2>1
<1>3. \A i \in Nat : i \in R
  <2> HIDE DEF R
  <2>1. QED
    BY <1>1, <1>2, NatIn
<1>4. QED
  BY <1>3

(* A set that has the empty sequence, and s with one more element with each*)
(* s, has every sequence.                                                  *)
LEMMA SeqIn ==
  ASSUME NEW E, NEW S, <<>> \in S,
         \A s \in Seq(E), e \in E : s \in S => Append(s, e) \in S
  PROVE  \A s \in Seq(E) : s \in S
<1> DEFINE R == {n \in Nat : \A s \in Seq(E) : Len(s) = n => s \in S}
<1>1. 0 \in R
  <2>1. ASSUME NEW s \in Seq(E), Len(s) = 0 PROVE s = <<>>
    BY <2>1, EmptySeq
  <2>2. QED
    BY <2>1
<1>2. ASSUME NEW n \in Nat, n \in R PROVE n + 1 \in R
  <2>1. ASSUME NEW s \in Seq(E), Len(s) = n + 1 PROVE s \in S
    <3>1. s # <<>>
      BY <2>1, EmptySeq
    <3>2. PICK t \in Seq(E), e \in E : s = Append(t, e)
      BY <3>1, SequenceEmptyOrAppend
    <3>3. Len(t) = n
      BY <2>1, <3>2, AppendProperties, LenProperties
    <3>4. QED
      BY <1>2, <3>2, <3>3
  <2>2. QED
    BY <2>1
<1>3. \A n \in Nat : n \in R
  <2> HIDE DEF R
  <2>1. QED
    BY <1>1, <1>2, NatIn
<1>4. QED
  BY <1>3, LenProperties

----------------------------------------------------------------------------
(* FoldLeft folds over the sets of positions of a sequence, the last one   *)
(* first.  What it computes for each of them is a function that has to be  *)
(* shown to exist.                                                         *)

LEMMA LastIsMax ==
  ASSUME NEW n \in Nat, NEW S \in SUBSET (1..n), n \in S
  PROVE  Max(S) = n
<1>1. \A y \in S : n >= y
  OBVIOUS
<1>2. \A x \in S : (\A y \in S : x >= y) => x = n
  OBVIOUS
<1>3. QED
  BY <1>1, <1>2 DEF Max

LEMMA MaxIn ==
  ASSUME NEW n \in Nat, NEW S \in SUBSET (1..n), S # {}
  PROVE  Max(S) \in S
<1> DEFINE T == {i \in 1..n : \A y \in S : i >= y}
<1>1. T \subseteq Nat
  OBVIOUS
<1>2. n \in T
  <2>1. PICK z \in S : TRUE
    OBVIOUS
  <2>2. z \in 1..n /\ \A y \in S : y \in 1..n
    BY <2>1
  <2>3. QED
    BY <2>2
<1>3. PICK m \in T : \A i \in T : m <= i
  <2> HIDE DEF T
  <2>1. QED
    BY <1>1, <1>2, Least
<1>4. m \in S
  <2>1. SUFFICES ASSUME m \notin S PROVE FALSE
    OBVIOUS
  <2>2. \A y \in S : y \in 1..n /\ m >= y /\ m # y
    BY <2>1
  <2>3. m - 1 \in T
    <3>1. \A y \in S : m - 1 >= y
      BY <2>2
    <3>2. m - 1 \in 1..n
      <4>1. PICK z \in S : TRUE
        OBVIOUS
      <4>2. z \in 1..n /\ m - 1 >= z /\ m \in 1..n
        BY <4>1, <2>2, <3>1
      <4>3. QED
        BY <4>2
    <3>3. QED
      BY <3>1, <3>2
  <2>4. QED
    BY <2>3, <1>3
<1>5. \A y \in S : m >= y
  OBVIOUS
<1>6. QED
  BY <1>4, <1>5 DEF Max

(* The equation of a fold with a step that is a function.                  *)
Folds(it, S, base, step) ==
  it[S] = IF S = {} THEN base ELSE step[<<it[S \ {Max(S)}], Max(S)>>]

LEMMA FoldExists ==
  ASSUME NEW n \in Nat, NEW T, NEW base \in T, NEW step,
         \A t \in T, i \in 1..n : step[<<t, i>>] \in T
  PROVE  \E it \in [SUBSET (1..n) -> T] :
           \A S \in SUBSET (1..n) : Folds(it, S, base, step)
<1> DEFINE R == {m \in 0..n : \E it \in [SUBSET (1..m) -> T] :
                   \A S \in SUBSET (1..m) : Folds(it, S, base, step)}
<1>1. 0 \in R
  <2> DEFINE it == [S \in SUBSET (1..0) |-> base]
  <2>1. it \in [SUBSET (1..0) -> T]
    OBVIOUS
  <2>2. \A S \in SUBSET (1..0) : S = {}
    OBVIOUS
  <2>3. \A S \in SUBSET (1..0) : Folds(it, S, base, step)
    BY <2>2 DEF Folds
  <2>4. QED
    <3> HIDE DEF it
    <3>1. 0 \in 0..n
      OBVIOUS
    <3>2. QED
      BY <2>1, <2>3, <3>1
<1>2. ASSUME NEW m \in 1..n, m - 1 \in R PROVE m \in R
  <2>1. PICK g \in [SUBSET (1..(m - 1)) -> T] :
               \A S \in SUBSET (1..(m - 1)) : Folds(g, S, base, step)
    BY <1>2
  <2> DEFINE it == [S \in SUBSET (1..m) |->
                      IF m \in S THEN step[<<g[S \ {m}], m>>] ELSE g[S]]
  <2>2. ASSUME NEW S \in SUBSET (1..m)
        PROVE  /\ m \in S => S \ {m} \in SUBSET (1..(m - 1)) /\ Max(S) = m
               /\ m \notin S => S \in SUBSET (1..(m - 1))
    <3>1. m \in Nat /\ \A i \in 1..m : i # m => i \in 1..(m - 1)
      OBVIOUS
    <3>2. m \in S => Max(S) = m
      BY <3>1, LastIsMax
    <3>3. QED
      BY <3>1, <3>2
  <2>3. it \in [SUBSET (1..m) -> T]
    <3>1. ASSUME NEW S \in SUBSET (1..m) PROVE it[S] \in T
      BY <2>2
    <3>2. QED
      BY <3>1
  <2>4. ASSUME NEW S \in SUBSET (1..m) PROVE Folds(it, S, base, step)
    <3>1. CASE m \in S
      <4>1. S # {} /\ Max(S) = m /\ S \ {m} \in SUBSET (1..m) /\ m \notin S \ {m}
        BY <3>1, <2>2
      <4>2. it[S \ {m}] = g[S \ {m}] /\ it[S] = step[<<g[S \ {m}], m>>]
        BY <4>1, <3>1
      <4>3. QED
        BY <4>1, <4>2 DEF Folds
    <3>2. CASE m \notin S /\ S # {}
      <4>1. Folds(g, S, base, step) /\ it[S] = g[S]
        BY <3>2, <2>1, <2>2
      <4>2. it[S \ {Max(S)}] = g[S \ {Max(S)}]
        <5>1. S \ {Max(S)} \in SUBSET (1..m) /\ m \notin S \ {Max(S)}
          BY <3>2
        <5>2. QED
          BY <5>1
      <4>3. QED
        BY <3>2, <4>1, <4>2 DEF Folds
    <3>3. CASE S = {}
      <4>1. Folds(g, S, base, step) /\ it[S] = g[S]
        BY <3>3, <2>1, <2>2
      <4>2. QED
        BY <3>3, <4>1 DEF Folds
    <3>4. QED
      BY <3>1, <3>2, <3>3
  <2>5. QED
    <3> HIDE DEF it
    <3>1. QED
      BY <2>3, <2>4
<1>3. n \in R
  <2> HIDE DEF R
  <2>1. QED
    BY <1>1, <1>2, UpToIn
<1>4. QED
  BY <1>3
=============================================================================
