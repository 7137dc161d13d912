----------------------------- MODULE RelayProofs -----------------------------
(***************************************************************************)
(* Theorems about Relay, for every set of machines and of texts, every mode*)
(* of each, and every number of copies.                                    *)
(***************************************************************************)
EXTENDS Relay, Folding

----------------------------------------------------------------------------
(* The conversions, which are folds over the characters of a text.         *)

LEMMA DropCRType ==
  ASSUME NEW t \in Seq(Char), NEW ch \in Char
  PROVE  DropCR(t, ch) \in Seq(Char)
BY AppendProperties DEF DropCR

LEMMA AddCRType ==
  ASSUME NEW t \in Seq(Char), NEW ch \in Char
  PROVE  AddCR(t, ch) \in Seq(Char)
BY RelayAssumption, AppendProperties DEF AddCR

(* What the folds have computed after each character.                     *)
LEMMA LfTrace ==
  ASSUME NEW s \in Seq(Char)
  PROVE  \E h : /\ h[0] = <<>> /\ FoldLeft(DropCR, <<>>, s) = h[Len(s)]
                /\ \A i \in 1..Len(s) : h[i] = DropCR(h[i - 1], s[i])
<1> DEFINE n == Len(s)
           step == [p \in Seq(Char) \X (1..n) |-> DropCR(p[1], s[p[2]])]
           Body(f, S) == IF S = {} THEN <<>>
                         ELSE DropCR(f[S \ {Max(S)}], s[Max(S)])
           it == CHOOSE f : f = [S \in SUBSET (DOMAIN s) |-> Body(f, S)]
           h == [i \in 0..n |-> it[1..i]]
<1>1. n \in Nat /\ DOMAIN s = 1..n /\ \A i \in 1..n : s[i] \in Char
  OBVIOUS
<1>2. PICK g \in [SUBSET (1..n) -> Seq(Char)] :
             \A S \in SUBSET (1..n) : Folds(g, S, <<>>, step)
  <2>1. \A t \in Seq(Char), i \in 1..n : step[<<t, i>>] = DropCR(t, s[i])
    OBVIOUS
  <2> HIDE DEF step, n
  <2>2. \A t \in Seq(Char), i \in 1..n : step[<<t, i>>] \in Seq(Char)
    BY <1>1, <2>1, DropCRType
  <2>3. <<>> \in Seq(Char)
    OBVIOUS
  <2>4. QED
    BY <1>1, <2>2, <2>3, FoldExists
<1>3. ASSUME NEW S \in SUBSET (1..n) PROVE g[S] = Body(g, S)
  <2>1. \A t \in Seq(Char), i \in 1..n : step[<<t, i>>] = DropCR(t, s[i])
    OBVIOUS
  <2> HIDE DEF n, step
  <2>2. S # {} => Max(S) \in S
    BY <1>1, MaxIn
  <2>3. QED
    BY <1>2, <2>1, <2>2 DEF Folds
<1>4. it = [S \in SUBSET (DOMAIN s) |-> Body(it, S)]
  <2>1. g = [S \in SUBSET (DOMAIN s) |-> Body(g, S)]
    <3> HIDE DEF n, Body
    <3>1. QED
      BY <1>1, <1>3
  <2> HIDE DEF Body
  <2>2. QED
    BY <2>1
<1>5. \A S \in SUBSET (1..n) : it[S] = Body(it, S)
  <2> HIDE DEF Body, it, n
  <2>1. QED
    BY <1>1, <1>4
<1>6. \A i \in 0..n : h[i] = it[1..i]
  <2> HIDE DEF it
  <2>1. QED
    OBVIOUS
<1>7. h[0] = <<>>
  <2>1. 1..0 = {} /\ 0 \in 0..n /\ {} \in SUBSET (1..n)
    OBVIOUS
  <2> HIDE DEF it, h
  <2>2. QED
    BY <1>5, <1>6, <2>1
<1>8. ASSUME NEW i \in 1..n PROVE h[i] = DropCR(h[i - 1], s[i])
  <2>1. /\ 1..i \in SUBSET (1..n) /\ 1..i # {} /\ i \in Nat /\ i \in 1..i
        /\ (1..i) \ {i} = 1..(i - 1) /\ i \in 0..n /\ i - 1 \in 0..n
    OBVIOUS
  <2>2. Max(1..i) = i
    BY <2>1, LastIsMax
  <2> HIDE DEF it, h
  <2>3. QED
    BY <1>5, <1>6, <2>1, <2>2
<1>9. FoldLeft(DropCR, <<>>, s) = h[n]
  <2>1. FoldLeft(DropCR, <<>>, s) = it[DOMAIN s]
    BY DEF FoldLeft, MapThenFoldSet
  <2>2. n \in 0..n
    BY <1>1
  <2> HIDE DEF it, h, n
  <2>3. QED
    BY <1>1, <1>6, <2>1, <2>2
<1>10. QED
  <2> HIDE DEF h
  <2>1. QED
    BY <1>7, <1>8, <1>9

(* The same for the second conversion.                                    *)
LEMMA CrlfTrace ==
  ASSUME NEW s \in Seq(Char)
  PROVE  \E h : /\ h[0] = <<>> /\ FoldLeft(AddCR, <<>>, s) = h[Len(s)]
                /\ \A i \in 1..Len(s) : h[i] = AddCR(h[i - 1], s[i])
<1> DEFINE n == Len(s)
           step == [p \in Seq(Char) \X (1..n) |-> AddCR(p[1], s[p[2]])]
           Body(f, S) == IF S = {} THEN <<>>
                         ELSE AddCR(f[S \ {Max(S)}], s[Max(S)])
           it == CHOOSE f : f = [S \in SUBSET (DOMAIN s) |-> Body(f, S)]
           h == [i \in 0..n |-> it[1..i]]
<1>1. n \in Nat /\ DOMAIN s = 1..n /\ \A i \in 1..n : s[i] \in Char
  OBVIOUS
<1>2. PICK g \in [SUBSET (1..n) -> Seq(Char)] :
             \A S \in SUBSET (1..n) : Folds(g, S, <<>>, step)
  <2>1. \A t \in Seq(Char), i \in 1..n : step[<<t, i>>] = AddCR(t, s[i])
    OBVIOUS
  <2> HIDE DEF step, n
  <2>2. \A t \in Seq(Char), i \in 1..n : step[<<t, i>>] \in Seq(Char)
    BY <1>1, <2>1, AddCRType
  <2>3. <<>> \in Seq(Char)
    OBVIOUS
  <2>4. QED
    BY <1>1, <2>2, <2>3, FoldExists
<1>3. ASSUME NEW S \in SUBSET (1..n) PROVE g[S] = Body(g, S)
  <2>1. \A t \in Seq(Char), i \in 1..n : step[<<t, i>>] = AddCR(t, s[i])
    OBVIOUS
  <2> HIDE DEF n, step
  <2>2. S # {} => Max(S) \in S
    BY <1>1, MaxIn
  <2>3. QED
    BY <1>2, <2>1, <2>2 DEF Folds
<1>4. it = [S \in SUBSET (DOMAIN s) |-> Body(it, S)]
  <2>1. g = [S \in SUBSET (DOMAIN s) |-> Body(g, S)]
    <3> HIDE DEF n, Body
    <3>1. QED
      BY <1>1, <1>3
  <2> HIDE DEF Body
  <2>2. QED
    BY <2>1
<1>5. \A S \in SUBSET (1..n) : it[S] = Body(it, S)
  <2> HIDE DEF Body, it, n
  <2>1. QED
    BY <1>1, <1>4
<1>6. \A i \in 0..n : h[i] = it[1..i]
  <2> HIDE DEF it
  <2>1. QED
    OBVIOUS
<1>7. h[0] = <<>>
  <2>1. 1..0 = {} /\ 0 \in 0..n /\ {} \in SUBSET (1..n)
    OBVIOUS
  <2> HIDE DEF it, h
  <2>2. QED
    BY <1>5, <1>6, <2>1
<1>8. ASSUME NEW i \in 1..n PROVE h[i] = AddCR(h[i - 1], s[i])
  <2>1. /\ 1..i \in SUBSET (1..n) /\ 1..i # {} /\ i \in Nat /\ i \in 1..i
        /\ (1..i) \ {i} = 1..(i - 1) /\ i \in 0..n /\ i - 1 \in 0..n
    OBVIOUS
  <2>2. Max(1..i) = i
    BY <2>1, LastIsMax
  <2> HIDE DEF it, h
  <2>3. QED
    BY <1>5, <1>6, <2>1, <2>2
<1>9. FoldLeft(AddCR, <<>>, s) = h[n]
  <2>1. FoldLeft(AddCR, <<>>, s) = it[DOMAIN s]
    BY DEF FoldLeft, MapThenFoldSet
  <2>2. n \in 0..n
    BY <1>1
  <2> HIDE DEF it, h, n
  <2>3. QED
    BY <1>1, <1>6, <2>1, <2>2
<1>10. QED
  <2> HIDE DEF h
  <2>1. QED
    BY <1>7, <1>8, <1>9

(* Both folds, character by character.                                     *)
LEMMA LfAppend ==
  /\ ToLf(<<>>) = <<>>
  /\ \A s \in Seq(Char), ch \in Char :
       ToLf(Append(s, ch)) = DropCR(ToLf(s), ch)
<1>1. ToLf(<<>>) = <<>>
  <2>1. <<>> \in Seq(Char) /\ Len(<<>>) = 0
    OBVIOUS
  <2>2. QED
    BY <2>1, LfTrace DEF ToLf
<1>2. ASSUME NEW s \in Seq(Char), NEW ch \in Char
      PROVE  ToLf(Append(s, ch)) = DropCR(ToLf(s), ch)
  <2> DEFINE n == Len(s)
             t == Append(s, ch)
  <2>1. /\ t \in Seq(Char) /\ Len(t) = n + 1 /\ n \in Nat
        /\ t[n + 1] = ch /\ \A i \in 1..n : t[i] = s[i]
    BY AppendProperties, LenProperties
  <2> HIDE DEF n, t
  <2>2. PICK h : /\ h[0] = <<>> /\ ToLf(s) = h[n]
                 /\ \A i \in 1..n : h[i] = DropCR(h[i - 1], s[i])
    BY LfTrace DEF ToLf, n
  <2>3. PICK k : /\ k[0] = <<>> /\ ToLf(t) = k[n + 1]
                 /\ \A i \in 1..(n + 1) : k[i] = DropCR(k[i - 1], t[i])
    <3>1. \E k : /\ k[0] = <<>> /\ FoldLeft(DropCR, <<>>, t) = k[Len(t)]
                 /\ \A i \in 1..Len(t) : k[i] = DropCR(k[i - 1], t[i])
      BY <2>1, LfTrace
    <3>2. QED
      BY <3>1, <2>1 DEF ToLf
  <2> DEFINE R == {i \in Nat : h[i] = k[i]}
  <2>4. \A i \in 0..n : i \in R
    <3>1. 0 \in R
      BY <2>2, <2>3
    <3>2. ASSUME NEW i \in 1..n, i - 1 \in R PROVE i \in R
      <4>1. i \in 1..(n + 1) /\ i \in Nat
        BY <2>1
      <4>2. QED
        BY <3>2, <4>1, <2>1, <2>2, <2>3
    <3> HIDE DEF R
    <3>3. QED
      BY <2>1, <3>1, <3>2, UpToIn
  <2>5. n \in 0..n /\ n + 1 \in 1..(n + 1) /\ (n + 1) - 1 = n
    BY <2>1
  <2>6. QED
    BY <2>1, <2>2, <2>3, <2>4, <2>5 DEF t
<1>3. QED
  BY <1>1, <1>2

LEMMA CrlfAppend ==
  /\ WithCR(<<>>) = <<>>
  /\ \A s \in Seq(Char), ch \in Char :
       WithCR(Append(s, ch)) = AddCR(WithCR(s), ch)
<1>1. WithCR(<<>>) = <<>>
  <2>1. <<>> \in Seq(Char) /\ Len(<<>>) = 0
    OBVIOUS
  <2>2. QED
    BY <2>1, CrlfTrace DEF WithCR
<1>2. ASSUME NEW s \in Seq(Char), NEW ch \in Char
      PROVE  WithCR(Append(s, ch)) = AddCR(WithCR(s), ch)
  <2> DEFINE n == Len(s)
             t == Append(s, ch)
  <2>1. /\ t \in Seq(Char) /\ Len(t) = n + 1 /\ n \in Nat
        /\ t[n + 1] = ch /\ \A i \in 1..n : t[i] = s[i]
    BY AppendProperties, LenProperties
  <2> HIDE DEF n, t
  <2>2. PICK h : /\ h[0] = <<>> /\ WithCR(s) = h[n]
                 /\ \A i \in 1..n : h[i] = AddCR(h[i - 1], s[i])
    BY CrlfTrace DEF WithCR, n
  <2>3. PICK k : /\ k[0] = <<>> /\ WithCR(t) = k[n + 1]
                 /\ \A i \in 1..(n + 1) : k[i] = AddCR(k[i - 1], t[i])
    <3>1. \E k : /\ k[0] = <<>> /\ FoldLeft(AddCR, <<>>, t) = k[Len(t)]
                 /\ \A i \in 1..Len(t) : k[i] = AddCR(k[i - 1], t[i])
      BY <2>1, CrlfTrace
    <3>2. QED
      BY <3>1, <2>1 DEF WithCR
  <2> DEFINE R == {i \in Nat : h[i] = k[i]}
  <2>4. \A i \in 0..n : i \in R
    <3>1. 0 \in R
      BY <2>2, <2>3
    <3>2. ASSUME NEW i \in 1..n, i - 1 \in R PROVE i \in R
      <4>1. i \in 1..(n + 1) /\ i \in Nat
        BY <2>1
      <4>2. QED
        BY <3>2, <4>1, <2>1, <2>2, <2>3
    <3> HIDE DEF R
    <3>3. QED
      BY <2>1, <3>1, <3>2, UpToIn
  <2>5. n \in 0..n /\ n + 1 \in 1..(n + 1) /\ (n + 1) - 1 = n
    BY <2>1
  <2>6. QED
    BY <2>1, <2>2, <2>3, <2>4, <2>5 DEF t
<1>3. QED
  BY <1>1, <1>2

(* What the conversions keep.                                              *)
LEMMA ConvertType ==
  \A s \in Seq(Char) : ToLf(s) \in Seq(Char) /\ WithCR(s) \in Seq(Char)
<1> DEFINE R == {s \in Seq(Char) : ToLf(s) \in Seq(Char) /\ WithCR(s) \in Seq(Char)}
<1>1. <<>> \in R
  <2>1. <<>> \in Seq(Char)
    OBVIOUS
  <2>2. QED
    BY <2>1, LfAppend, CrlfAppend
<1>2. ASSUME NEW s \in Seq(Char), NEW ch \in Char, s \in R
      PROVE  Append(s, ch) \in R
  <2>1. Append(s, ch) \in Seq(Char)
    BY AppendProperties
  <2>2. ToLf(Append(s, ch)) \in Seq(Char)
    BY <1>2, LfAppend, DropCRType
  <2>3. WithCR(Append(s, ch)) \in Seq(Char)
    BY <1>2, CrlfAppend, AddCRType
  <2>4. QED
    BY <2>1, <2>2, <2>3
<1>3. \A s \in Seq(Char) : s \in R
  <2> HIDE DEF R
  <2>1. QED
    BY <1>1, <1>2, SeqIn
<1>4. QED
  BY <1>3

(* A text that has lost its CRs has none to lose.                          *)
LEMMA LfTwice ==
  \A s \in Seq(Char) : ToLf(ToLf(s)) = ToLf(s)
<1> DEFINE R == {s \in Seq(Char) : ToLf(ToLf(s)) = ToLf(s)}
<1>1. <<>> \in R
  BY LfAppend
<1>2. ASSUME NEW s \in Seq(Char), NEW ch \in Char, s \in R
      PROVE  Append(s, ch) \in R
  <2>1. Append(s, ch) \in Seq(Char) /\ ToLf(s) \in Seq(Char)
    BY AppendProperties, ConvertType
  <2>2. ToLf(Append(s, ch)) = DropCR(ToLf(s), ch)
    BY LfAppend
  <2>3. ToLf(DropCR(ToLf(s), ch)) = DropCR(ToLf(s), ch)
    <3>1. CASE ch = CR
      BY <3>1, <1>2 DEF DropCR
    <3>2. CASE ch # CR
      <4>1. ToLf(Append(ToLf(s), ch)) = DropCR(ToLf(ToLf(s)), ch)
        BY <2>1, LfAppend
      <4>2. QED
        BY <4>1, <3>2, <1>2 DEF DropCR
    <3>3. QED
      BY <3>1, <3>2
  <2>4. QED
    BY <2>1, <2>2, <2>3
<1>3. \A s \in Seq(Char) : s \in R
  <2> HIDE DEF R
  <2>1. QED
    BY <1>1, <1>2, SeqIn
<1>4. QED
  BY <1>3

(* One conversion undoes the other.                                        *)
LEMMA LfOfCrlf ==
  \A s \in Seq(Char) : ToLf(WithCR(s)) = ToLf(s)
<1> DEFINE R == {s \in Seq(Char) : ToLf(WithCR(s)) = ToLf(s)}
<1>1. <<>> \in R
  BY LfAppend, CrlfAppend
<1>2. ASSUME NEW s \in Seq(Char), NEW ch \in Char, s \in R
      PROVE  Append(s, ch) \in R
  <2> DEFINE w == WithCR(s)
  <2>1. /\ Append(s, ch) \in Seq(Char) /\ w \in Seq(Char)
        /\ CR \in Char /\ LF \in Char /\ CR # LF
    BY AppendProperties, ConvertType, RelayAssumption DEF CR, LF
  <2>2. WithCR(Append(s, ch)) = AddCR(w, ch)
    BY CrlfAppend
  <2>3. ToLf(Append(s, ch)) = DropCR(ToLf(w), ch)
    BY <1>2, LfAppend
  <2> HIDE DEF w
  <2>4. ToLf(AddCR(w, ch)) = DropCR(ToLf(w), ch)
    <3>1. CASE ch = LF
      <4> DEFINE v == Append(w, CR)
      <4>1. v \in Seq(Char) /\ ToLf(v) = DropCR(ToLf(w), CR)
        BY <2>1, LfAppend, AppendProperties
      <4>2. ToLf(Append(v, LF)) = DropCR(ToLf(v), LF)
        BY <4>1, <2>1, LfAppend
      <4>3. AddCR(w, ch) = Append(v, LF)
        BY <3>1 DEF AddCR
      <4> HIDE DEF v
      <4>4. QED
        BY <4>1, <4>2, <4>3, <3>1 DEF DropCR
    <3>2. CASE ch # LF
      BY <3>2, <2>1, LfAppend DEF AddCR
    <3>3. QED
      BY <3>1, <3>2
  <2>5. QED
    BY <2>1, <2>2, <2>3, <2>4
<1>3. \A s \in Seq(Char) : s \in R
  <2> HIDE DEF R
  <2>1. QED
    BY <1>1, <1>2, SeqIn
<1>4. QED
  BY <1>3

(* A conversion keeps a text up to its CRs; the result of one that has a   *)
(* mode depends on nothing else.                                           *)
LEMMA ConvertedRight ==
  ASSUME NEW mode, NEW s \in Seq(Char)
  PROVE  /\ Converted(mode, s) \in Seq(Char)
         /\ ToLf(Converted(mode, s)) = ToLf(s)
         /\ s = <<>> => Converted(mode, s) = <<>>
         /\ mode \in {"lf", "crlf"} =>
              \A t \in Seq(Char) : ToLf(t) = ToLf(s) =>
                                    Converted(mode, t) = Converted(mode, s)
<1>1. ToLf(s) \in Seq(Char) /\ ToLf(ToLf(s)) = ToLf(s)
  BY ConvertType, LfTwice
<1>2. WithCR(ToLf(s)) \in Seq(Char) /\ ToLf(WithCR(ToLf(s))) = ToLf(s)
  BY <1>1, ConvertType, LfOfCrlf
<1>3. CASE mode = "lf"
  <2>1. \A t : Converted(mode, t) = ToLf(t)
    BY <1>3 DEF Converted
  <2>2. QED
    BY <1>1, <2>1, LfAppend
<1>4. CASE mode = "crlf"
  <2>1. \A t : Converted(mode, t) = WithCR(ToLf(t))
    BY <1>4 DEF Converted, ToCrlf
  <2>2. QED
    BY <1>2, <2>1, LfAppend, CrlfAppend
<1>5. CASE mode \notin {"lf", "crlf"}
  <2>1. Converted(mode, s) = s
    BY <1>5 DEF Converted
  <2>2. QED
    BY <1>5, <2>1
<1>6. QED
  BY <1>3, <1>4, <1>5

(* A CR is where an LF comes next, and nowhere else.                       *)
Lined(t) ==
  /\ \A i \in 1..Len(t) : t[i] = CR => i + 1 \in 1..Len(t) /\ t[i + 1] = LF
  /\ \A i \in 1..Len(t) : t[i] = LF => i - 1 \in 1..Len(t) /\ t[i - 1] = CR

LEMMA LinedStep ==
  ASSUME NEW w \in Seq(Char), Lined(w), NEW ch \in Char, ch # CR
  PROVE  Lined(AddCR(w, ch))
<1> DEFINE n == Len(w)
<1>1. n \in Nat /\ CR \in Char /\ LF \in Char /\ CR # LF
  BY RelayAssumption DEF CR, LF
<1>2. CASE ch = LF
  <2> DEFINE v == Append(w, CR)
             t == Append(v, LF)
  <2>1. /\ v \in Seq(Char)
        /\ Len(v) = n + 1
        /\ v[n + 1] = CR
        /\ \A i \in 1..n : v[i] = w[i]
    BY <1>1, AppendProperties, LenProperties
  <2>2. /\ Len(t) = n + 2
        /\ t[n + 2] = LF
        /\ \A i \in 1..(n + 1) : t[i] = v[i]
    <3> HIDE DEF v
    <3>1. QED
      BY <1>1, <2>1, AppendProperties, LenProperties
  <2> HIDE DEF v, t
  <2>3. /\ Len(t) = n + 2 /\ t[n + 1] = CR /\ t[n + 2] = LF
        /\ \A i \in 1..n : t[i] = w[i]
    BY <1>1, <2>1, <2>2
  <2>4. ASSUME NEW i \in 1..(n + 2), t[i] = CR
        PROVE  i + 1 \in 1..Len(t) /\ t[i + 1] = LF
    <3>1. CASE i \in 1..n
      <4>1. i + 1 \in 1..n /\ w[i + 1] = LF
        BY <2>3, <2>4, <3>1 DEF Lined
      <4>2. QED
        BY <1>1, <2>3, <4>1
    <3>2. CASE i \notin 1..n
      BY <1>1, <2>3, <2>4, <3>2
    <3>3. QED
      BY <3>1, <3>2
  <2>5. ASSUME NEW i \in 1..(n + 2), t[i] = LF
        PROVE  i - 1 \in 1..Len(t) /\ t[i - 1] = CR
    <3>1. CASE i \in 1..n
      <4>1. i - 1 \in 1..n /\ w[i - 1] = CR
        BY <2>3, <2>5, <3>1 DEF Lined
      <4>2. QED
        BY <1>1, <2>3, <4>1
    <3>2. CASE i \notin 1..n
      BY <1>1, <2>3, <2>5, <3>2
    <3>3. QED
      BY <3>1, <3>2
  <2>6. Lined(t)
    BY <2>3, <2>4, <2>5 DEF Lined
  <2>7. QED
    BY <1>2, <2>6 DEF AddCR, v, t
<1>3. CASE ch # LF
  <2> DEFINE t == Append(w, ch)
  <2>1. /\ Len(t) = n + 1
        /\ t[n + 1] = ch
        /\ \A i \in 1..n : t[i] = w[i]
    BY <1>1, AppendProperties, LenProperties
  <2> HIDE DEF t
  <2>2. ASSUME NEW i \in 1..(n + 1), t[i] = CR
        PROVE  i + 1 \in 1..Len(t) /\ t[i + 1] = LF
    <3>1. i \in 1..n
      BY <1>1, <2>1, <2>2
    <3>2. i + 1 \in 1..n /\ w[i + 1] = LF
      BY <2>1, <2>2, <3>1 DEF Lined
    <3>3. QED
      BY <1>1, <2>1, <3>2
  <2>3. ASSUME NEW i \in 1..(n + 1), t[i] = LF
        PROVE  i - 1 \in 1..Len(t) /\ t[i - 1] = CR
    <3>1. i \in 1..n
      BY <1>1, <1>3, <2>1, <2>3
    <3>2. i - 1 \in 1..n /\ w[i - 1] = CR
      BY <2>1, <2>3, <3>1 DEF Lined
    <3>3. QED
      BY <1>1, <2>1, <3>2
  <2>4. Lined(t)
    BY <2>1, <2>2, <2>3 DEF Lined
  <2>5. QED
    BY <1>3, <2>4 DEF AddCR, t
<1>4. QED
  BY <1>2, <1>3

(* What a user of Windows pastes has a CR before each LF and nowhere else, *)
(* and what one of Linux pastes has none, whatever the text was.           *)
THEOREM LinedAlways ==
  ASSUME NEW s \in Seq(Char)
  PROVE  /\ Lined(Converted("crlf", s))
         /\ \A i \in DOMAIN Converted("lf", s) : Converted("lf", s)[i] # CR
<1> DEFINE R == {t \in Seq(Char) :
                   /\ Lined(WithCR(ToLf(t)))
                   /\ \A i \in DOMAIN ToLf(t) : ToLf(t)[i] # CR}
<1>1. <<>> \in R
  <2>1. Lined(<<>>)
    BY DEF Lined
  <2>2. QED
    BY <2>1, LfAppend, CrlfAppend
<1>2. ASSUME NEW t \in Seq(Char), NEW ch \in Char, t \in R
      PROVE  Append(t, ch) \in R
  <2> DEFINE l == ToLf(t)
  <2>1. Append(t, ch) \in Seq(Char) /\ l \in Seq(Char) /\ WithCR(l) \in Seq(Char)
    BY AppendProperties, ConvertType
  <2>2. ToLf(Append(t, ch)) = DropCR(l, ch)
    BY LfAppend
  <2>3. CASE ch = CR
    BY <1>2, <2>1, <2>2, <2>3 DEF DropCR
  <2>4. CASE ch # CR
    <3>1. ToLf(Append(t, ch)) = Append(l, ch)
      BY <2>2, <2>4 DEF DropCR
    <3>2. WithCR(Append(l, ch)) = AddCR(WithCR(l), ch)
      BY <2>1, CrlfAppend
    <3>3. Lined(AddCR(WithCR(l), ch))
      BY <1>2, <2>1, <2>4, LinedStep
    <3>4. \A i \in DOMAIN Append(l, ch) : Append(l, ch)[i] # CR
      BY <1>2, <2>1, <2>4, AppendProperties
    <3>5. QED
      BY <2>1, <3>1, <3>2, <3>3, <3>4
  <2>5. QED
    BY <2>3, <2>4
<1>3. s \in R
  <2> HIDE DEF R
  <2>1. \A t \in Seq(Char) : t \in R
    BY <1>1, <1>2, SeqIn
  <2>2. QED
    BY <2>1
<1>4. QED
  BY <1>3 DEF Converted, ToCrlf
----------------------------------------------------------------------------
(* Types.                                                                  *)

LEMMA DeliverType ==
  ASSUME TypeOK, NEW m \in Machine, NEW k, Deliver(m, k),
         k \in kept[m] \/ k \in sending[m]
  PROVE  log' \in [Machine -> Seq(Nat)] /\ down' \in [Machine -> Seq(Seq(Char))]
<1> USE DEF TypeOK
<1>1. k.n \in Nat /\ k.text \in Seq(Char)
  OBVIOUS
<1>2. log' \in [Machine -> Seq(Nat)]
  <2>1. Append(log[m], k.n) \in Seq(Nat)
    BY <1>1
  <2>2. QED
    BY <2>1 DEF Deliver
<1>3. down' \in [Machine -> Seq(Seq(Char))]
  <2>1. \A x \in Machine : Append(down[x], k.text) \in Seq(Seq(Char))
    BY <1>1
  <2>2. QED
    BY <2>1 DEF Deliver
<1>4. QED
  BY <1>2, <1>3

LEMMA TypeStep ==
  ASSUME TypeOK, [Next]_vars
  PROVE  TypeOK'
<1> USE DEF TypeOK
<1>1. ASSUME NEW m \in Machine, NEW t \in Text, Copy(m, t) PROVE TypeOK'
  <2>1. t \in Seq(Char)
    BY RelayAssumption
  <2>2. /\ clip' \in [Machine -> Seq(Char)] /\ backlog' \in [Machine -> Nat]
        /\ knocks' \in [Machine -> Nat]
    BY <1>1, <2>1 DEF Copy
  <2>3. copied' \in SUBSET (Machine \X Text)
    BY <1>1 DEF Copy
  <2>4. QED
    BY <1>1, <2>2, <2>3 DEF Copy
<1>2. ASSUME NEW m \in Machine, Greet(m) PROVE TypeOK'
  BY <1>2 DEF Greet, history
<1>3. ASSUME NEW m \in Machine, Accept(m) PROVE TypeOK'
  <2>1. backlog' \in [Machine -> Nat] /\ taken' \in [Machine -> Nat]
    BY <1>3 DEF Accept
  <2>2. [n |-> taken[m] + 1, text |-> clip[m]] \in [n : Nat, text : Seq(Char)]
    OBVIOUS
  <2>3. kept' \in [Machine -> SUBSET [n : Nat, text : Seq(Char)]]
    BY <1>3, <2>2 DEF Accept
  <2>4. QED
    BY <1>3, <2>1, <2>3 DEF Accept
<1>4. ASSUME NEW m \in Machine, Send(m) \/ Arrive(m) PROVE TypeOK'
  <2>1. sending' \in [Machine -> SUBSET [n : Nat, text : Seq(Char)]]
    BY <1>4 DEF Send, Arrive
  <2>2. log' \in [Machine -> Seq(Nat)] /\ down' \in [Machine -> Seq(Seq(Char))]
    <3>1. CASE UNCHANGED <<log, down>>
      BY <3>1
    <3>2. CASE ~ UNCHANGED <<log, down>>
      <4>1. PICK k : (k \in kept[m] \/ k \in sending[m]) /\ Deliver(m, k)
        BY <1>4, <3>2 DEF Send, Arrive
      <4>2. QED
        BY <4>1, DeliverType
    <3>3. QED
      BY <3>1, <3>2
  <2>3. UNCHANGED <<clip, backlog, handler, kept, taken, copied, knocks>>
    BY <1>4 DEF Send, Arrive
  <2>4. QED
    BY <2>1, <2>2, <2>3
<1>5. ASSUME NEW m \in Machine, Sent(m) PROVE TypeOK'
  BY <1>5 DEF Sent, history
<1>6. ASSUME NEW m \in Machine, Paste(m) PROVE TypeOK'
  <2>1. /\ down[m] \in Seq(Seq(Char)) /\ Head(down[m]) \in Seq(Char)
        /\ Tail(down[m]) \in Seq(Seq(Char))
    BY <1>6, HeadTailProperties DEF Paste
  <2>2. Converted(Mode[m], Head(down[m])) \in Seq(Char)
    BY <2>1, ConvertedRight
  <2>3. clip' \in [Machine -> Seq(Char)] /\ down' \in [Machine -> Seq(Seq(Char))]
    BY <1>6, <2>1, <2>2 DEF Paste
  <2>4. QED
    BY <1>6, <2>3 DEF Paste, history
<1>7. ASSUME NEW m \in Machine, Break(m) PROVE TypeOK'
  BY <1>7 DEF Break, history
<1>8. ASSUME NEW m \in Machine, Restart(m) PROVE TypeOK'
  BY <1>8 DEF Restart, history
<1>9. CASE UNCHANGED vars
  BY <1>9 DEF vars, history
<1>10. QED
  BY <1>1, <1>2, <1>3, <1>4, <1>5, <1>6, <1>7, <1>8, <1>9 DEF Next

(* Every reachable state is well typed.                                    *)
THEOREM TypeCorrect == Spec => []TypeOK
<1>1. Init => TypeOK
  BY DEF Init, TypeOK
<1>2. TypeOK /\ [Next]_vars => TypeOK'
  BY TypeStep
<1>3. QED
  BY <1>1, <1>2, PTL DEF Spec

----------------------------------------------------------------------------
(* Line ends.  Every text there is, on whatever machine or on its way, is  *)
(* one that a user has copied, up to its CRs.                              *)

Rooted(s) == s = <<>> \/ \E c \in copied : ToLf(s) = ToLf(c[2])

(* The texts that a machine's daemon has in hand.                          *)
Held(m) == kept[m] \union sending[m]

AllRooted == \A m \in Machine :
               /\ Rooted(clip[m])
               /\ \A k \in Held(m) : Rooted(k.text)
               /\ \A i \in DOMAIN down[m] : Rooted(down[m][i])

LinesInv == AllRooted /\ LinesKept

(* A step that leaves all texts where they are, or drops some.             *)
LEMMA DropKeeps ==
  ASSUME LinesInv, UNCHANGED <<clip, copied>>,
         \A m \in Machine : /\ Held(m)' \subseteq Held(m)
                            /\ UNCHANGED down[m] \/ down'[m] = <<>>
  PROVE  LinesInv'
<1>1. LinesKept'
  BY DEF LinesInv, LinesKept
<1>2. ASSUME NEW m \in Machine
      PROVE  /\ Rooted(clip[m])'
             /\ \A k \in Held(m)' : Rooted(k.text)'
             /\ \A i \in DOMAIN down'[m] : Rooted(down[m][i])'
  BY DEF LinesInv, AllRooted, Rooted
<1>3. QED
  BY <1>1, <1>2 DEF LinesInv, AllRooted

LEMMA LinesStep ==
  ASSUME TypeOK, LinesInv, [Next]_vars
  PROVE  LinesInv'
<1>0. /\ clip \in [Machine -> Seq(Char)]
      /\ kept \in [Machine -> SUBSET [n : Nat, text : Seq(Char)]]
      /\ sending \in [Machine -> SUBSET [n : Nat, text : Seq(Char)]]
      /\ down \in [Machine -> Seq(Seq(Char))]
      /\ copied \in SUBSET (Machine \X Text)
  BY DEF TypeOK
<1>1. ASSUME NEW m \in Machine, NEW t \in Text, Copy(m, t) PROVE LinesInv'
  <2>1. /\ clip' = [clip EXCEPT ![m] = t] /\ copied' = copied \union {<<m, t>>}
        /\ UNCHANGED <<kept, sending, down>>
    BY <1>1 DEF Copy
  <2>2. ASSUME NEW x \in Machine
        PROVE  /\ Rooted(clip[x])'
               /\ \A k \in Held(x)' : Rooted(k.text)'
               /\ \A i \in DOMAIN down'[x] : Rooted(down[x][i])'
    <3>1. Rooted(clip[x])'
      <4>1. CASE x = m
        <5>1. <<m, t>> \in copied' /\ <<m, t>>[2] = t /\ clip'[x] = t
          BY <1>0, <2>1, <4>1
        <5>2. QED
          BY <5>1 DEF Rooted
      <4>2. CASE x # m
        BY <1>0, <2>1, <4>2 DEF LinesInv, AllRooted, Rooted
      <4>3. QED
        BY <4>1, <4>2
    <3>2. QED
      BY <2>1, <3>1 DEF LinesInv, AllRooted, Rooted, Held
  <2>3. LinesKept'
    BY <1>0, <2>1 DEF LinesInv, LinesKept
  <2>4. QED
    BY <2>2, <2>3 DEF LinesInv, AllRooted
<1>2. ASSUME NEW m \in Machine, Accept(m) PROVE LinesInv'
  <2>1. /\ UNCHANGED <<clip, down, copied>>
        /\ \A x \in Machine : \A k \in Held(x)' : k \in Held(x) \/ k.text = clip[x]
    BY <1>0, <1>2 DEF Accept, Held
  <2>2. LinesKept'
    BY <2>1 DEF LinesInv, LinesKept
  <2>3. ASSUME NEW x \in Machine
        PROVE  /\ Rooted(clip[x])'
               /\ \A k \in Held(x)' : Rooted(k.text)'
               /\ \A i \in DOMAIN down'[x] : Rooted(down[x][i])'
    BY <2>1 DEF LinesInv, AllRooted, Rooted
  <2>4. QED
    BY <2>2, <2>3 DEF LinesInv, AllRooted
<1>3. ASSUME NEW m \in Machine, Send(m) \/ Arrive(m) PROVE LinesInv'
  <2>1. UNCHANGED <<clip, copied>> /\ \A x \in Machine : Held(x)' \subseteq Held(x)
    BY <1>0, <1>3 DEF Send, Arrive, Held
  <2>2. PICK k \in Held(m) : UNCHANGED down \/ Deliver(m, k)
    BY <1>3 DEF Send, Arrive, Held
  <2>3. Rooted(k.text) /\ k.text \in Seq(Char)
    BY <1>0 DEF LinesInv, AllRooted, Held
  <2>4. LinesKept'
    BY <2>1 DEF LinesInv, LinesKept
  <2>5. ASSUME NEW x \in Machine, NEW i \in DOMAIN down'[x]
        PROVE  Rooted(down[x][i])'
    <3>1. CASE down'[x] = down[x]
      BY <2>1, <3>1 DEF LinesInv, AllRooted, Rooted
    <3>2. CASE down'[x] = Append(down[x], k.text)
      <4>1. /\ down[x] \in Seq(Seq(Char)) /\ Len(down[x]) \in Nat
            /\ i \in 1..(Len(down[x]) + 1)
            /\ i <= Len(down[x]) => /\ down'[x][i] = down[x][i]
                                    /\ i \in DOMAIN down[x]
            /\ i = Len(down[x]) + 1 => down'[x][i] = k.text
        BY <1>0, <2>3, <3>2
      <4>2. CASE i <= Len(down[x])
        BY <2>1, <4>1, <4>2 DEF LinesInv, AllRooted, Rooted
      <4>3. CASE i = Len(down[x]) + 1
        BY <2>1, <2>3, <4>1, <4>3 DEF Rooted
      <4>4. i <= Len(down[x]) \/ i = Len(down[x]) + 1
        BY <4>1
      <4>5. QED
        BY <4>2, <4>3, <4>4
    <3>3. QED
      BY <2>2, <3>1, <3>2 DEF Deliver
  <2>6. ASSUME NEW x \in Machine
        PROVE  Rooted(clip[x])' /\ \A c \in Held(x)' : Rooted(c.text)'
    BY <2>1 DEF LinesInv, AllRooted, Rooted
  <2>7. QED
    BY <2>4, <2>5, <2>6 DEF LinesInv, AllRooted
<1>4. ASSUME NEW m \in Machine, Paste(m) PROVE LinesInv'
  <2> DEFINE s == Head(down[m])
             t == Converted(Mode[m], s)
  <2>1. /\ clip' = [clip EXCEPT ![m] = t] /\ UNCHANGED <<kept, sending, copied>>
        /\ down' = [down EXCEPT ![m] = Tail(@)] /\ down[m] # <<>>
    BY <1>4 DEF Paste, history
  <2>2. /\ down[m] \in Seq(Seq(Char)) /\ s \in Seq(Char)
        /\ s = down[m][1] /\ 1 \in DOMAIN down[m]
    BY <1>0, <2>1
  <2>3. Rooted(s)
    BY <2>2 DEF LinesInv, AllRooted
  <2>4. /\ ToLf(t) = ToLf(s)
        /\ s = <<>> => t = <<>>
        /\ Mode[m] \in {"lf", "crlf"} =>
             \A u \in Seq(Char) : ToLf(u) = ToLf(s) => Converted(Mode[m], u) = t
    BY <2>2, ConvertedRight
  <2> HIDE DEF s, t
  <2>5. Mode[m] \in {"lf", "crlf"} =>
          t = <<>> \/ \E c \in copied : t = Converted(Mode[m], c[2])
    <3>1. \A c \in copied : c[2] \in Seq(Char)
      BY <1>0, RelayAssumption
    <3>2. QED
      BY <2>3, <2>4, <3>1 DEF Rooted
  <2>6. LinesKept'
    BY <1>0, <2>1, <2>5 DEF LinesInv, LinesKept
  <2>7. Rooted(t)
    BY <2>3, <2>4 DEF Rooted
  <2>8. ASSUME NEW x \in Machine
        PROVE  Rooted(clip[x])' /\ \A k \in Held(x)' : Rooted(k.text)'
    <3>1. clip'[x] = IF x = m THEN t ELSE clip[x]
      BY <1>0, <2>1
    <3>2. QED
      BY <2>1, <2>7, <3>1 DEF LinesInv, AllRooted, Rooted, Held
  <2>9. ASSUME NEW x \in Machine, NEW i \in DOMAIN down'[x]
        PROVE  Rooted(down[x][i])'
    <3>1. CASE x # m
      BY <1>0, <2>1, <3>1 DEF LinesInv, AllRooted, Rooted
    <3>2. CASE x = m
      <4>1. down'[m] = Tail(down[m])
        BY <1>0, <2>1
      <4>2. /\ Tail(down[m]) \in Seq(Seq(Char))
            /\ Len(Tail(down[m])) = Len(down[m]) - 1
            /\ \A j \in 1..Len(Tail(down[m])) : Tail(down[m])[j] = down[m][j + 1]
        BY <2>1, <2>2, HeadTailProperties
      <4>3. i \in 1..Len(Tail(down[m])) /\ i + 1 \in DOMAIN down[m]
        BY <2>2, <3>2, <4>1, <4>2
      <4>4. down'[x][i] = down[m][i + 1]
        BY <3>2, <4>1, <4>2, <4>3
      <4>5. QED
        BY <2>1, <4>3, <4>4 DEF LinesInv, AllRooted, Rooted
    <3>3. QED
      BY <3>1, <3>2
  <2>10. QED
    BY <2>6, <2>8, <2>9 DEF LinesInv, AllRooted
<1>5. ASSUME NEW m \in Machine, Greet(m) \/ Sent(m) \/ Break(m) \/ Restart(m)
      PROVE  LinesInv'
  <2>1. /\ UNCHANGED <<clip, copied>>
        /\ \A x \in Machine : /\ Held(x)' \subseteq Held(x)
                              /\ UNCHANGED down[x] \/ down'[x] = <<>>
    BY <1>0, <1>5 DEF Greet, Sent, Break, Restart, history, Held
  <2>2. QED
    BY <2>1, DropKeeps
<1>6. CASE UNCHANGED vars
  BY <1>6, DropKeeps DEF vars, history, Held
<1>7. QED
  BY <1>1, <1>2, <1>3, <1>4, <1>5, <1>6 DEF Next

(* Line ends do not grow: what a machine with a mode pastes is what it     *)
(* would paste had it got the text from its author, for every text and     *)
(* however many machines the text has been through.                        *)
THEOREM LinesKeptAlways == Spec => []LinesKept
<1>1. Init => LinesInv
  BY DEF Init, LinesInv, AllRooted, Rooted, LinesKept, Held
<1>2. TypeOK /\ LinesInv /\ [Next]_vars => LinesInv'
  BY LinesStep
<1>3. LinesInv => LinesKept
  BY DEF LinesInv
<1>4. QED
  BY <1>1, <1>2, <1>3, TypeCorrect, PTL DEF Spec

----------------------------------------------------------------------------
(* Numbers.  What a text is does not matter here, only its number.  What is*)
(* kept and what is being sent is one text at most; numbers grow, from what*)
(* the server has to the text that is being sent, and on to the one that is*)
(* kept, which is the newest taken at most.                                *)

NumberOK ==
  /\ backlog \in [Machine -> Nat] /\ taken \in [Machine -> Nat]
  /\ knocks \in [Machine -> Nat] /\ handler \in [Machine -> BOOLEAN]
  /\ log \in [Machine -> Seq(Nat)]
  /\ DOMAIN kept = Machine /\ DOMAIN sending = Machine

(* The last number that the server has of m.                               *)
Latest(m) == IF log[m] = <<>> THEN 0 ELSE log[m][Len(log[m])]

AtMostOne(S) == \A j, k \in S : j = k

KeptNewer(m) ==
  /\ AtMostOne(kept[m]) /\ AtMostOne(sending[m])
  /\ \A k \in kept[m] :
       /\ k.n \in 1..taken[m]
       /\ sending[m] = {} => Latest(m) < k.n
  /\ \A k \in sending[m] :
       /\ k.n \in 1..taken[m]
       /\ Latest(m) <= k.n /\ \A j \in kept[m] : k.n <= j.n
  /\ sending[m] # {} => kept[m] # {}

GrowInv(m) ==
  /\ Len(log[m]) <= Latest(m) /\ Latest(m) <= taken[m]
  /\ taken[m] + backlog[m] <= knocks[m]
  /\ KeptNewer(m)

CountInv == NumberOK /\ \A m \in Machine : GrowInv(m)

LEMMA LastType ==
  ASSUME NumberOK, NEW m \in Machine
  PROVE  /\ Latest(m) \in Nat /\ Len(log[m]) \in Nat /\ log[m] \in Seq(Nat)
         /\ taken[m] \in Nat /\ backlog[m] \in Nat /\ knocks[m] \in Nat
<1>1. log[m] \in Seq(Nat)
  BY DEF NumberOK
<1>2. log[m] # <<>> => Len(log[m]) \in 1..Len(log[m])
  BY <1>1
<1> QED
  BY <1>1, <1>2 DEF Latest, NumberOK

LEMMA Appended ==
  ASSUME NEW s \in Seq(Nat), NEW n \in Nat
  PROVE  /\ Append(s, n) \in Seq(Nat) /\ Append(s, n) # <<>>
         /\ Len(Append(s, n)) = Len(s) + 1 /\ Append(s, n)[Len(s) + 1] = n
<1>1. /\ Append(s, n) \in Seq(Nat) /\ Len(Append(s, n)) = Len(s) + 1
      /\ Append(s, n)[Len(s) + 1] = n
  OBVIOUS
<1>2. Append(s, n) # <<>>
  <2>1. Len(Append(s, n)) # 0 /\ Len(<<>>) = 0
    BY <1>1
  <2> QED
    BY <2>1
<1> QED
  BY <1>1, <1>2

(* What a step of m does to the numbers, and to no other machine's.        *)
Quiet(m) == UNCHANGED <<taken[m], log[m], kept[m], sending[m], backlog[m],
                        knocks[m]>>

LEMMA QuietGrows ==
  ASSUME NEW m \in Machine, GrowInv(m), Quiet(m)
  PROVE  GrowInv(m)'
BY DEF GrowInv, KeptNewer, AtMostOne, Latest, Quiet

(* The server has one text more, newer than all that it had.               *)
LEMMA Delivered ==
  ASSUME CountInv, NEW m \in Machine, NEW k, Deliver(m, k),
         Latest(m) < k.n, k.n \in 1..taken[m]
  PROVE  /\ log' \in [Machine -> Seq(Nat)] /\ Latest(m)' = k.n
         /\ Len(log'[m]) = Len(log[m]) + 1
         /\ \A x \in Machine : x # m => log'[x] = log[x]
<1>0. NumberOK /\ log[m] \in Seq(Nat) /\ k.n \in Nat
  BY LastType DEF CountInv
<1>1. log' = [log EXCEPT ![m] = Append(@, k.n)]
  BY DEF Deliver
<1>2. log'[m] = Append(log[m], k.n)
  BY <1>0, <1>1 DEF NumberOK
<1>3. /\ log'[m] \in Seq(Nat) /\ log'[m] # <<>>
      /\ Len(log'[m]) = Len(log[m]) + 1 /\ log'[m][Len(log[m]) + 1] = k.n
  BY <1>0, <1>2, Appended
<1> QED
  BY <1>0, <1>1, <1>2, <1>3 DEF NumberOK, Latest

(* A step of one machine keeps the numbers of all if it keeps its own.     *)
LEMMA CountStep ==
  ASSUME CountInv, [Next]_vars
  PROVE  CountInv'
<1>0. /\ NumberOK
      /\ \A m \in Machine : /\ GrowInv(m) /\ Latest(m) \in Nat
                            /\ Len(log[m]) \in Nat
                            /\ taken[m] \in Nat /\ backlog[m] \in Nat
                            /\ knocks[m] \in Nat
  BY LastType DEF CountInv
<1> USE DEF NumberOK
<1>1. ASSUME NEW m \in Machine, NEW t \in Text, Copy(m, t) PROVE CountInv'
  <2>1. NumberOK'
    BY <1>0, <1>1 DEF Copy
  <2>2. \A x \in Machine : x # m => Quiet(x)
    BY <1>0, <1>1 DEF Copy, Quiet
  <2>3. /\ UNCHANGED <<taken, log, kept, sending>>
        /\ knocks'[m] = knocks[m] + 1 /\ backlog'[m] = backlog[m] + 1
    BY <1>0, <1>1 DEF Copy
  <2>4. GrowInv(m)'
    <3>1. UNCHANGED Latest(m) /\ (KeptNewer(m) => KeptNewer(m)')
      BY <2>3 DEF KeptNewer, AtMostOne, Latest
    <3> QED
      BY <1>0, <2>3, <3>1 DEF GrowInv
  <2> QED
    BY <1>0, <2>1, <2>2, <2>4, QuietGrows DEF CountInv
<1>2. ASSUME NEW m \in Machine, Accept(m) PROVE CountInv'
  <2>1. /\ backlog[m] > 0 /\ backlog'[m] = backlog[m] - 1
        /\ taken'[m] = taken[m] + 1
        /\ UNCHANGED <<log, sending, knocks>>
        /\ \/ kept'[m] = {[n |-> taken[m] + 1, text |-> clip[m]]}
           \/ kept'[m] = kept[m]
    BY <1>0, <1>2 DEF Accept
  <2>2. \A x \in Machine : x # m => Quiet(x)
    BY <1>0, <1>2 DEF Accept, Quiet
  <2>3. UNCHANGED Latest(m)
    BY <2>1 DEF Latest
  <2>4. KeptNewer(m)'
    <3>1. CASE kept'[m] = kept[m]
      <4>1. KeptNewer(m) /\ 1..taken[m] \subseteq 1..taken'[m]
        BY <1>0, <2>1 DEF GrowInv
      <4>2. AtMostOne(kept[m])' /\ AtMostOne(sending[m])'
        BY <2>1, <3>1, <4>1 DEF KeptNewer, AtMostOne
      <4> QED
        BY <2>1, <2>3, <3>1, <4>1, <4>2 DEF KeptNewer
    <3>2. CASE kept'[m] = {[n |-> taken[m] + 1, text |-> clip[m]]}
      <4>1. /\ AtMostOne(kept'[m]) /\ kept'[m] # {}
            /\ \A k \in kept'[m] : k.n = taken[m] + 1
        BY <3>2 DEF AtMostOne
      <4>2. taken[m] + 1 \in 1..taken'[m] /\ Latest(m) < taken[m] + 1
        BY <1>0, <2>1 DEF GrowInv
      <4>3. \A k \in sending[m] : /\ k.n \in 1..taken'[m] /\ k.n <= taken[m] + 1
                                  /\ Latest(m) <= k.n
        BY <1>0, <2>1 DEF GrowInv, KeptNewer
      <4>4. AtMostOne(sending[m])
        BY <1>0 DEF GrowInv, KeptNewer
      <4> QED
        BY <2>1, <2>3, <4>1, <4>2, <4>3, <4>4 DEF KeptNewer, AtMostOne
    <3> QED
      BY <2>1, <3>1, <3>2
  <2>5. GrowInv(m)'
    BY <1>0, <2>1, <2>3, <2>4 DEF GrowInv
  <2>6. NumberOK'
    BY <1>0, <1>2 DEF Accept
  <2> QED
    BY <1>0, <2>2, <2>5, <2>6, QuietGrows DEF CountInv
<1>3. ASSUME NEW m \in Machine, Send(m) PROVE CountInv'
  <2>1. /\ sending[m] = {} /\ sending'[m] = kept[m] /\ kept[m] # {}
        /\ UNCHANGED <<backlog, handler, kept, taken, knocks>>
        /\ DOMAIN sending' = Machine
        /\ \A x \in Machine : x # m => sending'[x] = sending[x]
    BY <1>0, <1>3 DEF Send
  <2>2. PICK k \in kept[m] : UNCHANGED log \/ Deliver(m, k)
    BY <1>3 DEF Send
  <2>3. /\ Latest(m) < k.n /\ k.n \in 1..taken[m]
        /\ \A j \in kept[m] : j = k
    BY <1>0, <2>1 DEF GrowInv, KeptNewer, AtMostOne
  <2>4. /\ log' \in [Machine -> Seq(Nat)]
        /\ Latest(m)' \in {Latest(m), k.n} /\ Len(log'[m]) <= Latest(m)'
        /\ \A x \in Machine : x # m => log'[x] = log[x]
    <3>1. CASE UNCHANGED log
      BY <1>0, <3>1 DEF GrowInv, Latest
    <3>2. CASE Deliver(m, k)
      BY <1>0, <2>3, <3>2, Delivered DEF GrowInv
    <3> QED
      BY <2>2, <3>1, <3>2
  <2>5. \A x \in Machine : x # m => Quiet(x)
    BY <2>1, <2>4 DEF Quiet
  <2>6. GrowInv(m)'
    <3>1. KeptNewer(m)'
      <4>1. AtMostOne(kept[m])
        BY <1>0 DEF GrowInv, KeptNewer
      <4>2. Latest(m)' <= k.n
        BY <1>0, <2>3, <2>4
      <4> QED
        BY <1>0, <2>1, <2>3, <4>1, <4>2 DEF KeptNewer, AtMostOne
    <3> QED
      BY <1>0, <2>1, <2>3, <2>4, <3>1 DEF GrowInv
  <2>7. NumberOK'
    BY <1>0, <2>1, <2>4
  <2> QED
    BY <1>0, <2>5, <2>6, <2>7, QuietGrows DEF CountInv
<1>4. ASSUME NEW m \in Machine, Arrive(m) PROVE CountInv'
  <2>1. UNCHANGED <<backlog, handler, kept, sending, taken, knocks>>
    BY <1>4 DEF Arrive
  <2>2. PICK k \in sending[m] : Latest(m) < k.n /\ Deliver(m, k)
    BY <1>4 DEF Arrive, Up!Newest, Latest
  <2>3. /\ k.n \in 1..taken[m] /\ \A j \in sending[m] : j = k
    BY <1>0 DEF GrowInv, KeptNewer, AtMostOne
  <2>4. /\ log' \in [Machine -> Seq(Nat)] /\ Latest(m)' = k.n
        /\ Len(log'[m]) = Len(log[m]) + 1
        /\ \A x \in Machine : x # m => log'[x] = log[x]
    BY <2>2, <2>3, Delivered
  <2>5. \A x \in Machine : x # m => Quiet(x)
    BY <2>1, <2>4 DEF Quiet
  <2>6. GrowInv(m)'
    <3>1. KeptNewer(m)'
      <4>1. AtMostOne(kept[m])' /\ AtMostOne(sending[m])'
        BY <1>0, <2>1 DEF GrowInv, KeptNewer, AtMostOne
      <4>2. \A j \in sending[m] : Latest(m)' <= j.n
        BY <1>0, <2>3, <2>4
      <4> QED
        BY <1>0, <2>1, <2>2, <4>1, <4>2 DEF GrowInv, KeptNewer
    <3> QED
      BY <1>0, <2>1, <2>2, <2>3, <2>4, <3>1 DEF GrowInv
  <2>7. NumberOK'
    BY <1>0, <2>1, <2>4
  <2> QED
    BY <1>0, <2>5, <2>6, <2>7, QuietGrows DEF CountInv
<1>5. ASSUME NEW m \in Machine, Sent(m) \/ Restart(m) PROVE CountInv'
  <2>1. /\ kept' = [kept EXCEPT ![m] = {}]
        /\ sending' = [sending EXCEPT ![m] = {}]
        /\ UNCHANGED <<taken, log, knocks>>
        /\ backlog' = backlog \/ backlog' = [backlog EXCEPT ![m] = 0]
    BY <1>5 DEF Sent, Restart, history
  <2>2. \A x \in Machine : x # m => Quiet(x)
    BY <1>0, <2>1 DEF Quiet
  <2>3. GrowInv(m)'
    <3>1. kept'[m] = {} /\ sending'[m] = {} /\ backlog'[m] \in {backlog[m], 0}
      BY <1>0, <2>1
    <3>2. KeptNewer(m)'
      BY <3>1 DEF KeptNewer, AtMostOne
    <3> QED
      BY <1>0, <2>1, <3>1, <3>2 DEF GrowInv, Latest
  <2>4. NumberOK'
    <3>1. handler' \in [Machine -> BOOLEAN]
      BY <1>0, <1>5 DEF Sent, Restart
    <3>2. backlog' \in [Machine -> Nat]
      <4>1. backlog \in [Machine -> Nat] /\ 0 \in Nat
        BY <1>0
      <4>2. [backlog EXCEPT ![m] = 0] \in [Machine -> Nat]
        BY <4>1
      <4> QED
        BY <2>1, <4>1, <4>2
    <3> QED
      BY <1>0, <2>1, <3>1, <3>2
  <2> QED
    BY <1>0, <2>2, <2>3, <2>4, QuietGrows DEF CountInv
<1>6. ASSUME UNCHANGED <<backlog, kept, sending, taken, log, knocks>>,
             handler' \in [Machine -> BOOLEAN]
      PROVE  CountInv'
  <2>1. \A x \in Machine : Quiet(x)
    BY <1>6 DEF Quiet
  <2> QED
    BY <1>0, <1>6, <2>1, QuietGrows DEF CountInv
<1>7. ASSUME NEW m \in Machine, Greet(m) \/ Paste(m) \/ Break(m) PROVE CountInv'
  BY <1>0, <1>6, <1>7 DEF Greet, Paste, Break, history
<1>8. CASE UNCHANGED vars
  BY <1>0, <1>6, <1>8 DEF vars, history
<1> QED
  BY <1>1, <1>2, <1>3, <1>4, <1>5, <1>7, <1>8 DEF Next

LEMMA InitCount == Init => CountInv
<1> SUFFICES ASSUME Init PROVE CountInv
  OBVIOUS
<1>1. NumberOK
  BY DEF Init, NumberOK
<1>2. ASSUME NEW m \in Machine PROVE GrowInv(m)
  <2>1. /\ log[m] = <<>> /\ taken[m] = 0 /\ backlog[m] = 0 /\ knocks[m] = 0
        /\ kept[m] = {} /\ sending[m] = {}
    BY DEF Init
  <2> QED
    BY <2>1 DEF GrowInv, KeptNewer, AtMostOne, Latest
<1> QED
  BY <1>1, <1>2 DEF CountInv

LEMMA Counts == Spec => []CountInv
BY InitCount, CountStep, PTL DEF Spec

(* Machines do not echo each other's texts for ever: none gives the server *)
(* more texts than its own users have copied.                              *)
THEOREM NoEchoAlways == Spec => []NoEcho
<1>1. CountInv => NoEcho
  <2> SUFFICES ASSUME CountInv, NEW m \in Machine PROVE Len(log[m]) <= knocks[m]
    BY DEF NoEcho
  <2>1. /\ Latest(m) \in Nat /\ Len(log[m]) \in Nat
        /\ taken[m] \in Nat /\ backlog[m] \in Nat /\ knocks[m] \in Nat
    BY LastType DEF CountInv
  <2> QED
    BY <2>1 DEF CountInv, GrowInv
<1> QED
  BY <1>1, Counts, PTL

----------------------------------------------------------------------------
(* Each machine's daemon is a Copier.                                      *)

LEMMA NumberIs ==
  ASSUME NEW S, AtMostOne(S)
  PROVE  /\ S = {} => Number(S) = 0
         /\ \A k \in S : Number(S) = k.n
BY DEF Number, AtMostOne

(* A step leaves a machine alone, or does to it what Copier allows.        *)
LEMMA CopierSteps ==
  ASSUME CountInv, Next, NEW x \in Machine
  PROVE  [Cop(x)!Next]_(Cop(x)!vars)
<1>0. /\ NumberOK /\ GrowInv(x)
      /\ AtMostOne(kept[x]) /\ AtMostOne(sending[x])
      /\ \A k \in kept[x] \union sending[x] : k.n # 0
  BY DEF CountInv, GrowInv, KeptNewer
<1>1. PICK m \in Machine :
        \/ \E t \in Text : Copy(m, t)
        \/ Greet(m) \/ Accept(m) \/ Send(m) \/ Arrive(m)
        \/ Sent(m) \/ Paste(m) \/ Break(m) \/ Restart(m)
  BY DEF Next
<1> USE DEF NumberOK
<1>2. ASSUME UNCHANGED <<taken[x], handler[x], kept[x], sending[x], log[x]>>
      PROVE  [Cop(x)!Next]_(Cop(x)!vars)
  BY <1>2 DEF Cop!vars
<1>3. CASE m # x
  <2>1. UNCHANGED <<taken[x], handler[x], kept[x], sending[x], log[x]>>
    BY <1>0, <1>1, <1>3 DEF Copy, Greet, Accept, Send, Arrive, Sent, Paste,
                            Break, Restart, Deliver, history
  <2> QED
    BY <1>2, <2>1
<1>4. CASE m = x
  <2>1. CASE (\E t \in Text : Copy(x, t)) \/ Paste(x) \/ Break(x)
    BY <1>2, <2>1 DEF Copy, Paste, Break, history
  <2>2. CASE Greet(x)
    <3>1. Cop(x)!Greet
      BY <1>0, <2>2 DEF Greet, Cop!Greet, history
    <3> QED
      BY <3>1 DEF Cop!Next
  <2>3. CASE Accept(x)
    <3>1. /\ taken'[x] = taken[x] + 1 /\ UNCHANGED <<handler, sending, log>>
          /\ kept'[x] = IF handler[x]
                        THEN {[n |-> taken[x] + 1, text |-> clip[x]]}
                        ELSE kept[x]
      BY <1>0, <2>3 DEF Accept
    <3>2. Number(kept'[x]) = IF handler[x] THEN taken[x] + 1 ELSE Number(kept[x])
      <4> DEFINE k == [n |-> taken[x] + 1, text |-> clip[x]]
      <4>1. AtMostOne({k}) /\ k.n = taken[x] + 1
        BY DEF AtMostOne
      <4>2. Number({k}) = taken[x] + 1
        BY <4>1, NumberIs
      <4> QED
        BY <3>1, <4>2
    <3>3. Cop(x)!Post
      BY <3>1, <3>2 DEF Cop!Post
    <3> QED
      BY <3>3 DEF Cop!Next
  <2>4. CASE Send(x)
    <3>1. /\ sending[x] = {} /\ sending'[x] = kept[x]
          /\ UNCHANGED <<taken, handler, kept>>
      BY <1>0, <2>4 DEF Send
    <3>2. PICK k \in kept[x] : UNCHANGED log \/ Deliver(x, k)
      BY <2>4 DEF Send
    <3>3. /\ Number(sending[x]) = 0 /\ Number(kept[x]) = k.n /\ k.n # 0
      BY <1>0, <3>1, NumberIs
    <3>4. log'[x] \in {log[x], Append(log[x], k.n)}
      BY <1>0, <3>2 DEF Deliver
    <3>5. Cop(x)!Hand
      BY <3>1, <3>3, <3>4 DEF Cop!Hand
    <3> QED
      BY <3>5 DEF Cop!Next
  <2>5. CASE Arrive(x)
    <3>1. UNCHANGED <<taken, handler, kept, sending>>
      BY <2>5 DEF Arrive
    <3>2. PICK k \in sending[x] : Up(x)!Newest < k.n /\ Deliver(x, k)
      BY <2>5 DEF Arrive
    <3>3. Number(sending[x]) = k.n
      BY <1>0, NumberIs
    <3>4. log'[x] = Append(log[x], k.n)
      BY <1>0, <3>2 DEF Deliver
    <3>5. Cop(x)!Arrive
      BY <3>1, <3>2, <3>3, <3>4 DEF Cop!Arrive, Cop!Newest, Up!Newest
    <3> QED
      BY <3>5 DEF Cop!Next
  <2>6. CASE Sent(x)
    <3>1. /\ sending[x] # {} /\ sending'[x] = {} /\ kept'[x] = {}
          /\ UNCHANGED <<taken, handler, log>>
      BY <1>0, <2>6 DEF Sent, history
    <3>2. Number(sending[x]) # 0
      <4>1. PICK k \in sending[x] : TRUE
        BY <3>1
      <4>2. Number(sending[x]) = k.n
        BY <1>0, NumberIs
      <4> QED
        BY <1>0, <4>2
    <3>3. Number(sending'[x]) = 0 /\ Number(kept'[x]) = 0
      BY <3>1 DEF Number
    <3>4. Cop(x)!Return
      BY <3>1, <3>2, <3>3 DEF Cop!Return
    <3> QED
      BY <3>4 DEF Cop!Next
  <2>7. CASE Restart(x)
    <3>1. /\ sending'[x] = {} /\ kept'[x] = {} /\ handler'[x] = FALSE
          /\ UNCHANGED <<taken, log>>
      BY <1>0, <2>7 DEF Restart, history
    <3>2. Number(sending'[x]) = 0 /\ Number(kept'[x]) = 0
      BY <3>1 DEF Number
    <3>3. Cop(x)!Restart
      BY <3>1, <3>2 DEF Cop!Restart
    <3> QED
      BY <3>3 DEF Cop!Next
  <2> QED
    BY <1>1, <1>4, <2>1, <2>2, <2>3, <2>4, <2>5, <2>6, <2>7
<1> QED
  BY <1>3, <1>4

(* Every machine's daemon handles its texts as Copier has it, over restarts*)
(* too.                                                                    *)
THEOREM CopiersAlways == Spec => AllCopiers
<1>1. Init => \A m \in Machine : Cop(m)!Init
  BY DEF Init, Cop!Init, Number
<1>2. CountInv /\ [Next]_vars =>
        [\A m \in Machine : [Cop(m)!Next]_(Cop(m)!vars)]_vars
  BY CopierSteps
<1> QED
  BY <1>1, <1>2, Counts, PTL DEF Spec, AllCopiers

(* And so each keeps the promise of Uplink.                                *)
AllUplinked ==
  /\ \A m \in Machine : Up(m)!Init
  /\ [][\A m \in Machine : [Up(m)!Next]_<<taken[m], log[m]>>]_vars

LEMMA UplinkSteps ==
  ASSUME CountInv, NEW m \in Machine, [Cop(m)!Next]_(Cop(m)!vars)
  PROVE  [Up(m)!Next]_<<taken[m], log[m]>>
<1>0. /\ GrowInv(m) /\ Latest(m) \in Nat /\ taken[m] \in Nat
      /\ AtMostOne(kept[m]) /\ AtMostOne(sending[m])
  BY LastType DEF CountInv, GrowInv, KeptNewer
<1> USE DEF Up!Next, Up!Post, Up!Ship
<1>1. Up(m)!Newest = Latest(m) /\ Cop(m)!Newest = Latest(m)
  BY DEF Up!Newest, Cop!Newest, Latest
<1>2. CASE Cop(m)!Post
  BY <1>2 DEF Cop!Post
<1>3. CASE Cop(m)!Hand
  <2>1. sending[m] = {} /\ kept[m] # {}
    <3>1. \A k \in sending[m] : k.n # 0
      BY <1>0 DEF GrowInv, KeptNewer
    <3> QED
      BY <1>0, <1>3, <3>1, NumberIs DEF Cop!Hand
  <2>2. Number(kept[m]) \in (Latest(m) + 1)..taken[m]
    BY <1>0, <2>1, NumberIs DEF GrowInv, KeptNewer
  <2> QED
    BY <1>1, <1>3, <2>2 DEF Cop!Hand
<1>4. CASE Cop(m)!Arrive
  <2>1. Number(sending[m]) \in (Latest(m) + 1)..taken[m]
    <3>1. sending[m] # {}
      BY <1>0, <1>1, <1>4, NumberIs DEF Cop!Arrive
    <3> QED
      BY <1>0, <1>1, <1>4, <3>1, NumberIs DEF Cop!Arrive, GrowInv, KeptNewer
  <2> QED
    BY <1>1, <1>4, <2>1 DEF Cop!Arrive
<1>5. CASE Cop(m)!Greet \/ Cop(m)!Return \/ Cop(m)!Restart \/ UNCHANGED Cop(m)!vars
  BY <1>5 DEF Cop!Greet, Cop!Return, Cop!Restart, Cop!vars
<1> QED
  BY <1>2, <1>3, <1>4, <1>5 DEF Cop!Next

(* The server receives a growing choice of the texts that a machine has    *)
(* taken, none twice and none after a newer one, over restarts too.        *)
THEOREM UplinkedAlways == Spec => AllUplinked
<1>1. Init => \A m \in Machine : Up(m)!Init
  BY DEF Init, Up!Init
<1>2. CountInv /\ [Next]_vars =>
        [\A m \in Machine : [Up(m)!Next]_<<taken[m], log[m]>>]_vars
  BY CopierSteps, UplinkSteps
<1> QED
  BY <1>1, <1>2, Counts, PTL DEF Spec, AllUplinked
=============================================================================
