---------------------------- MODULE CopierProofs ----------------------------
(***************************************************************************)
(* Copier implements Uplink: whatever handles texts as Copier does, keeps  *)
(* the promise that the server receives a growing choice of them.          *)
(***************************************************************************)
EXTENDS Copier, TLAPS

Up == INSTANCE Uplink

TypeOK == /\ offered \in Nat /\ kept \in Nat /\ inside \in Nat
          /\ received \in Seq(Nat) /\ Newest \in Nat

(* Numbers grow: from what the server has to the text that is inside a     *)
(* send, and on to the one that is kept.                                   *)
Growing == /\ Newest <= offered /\ kept <= offered
           /\ inside = 0 => kept = 0 \/ Newest < kept
           /\ inside # 0 => Newest <= inside /\ inside <= kept

CopierInv == TypeOK /\ Growing

LEMMA Appended ==
  ASSUME NEW s \in Seq(Nat), NEW n \in Nat
  PROVE  /\ Append(s, n) \in Seq(Nat) /\ Len(Append(s, n)) = Len(s) + 1
         /\ Append(s, n)[Len(s) + 1] = n
         /\ \A i \in 1..Len(s) : Append(s, n)[i] = s[i]
OBVIOUS

LEMMA NewestAppended ==
  ASSUME received \in Seq(Nat), NEW n \in Nat, received' = Append(received, n)
  PROVE  received' \in Seq(Nat) /\ Newest' = n
<1>1. /\ received' \in Seq(Nat)
      /\ Len(received') = Len(received) + 1
      /\ received'[Len(received) + 1] = n
  OBVIOUS
<1>2. received' # <<>>
  <2>1. Len(received') # 0 /\ Len(<<>>) = 0
    BY <1>1
  <2>2. QED
    BY <2>1
<1>3. QED
  BY <1>1, <1>2 DEF Newest

LEMMA InitCopier == Init => CopierInv
BY DEF Init, CopierInv, TypeOK, Growing, Newest

(* Each step keeps the order, and is one of Uplink's or none.              *)
LEMMA CopierStep ==
  ASSUME CopierInv, [Next]_vars
  PROVE  CopierInv' /\ [Up!Next]_<<offered, received>>
<1> USE DEF CopierInv, TypeOK, Growing
<1>1. ASSUME UNCHANGED received PROVE Newest' = Newest
  BY <1>1 DEF Newest
<1>2. ASSUME NEW n \in (Newest + 1)..offered, received' = Append(received, n),
             UNCHANGED offered
      PROVE  /\ received' \in Seq(Nat)
             /\ Newest' = n
             /\ Up!Next
  <2>1. received' \in Seq(Nat) /\ Newest' = n
    BY <1>2, NewestAppended
  <2>2. Up!Ship
    BY <1>2 DEF Up!Ship, Up!Newest, Newest
  <2>3. QED
    BY <2>1, <2>2 DEF Up!Next
<1>3. CASE Post
  BY <1>1, <1>3 DEF Post, Up!Next, Up!Post
<1>4. CASE Greet \/ Return \/ Restart \/ UNCHANGED vars
  BY <1>1, <1>4 DEF Greet, Return, Restart, vars
<1>5. CASE Hand
  <2>1. kept \in (Newest + 1)..offered
    BY <1>5 DEF Hand
  <2>2. CASE UNCHANGED received
    BY <1>1, <1>5, <2>2 DEF Hand
  <2>3. CASE received' = Append(received, kept)
    BY <1>2, <1>5, <2>1, <2>3 DEF Hand
  <2>4. QED
    BY <1>5, <2>2, <2>3 DEF Hand
<1>6. CASE Arrive
  <2>1. inside \in (Newest + 1)..offered
    BY <1>6 DEF Arrive
  <2>2. QED
    BY <1>2, <1>6, <2>1 DEF Arrive
<1>7. QED
  BY <1>3, <1>4, <1>5, <1>6 DEF Next

(* What Copier does is what Uplink allows: no text reaches the server twice*)
(* or after a newer one, though a text may be lost.                        *)
THEOREM CopierUplinks == CopierSpec => Up!UplinkSpec
<1>1. Init => Up!Init
  BY DEF Init, Up!Init
<1>2. CopierInv /\ [Next]_vars => CopierInv' /\ [Up!Next]_<<offered, received>>
  BY CopierStep
<1>3. QED
  BY <1>1, <1>2, InitCopier, PTL DEF CopierSpec, Up!UplinkSpec

(* No text is received twice, none after a newer one, and none that was not*)
(* offered.                                                                *)
InOrder == /\ \A i \in DOMAIN received : received[i] \in 1..offered
           /\ \A i, j \in DOMAIN received : i < j => received[i] < received[j]

LEMMA OrderKept ==
  ASSUME CopierInv, InOrder, [Up!Next]_<<offered, received>>
  PROVE  InOrder'
<1>0. /\ received \in Seq(Nat) /\ offered \in Nat
      /\ Len(received) \in Nat /\ DOMAIN received = 1..Len(received)
  BY DEF CopierInv, TypeOK
<1>1. CASE UNCHANGED <<offered, received>>
  BY <1>1 DEF InOrder
<1>2. CASE Up!Post
  <2>1. 1..offered \subseteq 1..offered'
    BY <1>0, <1>2 DEF Up!Post
  <2>2. QED
    BY <1>2, <2>1 DEF Up!Post, InOrder
<1>3. CASE Up!Ship
  <2>1. PICK n \in (Newest + 1)..offered : received' = Append(received, n)
    BY <1>3 DEF Up!Ship, Up!Newest, Newest
  <2>2. Newest \in Nat /\ n \in Nat /\ Newest < n /\ n \in 1..offered
    BY <1>0 DEF CopierInv, TypeOK
  <2>3. /\ DOMAIN received' = 1..(Len(received) + 1)
        /\ received'[Len(received) + 1] = n
        /\ \A i \in 1..Len(received) : received'[i] = received[i]
    <3>1. /\ received' \in Seq(Nat) /\ Len(received') = Len(received) + 1
          /\ received'[Len(received) + 1] = n
          /\ \A i \in 1..Len(received) : received'[i] = received[i]
      BY <1>0, <2>1, <2>2, Appended
    <3>2. QED
      BY <3>1
  <2>4. ASSUME NEW i \in 1..Len(received)
        PROVE  received[i] < n /\ received[i] \in 1..offered
    <3>1. Len(received) \in 1..Len(received) /\ received # <<>>
      BY <1>0
    <3>2. received[Len(received)] = Newest /\ received[i] \in 1..offered
      BY <1>0, <3>1 DEF Newest, InOrder
    <3>3. CASE i < Len(received)
      <4>1. received[i] < received[Len(received)]
        BY <1>0, <3>1, <3>3 DEF InOrder
      <4>2. received[i] \in Nat /\ received[Len(received)] \in Nat
        BY <1>0, <3>1
      <4>3. QED
        BY <2>2, <3>2, <4>1, <4>2
    <3>4. CASE i = Len(received)
      BY <2>2, <3>2, <3>4
    <3>5. \A l \in Nat : \A k \in 1..l : k = l \/ k < l
      OBVIOUS
    <3>6. QED
      BY <1>0, <3>3, <3>4, <3>5
  <2>5. UNCHANGED offered
    BY <1>3 DEF Up!Ship
  <2>6. ASSUME NEW i \in 1..(Len(received) + 1) PROVE received'[i] \in 1..offered'
    BY <1>0, <2>2, <2>3, <2>4, <2>5
  <2>7. ASSUME NEW i \in 1..(Len(received) + 1),
               NEW j \in 1..(Len(received) + 1), i < j
        PROVE  received'[i] < received'[j]
    <3>1. i \in 1..Len(received)
      BY <1>0, <2>7
    <3>2. CASE j \in 1..Len(received)
      BY <1>0, <2>3, <2>7, <3>1, <3>2 DEF InOrder
    <3>3. CASE j = Len(received) + 1
      BY <2>3, <2>4, <3>1, <3>3
    <3>4. QED
      BY <1>0, <3>2, <3>3
  <2>8. QED
    BY <2>3, <2>6, <2>7 DEF InOrder
<1>4. QED
  BY <1>1, <1>2, <1>3 DEF Up!Next

(* Copier keeps that, whatever is skipped or lost.                         *)
THEOREM InOrderAlways == CopierSpec => []InOrder
<1>1. Init => InOrder
  BY DEF Init, InOrder
<1>2. CopierInv /\ [Next]_vars => CopierInv' /\ [Up!Next]_<<offered, received>>
  BY CopierStep
<1>3. CopierInv /\ InOrder /\ [Up!Next]_<<offered, received>> => InOrder'
  BY OrderKept
<1>4. QED
  BY <1>1, <1>2, <1>3, InitCopier, PTL DEF CopierSpec
=============================================================================
