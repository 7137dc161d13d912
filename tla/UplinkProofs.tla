---------------------------- MODULE UplinkProofs ----------------------------
(***************************************************************************)
(* Session implements Copier, and with it Uplink: whatever sends yield,    *)
(* fail or are flushed late, a text is kept, handed over, received and     *)
(* forgotten as Copier has it, and the copies that the server receives are *)
(* a growing choice of the texts notified.                                 *)
(***************************************************************************)
EXTENDS SessionProofs

----------------------------------------------------------------------------
(* The invariant.  A copy that a failed flush has left in a buffer is the  *)
(* one that send_copy is still inside the send of; it is newer than all    *)
(* that the server has, and so is what send_copy will take next.           *)

Newest == IF shipped = <<>> THEN 0 ELSE shipped[Len(shipped)]

InSend == {"sentErr", "closingOk", "closingErr", "drain"}
Within == InSend \union {"sentOk"}

Unsent == \A c \in Conn : conn[c].buf # <<>> =>
            /\ conn[c].first # "none"
            /\ conn[c].buf = <<sent>> /\ Newest < sent
            /\ pc["send_copy"] \in InSend

Waiting == /\ Newest \in Nat /\ Newest <= sent /\ sent <= posted
           /\ sendText <= posted
           /\ pc["send_copy"] \in {"loop", "send"} =>
                sendText = 0 \/ sent < sendText
           /\ pc["send_copy"] = "send" => sendText # 0
           /\ pc["send_copy"] \in Within => sent # 0

UplinkInv == Unsent /\ Waiting

(* What Copier allows, in terms of the session.                            *)
Stays == /\ UNCHANGED <<posted, sendText, shipped>> /\ Inside' = Inside
         /\ handler # "none" => handler' # "none"
Posts == /\ posted' = posted + 1
         /\ sendText' = IF handler # "none" THEN posted + 1 ELSE sendText
         /\ UNCHANGED <<handler, shipped>> /\ Inside' = Inside
Hands == /\ Inside = 0 /\ sendText # 0 /\ Inside' = sendText
         /\ shipped' \in {shipped, Append(shipped, sendText)}
         /\ UNCHANGED <<posted, handler, sendText>>
Arrives == /\ Newest < Inside /\ shipped' = Append(shipped, Inside)
           /\ UNCHANGED <<posted, handler, sendText>> /\ Inside' = Inside
Returns == /\ Inside # 0 /\ Inside' = 0 /\ sendText' = 0
           /\ UNCHANGED <<posted, handler, shipped>>

Handled == Stays \/ Posts \/ Hands \/ Arrives \/ Returns

LEMMA HandledCopies ==
  ASSUME Handled
  PROVE  [Cop!Next]_(Cop!vars)
<1> USE DEF Cop!Next, Cop!vars
<1>1. CASE Stays /\ (handler # "none" <=> handler' # "none")
  BY <1>1 DEF Stays
<1>2. CASE Stays /\ handler = "none" /\ handler' # "none"
  BY <1>2 DEF Stays, Cop!Greet
<1>3. CASE Posts
  BY <1>3 DEF Posts, Cop!Post
<1>4. CASE Hands
  BY <1>4 DEF Hands, Cop!Hand
<1>5. CASE Arrives
  BY <1>5 DEF Arrives, Cop!Arrive, Cop!Newest, Newest
<1>6. CASE Returns
  BY <1>6 DEF Returns, Cop!Return
<1>7. QED
  BY <1>1, <1>2, <1>3, <1>4, <1>5, <1>6 DEF Handled, Stays

LEMMA InsideIs ==
  Inside = IF pc["send_copy"] \in Within THEN sent ELSE 0
BY DEF Inside, Within, InSend

LEMMA Numbers ==
  ASSUME TypeInv
  PROVE  /\ posted \in Nat /\ sent \in Nat /\ sendText \in Nat
         /\ shipped \in Seq(Nat) /\ pc \in [Thread -> Label]
         /\ conn \in [Conn -> Socket]
         /\ "send_copy" \in Thread /\ "connect" \in Thread
BY SessionAssumption DEF TypeInv, TypeOK, Thread

LEMMA NewestAppended ==
  ASSUME NEW n \in Nat, shipped \in Seq(Nat), shipped' = Append(shipped, n)
  PROVE  Newest' = n
<1>1. Len(shipped') = Len(shipped) + 1 /\ shipped'[Len(shipped) + 1] = n
  OBVIOUS
<1>2. shipped' # <<>>
  <2>1. Len(shipped') # 0 /\ Len(<<>>) = 0
    BY <1>1
  <2> QED
    BY <2>1
<1> QED
  BY <1>1, <1>2 DEF Newest

----------------------------------------------------------------------------
(* What the operators on sockets do to a buffer.                           *)

LEMMA ShutBuffer ==
  ASSUME NEW k \in Socket
  PROVE  Closed(k).buf = <<>> /\ Broken(k).buf = <<>> /\ Blank.buf = <<>>
<1>1. Closed(k).buf = <<>>
  BY DEF Closed, Blank
<1>2. \A b \in Socket : [b EXCEPT !.life = k.life, !.inbox = k.inbox].buf = b.buf
  BY DEF Socket
<1>3. Broken(k).buf = Blank.buf
  BY <1>2, BlankType DEF Broken
<1> QED
  BY <1>1, <1>3 DEF Blank

LEMMA AfterSendBuffer ==
  ASSUME NEW k \in Socket, NEW what \in {"none", "auth", "copy"},
         NEW copies \in Seq(Nat), NEW ok \in BOOLEAN
  PROVE  AfterSend(k, what, copies, ok).buf
           = IF ~Usable(k) THEN k.buf ELSE IF ok THEN <<>> ELSE k.buf \o copies
<1>1. CASE ~Usable(k)
  BY <1>1 DEF AfterSend
<1>2. CASE Usable(k)
  <2> DEFINE first == IF k.first = "none" THEN what ELSE k.first
             buf == IF ok THEN <<>> ELSE k.buf \o copies
             net == IF ok /\ k.net = "lost" THEN "unacked" ELSE k.net
  <2>1. AfterSend(k, what, copies, ok)
          = [k EXCEPT !.first = first, !.buf = buf, !.net = net]
    BY <1>2 DEF AfterSend
  <2> HIDE DEF first, buf, net
  <2>2. [k EXCEPT !.first = first, !.buf = buf, !.net = net].buf = buf
    BY DEF Socket
  <2> QED
    BY <1>2, <2>1, <2>2 DEF buf
<1> QED
  BY <1>1, <1>2

LEMMA TookBuffer ==
  ASSUME conn \in [Conn -> Socket], NEW c \in Conn, NEW d \in Conn
  PROVE  Took(c)[d].buf = conn[d].buf /\ Took(c)[d].first = conn[d].first
<1>1. conn[c] \in Socket
  OBVIOUS
<1>2. /\ [conn[c] EXCEPT !.inbox = Rest(conn[c].inbox)].buf = conn[c].buf
      /\ [conn[c] EXCEPT !.inbox = Rest(conn[c].inbox)].first = conn[c].first
  BY <1>1 DEF Socket
<1> QED
  BY <1>2 DEF Took

----------------------------------------------------------------------------
(* A step that sends nothing of its own, and that does not take send_copy  *)
(* out of its send unless the session is over.                             *)

BuffersKept ==
  \A c \in Conn : /\ conn'[c].buf \in {conn[c].buf, <<>>}
                  /\ conn'[c].buf # <<>> => conn'[c].first = conn[c].first

LEMMA QuietUplink ==
  ASSUME TypeInv, SafeInv', UplinkInv, BuffersKept,
         UNCHANGED <<posted, sent, shipped>>,
         Stays \/ Returns,
         pc'["send_copy"] \in Within => pc["send_copy"] \in Within,
         pc["send_copy"] \in InSend => pc'["send_copy"] \in InSend \/ state' # "OPEN",
         pc'["send_copy"] \in {"loop", "send"} =>
           sendText' = 0 \/ pc["send_copy"] \in {"loop", "send"},
         pc'["send_copy"] = "send" => sendText' # 0
  PROVE  UplinkInv' /\ Handled
<1>1. Newest' = Newest
  BY DEF Newest
<1>2. Handled
  BY DEF Handled
<1>3. Waiting'
  <2>1. sendText' \in {0, sendText}
    BY DEF Stays, Returns
  <2> QED
    BY <1>1, <2>1, Numbers DEF UplinkInv, Waiting
<1>4. Unsent'
  <2> SUFFICES ASSUME NEW c \in Conn, conn'[c].buf # <<>>
               PROVE  /\ conn'[c].first # "none"
                      /\ conn'[c].buf = <<sent>> /\ Newest < sent
                      /\ pc'["send_copy"] \in InSend
    BY <1>1 DEF Unsent
  <2>1. /\ conn'[c].buf = conn[c].buf /\ conn'[c].first = conn[c].first
        /\ conn[c].first # "none" /\ conn[c].buf = <<sent>> /\ Newest < sent
        /\ pc["send_copy"] \in InSend
    BY DEF BuffersKept, UplinkInv, Unsent
  <2>2. state' = "OPEN"
    BY <2>1 DEF SafeInv, SocketInv, OneSession
  <2> QED
    BY <2>1, <2>2
<1> QED
  BY <1>2, <1>3, <1>4 DEF UplinkInv

(* Only the socket that ws_client has open can have something unsent.      *)
LEMMA UnsentIsOpen ==
  ASSUME SafeInv, UplinkInv, NEW c \in Conn, conn[c].buf # <<>>
  PROVE  c = sock /\ state = "OPEN"
BY DEF SafeInv, SocketInv, OneSession, UplinkInv, Unsent

(* One send on the current socket, and the answer it gets.                 *)
Effect(cs, t, what, copies, ok, err, good) ==
  /\ conn'[sock].buf = IF ~Usable(cs[sock]) THEN cs[sock].buf
                       ELSE IF good THEN <<>> ELSE cs[sock].buf \o copies
  /\ conn'[sock].first = IF Usable(cs[sock]) /\ cs[sock].first = "none"
                         THEN what ELSE cs[sock].first
  /\ \A c \in Conn : c # sock => conn'[c] = cs[c]
  /\ shipped' = shipped \o Delivered(cs[sock], copies, good)
  /\ pc' = [pc EXCEPT ![t] = IF good THEN ok ELSE err]

LEMMA TransmitEffect ==
  ASSUME sock \in Conn, NEW t \in Thread, NEW what \in {"none", "auth", "copy"},
         NEW copies \in Seq(Nat), NEW ok, NEW err,
         NEW cs \in [Conn -> Socket], Transmit(cs, t, what, copies, ok, err)
  PROVE  \E good \in BOOLEAN : Effect(cs, t, what, copies, ok, err, good)
<1>1. PICK good \in SendOutcome(cs[sock]) :
        /\ conn' = [cs EXCEPT ![sock] = AfterSend(cs[sock], what, copies, good)]
        /\ shipped' = shipped \o Delivered(cs[sock], copies, good)
        /\ pc' = [pc EXCEPT ![t] = IF good THEN ok ELSE err]
  BY DEF Transmit, Yield, Goto
<1>2. good \in BOOLEAN
  BY DEF SendOutcome
<1>3. conn'[sock] = AfterSend(cs[sock], what, copies, good) /\ cs[sock] \in Socket
  BY <1>1
<1>4. conn'[sock].buf = IF ~Usable(cs[sock]) THEN cs[sock].buf
                       ELSE IF good THEN <<>> ELSE cs[sock].buf \o copies
  BY <1>2, <1>3, AfterSendBuffer
<1>5. conn'[sock].first = IF Usable(cs[sock]) /\ cs[sock].first = "none"
                         THEN what ELSE cs[sock].first
  BY <1>2, <1>3, AfterSendFirst
<1>6. \A c \in Conn : c # sock => conn'[c] = cs[c]
  BY <1>1
<1> QED
  BY <1>1, <1>2, <1>4, <1>5, <1>6 DEF Effect

(* A frame that is not a copy goes out, and what is unsent with it.        *)
LEMMA FlushUplink ==
  ASSUME SafeInv, UplinkInv, NEW t \in Thread,
         NEW what \in {"none", "auth"}, NEW ok, NEW err,
         NEW cs \in [Conn -> Socket],
         \A c \in Conn : cs[c].first = conn[c].first /\ cs[c].buf = conn[c].buf,
         sock \in Conn, Transmit(cs, t, what, <<>>, ok, err),
         UNCHANGED <<posted, sent, sendText, handler>>,
         t = "send_copy" =>
           pc[t] \in Within /\ ok \in InSend /\ err \in InSend
  PROVE  UplinkInv' /\ Handled
<1>0. TypeInv /\ Unsent /\ Waiting
  BY DEF SafeInv, UplinkInv
<1>n. /\ posted \in Nat /\ sent \in Nat /\ sendText \in Nat
      /\ shipped \in Seq(Nat) /\ pc \in [Thread -> Label]
      /\ conn \in [Conn -> Socket] /\ "send_copy" \in Thread
  BY <1>0, Numbers
<1>1. PICK good \in BOOLEAN : Effect(cs, t, what, <<>>, ok, err, good)
  <2>1. <<>> \in Seq(Nat)
    OBVIOUS
  <2>2. what \in {"none", "auth", "copy"}
    OBVIOUS
  <2> QED
    BY <2>1, <2>2, TransmitEffect
<1>2. cs[sock].buf \o <<>> = cs[sock].buf
  <2>1. cs[sock].buf \in Seq(Nat)
    BY DEF Socket
  <2> QED
    BY <2>1
<1>3. conn'[sock].buf = IF Usable(cs[sock]) /\ good THEN <<>> ELSE conn[sock].buf
  BY <1>1, <1>2 DEF Effect
<1>4. conn'[sock].first # "none" \/ conn[sock].first = "none"
  BY <1>1 DEF Effect
<1>5. \A c \in Conn : c # sock => conn'[c].buf = <<>>
  BY <1>0, <1>1, <1>n, UnsentIsOpen DEF Effect
<1>6. pc["send_copy"] \in InSend => pc'["send_copy"] \in InSend
  BY <1>1, <1>n DEF Effect
<1>7. pc'["send_copy"] \in {"loop", "send"} => pc'["send_copy"] = pc["send_copy"]
  BY <1>0, <1>n, <1>1 DEF Effect, InSend
<1>w. pc'["send_copy"] \in Within <=> pc["send_copy"] \in Within
  BY <1>1, <1>n DEF Effect, Within
<1>i. Inside' = Inside
  BY <1>w DEF Inside, Within, InSend
<1>8. CASE shipped' = shipped
  <2>1. Newest' = Newest
    BY <1>8 DEF Newest
  <2>2. Waiting'
    BY <1>0, <1>n, <1>7, <1>w, <2>1 DEF Waiting
  <2>3. Unsent'
    BY <1>0, <1>n, <1>3, <1>4, <1>5, <1>6, <2>1 DEF Unsent
  <2>4. Stays
    BY <1>8, <1>i DEF Stays
  <2> QED
    BY <2>2, <2>3, <2>4 DEF UplinkInv, Handled
<1>9. CASE shipped' # shipped
  <2>1. /\ good /\ Usable(cs[sock]) /\ conn[sock].buf # <<>>
        /\ shipped' = shipped \o conn[sock].buf
    <3>1. shipped \o <<>> = shipped
      BY <1>n
    <3>2. cs[sock].buf \o <<>> = cs[sock].buf
      BY <1>2
    <3> QED
      BY <1>0, <1>n, <1>1, <1>9, <3>1, <3>2 DEF Effect, Delivered
  <2>2. conn[sock].buf = <<sent>> /\ Newest < sent /\ Inside = sent
    BY <1>0, <1>n, <2>1, InsideIs DEF Unsent, Within
  <2>3. shipped' = Append(shipped, sent)
    BY <1>n, <2>1, <2>2
  <2>4. Newest' = sent
    BY <2>3, <1>n, NewestAppended
  <2>5. Unsent'
    BY <1>0, <1>n, <1>3, <1>5, <2>1 DEF Unsent
  <2>6. Waiting'
    BY <1>0, <1>n, <1>7, <1>w, <2>4 DEF Waiting
  <2>7. Arrives
    BY <1>i, <2>2, <2>3 DEF Arrives
  <2> QED
    BY <2>5, <2>6, <2>7 DEF UplinkInv, Handled
<1> QED
  BY <1>8, <1>9

(* send_copy sends: nothing is unsent yet.                                 *)
LEMMA CopyUplink ==
  ASSUME SafeInv, UplinkInv, sock \in Conn, pc["send_copy"] = "send",
         Transmit(conn, "send_copy", "copy", <<sendText>>, "sentOk", "sentErr"),
         UNCHANGED <<posted, sendText, handler>>, sent' = sendText
  PROVE  UplinkInv' /\ Handled
<1>0. TypeInv /\ Unsent /\ Waiting
  BY DEF SafeInv, UplinkInv
<1>n. /\ posted \in Nat /\ sent \in Nat /\ sendText \in Nat
      /\ shipped \in Seq(Nat) /\ pc \in [Thread -> Label]
      /\ conn \in [Conn -> Socket] /\ "send_copy" \in Thread
  BY <1>0, Numbers
<1>e. \A c \in Conn : conn[c].buf = <<>>
  BY <1>0, <1>n DEF Unsent, InSend
<1>2. <<>> \o <<sendText>> = <<sendText>> /\ <<sendText>> \in Seq(Nat)
  BY <1>n
<1>1. PICK good \in BOOLEAN :
        Effect(conn, "send_copy", "copy", <<sendText>>, "sentOk", "sentErr", good)
  <2>1. /\ "copy" \in {"none", "auth", "copy"} /\ "send_copy" \in Thread
        /\ <<sendText>> \in Seq(Nat) /\ conn \in [Conn -> Socket]
    BY <1>n, <1>2
  <2> QED
    BY <2>1, TransmitEffect
<1>3. conn'[sock].buf
        = IF Usable(conn[sock]) /\ ~good THEN <<sendText>> ELSE <<>>
  BY <1>1, <1>2, <1>e DEF Effect
<1>4. Usable(conn[sock]) => conn'[sock].first # "none"
  BY <1>1 DEF Effect
<1>5. \A c \in Conn : c # sock => conn'[c].buf = <<>>
  BY <1>1, <1>e, <1>n DEF Effect
<1>6. Newest < sendText /\ Newest \in Nat /\ sendText <= posted
  BY <1>0, <1>n DEF Waiting
<1>7. pc'["send_copy"] = IF good THEN "sentOk" ELSE "sentErr"
  BY <1>1, <1>n DEF Effect
<1>i. Inside = 0 /\ Inside' = sendText /\ sendText # 0
  BY <1>0, <1>7 DEF Inside, Waiting
<1>8. CASE shipped' = shipped
  <2>1. Newest' = Newest
    BY <1>8 DEF Newest
  <2>2. Waiting'
    BY <1>0, <1>n, <1>6, <1>7, <2>1 DEF Waiting
  <2>3. Unsent'
    BY <1>0, <1>n, <1>3, <1>4, <1>5, <1>6, <1>7, <2>1 DEF Unsent, InSend
  <2>4. Hands
    BY <1>8, <1>i DEF Hands
  <2> QED
    BY <2>2, <2>3, <2>4 DEF UplinkInv, Handled
<1>9. CASE shipped' # shipped
  <2>1. good /\ shipped' = shipped \o <<sendText>>
    <3>1. shipped \o <<>> = shipped /\ <<>> \o <<sendText>> = <<sendText>>
      BY <1>n
    <3> QED
      BY <1>0, <1>n, <1>1, <1>9, <1>e, <3>1 DEF Effect, Delivered
  <2>2. shipped' = Append(shipped, sendText)
    BY <1>n, <2>1
  <2>3. Newest' = sendText
    BY <2>2, <1>n, NewestAppended
  <2>4. Unsent'
    BY <1>0, <1>n, <1>3, <1>5, <2>1 DEF Unsent
  <2>5. Waiting'
    BY <1>0, <1>n, <1>6, <1>7, <2>1, <2>3 DEF Waiting
  <2>6. Hands
    BY <1>i, <2>2 DEF Hands
  <2> QED
    BY <2>4, <2>5, <2>6 DEF UplinkInv, Handled
<1> QED
  BY <1>8, <1>9

----------------------------------------------------------------------------
(* The steps.                                                              *)

LEMMA SameSockets ==
  ASSUME UNCHANGED conn
  PROVE  BuffersKept
BY DEF BuffersKept

LEMMA ShutSockets ==
  ASSUME NEW cs \in [Conn -> Socket],
         \A c \in Conn : cs[c].first = conn[c].first /\ cs[c].buf = conn[c].buf,
         NEW d \in Conn, conn' = [cs EXCEPT ![d] = Closed(cs[d])]
  PROVE  BuffersKept
<1>1. Closed(cs[d]).buf = <<>>
  BY ShutBuffer
<1>2. conn'[d].buf = <<>>
  BY <1>1
<1>3. \A c \in Conn : c # d => conn'[c] = cs[c]
  OBVIOUS
<1> QED
  BY <1>2, <1>3 DEF BuffersKept

LEMMA SendUplink ==
  ASSUME SafeInv, SafeInv', UplinkInv, NEW t \in Thread,
         SendFrame(t) \/ SendFailed(t) \/ CloseFailed(t) \/ SendReturned(t)
  PROVE  UplinkInv' /\ Handled
<1>0. TypeInv /\ Unsent /\ Waiting
  BY DEF SafeInv, UplinkInv
<1>1. /\ posted \in Nat /\ sent \in Nat /\ sendText \in Nat
      /\ pc \in [Thread -> Label] /\ conn \in [Conn -> Socket]
      /\ "send_copy" \in Thread /\ "connect" \in Thread
  BY <1>0, Numbers
<1>2. running = t /\ sock \in Conn
  <2>1. running = t
    BY DEF SendFrame, SendFailed, CloseFailed, SendReturned
  <2> QED
    BY <1>0, <2>1, SocketInUse
<1>3. CASE SendFrame(t) /\ state # "OPEN" /\ t # "send_copy"
  <2>1. /\ UNCHANGED <<posted, sent, shipped, sendText, handler, conn, state>>
        /\ pc' = [pc EXCEPT ![t] = "sentOk"]
    BY <1>3 DEF SendFrame, Goto, wsVars, appVars
  <2>2. pc'["send_copy"] = pc["send_copy"]
    BY <1>1, <1>3, <2>1
  <2>3. BuffersKept
    BY <2>1, SameSockets
  <2>4. pc["send_copy"] = "send" => sendText # 0
    BY <1>0 DEF Waiting
  <2>5. Stays
    BY <2>1, <2>2 DEF Stays, Inside
  <2> QED
    BY <1>0, <2>1, <2>2, <2>3, <2>4, <2>5, QuietUplink
<1>4. CASE SendFrame(t) /\ state # "OPEN" /\ t = "send_copy"
  <2>1. /\ UNCHANGED <<posted, shipped, sendText, handler, conn, state>>
        /\ pc' = [pc EXCEPT !["send_copy"] = "sentOk"]
        /\ pc["send_copy"] = "send" /\ sent' = sendText
    BY <1>4 DEF SendFrame, Goto, wsVars, appVars
  <2>2. Newest' = Newest /\ pc'["send_copy"] = "sentOk"
    BY <1>1, <2>1 DEF Newest
  <2>3. Waiting'
    BY <1>0, <1>1, <2>1, <2>2 DEF Waiting
  <2>4. \A c \in Conn : conn'[c].buf = <<>>
    BY <1>4, <2>1, UnsentIsOpen
  <2>5. Hands
    BY <1>0, <2>1, <2>2 DEF Hands, Inside, Waiting
  <2> QED
    BY <2>3, <2>4, <2>5 DEF UplinkInv, Unsent, Handled
<1>5. CASE SendFrame(t) /\ state = "OPEN" /\ t = "send_copy"
  <2>1. /\ Transmit(conn, t, Request(t), Copies(t), "sentOk", "sentErr")
        /\ UNCHANGED <<posted, sendText, handler>> /\ pc["send_copy"] = "send"
        /\ sent' = sendText
    BY <1>5 DEF SendFrame, appVars
  <2>2. Request(t) = "copy" /\ Copies(t) = <<sendText>>
    BY <1>5 DEF Request, Copies
  <2> QED
    BY <1>2, <1>5, <2>1, <2>2, CopyUplink
<1>6. CASE SendFrame(t) /\ state = "OPEN" /\ t # "send_copy"
  <2>1. /\ Transmit(conn, t, Request(t), Copies(t), "sentOk", "sentErr")
        /\ UNCHANGED <<posted, sendText, sent, handler>>
    BY <1>6 DEF SendFrame, appVars
  <2>2. Request(t) \in {"none", "auth"} /\ Copies(t) = <<>>
    BY <1>6 DEF Request, Copies
  <2> QED
    BY <1>1, <1>2, <1>6, <2>1, <2>2, FlushUplink
<1>7. CASE SendFailed(t) /\ state # "OPEN"
  <2>1. /\ UNCHANGED <<posted, sent, shipped, sendText, handler, conn, state>>
        /\ pc' = [pc EXCEPT ![t] = "sentOk"] /\ pc[t] = "sentErr"
    BY <1>7 DEF SendFailed, Goto, wsVars, appVars
  <2>2. pc'["send_copy"] = IF t = "send_copy" THEN "sentOk" ELSE pc["send_copy"]
    BY <1>1, <2>1
  <2>3. BuffersKept
    BY <2>1, SameSockets
  <2>4. pc["send_copy"] = "send" => sendText # 0
    BY <1>0 DEF Waiting
  <2>5. /\ Stays
        /\ pc'["send_copy"] \in Within <=> pc["send_copy"] \in Within
    BY <2>1, <2>2 DEF Stays, Inside, Within, InSend
  <2> QED
    BY <1>0, <1>7, <2>1, <2>2, <2>3, <2>4, <2>5, QuietUplink
<1>8. CASE SendFailed(t) /\ state = "OPEN"
  <2>1. /\ Transmit(conn, t, "none", <<>>, "closingOk", "closingErr")
        /\ UNCHANGED <<posted, sendText, sent, handler>> /\ pc[t] = "sentErr"
    BY <1>8 DEF SendFailed, appVars
  <2>2. /\ "closingOk" \in InSend /\ "closingErr" \in InSend
        /\ "sentErr" \in Within
    BY DEF InSend, Within
  <2> QED
    BY <1>1, <1>2, <2>1, <2>2, FlushUplink
<1>9. CASE CloseFailed(t)
  <2>1. /\ UNCHANGED <<posted, sent, shipped, sendText, handler>>
        /\ state' = "CLOSED"
        /\ pc' = [pc EXCEPT ![t] = "sentOk"] /\ pc[t] = "closingErr"
        /\ conn' = [conn EXCEPT ![sock] = Closed(conn[sock])]
    BY <1>9 DEF CloseFailed, Shut, Goto, appVars, history
  <2>2. pc'["send_copy"] = IF t = "send_copy" THEN "sentOk" ELSE pc["send_copy"]
    BY <1>1, <2>1
  <2>3. BuffersKept
    BY <1>1, <1>2, <2>1, ShutSockets
  <2>4. pc["send_copy"] = "send" => sendText # 0
    BY <1>0 DEF Waiting
  <2>5. /\ Stays
        /\ pc'["send_copy"] \in Within <=> pc["send_copy"] \in Within
    BY <2>1, <2>2 DEF Stays, Inside, Within, InSend
  <2> QED
    BY <1>0, <2>1, <2>2, <2>3, <2>4, <2>5, QuietUplink
<1>10. CASE SendReturned(t)
  <2>1. /\ UNCHANGED <<posted, sent, shipped, conn, state>>
        /\ pc' = [pc EXCEPT ![t] = "loop"] /\ pc[t] = "sentOk"
        /\ sendText' = IF t = "send_copy" THEN 0 ELSE sendText
        /\ handler' = IF t = "connect" THEN "fresh" ELSE handler
    BY <1>10 DEF SendReturned, Yield, wsVars, history
  <2>2. pc'["send_copy"] = IF t = "send_copy" THEN "loop" ELSE pc["send_copy"]
    BY <1>1, <2>1
  <2>3. BuffersKept
    BY <2>1, SameSockets
  <2>4. pc["send_copy"] = "send" => sendText # 0
    BY <1>0 DEF Waiting
  <2>5. t = "send_copy" => pc["send_copy"] \notin InSend /\ Inside = sent
    BY <2>1 DEF InSend, Inside
  <2>6. t = "send_copy" => Returns
    BY <1>0, <2>1, <2>2, <2>5 DEF Returns, Inside, Waiting, Within
  <2>7. t # "send_copy" => Stays
    BY <2>1, <2>2 DEF Stays, Inside
  <2>8. pc'["send_copy"] \in Within => pc["send_copy"] \in Within
    BY <2>2 DEF Within, InSend
  <2> QED
    BY <1>0, <2>1, <2>2, <2>3, <2>4, <2>5, <2>6, <2>7, <2>8, QuietUplink
<1> QED
  BY <1>3, <1>4, <1>5, <1>6, <1>7, <1>8, <1>9, <1>10

(* send_copy stays where it is, and nothing is sent.                       *)
LEMMA CalmUplink ==
  ASSUME SafeInv, SafeInv', UplinkInv, BuffersKept,
         UNCHANGED <<posted, sent, shipped, sendText>>,
         handler # "none" => handler' # "none",
         pc'["send_copy"] = pc["send_copy"]
  PROVE  UplinkInv' /\ Handled
<1>1. TypeInv /\ Waiting
  BY DEF SafeInv, UplinkInv
<1>2. pc["send_copy"] = "send" => sendText # 0
  BY <1>1 DEF Waiting
<1>3. Stays
  BY DEF Stays, Inside
<1> QED
  BY <1>1, <1>2, <1>3, QuietUplink

LEMMA TookSockets ==
  ASSUME conn \in [Conn -> Socket], NEW c \in Conn
  PROVE  /\ Took(c) \in [Conn -> Socket]
         /\ \A d \in Conn : /\ Took(c)[d].first = conn[d].first
                            /\ Took(c)[d].buf = conn[d].buf
         /\ conn' = Took(c) => BuffersKept
BY TookType, TookBuffer DEF BuffersKept

LEMMA ReadUplink ==
  ASSUME SafeInv, SafeInv', UplinkInv, NEW t \in Thread,
         ReadNothing(t) \/ Drained(t)
  PROVE  UplinkInv' /\ Handled
<1>0. TypeInv /\ Unsent /\ Waiting
  BY DEF SafeInv, UplinkInv
<1>1. /\ pc \in [Thread -> Label] /\ conn \in [Conn -> Socket]
      /\ "send_copy" \in Thread
  BY <1>0, Numbers
<1>2. sock \in Conn /\ Client(t) \in Conn
  BY <1>0, SocketInUse DEF ReadNothing, Drained, Reading, Client, TypeInv, TypeOK
<1>3. pc["send_copy"] = "send" => sendText # 0
  BY <1>0 DEF Waiting
<1>4. CASE ReadNothing(t)
  <2>1. /\ UNCHANGED <<posted, sent, shipped, sendText, handler, conn, state>>
        /\ pc' = [pc EXCEPT ![t] = IF pc[t] = "closingOk" THEN "drain" ELSE pc[t]]
    BY <1>4 DEF ReadNothing, Yield, appVars, history
  <2>2. \/ pc'["send_copy"] = pc["send_copy"]
        \/ pc["send_copy"] = "closingOk" /\ pc'["send_copy"] = "drain"
    BY <1>1, <2>1
  <2>3. BuffersKept
    BY <2>1, SameSockets
  <2>4. {"closingOk", "drain"} \subseteq InSend
    BY DEF InSend
  <2>5. /\ Stays
        /\ pc'["send_copy"] \in Within <=> pc["send_copy"] \in Within
    BY <2>1, <2>2 DEF Stays, Inside, Within, InSend
  <2> QED
    BY <1>0, <1>3, <2>1, <2>2, <2>3, <2>4, <2>5, QuietUplink
<1>5. CASE Drained(t)
  <2>1. /\ UNCHANGED <<posted, sent, shipped, sendText, handler>>
        /\ state' = "CLOSED"
        /\ pc' = [pc EXCEPT ![t] = "sentOk"] /\ pc[t] \in {"drain", "closingOk"}
        /\ conn' = [Took(Client(t)) EXCEPT ![sock] =
                      Closed(Took(Client(t))[sock])]
    BY <1>5 DEF Drained, Goto, appVars, history
  <2>2. pc'["send_copy"] = IF t = "send_copy" THEN "sentOk" ELSE pc["send_copy"]
    BY <1>1, <2>1
  <2>3. BuffersKept
    BY <1>1, <1>2, <2>1, TookSockets, ShutSockets
  <2>4. /\ Stays
        /\ pc'["send_copy"] \in Within <=> pc["send_copy"] \in Within
    BY <2>1, <2>2 DEF Stays, Inside, Within, InSend
  <2> QED
    BY <1>0, <1>3, <2>1, <2>2, <2>3, <2>4, QuietUplink
<1> QED
  BY <1>4, <1>5

LEMMA ConnectUplink ==
  ASSUME SafeInv, SafeInv', UplinkInv, Connect
  PROVE  UplinkInv' /\ Handled
<1>0. TypeInv
  BY DEF SafeInv
<1>1. /\ pc \in [Thread -> Label] /\ conn \in [Conn -> Socket]
      /\ "send_copy" \in Thread /\ "connect" \in Thread
  BY <1>0, Numbers
<1>2. UNCHANGED <<posted, sent, shipped, sendText, handler>>
  BY DEF Connect, Dial, Secured, SetupFailed, UpgradeFailed, Opened,
         BackoffOver, appVars, history
<1>3. pc'["send_copy"] = pc["send_copy"]
  <2>1. \E l : pc' = [pc EXCEPT !["connect"] = l]
    BY DEF Connect, Dial, Secured, SetupFailed, UpgradeFailed, Opened,
           BackoffOver, DialFailed, Yield, Goto, Resume
  <2> QED
    BY <1>1, <2>1
<1>4. BuffersKept
  <2>0. pc["connect"] # "loop" => sock \in Conn
    BY <1>0, <1>1, SocketInUse
  <2>1. CASE Dial
    <3>1. \A b \in Socket :
            [b EXCEPT !.life = "connecting", !.net = "up"].buf = b.buf
      BY DEF Socket
    <3>2. /\ Blank.buf = <<>>
          /\ [Blank EXCEPT !.life = "connecting", !.net = "up"].buf = <<>>
      BY <3>1, BlankType DEF Blank
    <3>3. \A d \in Conn : conn'[d] = conn[d] \/ conn'[d].buf = <<>>
      BY <2>1, <3>2 DEF Dial
    <3> QED
      BY <3>3 DEF BuffersKept
  <2>2. CASE Secured
    <3>1. \A b \in Socket : /\ [b EXCEPT !.life = "live"].buf = b.buf
                            /\ [b EXCEPT !.life = "live"].first = b.first
      BY DEF Socket
    <3>2. conn' = [conn EXCEPT ![sock] = [conn[sock] EXCEPT !.life = "live"]]
      BY <2>2 DEF Secured
    <3> QED
      BY <1>1, <3>1, <3>2 DEF BuffersKept
  <2>3. CASE SetupFailed
    <3>1. /\ sock \in Conn
          /\ conn' = [conn EXCEPT ![sock] = Closed(conn[sock])]
      BY <2>0, <2>3 DEF SetupFailed
    <3> QED
      BY <1>1, <3>1, ShutSockets
  <2>4. CASE UpgradeFailed \/ Opened
    <3>1. Client("connect") \in Conn
      BY <1>1, <2>0, <2>4, <1>0 DEF UpgradeFailed, Opened, UpgradeAnswered,
         Reading, Client, TypeInv, TypeOK
    <3>2. UNCHANGED conn \/ conn' = Took(Client("connect"))
      BY <2>4 DEF UpgradeFailed, Opened, UpgradeAnswered
    <3> QED
      BY <1>1, <3>1, <3>2, TookSockets, SameSockets
  <2>5. CASE BackoffOver
    BY <2>5, SameSockets DEF BackoffOver
  <2> QED
    BY <2>1, <2>2, <2>3, <2>4, <2>5 DEF Connect
<1> QED
  BY <1>2, <1>3, <1>4, CalmUplink

LEMMA ReceiveUplink ==
  ASSUME SafeInv, SafeInv', UplinkInv, Receiving
  PROVE  UplinkInv' /\ Handled
<1>0. TypeInv
  BY DEF SafeInv
<1>1. /\ pc \in [Thread -> Label] /\ conn \in [Conn -> Socket]
      /\ "send_copy" \in Thread /\ "handler_receive" \in Thread
      /\ running = "handler_receive" => sock \in Conn
  BY <1>0, Numbers, SocketInUse DEF Thread
<1>2. ASSUME NEW l, pc' = [pc EXCEPT !["handler_receive"] = l]
      PROVE  pc'["send_copy"] = pc["send_copy"]
  BY <1>1, <1>2
<1>3. CASE Receive
  <2>1. /\ UNCHANGED <<posted, sent, shipped, sendText, handler, conn>>
        /\ pc' = [pc EXCEPT !["handler_receive"] = "read"]
    BY <1>3 DEF Receive, Resume, appVars, history
  <2> QED
    BY <1>2, <2>1, SameSockets, CalmUplink
<1>4. CASE running = "handler_receive" /\ Clean
  <2>1. /\ UNCHANGED <<posted, sent, shipped, sendText, handler>>
        /\ pc' = [pc EXCEPT !["handler_receive"] = "loop"]
        /\ conn' = [conn EXCEPT ![sock] = Closed(conn[sock])]
    BY <1>4 DEF Clean, Yield, appVars, history
  <2>2. BuffersKept
    BY <1>1, <1>4, <2>1, ShutSockets
  <2> QED
    BY <1>2, <2>1, <2>2, CalmUplink
<1>5. ASSUME NEW c \in Conn, Process(c) PROVE UplinkInv' /\ Handled
  <2>1. /\ UNCHANGED <<posted, sent, shipped, sendText>>
        /\ handler # "none" => handler' # "none"
        /\ pc' = [pc EXCEPT !["handler_receive"] = "loop"]
        /\ conn' = Took(c)
    BY <1>5 DEF Process, Yield, history
  <2>2. BuffersKept
    BY <1>1, <2>1, TookSockets
  <2> QED
    BY <1>2, <2>1, <2>2, CalmUplink
<1>6. ASSUME NEW c \in Conn, ProcessDies(c) PROVE UplinkInv' /\ Handled
  <2>1. /\ UNCHANGED <<posted, sent, shipped, sendText, handler>>
        /\ pc' = [pc EXCEPT !["handler_receive"] = "dead"]
        /\ \/ conn' = Took(c)
           \/ conn' = [Took(c) EXCEPT ![c] = Closed(Took(c)[c])]
    BY <1>6 DEF ProcessDies, Yield, appVars, history
  <2>2. BuffersKept
    BY <1>1, <2>1, TookSockets, ShutSockets
  <2> QED
    BY <1>2, <2>1, <2>2, CalmUplink
<1>7. ASSUME NEW c \in Conn, ReceiveClose(c) PROVE UplinkInv' /\ Handled
  <2>1. UNCHANGED <<posted, sent, sendText, handler>> /\ sock \in Conn
    BY <1>1, <1>7 DEF ReceiveClose, ReceiveFrom, Reading, appVars
  <2>2. /\ Took(c) \in [Conn -> Socket]
        /\ \A d \in Conn : /\ Took(c)[d].first = conn[d].first
                           /\ Took(c)[d].buf = conn[d].buf
    BY <1>1, TookSockets
  <2>3. CASE conn' = Took(c) /\ Yield("handler_receive", "loop")
             /\ UNCHANGED shipped
    <3>1. BuffersKept
      BY <1>1, <2>3, TookSockets
    <3>2. pc'["send_copy"] = pc["send_copy"]
      BY <1>2, <2>3 DEF Yield
    <3> QED
      BY <2>1, <2>3, <3>1, <3>2, CalmUplink
  <2>4. CASE Transmit(Took(c), "handler_receive", "none", <<>>, "echo", "echo")
    <3>1. "handler_receive" # "send_copy" /\ "none" \in {"none", "auth"}
      OBVIOUS
    <3> QED
      BY <1>1, <2>1, <2>2, <2>4, <3>1, FlushUplink
  <2> QED
    BY <1>7, <2>3, <2>4 DEF ReceiveClose
<1>8. (EchoDone \/ \E c \in Conn : ReceiveEnd(c)) =>
        running = "handler_receive" /\ Clean
  BY DEF EchoDone, ReceiveEnd, ReceiveFrom, Reading
<1> QED
  BY <1>3, <1>4, <1>5, <1>6, <1>7, <1>8 DEF Receiving

LEMMA CopyChosenUplink ==
  ASSUME SafeInv, SafeInv', UplinkInv, Ping \/ Copy \/ CopyDies
  PROVE  UplinkInv' /\ Handled
<1>0. TypeInv /\ Waiting
  BY DEF SafeInv, UplinkInv
<1>1. pc \in [Thread -> Label] /\ "send_copy" \in Thread
  BY <1>0, Numbers
<1>2. /\ UNCHANGED <<posted, sent, shipped, sendText, handler, conn>>
  BY DEF Ping, Copy, CopyDies, appVars, history
<1>3. BuffersKept
  BY <1>2, SameSockets
<1>4. CASE Ping
  <2>1. pc' = [pc EXCEPT !["send_ping"] = "send"]
    BY <1>4 DEF Ping, Resume
  <2>2. pc'["send_copy"] = pc["send_copy"]
    BY <1>1, <2>1
  <2> QED
    BY <1>2, <1>3, <2>2, CalmUplink
<1>5. CASE Copy \/ CopyDies
  <2>1. /\ pc["send_copy"] = "loop" /\ sendText # 0
        /\ \E l \in {"send", "dead"} : pc' = [pc EXCEPT !["send_copy"] = l]
    BY <1>5 DEF Copy, CopyDies, Resume, Yield
  <2>2. pc["send_copy"] \notin InSend
    BY <2>1 DEF InSend
  <2>3. /\ Stays
        /\ pc'["send_copy"] \notin Within
    BY <1>1, <1>2, <2>1 DEF Stays, Inside, Within, InSend
  <2> QED
    BY <1>0, <1>2, <1>3, <2>1, <2>2, <2>3, QuietUplink
<1> QED
  BY <1>4, <1>5

LEMMA NotifyUplink ==
  ASSUME SafeInv, UplinkInv, Notify
  PROVE  UplinkInv' /\ Handled
<1>0. TypeInv /\ Unsent /\ Waiting
  BY DEF SafeInv, UplinkInv
<1>1. posted \in Nat /\ sent \in Nat /\ sendText \in Nat
  BY <1>0, Numbers
<1>2. /\ posted' = posted + 1
      /\ sendText' = IF handler # "none" THEN posted + 1 ELSE sendText
      /\ UNCHANGED <<handler, conn, pc, sent, shipped>>
  BY DEF Notify
<1>3. Newest' = Newest
  BY <1>2 DEF Newest
<1>4. Unsent'
  BY <1>0, <1>2, <1>3 DEF Unsent
<1>5. Waiting'
  BY <1>0, <1>1, <1>2, <1>3 DEF Waiting
<1>6. Posts
  BY <1>2 DEF Posts, Inside
<1> QED
  BY <1>4, <1>5, <1>6 DEF UplinkInv, Handled

LEMMA OtherUplink ==
  ASSUME SafeInv, SafeInv', UplinkInv,
         \/ Environment \/ UNCHANGED vars
         \/ \E c \in Conn : ReadEvent(c) \/ WriteEvent(c)
  PROVE  UplinkInv' /\ Handled
<1>1. conn \in [Conn -> Socket]
  BY Numbers DEF SafeInv
<1>2. UNCHANGED <<posted, sent, shipped, sendText, handler, pc>>
  BY DEF Environment, Fail, GiveUp, ServerSend, ReadEvent, WriteEvent, vars,
         appVars, history
<1>3. CASE UNCHANGED vars \/ \E c \in Conn : ReadEvent(c) \/ WriteEvent(c)
  BY <1>2, <1>3, SameSockets, CalmUplink DEF vars, ReadEvent, WriteEvent
<1>4. CASE Environment
  <2>1. ASSUME NEW c \in Conn, conn' = [conn EXCEPT ![c] = Broken(conn[c])]
        PROVE  BuffersKept
    <3>1. Broken(conn[c]).buf = <<>>
      BY <1>1, ShutBuffer
    <3> QED
      BY <1>1, <2>1, <3>1 DEF BuffersKept
  <2>2. ASSUME NEW c \in Conn, NEW n,
               conn' = [conn EXCEPT ![c] = [conn[c] EXCEPT !.net = n]]
        PROVE  BuffersKept
    <3>1. /\ [conn[c] EXCEPT !.net = n].buf = conn[c].buf
          /\ [conn[c] EXCEPT !.net = n].first = conn[c].first
      BY <1>1 DEF Socket
    <3> QED
      BY <1>1, <2>2, <3>1 DEF BuffersKept
  <2>3. ASSUME NEW c \in Conn, NEW i,
               conn' = [conn EXCEPT ![c] = [conn[c] EXCEPT !.inbox = i]]
        PROVE  BuffersKept
    <3>1. /\ [conn[c] EXCEPT !.inbox = i].buf = conn[c].buf
          /\ [conn[c] EXCEPT !.inbox = i].first = conn[c].first
      BY <1>1 DEF Socket
    <3> QED
      BY <1>1, <2>3, <3>1 DEF BuffersKept
  <2>4. BuffersKept
    BY <1>4, <2>1, <2>2, <2>3 DEF Environment, Fail, GiveUp, ServerSend
  <2> QED
    BY <1>2, <2>4, CalmUplink
<1> QED
  BY <1>3, <1>4

LEMMA UplinkStep ==
  ASSUME SafeInv, UplinkInv, [Next]_vars
  PROVE  UplinkInv' /\ Handled
<1>1. SafeInv'
  BY SafeStep
<1> QED
  BY <1>1, SendUplink, ReadUplink, ConnectUplink, ReceiveUplink,
     CopyChosenUplink, NotifyUplink, OtherUplink DEF Next, Program, Step

----------------------------------------------------------------------------
(* What becomes of a text depends on nothing that the session does but     *)
(* what Copier has: it is kept if there is a handler (main.lua:19), handed *)
(* over once (main.lua:97), received then or while the send is under way,  *)
(* and forgotten when it is over, with any that has come since.            *)
LEMMA Copied == Spec => [](SafeInv /\ UplinkInv) /\ [][Handled]_vars
<1>1. Init => UplinkInv
  BY DEF Init, UplinkInv, Unsent, Waiting, Newest, Blank, Thread, Within, InSend
<1>2. SafeInv /\ UplinkInv /\ [Next]_vars => UplinkInv' /\ Handled
  BY UplinkStep
<1> QED
  BY <1>1, <1>2, Safe, PTL DEF Spec

LEMMA InitCopies == Init => Cop!Init
BY DEF Init, Inside, Thread, Cop!Init

LEMMA HandledIs == [Handled]_vars => [Cop!Next]_(Cop!vars)
<1>1. Handled => [Cop!Next]_(Cop!vars)
  BY HandledCopies
<1>2. UNCHANGED vars => UNCHANGED Cop!vars
  BY DEF vars, appVars, history, Cop!vars, Inside
<1> QED
  BY <1>1, <1>2

(* The session handles its texts as Copier has it.                         *)
THEOREM CopyingAlways == Spec => Copying
<1>1. [][Handled]_vars => [][Cop!Next]_(Cop!vars)
  BY HandledIs, PTL
<1> QED
  BY <1>1, Copied, InitCopies, PTL DEF Spec, Copying, Cop!CopierSpec

(* And so what holds of whatever does holds of the session.                *)
CP == INSTANCE CopierProofs WITH offered <- posted, greeted <- handler # "none",
                                 kept <- sendText, inside <- Inside,
                                 received <- shipped

LEMMA SameCopier == (Cop!Init <=> CP!Init) /\ (Cop!Next <=> CP!Next)
                      /\ Cop!vars = CP!vars
BY DEF Cop!Init, CP!Init, Cop!Next, CP!Next, Cop!vars, CP!vars, Cop!Newest,
       CP!Newest, Cop!Post, CP!Post, Cop!Greet, CP!Greet, Cop!Hand, CP!Hand,
       Cop!Arrive, CP!Arrive, Cop!Return, CP!Return, Cop!Restart, CP!Restart

LEMMA SameUplink == (Up!Init <=> CP!Up!Init) /\ (Up!Next <=> CP!Up!Next)
BY DEF Up!Init, CP!Up!Init, Up!Next, CP!Up!Next, Up!Post, CP!Up!Post,
       Up!Ship, CP!Up!Ship, Up!Newest, CP!Up!Newest

LEMMA IsCopier == Spec => CP!CopierSpec
<1>1. [Cop!Next]_(Cop!vars) => [CP!Next]_(CP!vars)
  BY SameCopier DEF Cop!vars, CP!vars
<1> QED
  BY <1>1, SameCopier, CopyingAlways, PTL
     DEF Copying, Cop!CopierSpec, CP!CopierSpec

(* The server receives a growing choice of the texts notified, whatever    *)
(* sends yield, fail or are flushed late.                                  *)
THEOREM UplinkedAlways == Spec => Uplinked
<1>1. CP!Up!UplinkSpec => Up!UplinkSpec
  BY SameUplink, PTL DEF Up!UplinkSpec, CP!Up!UplinkSpec
<1>2. CP!CopierSpec => CP!Up!UplinkSpec
  BY CP!CopierUplinks
<1> QED
  BY <1>1, <1>2, IsCopier, PTL DEF Uplinked

(* No copy reaches the server twice, none after a newer one, and none that *)
(* the clipboard was not notified of.                                      *)
InOrder == /\ \A i \in DOMAIN shipped : shipped[i] \in 1..posted
           /\ \A i, j \in DOMAIN shipped : i < j => shipped[i] < shipped[j]

(* The same, of each state: the order of posted and shipped.               *)
THEOREM InOrderAlways == Spec => []InOrder
<1>1. CP!InOrder => InOrder
  BY DEF CP!InOrder, InOrder
<1>2. CP!CopierSpec => []CP!InOrder
  BY CP!InOrderAlways
<1> QED
  BY <1>1, <1>2, IsCopier, PTL
=============================================================================
