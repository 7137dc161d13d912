--------------------------- MODULE SessionProofs ---------------------------
(***************************************************************************)
(* Theorems about Session, for every set of connections, every bound and   *)
(* every choice of Transient, Yielders and Passwd.                         *)
(***************************************************************************)
EXTENDS Session, TLAPS

USE SessionAssumption

----------------------------------------------------------------------------
(* What the operators on sockets and on copas' sets return.                *)

LEMMA BlankType == Blank \in Socket
<1>1. \A e \in Seq(Nat), i \in Seq(Message) :
        [life |-> "closed", net |-> "broken", first |-> "none",
         buf |-> e, inbox |-> i] \in Socket
  BY DEF Socket, Life, Net
<1>2. <<>> \in Seq(Nat) /\ <<>> \in Seq(Message)
  OBVIOUS
<1> QED
  BY <1>1, <1>2 DEF Blank

LEMMA SocketType ==
  ASSUME NEW k \in Socket
  PROVE  /\ Closed(k) \in Socket
         /\ Broken(k) \in Socket
<1>1. k.inbox \in Seq(Message) /\ k.life \in Life
  BY DEF Socket
<1>2. <<>> \in Seq(Nat) /\ <<>> \in Seq(Message)
  OBVIOUS
<1>4. Closed(k) = [life |-> "closed", net |-> "broken", first |-> "none",
                   buf |-> <<>>, inbox |-> k.inbox]
  BY DEF Closed, Blank
<1>5. Closed(k) \in Socket
  BY <1>1, <1>2, <1>4 DEF Socket, Life, Net
<1>6. \A b \in Socket : [b EXCEPT !.life = k.life, !.inbox = k.inbox] \in Socket
  BY <1>1 DEF Socket
<1>7. Broken(k) \in Socket
  BY <1>6, BlankType DEF Broken
<1> QED
  BY <1>5, <1>7

LEMMA AfterSendType ==
  ASSUME NEW k \in Socket, NEW what \in {"none", "auth", "copy"},
         NEW copies \in Seq(Nat), NEW ok \in BOOLEAN
  PROVE  /\ AfterSend(k, what, copies, ok) \in Socket
         /\ Delivered(k, copies, ok) \in Seq(Nat)
<1>1. k.buf \in Seq(Nat) /\ k.buf \o copies \in Seq(Nat) /\ <<>> \in Seq(Nat)
  BY DEF Socket
<1>2. Delivered(k, copies, ok) \in Seq(Nat)
  BY <1>1 DEF Delivered
<1>3. CASE ~Usable(k)
  BY <1>2, <1>3 DEF AfterSend
<1>4. CASE Usable(k)
  <2> DEFINE first == IF k.first = "none" THEN what ELSE k.first
             buf == IF ok THEN <<>> ELSE k.buf \o copies
             net == IF ok /\ k.net = "lost" THEN "unacked" ELSE k.net
  <2>1. AfterSend(k, what, copies, ok)
          = [k EXCEPT !.first = first, !.buf = buf, !.net = net]
    BY <1>4 DEF AfterSend
  <2>2. first \in {"none", "auth", "copy"} /\ net \in Net /\ buf \in Seq(Nat)
    BY <1>1 DEF Socket, Net
  <2> HIDE DEF first, buf, net
  <2>3. [k EXCEPT !.first = first, !.buf = buf, !.net = net] \in Socket
    BY <2>2 DEF Socket
  <2> QED
    BY <1>2, <2>1, <2>3
<1> QED
  BY <1>3, <1>4

LEMMA TookType ==
  ASSUME conn \in [Conn -> Socket], NEW c \in Conn
  PROVE  /\ Took(c) \in [Conn -> Socket]
         /\ HasData(c) => Head(conn[c].inbox) \in Message
<1>1. conn[c] \in Socket /\ conn[c].inbox \in Seq(Message)
  BY DEF Socket
<1>2. /\ Rest(conn[c].inbox) \in Seq(Message)
      /\ HasData(c) => Head(conn[c].inbox) \in Message
  BY <1>1 DEF HasData, Rest
<1>3. [conn[c] EXCEPT !.inbox = Rest(conn[c].inbox)] \in Socket
  BY <1>1, <1>2 DEF Socket
<1> QED
  BY <1>2, <1>3 DEF Took

LEMMA SocketSetType ==
  ASSUME NEW s \in SocketSet, NEW t \in Thread, NEW c \in Conn
  PROVE  /\ Wait(s, t, c) \in SocketSet
         /\ Unlog(s, c) \in SocketSet
         /\ s.q[c] # <<>> => Wake(s, c) \in SocketSet /\ Head(s.q[c]) \in Thread
  BY DEF Wait, Unlog, Wake, SocketSet

----------------------------------------------------------------------------
(* Type correctness.  It needs to know that ws_client has a socket whenever*)
(* something is done with it.                                              *)

NoSocketYet == sock = NoConn =>
  /\ state = "CLOSED" /\ running = Idle /\ \A t \in Thread : pc[t] = "loop"
  /\ \A c \in Conn : rd.q[c] = <<>> /\ wr.q[c] = <<>>

TypeInv == TypeOK /\ NoSocketYet

LEMMA InitTypeInv == Init => TypeInv
<1> SUFFICES ASSUME Init PROVE TypeInv
  OBVIOUS
<1>2. conn \in [Conn -> Socket]
  BY BlankType DEF Init
<1>3. rd \in SocketSet /\ wr \in SocketSet
  BY DEF Init, SocketSet
<1>4. pc \in [Thread -> Label] /\ shipped \in Seq(Nat)
  BY DEF Init, Label
<1>5. /\ state \in {"CLOSED", "OPEN"} /\ isClosing \in BOOLEAN
      /\ sock \in Conn \union {NoConn} /\ via \in Conn \union {NoConn}
      /\ handler \in {"none", "fresh", "authed"}
      /\ status \in {"Disconnect", "Connected"}
      /\ running \in Thread \union {Idle}
  BY DEF Init
<1>6. sendText \in 0..MaxPost /\ posted \in 0..MaxPost /\ sent \in 0..MaxPost
  BY DEF Init
<1>7. NoSocketYet
  BY DEF Init, NoSocketYet
<1> QED
  BY <1>2, <1>3, <1>4, <1>5, <1>6, <1>7 DEF TypeInv, TypeOK

(* The control part of a step, and what it keeps.                          *)
Control == /\ pc \in [Thread -> Label] /\ running \in Thread \union {Idle}
           /\ via \in Conn \union {NoConn}

LEMMA ControlType ==
  ASSUME Control, NEW t \in Thread, NEW l \in Label,
         Yield(t, l) \/ Goto(t, l) \/ Resume(t, l)
  PROVE  Control'
  BY DEF Control, Yield, Goto, Resume

(* One send on the current socket.                                         *)
LEMMA TransmitType ==
  ASSUME TypeOK, sock \in Conn, NEW cs \in [Conn -> Socket], NEW t \in Thread,
         NEW what \in {"none", "auth", "copy"}, NEW copies \in Seq(Nat),
         NEW ok \in Label, NEW err \in Label,
         Transmit(cs, t, what, copies, ok, err)
  PROVE  /\ conn' \in [Conn -> Socket] /\ shipped' \in Seq(Nat)
         /\ wr' \in SocketSet /\ Control'
<1>1. PICK good \in SendOutcome(cs[sock]) :
        /\ conn' = [cs EXCEPT ![sock] = AfterSend(@, what, copies, good)]
        /\ shipped' = shipped \o Delivered(cs[sock], copies, good)
        /\ LET next == IF good THEN ok ELSE err
           IN  \/ t \in Yielders /\ Yield(t, next) /\ wr' = Wait(wr, t, sock)
               \/ Goto(t, next) /\ wr' = Unlog(wr, sock)
  BY DEF Transmit
<1>2. good \in BOOLEAN
  BY DEF SendOutcome
<1>3. /\ AfterSend(cs[sock], what, copies, good) \in Socket
      /\ Delivered(cs[sock], copies, good) \in Seq(Nat)
  BY <1>2, AfterSendType
<1>4. conn' \in [Conn -> Socket]
  BY <1>1, <1>3
<1>5. shipped' \in Seq(Nat)
  BY <1>1, <1>3 DEF TypeOK
<1>6. Wait(wr, t, sock) \in SocketSet /\ Unlog(wr, sock) \in SocketSet
  BY SocketSetType DEF TypeOK
<1>7. wr' \in SocketSet
  BY <1>1, <1>6
<1>8. \E l \in Label : Yield(t, l) \/ Goto(t, l)
  BY <1>1, <1>2
<1>9. Control
  BY DEF Control, TypeOK
<1>10. Control'
  BY <1>8, <1>9, ControlType
<1> QED
  BY <1>4, <1>5, <1>7, <1>10

LEMMA SocketInUse ==
  ASSUME TypeInv, NEW t \in Thread,
         running = t \/ state = "OPEN" \/ pc[t] # "loop"
  PROVE  sock \in Conn
  BY DEF TypeInv, TypeOK, NoSocketYet, Thread, Idle

(* The coroutine steps: sending and closing.                               *)
LEMMA SendTypeStep ==
  ASSUME TypeInv, NEW t \in Thread,
         SendFrame(t) \/ SendFailed(t) \/ CloseFailed(t) \/ SendReturned(t)
  PROVE  TypeInv'
<1>0. sock \in Conn
  BY SocketInUse DEF SendFrame, SendFailed, CloseFailed, SendReturned
<1>1. Control /\ conn[sock] \in Socket /\ Closed(conn[sock]) \in Socket
  BY <1>0, SocketType DEF Control, TypeInv, TypeOK
<1>2. {"sentOk", "sentErr", "closingOk", "closingErr", "loop"} \subseteq Label
  BY DEF Label
<1>3. CASE SendFrame(t)
  <2>1. Request(t) \in {"none", "auth", "copy"} /\ Copies(t) \in Seq(Nat)
    BY DEF Request, Copies, TypeInv, TypeOK
  <2>2. /\ conn' \in [Conn -> Socket] /\ shipped' \in Seq(Nat)
        /\ wr' \in SocketSet /\ Control'
    <3>1. CASE state # "OPEN"
      BY <1>1, <1>2, <1>3, <3>1, ControlType DEF SendFrame, TypeInv, TypeOK
    <3>2. CASE state = "OPEN"
      <4>1. Transmit(conn, t, Request(t), Copies(t), "sentOk", "sentErr")
        BY <1>3, <3>2 DEF SendFrame
      <4> QED
        BY <1>0, <1>2, <2>1, <4>1, TransmitType DEF TypeInv, TypeOK
    <3> QED
      BY <3>1, <3>2
  <2>3. sent' \in 0..MaxPost
    BY <1>3 DEF SendFrame, TypeInv, TypeOK
  <2>4. UNCHANGED <<wsVars, appVars, rd, posted>>
    BY <1>3 DEF SendFrame
  <2> QED
    BY <1>0, <2>2, <2>3, <2>4
    DEF TypeInv, TypeOK, NoSocketYet, Control, wsVars, appVars
<1>4. CASE SendFailed(t)
  <2>1. /\ conn' \in [Conn -> Socket] /\ shipped' \in Seq(Nat)
        /\ wr' \in SocketSet /\ Control'
    <3>1. CASE state # "OPEN"
      BY <1>1, <1>2, <1>4, <3>1, ControlType DEF SendFailed, TypeInv, TypeOK
    <3>2. CASE state = "OPEN"
      <4>1. Transmit(conn, t, "none", <<>>, "closingOk", "closingErr")
        BY <1>4, <3>2 DEF SendFailed
      <4>2. <<>> \in Seq(Nat)
        OBVIOUS
      <4> QED
        BY <1>0, <1>2, <4>1, <4>2, TransmitType DEF TypeInv, TypeOK
    <3> QED
      BY <3>1, <3>2
  <2>2. UNCHANGED <<wsVars, appVars, rd, posted, sent>>
    BY <1>4 DEF SendFailed
  <2> QED
    BY <1>0, <2>1, <2>2
    DEF TypeInv, TypeOK, NoSocketYet, Control, wsVars, appVars
<1>5. CASE CloseFailed(t)
  <2>1. conn' \in [Conn -> Socket] /\ state' = "CLOSED" /\ Goto(t, "sentOk")
    BY <1>1, <1>5 DEF CloseFailed, Shut, TypeInv, TypeOK
  <2>2. Control'
    BY <1>1, <1>2, <2>1, ControlType
  <2>3. UNCHANGED <<isClosing, sock, appVars, rd, wr, history>>
    BY <1>5 DEF CloseFailed
  <2> QED
    BY <1>0, <2>1, <2>2, <2>3
    DEF TypeInv, TypeOK, NoSocketYet, Control, appVars, history
<1>6. CASE SendReturned(t)
  <2>1. Control'
    BY <1>1, <1>2, <1>6, ControlType DEF SendReturned
  <2>2. /\ handler' \in {"none", "fresh", "authed"}
        /\ sendText' \in 0..MaxPost
        /\ UNCHANGED <<wsVars, conn, status, rd, wr, history>>
    BY <1>6 DEF SendReturned, TypeInv, TypeOK
  <2> QED
    BY <1>0, <2>1, <2>2
    DEF TypeInv, TypeOK, NoSocketYet, Control, wsVars, history
<1> QED
  BY <1>3, <1>4, <1>5, <1>6

(* Reading.                                                                *)
LEMMA ReadTypeStep ==
  ASSUME TypeInv, NEW t \in Thread, ReadNothing(t) \/ Drained(t)
  PROVE  TypeInv'
<1>1. sock \in Conn
  BY SocketInUse DEF ReadNothing, Drained, Reading
<1>2. Client(t) \in Conn
  BY <1>1 DEF Client, TypeInv, TypeOK
<1>3. Control /\ \A c \in Conn : conn[c] \in Socket
  BY DEF Control, TypeInv, TypeOK
<1>4. /\ Wait(rd, t, Client(t)) \in SocketSet
      /\ Unlog(rd, Client(t)) \in SocketSet
  BY <1>2, SocketSetType DEF TypeInv, TypeOK
<1>5. isClosing' \in BOOLEAN
  BY DEF ReadNothing, Drained, MarkClosing, TypeInv, TypeOK
<1>6. CASE ReadNothing(t)
  <2>1. (IF pc[t] = "closingOk" THEN "drain" ELSE pc[t]) \in Label
    BY <1>6 DEF ReadNothing, Reading, Label
  <2>2. Control'
    BY <1>3, <1>6, <2>1, ControlType DEF ReadNothing
  <2>3. rd' \in SocketSet /\ UNCHANGED <<state, sock, conn, appVars, wr, history>>
    BY <1>4, <1>6 DEF ReadNothing
  <2> QED
    BY <1>1, <1>5, <2>2, <2>3
    DEF TypeInv, TypeOK, NoSocketYet, Control, appVars, history
<1>7. CASE Drained(t)
  <2>1. Took(Client(t)) \in [Conn -> Socket]
    BY <1>2, TookType DEF TypeInv, TypeOK
  <2>2. conn' = [Took(Client(t)) EXCEPT ![sock] = Closed(@)]
    BY <1>7 DEF Drained
  <2>3. Closed(Took(Client(t))[sock]) \in Socket
    BY <1>1, <2>1, SocketType
  <2>7. conn' \in [Conn -> Socket]
    BY <1>1, <2>1, <2>2, <2>3
  <2>8. Control'
    BY <1>3, <1>7, ControlType DEF Drained, Label
  <2>9. /\ rd' \in SocketSet /\ state' = "CLOSED"
        /\ UNCHANGED <<sock, appVars, wr, history>>
    BY <1>4, <1>7 DEF Drained
  <2> QED
    BY <1>1, <1>5, <2>7, <2>8, <2>9
    DEF TypeInv, TypeOK, NoSocketYet, Control, appVars, history
<1> QED
  BY <1>6, <1>7

(* Dialling.                                                               *)
LEMMA ConnectTypeStep ==
  ASSUME TypeInv, Connect
  PROVE  TypeInv'
<1>1. Control /\ "connect" \in Thread /\ \A c \in Conn : conn[c] \in Socket
  BY DEF Control, Thread, TypeInv, TypeOK
<1>2. {"tcp", "await", "backoff", "send"} \subseteq Label
  BY DEF Label
<1>3. ASSUME pc["connect"] # "loop" \/ running = "connect"
      PROVE  sock \in Conn
  BY <1>1, <1>3, SocketInUse
<1>4. CASE Dial
  <2>1. PICK c \in Conn :
          /\ sock' = c
          /\ conn' = [d \in Conn |->
                        IF d = c
                        THEN [Blank EXCEPT !.life = "connecting", !.net = "up"]
                        ELSE IF Waited(d) THEN conn[d] ELSE Blank]
    BY <1>4 DEF Dial
  <2>2. \A b \in Socket :
          [b EXCEPT !.life = "connecting", !.net = "up"] \in Socket
    BY DEF Socket, Life, Net
  <2>3. conn' \in [Conn -> Socket]
    BY <1>1, <2>1, <2>2, BlankType
  <2>4. Control'
    BY <1>1, <1>2, <1>4, ControlType DEF Dial
  <2>5. UNCHANGED <<state, isClosing, appVars, rd, wr, history>>
    BY <1>4 DEF Dial
  <2> QED
    BY <2>1, <2>3, <2>4, <2>5
    DEF TypeInv, TypeOK, NoSocketYet, Control, appVars, history
<1>5. CASE Secured
  <2>1. sock \in Conn
    BY <1>3, <1>5 DEF Secured
  <2>2. \A k \in Socket : [k EXCEPT !.life = "live"] \in Socket
    BY DEF Socket, Life
  <2>3. conn' \in [Conn -> Socket]
    BY <1>5, <2>1, <2>2 DEF Secured, TypeInv, TypeOK
  <2>4. rd' \in SocketSet
    BY <1>1, <1>5, <2>1, SocketSetType DEF Secured, TypeInv, TypeOK
  <2>5. Control'
    BY <1>1, <1>2, <1>5, ControlType DEF Secured
  <2>6. UNCHANGED <<wsVars, appVars, wr, history>>
    BY <1>5 DEF Secured
  <2> QED
    BY <2>1, <2>3, <2>4, <2>5, <2>6
    DEF TypeInv, TypeOK, NoSocketYet, Control, wsVars, appVars, history
<1>6. CASE SetupFailed
  <2>1. sock \in Conn
    BY <1>3, <1>6 DEF SetupFailed
  <2>2. conn' \in [Conn -> Socket]
    BY <1>1, <1>6, <2>1, SocketType DEF SetupFailed, TypeInv, TypeOK
  <2>3. Control' /\ status' = "Disconnect"
    BY <1>1, <1>2, <1>6, ControlType DEF SetupFailed, DialFailed
  <2>4. UNCHANGED <<wsVars, handler, sendText, rd, wr, history>>
    BY <1>6 DEF SetupFailed
  <2> QED
    BY <2>1, <2>2, <2>3, <2>4
    DEF TypeInv, TypeOK, NoSocketYet, Control, wsVars, history
<1>7. ASSUME NEW m \in Message, UpgradeAnswered(m)
      PROVE  conn' \in [Conn -> Socket] /\ rd' \in SocketSet
  <2>1. Client("connect") \in Conn
    BY <1>3, <1>7 DEF UpgradeAnswered, Reading, Client, TypeInv, TypeOK
  <2>3. conn' \in [Conn -> Socket]
    BY <1>7, <2>1, TookType DEF UpgradeAnswered, TypeInv, TypeOK
  <2>4. rd' \in SocketSet
    BY <1>1, <1>7, <2>1, SocketSetType DEF UpgradeAnswered, TypeInv, TypeOK
  <2> QED
    BY <2>3, <2>4
<1>8. CASE UpgradeFailed
  <2>1. sock \in Conn
    BY <1>3, <1>8 DEF UpgradeFailed, UpgradeAnswered, Reading
  <2>2. conn' \in [Conn -> Socket] /\ rd' \in SocketSet
    <3>1. CASE UpgradeAnswered("refused")
      BY <1>7, <3>1 DEF Message, Answer
    <3>2. CASE /\ rd' = Unlog(rd, Client("connect"))
               /\ UNCHANGED conn
      <4>1. Client("connect") \in Conn
        BY <2>1 DEF Client, TypeInv, TypeOK
      <4> QED
        BY <1>1, <3>2, <4>1, SocketSetType DEF TypeInv, TypeOK
    <3> QED
      BY <1>8, <3>1, <3>2 DEF UpgradeFailed
  <2>3. Control' /\ status' = "Disconnect"
    BY <1>1, <1>2, <1>8, ControlType DEF UpgradeFailed, DialFailed
  <2>4. UNCHANGED <<wsVars, handler, sendText, wr, history>>
    BY <1>8 DEF UpgradeFailed
  <2> QED
    BY <2>1, <2>2, <2>3, <2>4
    DEF TypeInv, TypeOK, NoSocketYet, Control, wsVars, history
<1>9. CASE Opened
  <2>1. sock \in Conn
    BY <1>3, <1>9 DEF Opened, UpgradeAnswered, Reading
  <2>2. conn' \in [Conn -> Socket] /\ rd' \in SocketSet
    BY <1>7, <1>9 DEF Opened, Message, Answer
  <2>3. Control'
    BY <1>1, <1>2, <1>9, ControlType DEF Opened
  <2>4. /\ state' = "OPEN" /\ status' = "Connected"
        /\ UNCHANGED <<isClosing, sock, handler, sendText, wr, history>>
    BY <1>9 DEF Opened
  <2> QED
    BY <2>1, <2>2, <2>3, <2>4
    DEF TypeInv, TypeOK, NoSocketYet, Control, history
<1>10. CASE BackoffOver
  <2>1. sock \in Conn
    BY <1>3, <1>10 DEF BackoffOver
  <2>2. Control' /\ status' = "Connected"
    BY <1>1, <1>2, <1>10, ControlType DEF BackoffOver
  <2>3. UNCHANGED <<wsVars, conn, handler, sendText, rd, wr, history>>
    BY <1>10 DEF BackoffOver
  <2> QED
    BY <2>1, <2>2, <2>3
    DEF TypeInv, TypeOK, NoSocketYet, Control, wsVars, history
<1> QED
  BY <1>4, <1>5, <1>6, <1>8, <1>9, <1>10 DEF Connect

(* Receiving.                                                              *)
LEMMA ReceiveTypeStep ==
  ASSUME TypeInv, Receiving
  PROVE  TypeInv'
<1>1. /\ Control /\ "handler_receive" \in Thread
      /\ conn \in [Conn -> Socket] /\ rd \in SocketSet /\ wr \in SocketSet
  BY DEF Control, Thread, TypeInv, TypeOK
<1>2. {"loop", "read", "echo", "dead"} \subseteq Label
  BY DEF Label
<1>3. sock \in Conn
  BY <1>1, SocketInUse
  DEF Receiving, Receive, EchoDone, Process, ProcessDies, ReceiveClose,
      ReceiveEnd, ReceiveFrom, Reading
<1>4. \A c : ReceiveFrom(c) => c \in Conn
  BY <1>1, <1>3 DEF ReceiveFrom, Client, Control
<1>5. ASSUME Clean PROVE conn' \in [Conn -> Socket] /\ Control'
  BY <1>1, <1>2, <1>3, <1>5, SocketType, ControlType DEF Clean
<1>6. CASE Receive
  <2>1. Control'
    BY <1>1, <1>2, <1>6, ControlType DEF Receive
  <2>2. UNCHANGED <<wsVars, conn, appVars, rd, wr, history>>
    BY <1>6 DEF Receive
  <2> QED
    BY <1>3, <2>1, <2>2
    DEF TypeInv, TypeOK, NoSocketYet, Control, wsVars, appVars, history
<1>7. CASE EchoDone
  <2>1. /\ state' = "CLOSED"
        /\ UNCHANGED <<isClosing, sock, appVars, wr, history, rd>>
    BY <1>7 DEF EchoDone, Clean
  <2> QED
    BY <1>3, <1>5, <1>7, <2>1
    DEF EchoDone, TypeInv, TypeOK, NoSocketYet, Control, appVars, history
<1>8. ASSUME NEW c \in Conn, Process(c) PROVE TypeInv'
  <2>1. conn' \in [Conn -> Socket] /\ rd' \in SocketSet
    BY <1>1, <1>8, TookType, SocketSetType DEF Process
  <2>2. Control'
    BY <1>1, <1>2, <1>8, ControlType DEF Process
  <2>3. /\ handler' \in {"none", "fresh", "authed"}
        /\ UNCHANGED <<wsVars, sendText, status, wr, history>>
    BY <1>8 DEF Process, TypeInv, TypeOK
  <2> QED
    BY <1>3, <2>1, <2>2, <2>3
    DEF TypeInv, TypeOK, NoSocketYet, Control, wsVars, history
<1>9. ASSUME NEW c \in Conn, ProcessDies(c) PROVE TypeInv'
  <2>1. Took(c) \in [Conn -> Socket]
    BY <1>1, TookType
  <2>2. Closed(Took(c)[c]) \in Socket
    BY <2>1, SocketType
  <2>3. conn' \in [Conn -> Socket]
    BY <1>9, <2>1, <2>2 DEF ProcessDies
  <2>4. rd' \in SocketSet
    BY <1>1, <1>9, SocketSetType DEF ProcessDies
  <2>5. Control'
    BY <1>1, <1>2, <1>9, ControlType DEF ProcessDies
  <2>6. UNCHANGED <<wsVars, appVars, wr, history>>
    BY <1>9 DEF ProcessDies
  <2> QED
    BY <1>3, <2>3, <2>4, <2>5, <2>6
    DEF TypeInv, TypeOK, NoSocketYet, Control, wsVars, appVars, history
<1>10. ASSUME NEW c \in Conn, ReceiveClose(c) PROVE TypeInv'
  <2>1. /\ conn' \in [Conn -> Socket] /\ shipped' \in Seq(Nat)
        /\ wr' \in SocketSet /\ Control'
    <3>1. CASE isClosing /\ conn' = Took(c) /\ Yield("handler_receive", "loop")
               /\ UNCHANGED <<wr, shipped>>
      BY <1>1, <1>2, <3>1, TookType, ControlType DEF TypeInv, TypeOK
    <3>2. CASE Transmit(Took(c), "handler_receive", "none", <<>>, "echo", "echo")
      <4>1. Took(c) \in [Conn -> Socket] /\ <<>> \in Seq(Nat)
        BY <1>1, TookType
      <4> QED
        BY <1>1, <1>2, <1>3, <3>2, <4>1, TransmitType DEF TypeInv
    <3> QED
      BY <1>10, <3>1, <3>2 DEF ReceiveClose
  <2>2. rd' \in SocketSet
    BY <1>1, <1>10, SocketSetType DEF ReceiveClose
  <2>3. UNCHANGED <<wsVars, appVars, posted, sent>>
    BY <1>10 DEF ReceiveClose
  <2> QED
    BY <1>3, <2>1, <2>2, <2>3
    DEF TypeInv, TypeOK, NoSocketYet, Control, wsVars, appVars
<1>11. ASSUME NEW c \in Conn, ReceiveEnd(c) PROVE TypeInv'
  <2>1. rd' \in SocketSet
    BY <1>1, <1>11, SocketSetType DEF ReceiveEnd
  <2>2. /\ state' = "CLOSED"
        /\ UNCHANGED <<isClosing, sock, appVars, wr, history>>
    BY <1>11 DEF ReceiveEnd, Clean
  <2> QED
    BY <1>3, <1>5, <1>11, <2>1, <2>2
    DEF ReceiveEnd, TypeInv, TypeOK, NoSocketYet, Control, appVars, history
<1> QED
  BY <1>6, <1>7, <1>8, <1>9, <1>10, <1>11 DEF Receiving

(* The sleepers, the scheduler and the callback.                           *)
LEMMA SchedulerTypeStep ==
  ASSUME TypeInv,
         \/ Ping \/ Copy \/ CopyDies \/ Notify
         \/ \E c \in Conn : ReadEvent(c) \/ WriteEvent(c)
  PROVE  TypeInv'
<1>1. /\ Control /\ {"send_ping", "send_copy"} \subseteq Thread
      /\ rd \in SocketSet /\ wr \in SocketSet
  BY DEF Control, Thread, TypeInv, TypeOK
<1>2. {"send", "dead"} \subseteq Label
  BY DEF Label
<1>3. CASE Ping \/ Copy \/ CopyDies
  <2>1. sock \in Conn
    BY <1>1, <1>3, SocketInUse DEF Ping, Copy, CopyDies
  <2>2. Control'
    BY <1>1, <1>2, <1>3, ControlType DEF Ping, Copy, CopyDies
  <2>3. UNCHANGED <<wsVars, conn, appVars, rd, wr, history>>
    BY <1>3 DEF Ping, Copy, CopyDies
  <2> QED
    BY <2>1, <2>2, <2>3
    DEF TypeInv, TypeOK, NoSocketYet, Control, wsVars, appVars, history
<1>4. CASE Notify
  <2>1. posted' \in 0..MaxPost /\ sendText' \in 0..MaxPost
    BY <1>4 DEF Notify, TypeInv, TypeOK
  <2>2. UNCHANGED <<wsVars, conn, handler, status, pc, running, via, rd, wr,
                    sent, shipped>>
    BY <1>4 DEF Notify
  <2> QED
    BY <2>1, <2>2 DEF TypeInv, TypeOK, NoSocketYet, wsVars
<1>5. ASSUME NEW c \in Conn, ReadEvent(c) PROVE TypeInv'
  <2>1. rd' \in SocketSet /\ running' \in Thread
    BY <1>1, <1>5, SocketSetType DEF ReadEvent
  <2>2. via' = c /\ UNCHANGED <<wsVars, conn, appVars, pc, wr, history>>
    BY <1>5 DEF ReadEvent
  <2>3. sock \in Conn
    BY <1>5 DEF ReadEvent, TypeInv, TypeOK, NoSocketYet
  <2> QED
    BY <2>1, <2>2, <2>3
    DEF TypeInv, TypeOK, NoSocketYet, wsVars, appVars, history
<1>6. ASSUME NEW c \in Conn, WriteEvent(c) PROVE TypeInv'
  <2>1. wr' \in SocketSet /\ running' \in Thread
    BY <1>1, <1>6, SocketSetType DEF WriteEvent
  <2>2. via' = c /\ UNCHANGED <<wsVars, conn, appVars, pc, rd, history>>
    BY <1>6 DEF WriteEvent
  <2>3. sock \in Conn
    BY <1>6 DEF WriteEvent, TypeInv, TypeOK, NoSocketYet
  <2> QED
    BY <2>1, <2>2, <2>3
    DEF TypeInv, TypeOK, NoSocketYet, wsVars, appVars, history
<1> QED
  BY <1>3, <1>4, <1>5, <1>6

(* The network and the server.                                             *)
LEMMA EnvironmentTypeStep ==
  ASSUME TypeInv, Environment
  PROVE  TypeInv'
<1>1. conn \in [Conn -> Socket]
  BY DEF TypeInv, TypeOK
<1>2. conn' \in [Conn -> Socket]
  <2>1. ASSUME NEW c \in Conn, Fail(c) PROVE conn' \in [Conn -> Socket]
    <3>1. PICK n \in FailTo :
            conn' = [conn EXCEPT ![c] = IF n = "broken" THEN Broken(@)
                                        ELSE [@ EXCEPT !.net = n]]
      BY <2>1 DEF Fail
    <3>2. \A k \in Socket : [k EXCEPT !.net = n] \in Socket
      BY DEF Socket, Net
    <3>3. conn[c] \in Socket /\ Broken(conn[c]) \in Socket
      BY <1>1, SocketType
    <3> QED
      BY <1>1, <3>1, <3>2, <3>3
  <2>2. ASSUME NEW c \in Conn, GiveUp(c) PROVE conn' \in [Conn -> Socket]
    <3>1. Broken(conn[c]) \in Socket
      BY <1>1, SocketType
    <3> QED
      BY <1>1, <2>2, <3>1 DEF GiveUp
  <2>3. ASSUME NEW c \in Conn, NEW m \in Message, ServerSend(c, m)
        PROVE  conn' \in [Conn -> Socket]
    <3>1. conn[c] \in Socket /\ Append(conn[c].inbox, m) \in Seq(Message)
      BY <1>1 DEF Socket
    <3>2. [conn[c] EXCEPT !.inbox = Append(conn[c].inbox, m)] \in Socket
      BY <3>1 DEF Socket
    <3> QED
      BY <1>1, <2>3, <3>2 DEF ServerSend
  <2> QED
    BY <2>1, <2>2, <2>3 DEF Environment
<1>3. UNCHANGED <<wsVars, appVars, pc, running, via, rd, wr, history>>
  BY DEF Environment, Fail, GiveUp, ServerSend
<1> QED
  BY <1>2, <1>3 DEF TypeInv, TypeOK, NoSocketYet, wsVars, appVars, history

LEMMA TypeStep ==
  ASSUME TypeInv, [Next]_vars
  PROVE  TypeInv'
<1>1. CASE Program
  BY <1>1, SendTypeStep, ReadTypeStep, ConnectTypeStep, ReceiveTypeStep,
     SchedulerTypeStep DEF Program, Step
<1>2. CASE Environment
  BY <1>2, EnvironmentTypeStep
<1>3. CASE UNCHANGED vars
  BY <1>3 DEF TypeInv, TypeOK, NoSocketYet, vars, wsVars, appVars, history
<1> QED
  BY <1>1, <1>2, <1>3 DEF Next

(* Every state is well typed, and ws_client has a socket before anything   *)
(* uses it.                                                                *)
THEOREM TypeCorrect == Spec => []TypeOK
<1>1. TypeInv /\ [Next]_vars => TypeInv'
  BY TypeStep
<1>2. TypeInv => TypeOK
  BY DEF TypeInv
<1> QED
  BY <1>1, <1>2, InitTypeInv, PTL DEF Spec

----------------------------------------------------------------------------
(* Safety.  The strengthening says that the state is CLOSED while connect  *)
(* dials, that a coroutine at "send" has the processor, and that an open   *)
(* session that works has been greeted unless connect is about to do it.   *)

Dialling == pc["connect"] \in {"tcp", "await", "backoff"} => state = "CLOSED"
Sending == \A t \in Thread : pc[t] = "send" => running = t
Greeted == state = "OPEN" /\ Usable(conn[sock]) =>
             conn[sock].first = "auth" \/ pc["connect"] = "send"

(* The control part of the invariant.                                      *)
ControlInv == TextNeedsHandler /\ StatusDisconnect /\ NilHandler
              /\ Dialling /\ Sending

SocketInv == OneSession /\ AuthFirst /\ Greeted

SafeInv == TypeInv /\ ControlInv /\ SocketInv

LEMMA ControlInvStep ==
  ASSUME TypeInv, ControlInv, [Next]_vars
  PROVE  ControlInv'
<1> USE DEF ControlInv, TextNeedsHandler, StatusDisconnect, NilHandler,
            Greeting, Dialling, Sending
<1>0. /\ pc \in [Thread -> Label]
      /\ Thread = {"connect", "handler_receive", "send_copy", "send_ping"}
      /\ running \in Thread \union {Idle} /\ Idle \notin Thread
      /\ state \in {"CLOSED", "OPEN"}
  BY DEF TypeInv, TypeOK, Thread, Idle
<1>1. ASSUME NEW t \in Thread, SendFrame(t) PROVE ControlInv'
  BY <1>0, <1>1 DEF SendFrame, Transmit, Yield, Goto, wsVars, appVars
<1>2. ASSUME NEW t \in Thread, SendFailed(t) PROVE ControlInv'
  BY <1>0, <1>2 DEF SendFailed, Transmit, Yield, Goto, wsVars, appVars
<1>3. ASSUME NEW t \in Thread, CloseFailed(t) PROVE ControlInv'
  BY <1>0, <1>3 DEF CloseFailed, Shut, Goto, appVars
<1>4. ASSUME NEW t \in Thread, SendReturned(t) PROVE ControlInv'
  BY <1>0, <1>4 DEF SendReturned, Yield, wsVars
<1>5. ASSUME NEW t \in Thread, ReadNothing(t) PROVE ControlInv'
  BY <1>0, <1>5 DEF ReadNothing, Reading, Yield, appVars
<1>6. ASSUME NEW t \in Thread, Drained(t) PROVE ControlInv'
  BY <1>0, <1>6 DEF Drained, Reading, Goto, appVars
<1>7. CASE Connect
  <2>1. CASE Dial
    BY <1>0, <2>1 DEF Dial, Yield, appVars
  <2>2. CASE Secured \/ SetupFailed
    BY <1>0, <2>2 DEF Secured, SetupFailed, DialFailed, Yield, wsVars, appVars
  <2>3. CASE UpgradeFailed
    BY <1>0, <2>3 DEF UpgradeFailed, UpgradeAnswered, Reading, DialFailed,
       Yield, wsVars
  <2>4. CASE Opened
    BY <1>0, <2>4 DEF Opened, UpgradeAnswered, Reading, Goto
  <2>5. CASE BackoffOver
    BY <1>0, <2>5 DEF BackoffOver, Resume, wsVars
  <2> QED
    BY <1>7, <2>1, <2>2, <2>3, <2>4, <2>5 DEF Connect
<1>8. CASE Ping \/ Copy \/ CopyDies
  BY <1>0, <1>8 DEF Ping, Copy, CopyDies, Resume, Yield, wsVars, appVars
<1>9. CASE Receiving
  BY <1>0, <1>9 DEF Receiving, Receive, EchoDone, Clean, Process, ProcessDies,
     ReceiveClose, ReceiveEnd, ReceiveFrom, Reading, Transmit, Resume, Yield, Goto, wsVars, appVars
<1>10. ASSUME NEW c \in Conn, ReadEvent(c) \/ WriteEvent(c) PROVE ControlInv'
  BY <1>0, <1>10 DEF ReadEvent, WriteEvent, wsVars, appVars
<1>11. CASE Notify
  BY <1>0, <1>11 DEF Notify, wsVars
<1>12. CASE Environment \/ UNCHANGED vars
  BY <1>0, <1>12 DEF Environment, Fail, GiveUp, ServerSend, vars, wsVars, appVars
<1> QED
  BY <1>1, <1>2, <1>3, <1>4, <1>5, <1>6, <1>7, <1>8, <1>9, <1>10, <1>11, <1>12
  DEF Next, Program, Step

(* What the operators on sockets do to the request a connection has carried*)
(* and to its being usable.                                                *)
LEMMA ShutFirst ==
  ASSUME NEW k \in Socket
  PROVE  /\ Closed(k).first = "none" /\ ~Usable(Closed(k))
         /\ Broken(k).first = "none" /\ ~Usable(Broken(k))
         /\ Blank.first = "none" /\ ~Usable(Blank)
<1>1. Closed(k) = [life |-> "closed", net |-> "broken", first |-> "none",
                   buf |-> <<>>, inbox |-> k.inbox]
  BY DEF Closed, Blank
<1>2. \A b \in Socket :
        /\ [b EXCEPT !.life = k.life, !.inbox = k.inbox].first = b.first
        /\ [b EXCEPT !.life = k.life, !.inbox = k.inbox].net = b.net
  BY DEF Socket
<1>3. Broken(k).first = Blank.first /\ Broken(k).net = Blank.net
  BY <1>2, BlankType DEF Broken
<1> QED
  BY <1>1, <1>3 DEF Usable, Blank

LEMMA AfterSendFirst ==
  ASSUME NEW k \in Socket, NEW what \in {"none", "auth", "copy"},
         NEW copies \in Seq(Nat), NEW ok \in BOOLEAN
  PROVE  /\ AfterSend(k, what, copies, ok).first
              = IF Usable(k) /\ k.first = "none" THEN what ELSE k.first
         /\ Usable(AfterSend(k, what, copies, ok)) = Usable(k)
<1>1. CASE ~Usable(k)
  BY <1>1 DEF AfterSend
<1>2. CASE Usable(k)
  <2> DEFINE first == IF k.first = "none" THEN what ELSE k.first
             buf == IF ok THEN <<>> ELSE k.buf \o copies
             net == IF ok /\ k.net = "lost" THEN "unacked" ELSE k.net
  <2>1. AfterSend(k, what, copies, ok)
          = [k EXCEPT !.first = first, !.buf = buf, !.net = net]
    BY <1>2 DEF AfterSend
  <2>2. net # "broken"
    BY <1>2 DEF Usable
  <2> HIDE DEF first, buf, net
  <2>3. /\ [k EXCEPT !.first = first, !.buf = buf, !.net = net].first = first
        /\ [k EXCEPT !.first = first, !.buf = buf, !.net = net].net = net
        /\ [k EXCEPT !.first = first, !.buf = buf, !.net = net].life = k.life
    BY DEF Socket
  <2> QED
    BY <1>2, <2>1, <2>2, <2>3 DEF Usable, first
<1> QED
  BY <1>1, <1>2

LEMMA TookFirst ==
  ASSUME conn \in [Conn -> Socket], NEW c \in Conn, NEW d \in Conn
  PROVE  /\ Took(c)[d].first = conn[d].first
         /\ Usable(Took(c)[d]) = Usable(conn[d])
<1>1. conn[c] \in Socket
  OBVIOUS
<1>2. /\ [conn[c] EXCEPT !.inbox = Rest(conn[c].inbox)].first = conn[c].first
      /\ [conn[c] EXCEPT !.inbox = Rest(conn[c].inbox)].net = conn[c].net
      /\ [conn[c] EXCEPT !.inbox = Rest(conn[c].inbox)].life = conn[c].life
  BY <1>1 DEF Socket
<1> QED
  BY <1>2 DEF Took, Usable

(* Three ways for a step to keep the socket part of the invariant.         *)

(* It carries nothing new and makes nothing usable.                        *)
LEMMA QuietKeeps ==
  ASSUME TypeInv, SocketInv, UNCHANGED <<state, sock>>,
         state = "OPEN" /\ pc["connect"] = "send" => pc'["connect"] = "send",
         \A c \in Conn :
           /\ conn'[c].first \in {conn[c].first, "none"}
           /\ Usable(conn'[c]) =>
                Usable(conn[c]) /\ conn'[c].first = conn[c].first
  PROVE  SocketInv'
<1>1. OneSession' /\ AuthFirst'
  BY DEF SocketInv, OneSession, AuthFirst
<1>2. state = "OPEN" => sock \in Conn
  BY SocketInUse DEF TypeInv, TypeOK, NoSocketYet
<1>3. Greeted'
  BY <1>2 DEF SocketInv, Greeted
<1> QED
  BY <1>1, <1>3 DEF SocketInv

(* It ends the session and shuts the socket.                               *)
LEMMA ShuttingKeeps ==
  ASSUME SocketInv, state' = "CLOSED", sock' = sock,
         conn'[sock].first = "none",
         \A c \in Conn : conn'[c].first \in {conn[c].first, "none"}
  PROVE  SocketInv'
  BY DEF SocketInv, OneSession, AuthFirst, Greeted

(* It sends on an open session.                                            *)
LEMMA TransmitKeeps ==
  ASSUME TypeInv, SocketInv, state = "OPEN", UNCHANGED <<state, sock>>,
         NEW t \in Thread, NEW what \in {"none", "auth", "copy"},
         NEW copies \in Seq(Nat), NEW ok, NEW err,
         NEW cs \in [Conn -> Socket],
         \A c \in Conn : /\ cs[c].first = conn[c].first
                         /\ Usable(cs[c]) = Usable(conn[c]),
         Transmit(cs, t, what, copies, ok, err),
         ok # "send" /\ err # "send",
         what = "copy" => pc["connect"] # "send",
         pc["connect"] = "send" => what = "auth" \/ t # "connect"
  PROVE  SocketInv'
<1>1. sock \in Conn /\ pc \in [Thread -> Label]
  BY SocketInUse DEF TypeInv, TypeOK
<1>2. PICK good \in SendOutcome(cs[sock]) :
        /\ conn' = [cs EXCEPT ![sock] = AfterSend(cs[sock], what, copies, good)]
        /\ pc' = [pc EXCEPT ![t] = IF good THEN ok ELSE err]
  BY DEF Transmit, Yield, Goto
<1>3. good \in BOOLEAN
  BY <1>2 DEF SendOutcome
<1>4. /\ conn'[sock].first
           = IF Usable(conn[sock]) /\ conn[sock].first = "none"
             THEN what ELSE conn[sock].first
      /\ Usable(conn'[sock]) = Usable(conn[sock])
      /\ \A c \in Conn : c # sock => conn'[c] = cs[c]
  BY <1>1, <1>2, <1>3, AfterSendFirst
<1>5. conn[sock].first \in {"none", "auth", "copy"}
  BY <1>1 DEF TypeInv, TypeOK, Socket
<1>6. conn'[sock].first # "copy"
  BY <1>1, <1>4, <1>5 DEF SocketInv, AuthFirst, Greeted
<1>7. OneSession' /\ AuthFirst'
  BY <1>4, <1>6 DEF SocketInv, OneSession, AuthFirst
<1>8. Greeted'
  <2>1. CASE pc["connect"] = "send" /\ t = "connect"
    BY <1>1, <1>4, <1>5, <2>1 DEF SocketInv, AuthFirst, Greeted
  <2>2. CASE pc["connect"] = "send" /\ t # "connect"
    BY <1>1, <1>2, <2>2 DEF Greeted, Thread
  <2>3. CASE pc["connect"] # "send"
    BY <1>4, <2>3 DEF SocketInv, Greeted
  <2> QED
    BY <2>1, <2>2, <2>3
<1> QED
  BY <1>7, <1>8 DEF SocketInv

LEMMA SocketSendStep ==
  ASSUME TypeInv, SocketInv, Sending, NEW t \in Thread,
         SendFrame(t) \/ SendFailed(t) \/ CloseFailed(t) \/ SendReturned(t)
  PROVE  SocketInv'
<1>1. /\ conn \in [Conn -> Socket] /\ pc \in [Thread -> Label]
      /\ running = t => sock \in Conn
      /\ sendText \in Nat /\ "connect" \in Thread
  BY SocketInUse DEF TypeInv, TypeOK, Thread
<1>2. CASE SendFrame(t) /\ state # "OPEN"
  BY <1>1, <1>2, QuietKeeps DEF SendFrame, Goto, wsVars
<1>3. CASE SendFrame(t) /\ state = "OPEN"
  <2>1. /\ Transmit(conn, t, Request(t), Copies(t), "sentOk", "sentErr")
        /\ UNCHANGED <<state, sock>> /\ running = t
    BY <1>3 DEF SendFrame, wsVars
  <2>2. /\ Request(t) \in {"none", "auth", "copy"} /\ Copies(t) \in Seq(Nat)
        /\ Request(t) = "copy" => t # "connect"
        /\ t = "connect" => Request(t) = "auth"
    BY <1>1 DEF Request, Copies, Thread
  <2>3. pc["connect"] = "send" => t = "connect"
    BY <1>1, <2>1 DEF Sending
  <2> QED
    BY <1>1, <1>3, <2>1, <2>2, <2>3, TransmitKeeps
<1>4. CASE SendFailed(t) /\ state # "OPEN"
  BY <1>1, <1>4, QuietKeeps DEF SendFailed, Goto, wsVars
<1>5. CASE SendFailed(t) /\ state = "OPEN"
  <2>1. /\ Transmit(conn, t, "none", <<>>, "closingOk", "closingErr")
        /\ UNCHANGED <<state, sock>> /\ running = t /\ pc[t] = "sentErr"
    BY <1>5 DEF SendFailed, wsVars
  <2>2. <<>> \in Seq(Nat)
    OBVIOUS
  <2>3. pc["connect"] # "send"
    BY <1>1, <2>1 DEF Sending
  <2> QED
    BY <1>1, <1>5, <2>1, <2>2, <2>3, TransmitKeeps
<1>6. CASE CloseFailed(t)
  <2>1. sock \in Conn /\ conn' = [conn EXCEPT ![sock] = Closed(conn[sock])]
    BY <1>1, <1>6 DEF CloseFailed, Shut
  <2>2. conn'[sock].first = "none"
    BY <1>1, <2>1, ShutFirst
  <2> QED
    BY <1>1, <1>6, <2>1, <2>2, ShuttingKeeps DEF CloseFailed, Shut
<1>7. CASE SendReturned(t)
  BY <1>1, <1>7, QuietKeeps DEF SendReturned, Yield, wsVars
<1> QED
  BY <1>2, <1>3, <1>4, <1>5, <1>6, <1>7

LEMMA SocketReadStep ==
  ASSUME TypeInv, SocketInv, NEW t \in Thread, ReadNothing(t) \/ Drained(t)
  PROVE  SocketInv'
<1>1. /\ conn \in [Conn -> Socket] /\ pc \in [Thread -> Label]
      /\ running = t => sock \in Conn
      /\ via \in Conn \union {NoConn} /\ "connect" \in Thread
  BY SocketInUse DEF TypeInv, TypeOK, Thread
<1>2. CASE ReadNothing(t)
  BY <1>1, <1>2, QuietKeeps DEF ReadNothing, Reading, Yield
<1>3. CASE Drained(t)
  <2> DEFINE c == Client(t)
  <2>1. /\ sock \in Conn /\ c \in Conn /\ state' = "CLOSED" /\ sock' = sock
        /\ conn' = [Took(c) EXCEPT ![sock] = Closed(Took(c)[sock])]
    BY <1>1, <1>3 DEF Drained, Reading, Client
  <2> HIDE DEF c
  <2>2. Took(c) \in [Conn -> Socket]
    BY <1>1, <2>1, TookType
  <2>3. conn'[sock].first = "none"
    BY <2>1, <2>2, ShutFirst
  <2>4. \A d \in Conn : conn'[d].first \in {conn[d].first, "none"}
    BY <1>1, <2>1, <2>2, <2>3, TookFirst
  <2> QED
    BY <2>1, <2>3, <2>4, ShuttingKeeps
<1> QED
  BY <1>2, <1>3

LEMMA SocketConnectStep ==
  ASSUME TypeInv, SocketInv, Dialling, Connect
  PROVE  SocketInv'
<1>1. /\ conn \in [Conn -> Socket] /\ pc \in [Thread -> Label]
      /\ "connect" \in Thread /\ via \in Conn \union {NoConn}
      /\ state \in {"OPEN", "CLOSED"}
  BY DEF TypeInv, TypeOK, Thread
<1>2. \A c \in Conn : state = "CLOSED" => conn[c].first = "none"
  BY DEF SocketInv, OneSession
<1>3. pc["connect"] # "loop" => sock \in Conn
  BY <1>1, SocketInUse
<1>4. CASE Dial
  <2>1. \A c \in Conn : conn'[c].first = "none"
    <3>1. \A b \in Socket :
            [b EXCEPT !.life = "connecting", !.net = "up"].first = b.first
      BY DEF Socket
    <3>2. [Blank EXCEPT !.life = "connecting", !.net = "up"].first = "none"
      BY <3>1, BlankType DEF Blank
    <3> QED
      BY <1>1, <1>2, <1>4, <3>2 DEF Dial, Blank
  <2>2. state' = "CLOSED"
    BY <1>1, <1>4 DEF Dial
  <2> QED
    BY <2>1, <2>2 DEF SocketInv, OneSession, AuthFirst, Greeted
<1>5. CASE Secured
  <2>1. \A b \in Socket : [b EXCEPT !.life = "live"].first = b.first
    BY DEF Socket
  <2>2. conn' = [conn EXCEPT ![sock] = [conn[sock] EXCEPT !.life = "live"]]
    BY <1>5 DEF Secured
  <2>3. /\ state = "CLOSED" /\ state' = "CLOSED"
        /\ \A c \in Conn : conn'[c].first = "none"
    BY <1>1, <1>2, <1>5, <2>1, <2>2 DEF Secured, Dialling, wsVars
  <2> QED
    BY <2>3 DEF SocketInv, OneSession, AuthFirst, Greeted
<1>6. CASE SetupFailed
  <2>1. \A c \in Conn : conn'[c].first \in {conn[c].first, "none"}
    BY <1>1, <1>6, ShutFirst DEF SetupFailed
  <2>2. state = "CLOSED" /\ state' = "CLOSED"
    BY <1>6 DEF SetupFailed, Dialling, wsVars
  <2> QED
    BY <1>2, <2>1, <2>2 DEF SocketInv, OneSession, AuthFirst, Greeted
<1>7. ASSUME Reading("connect"), pc["connect"] = "await",
             state' \in {"CLOSED", "OPEN"},
             state' = "OPEN" => pc'["connect"] = "send",
             UNCHANGED conn \/ conn' = Took(Client("connect"))
      PROVE  SocketInv'
  <2>1. Client("connect") \in Conn /\ state = "CLOSED"
    BY <1>1, <1>3, <1>7 DEF Client, Dialling
  <2>2. \A c \in Conn : conn'[c].first = "none"
    BY <1>1, <1>2, <1>7, <2>1, TookFirst
  <2> QED
    BY <1>7, <2>2 DEF SocketInv, OneSession, AuthFirst, Greeted
<1>8. CASE UpgradeFailed
  BY <1>7, <1>8, <1>1 DEF UpgradeFailed, UpgradeAnswered, wsVars, Dialling
<1>9. CASE Opened
  BY <1>7, <1>9, <1>1 DEF Opened, UpgradeAnswered, Goto
<1>10. CASE BackoffOver
  BY <1>1, <1>10, QuietKeeps DEF BackoffOver, Resume, wsVars
<1> QED
  BY <1>4, <1>5, <1>6, <1>8, <1>9, <1>10 DEF Connect

LEMMA SocketReceiveStep ==
  ASSUME TypeInv, SocketInv, Sending, Receiving
  PROVE  SocketInv'
<1>1. /\ conn \in [Conn -> Socket] /\ pc \in [Thread -> Label]
      /\ running = "handler_receive" => sock \in Conn
      /\ "connect" \in Thread /\ "handler_receive" \in Thread
  BY SocketInUse DEF TypeInv, TypeOK, Thread
<1>2. CASE Receive
  BY <1>1, <1>2, QuietKeeps DEF Receive, Resume, wsVars
<1>3. CASE Clean
  <2>1. \A c \in Conn : conn'[c].first \in {conn[c].first, "none"}
    BY <1>1, <1>3, ShutFirst DEF Clean
  <2>2. running = "handler_receive" => conn'[sock].first = "none"
    BY <1>1, <1>3, ShutFirst DEF Clean
  <2>3. running = "handler_receive"
    BY <1>3, <1>1 DEF Receiving, Receive, EchoDone, Process, ProcessDies,
       ReceiveClose, ReceiveEnd, ReceiveFrom, Reading, Resume, Clean, Yield,
       Transmit, Goto
  <2> QED
    BY <1>3, <2>1, <2>2, <2>3, ShuttingKeeps DEF Clean
<1>4. ASSUME NEW c \in Conn, Process(c) PROVE SocketInv'
  BY <1>1, <1>4, TookFirst, QuietKeeps DEF Process, Yield, wsVars
<1>5. ASSUME NEW c \in Conn, ProcessDies(c) PROVE SocketInv'
  <2>1. Took(c) \in [Conn -> Socket]
    BY <1>1, TookType
  <2>2. \A d \in Conn :
          /\ conn'[d].first \in {conn[d].first, "none"}
          /\ Usable(conn'[d]) =>
               Usable(conn[d]) /\ conn'[d].first = conn[d].first
    BY <1>1, <1>5, <2>1, TookFirst, ShutFirst DEF ProcessDies
  <2> QED
    BY <1>1, <1>5, <2>2, QuietKeeps DEF ProcessDies, Yield, wsVars
<1>6. ASSUME NEW c \in Conn, ReceiveClose(c) PROVE SocketInv'
  <2>1. Took(c) \in [Conn -> Socket]
    BY <1>1, TookType
  <2>2. CASE isClosing /\ conn' = Took(c) /\ Yield("handler_receive", "loop")
    BY <1>1, <1>6, <2>2, TookFirst, QuietKeeps DEF ReceiveClose, Yield, wsVars
  <2>3. CASE Transmit(Took(c), "handler_receive", "none", <<>>, "echo", "echo")
    <3>1. PICK good \in SendOutcome(Took(c)[sock]) :
            /\ conn' = [Took(c) EXCEPT ![sock] =
                          AfterSend(Took(c)[sock], "none", <<>>, good)]
            /\ pc' = [pc EXCEPT !["handler_receive"] = "echo"]
      BY <2>3 DEF Transmit, Yield, Goto
    <3>2. /\ good \in BOOLEAN /\ <<>> \in Seq(Nat)
          /\ Took(c)[sock] \in Socket
          /\ Took(c)[sock].first \in {"none", "auth", "copy"}
      <4>1. sock \in Conn
        BY <1>1, <1>6 DEF ReceiveClose, ReceiveFrom, Reading
      <4>2. good \in BOOLEAN
        BY <3>1 DEF SendOutcome
      <4>3. Took(c)[sock] \in Socket
        BY <2>1, <4>1
      <4>4. Took(c)[sock].first \in {"none", "auth", "copy"}
        BY <4>3 DEF Socket
      <4> QED
        BY <4>2, <4>3, <4>4
    <3>3. \A d \in Conn :
            /\ conn'[d].first = Took(c)[d].first
            /\ Usable(conn'[d]) = Usable(Took(c)[d])
      <4>1. ASSUME NEW k \in Socket
            PROVE  /\ AfterSend(k, "none", <<>>, good).first = k.first
                   /\ Usable(AfterSend(k, "none", <<>>, good)) = Usable(k)
        <5>1. "none" \in {"none", "auth", "copy"} /\ <<>> \in Seq(Nat)
          OBVIOUS
        <5>2. /\ AfterSend(k, "none", <<>>, good).first
                   = IF Usable(k) /\ k.first = "none" THEN "none" ELSE k.first
              /\ Usable(AfterSend(k, "none", <<>>, good)) = Usable(k)
          BY <3>2, <5>1, AfterSendFirst, ZenonT(40)
        <5> QED
          BY <5>2, Zenon
      <4> QED
        BY <2>1, <3>1, <3>2, <4>1
    <3>4. UNCHANGED <<state, sock>> /\ pc'["connect"] = pc["connect"]
      BY <1>1, <1>6, <3>1 DEF ReceiveClose, wsVars
    <3> QED
      BY <1>1, <3>3, <3>4, TookFirst, QuietKeeps
  <2> QED
    BY <1>6, <2>2, <2>3 DEF ReceiveClose
<1> QED
  BY <1>2, <1>3, <1>4, <1>5, <1>6 DEF Receiving, EchoDone, ReceiveEnd

LEMMA SocketOtherStep ==
  ASSUME TypeInv, SocketInv,
         \/ Ping \/ Copy \/ CopyDies \/ Notify \/ Environment
         \/ \E c \in Conn : ReadEvent(c) \/ WriteEvent(c)
         \/ UNCHANGED vars
  PROVE  SocketInv'
<1>1. /\ conn \in [Conn -> Socket] /\ pc \in [Thread -> Label]
      /\ "connect" \in Thread
  BY DEF TypeInv, TypeOK, Thread
<1>2. CASE Ping \/ Copy \/ CopyDies
  BY <1>1, <1>2, QuietKeeps DEF Ping, Copy, CopyDies, Resume, Yield, wsVars
<1>3. CASE Notify \/ UNCHANGED vars
  BY <1>1, <1>3, QuietKeeps DEF Notify, vars, wsVars
<1>4. ASSUME NEW c \in Conn, ReadEvent(c) \/ WriteEvent(c) PROVE SocketInv'
  BY <1>1, <1>4, QuietKeeps DEF ReadEvent, WriteEvent, wsVars
<1>5. CASE Environment
  <2>1. UNCHANGED <<state, sock, pc>>
    BY <1>5 DEF Environment, Fail, GiveUp, ServerSend, wsVars
  <2>2. \A d \in Conn :
          /\ conn'[d].first \in {conn[d].first, "none"}
          /\ Usable(conn'[d]) =>
               Usable(conn[d]) /\ conn'[d].first = conn[d].first
    <3>1. ASSUME NEW c \in Conn, conn' = [conn EXCEPT ![c] = Broken(conn[c])]
          PROVE  <2>2
      BY <1>1, <3>1, ShutFirst
    <3>2. ASSUME NEW c \in Conn, NEW n \in FailTo, conn[c].net = "up",
                 n # "broken",
                 conn' = [conn EXCEPT ![c] = [conn[c] EXCEPT !.net = n]]
          PROVE  <2>2
      <4>1. /\ [conn[c] EXCEPT !.net = n].first = conn[c].first
            /\ [conn[c] EXCEPT !.net = n].life = conn[c].life
        BY <1>1 DEF Socket
      <4> QED
        BY <1>1, <3>2, <4>1 DEF Usable
    <3>3. ASSUME NEW c \in Conn, NEW m \in Message,
                 conn' = [conn EXCEPT ![c] =
                   [conn[c] EXCEPT !.inbox = Append(conn[c].inbox, m)]]
          PROVE  <2>2
      <4>1. \A i : /\ [conn[c] EXCEPT !.inbox = i].first = conn[c].first
                   /\ [conn[c] EXCEPT !.inbox = i].life = conn[c].life
                   /\ [conn[c] EXCEPT !.inbox = i].net = conn[c].net
        BY <1>1 DEF Socket
      <4> QED
        BY <1>1, <3>3, <4>1 DEF Usable
    <3> QED
      BY <1>5, <3>1, <3>2, <3>3 DEF Environment, Fail, GiveUp, ServerSend
  <2> QED
    BY <2>1, <2>2, QuietKeeps
<1> QED
  BY <1>2, <1>3, <1>4, <1>5

LEMMA SafeStep ==
  ASSUME SafeInv, [Next]_vars
  PROVE  SafeInv'
<1>1. TypeInv /\ ControlInv /\ SocketInv /\ Sending /\ Dialling
  BY DEF SafeInv, ControlInv
<1>2. TypeInv' /\ ControlInv'
  BY <1>1, TypeStep, ControlInvStep
<1>3. SocketInv'
  BY <1>1, SocketSendStep, SocketReadStep, SocketConnectStep,
     SocketReceiveStep, SocketOtherStep DEF Next, Program, Step
<1> QED
  BY <1>2, <1>3 DEF SafeInv

LEMMA Safe == Spec => []SafeInv
<1>1. Init => SafeInv
  <2> SUFFICES ASSUME Init PROVE SafeInv
    OBVIOUS
  <2>1. ControlInv
    BY DEF Init, ControlInv, TextNeedsHandler, StatusDisconnect, NilHandler,
           Dialling, Sending, Thread
  <2>2. SocketInv
    BY DEF Init, SocketInv, OneSession, AuthFirst, Greeted, Blank
  <2> QED
    BY InitTypeInv, <2>1, <2>2 DEF SafeInv
<1>2. SafeInv /\ [Next]_vars => SafeInv'
  BY SafeStep
<1> QED
  BY <1>1, <1>2, PTL DEF Spec

(* auth is the first request the server reads on any connection, whatever  *)
(* sends fail, yield or are flushed late.                                  *)
THEOREM AuthFirstAlways == Spec => []AuthFirst
<1>1. SafeInv => AuthFirst
  BY DEF SafeInv, SocketInv
<1> QED
  BY <1>1, Safe, PTL

(* However late or twice the websocket is closed, a connection that carried*)
(* a request and still works is the one ws_client has open.                *)
THEOREM OneSessionAlways == Spec => []OneSession
<1>1. SafeInv => OneSession
  BY DEF SafeInv, SocketInv
<1> QED
  BY <1>1, Safe, PTL

(* A text waits only when there is a handler, so nothing but a missing     *)
(* passwd ends send_copy.                                                  *)
THEOREM TextNeedsHandlerAlways == Spec => []TextNeedsHandler
<1>1. SafeInv => TextNeedsHandler
  BY DEF SafeInv, ControlInv
<1> QED
  BY <1>1, Safe, PTL

(* The tray never calls an open session disconnected, whatever callbacks   *)
(* and failures come between main.lua's status calls.                      *)
THEOREM StatusAlways == Spec => []StatusDisconnect
<1>1. SafeInv => StatusDisconnect
  BY DEF SafeInv, ControlInv
<1> QED
  BY <1>1, Safe, PTL

(* The handler is nil over an open session only while connect is inside    *)
(* its first auth (main.lua:78): handler_receive can meet nil then only.   *)
THEOREM NilHandlerAlways == Spec => []NilHandler
<1>1. SafeInv => NilHandler
  BY DEF SafeInv, ControlInv
<1> QED
  BY <1>1, Safe, PTL
=============================================================================
