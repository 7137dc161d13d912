------------------------------ MODULE Session ------------------------------
(***************************************************************************)
(* The daemon's session with the relay server: the four copas coroutines   *)
(* of main.lua (connect, handler_receive, send_copy, send_ping), the one   *)
(* websocket object ws_client they share, the rpc handler, and the text    *)
(* the clipboard callback leaves for send_copy.                            *)
(*                                                                         *)
(* The coroutines are cooperative.  `running' names the one that has the   *)
(* processor, Idle when copas is choosing; a coroutine gives it up only    *)
(* where the code yields (copas.sleep, a read that finds nothing, and the  *)
(* one send in ten that copas makes yield).  A pc label says what happens  *)
(* when the coroutine is next resumed:                                     *)
(*   loop       asleep in its loop       backoff   connect's sleep of 5 s  *)
(*   tcp        TCP and TLS being set up await     waits for the upgrade   *)
(*   read       inside ws_client:receive echo      its CLOSE reply is out  *)
(*   send       about to enter ws:send   sentOk, sentErr  what copas.send  *)
(*   closingOk, closingErr  the same for the CLOSE frame  answered         *)
(*   drain      close() waits for a frame          dead    it has failed   *)
(***************************************************************************)
EXTENDS Naturals, Sequences

CONSTANTS
  Conn,       \* connections, reused once no coroutine refers to them
  NoConn,     \* ws_client.sock before the first connect
  MaxPost,    \* bound: clipboard notifications in a behaviour
  MaxInbox,   \* bound: frames of the server not read yet, per connection
  FailTo,     \* how the network may fail: seen at once, or not
  ServerFrames, \* what the server may send besides the upgrade
  Transient,  \* whether the flush of a healthy connection may fail
  Yielders,   \* the coroutines whose sends copas may make yield
  Passwd      \* whether the configuration has a passwd

Thread == {"connect", "handler_receive", "send_copy", "send_ping"}

ASSUME SessionAssumption ==
  /\ NoConn \notin Conn
  /\ MaxPost \in Nat /\ MaxInbox \in Nat
  /\ FailTo \subseteq {"lost", "broken"}
  /\ ServerFrames \subseteq {"auth", "paste", "bad", "unknown", "text", "close"}
  /\ Yielders \subseteq Thread
  /\ Transient \in BOOLEAN /\ Passwd \in BOOLEAN

Idle == "idle"

VARIABLES
  state,      \* ws_client.state
  isClosing,  \* ws_client.is_closing
  sock,       \* ws_client.sock
  conn,       \* the sockets ws_client.sock has named, and their peers
  handler,    \* main's handler: "none" is nil, else whether it is authed
  sendText,   \* _send_text: the notification it holds, 0 for nil
  status,     \* the tray's status line
  pc, running,
  via,        \* the socket whose event resumed the running coroutine
  rd, wr,     \* copas' _reading and _writing sets with their logs
  posted,     \* history: notifications accepted so far
  sent,       \* history: the last notification handed to ws:send
  shipped     \* history: copies the server has received, in order

wsVars == <<state, isClosing, sock>>
appVars == <<handler, sendText, status>>
history == <<posted, sent, shipped>>
vars == <<wsVars, conn, appVars, pc, running, via, rd, wr, history>>

----------------------------------------------------------------------------
(* Sockets.                                                                *)

Life == {"connecting", "live", "closed"}
Net == {"up",       \* the peer gets what is sent
        "lost",     \* it does not, and nothing has told us
        "unacked",  \* and something has been sent since
        "broken"}   \* reads and writes fail
Answer == {"upgrade", "refused"}
Message == Answer \union {"auth", "paste", "bad",  \* requests; the last fails
                           "unknown",   \* one with no method of that name
                           "text",      \* a TEXT frame, not a request
                           "close"}

(* life   the TLS object;            net    the way to the peer            *)
(* first  the first request written, of those the server tells apart       *)
(* buf    copies left in the TLS buffer by a flush that failed             *)
(* inbox  frames of the server that nobody has read                        *)
Blank == [life |-> "closed", net |-> "broken", first |-> "none",
          buf |-> <<>>, inbox |-> <<>>]

Usable(k) == k.life = "live" /\ k.net # "broken"

(* What copas.send may answer for connection k: the S:send of the TLS      *)
(* wrapper reports a failed flush as an error, which copas does not retry. *)
SendOutcome(k) ==
  IF ~Usable(k) THEN {FALSE} ELSE IF Transient THEN BOOLEAN ELSE {TRUE}

(* Bug: the TLS buffer keeps what it has sent.                             *)
AfterSendBug(k, what, copies, ok) ==
  IF ~Usable(k) THEN k
  ELSE [k EXCEPT !.first = IF @ = "none" THEN what ELSE @,
                 !.buf = @ \o copies,
                 !.net = IF ok /\ @ = "lost" THEN "unacked" ELSE @]

(* A flush that fails leaves the frames in the TLS buffer, so the next one *)
(* that succeeds sends them first.                                         *)
AfterSend(k, what, copies, ok) ==
  IF ~Usable(k) THEN k
  ELSE [k EXCEPT !.first = IF @ = "none" THEN what ELSE @,
                 !.buf = IF ok THEN <<>> ELSE @ \o copies,
                 !.net = IF ok /\ @ = "lost" THEN "unacked" ELSE @]

(* The copies that reach the server when this send is answered with ok.    *)
Delivered(k, copies, ok) ==
  IF ok /\ Usable(k) /\ k.net = "up" THEN k.buf \o copies ELSE <<>>

(* A socket that is closed, or whose peer is gone, has nothing left to send*)
(* or to be told; what it has received can still be read.                  *)
Broken(k) == [Blank EXCEPT !.life = k.life, !.inbox = k.inbox]
(* Bug: close() forgets sock_close.                                        *)
ClosedBug(k) == k

Closed(k) == [Blank EXCEPT !.inbox = k.inbox]

(* copas' socket sets: a socket is in the set once, however many coroutines*)
(* queue on it, and an event takes it out and resumes the first of them.   *)
Wait(s, t, c) ==
  [set |-> s.set \union {c}, log |-> s.log \union {c},
   q |-> [s.q EXCEPT ![c] = Append(@, t)]]
Wake(s, c) ==
  [set |-> s.set \ {c}, log |-> s.log \ {c}, q |-> [s.q EXCEPT ![c] = Tail(@)]]
Unlog(s, c) == [s EXCEPT !.log = @ \ {c}]

(* Some coroutine is queued on the socket, able to be resumed or not.      *)
Waited(c) == rd.q[c] # <<>> \/ wr.q[c] # <<>>

----------------------------------------------------------------------------
Init ==
  /\ state = "CLOSED" /\ isClosing = FALSE /\ sock = NoConn
  /\ conn = [c \in Conn |-> Blank]
  /\ handler = "none" /\ sendText = 0 /\ status = "Disconnect"
  /\ pc = [t \in Thread |-> "loop"]
  /\ running = Idle /\ via = NoConn
  /\ rd = [set |-> {}, log |-> {}, q |-> [c \in Conn |-> <<>>]]
  /\ wr = rd
  /\ posted = 0 /\ sent = 0 /\ shipped = <<>>

(* The running coroutine t yields, to be resumed at label l.               *)
Yield(t, l) ==
  /\ pc' = [pc EXCEPT ![t] = l]
  /\ running' = Idle /\ via' = NoConn

(* It goes on at label l without yielding.                                 *)
Goto(t, l) ==
  /\ pc' = [pc EXCEPT ![t] = l]
  /\ UNCHANGED <<running, via>>

(* copas resumes the sleeping coroutine t, which goes on at label l.       *)
Resume(t, l) ==
  /\ running = Idle
  /\ running' = t /\ via' = NoConn
  /\ pc' = [pc EXCEPT ![t] = l]

----------------------------------------------------------------------------
(* ws_client:send, ws_client:close and the copas.send under them.          *)

(* A frame goes out on the current socket; cs are the connections before.  *)
Transmit(cs, t, what, copies, ok, err) ==
  \E good \in SendOutcome(cs[sock]) :
    /\ conn' = [cs EXCEPT ![sock] = AfterSend(@, what, copies, good)]
    /\ shipped' = shipped \o Delivered(cs[sock], copies, good)
    /\ LET next == IF good THEN ok ELSE err
       IN  \/ t \in Yielders /\ Yield(t, next) /\ wr' = Wait(wr, t, sock)
           \/ Goto(t, next) /\ wr' = Unlog(wr, sock)

(* What coroutine t sends when it is at "send".                            *)
Request(t) == CASE t = "connect"   -> "auth"
                [] t = "send_copy" -> "copy"
                [] OTHER           -> "none"
Copies(t) == IF t = "send_copy" THEN <<sendText>> ELSE <<>>

SendFrame(t) ==
  /\ running = t /\ pc[t] = "send"
  /\ sent' = IF t = "send_copy" THEN sendText ELSE sent
  /\ \/ /\ state # "OPEN"
        /\ Goto(t, "sentOk")
        /\ UNCHANGED <<conn, wr, shipped>>
     \/ /\ state = "OPEN"
        /\ Transmit(conn, t, Request(t), Copies(t), "sentOk", "sentErr")
  /\ UNCHANGED <<wsVars, appVars, rd, posted>>

(* A send that failed closes the websocket, with a CLOSE frame of its own. *)
SendFailed(t) ==
  /\ running = t /\ pc[t] = "sentErr"
  /\ \/ /\ state # "OPEN"
        /\ Goto(t, "sentOk")
        /\ UNCHANGED <<conn, wr, shipped>>
     \/ /\ state = "OPEN"
        /\ Transmit(conn, t, "none", <<>>, "closingOk", "closingErr")
  /\ UNCHANGED <<wsVars, appVars, rd, posted, sent>>

(* close() ends: whatever socket ws_client names by now is shut.           *)
Shut(t) ==
  /\ state' = "CLOSED"
  /\ conn' = [conn EXCEPT ![sock] = Closed(@)]
  /\ Goto(t, "sentOk")

CloseFailed(t) ==
  /\ running = t /\ pc[t] = "closingErr"
  /\ Shut(t)
  /\ UNCHANGED <<isClosing, sock, appVars, rd, wr, history>>

(* Bug: send_copy does not clear _send_text.                               *)
SendReturnedBug(t) ==
  /\ running = t /\ pc[t] = "sentOk"
  /\ Yield(t, "loop")
  /\ handler' = IF t = "connect" THEN "fresh" ELSE handler
  /\ UNCHANGED <<wsVars, conn, sendText, status, rd, wr, history>>

(* Bug: connect assigns to a handler of its own.                           *)
SendReturnedLocal(t) ==
  /\ running = t /\ pc[t] = "sentOk"
  /\ Yield(t, "loop")
  /\ sendText' = IF t = "send_copy" THEN 0 ELSE sendText
  /\ UNCHANGED <<wsVars, conn, handler, status, rd, wr, history>>

(* ws_client:send has returned to its caller.                              *)
SendReturned(t) ==
  /\ running = t /\ pc[t] = "sentOk"
  /\ Yield(t, "loop")
  /\ handler' = IF t = "connect" THEN "fresh" ELSE handler
  /\ sendText' = IF t = "send_copy" THEN 0 ELSE sendText
  /\ UNCHANGED <<wsVars, conn, status, rd, wr, history>>

----------------------------------------------------------------------------
(* Reading.  The first attempt is on ws_client.sock; a coroutine that had  *)
(* to wait tries again on the socket it waited for.                        *)

Client(t) == IF via = NoConn \/ pc[t] = "closingOk" THEN sock ELSE via

Reading(t) == running = t /\ pc[t] \in {"await", "read", "drain", "closingOk"}

(* close() sets is_closing before it reads.                                *)
MarkClosing(t) == isClosing' = (isClosing \/ pc[t] = "closingOk")

(* The connections once the next frame of socket c, if any, is read.       *)
Rest(inbox) == IF inbox = <<>> THEN inbox ELSE Tail(inbox)
Took(c) ==
  [conn EXCEPT ![c] = [conn[c] EXCEPT !.inbox = Rest(conn[c].inbox)]]

HasData(c) == conn[c].inbox # <<>>
AtEnd(c) == conn[c].inbox = <<>>
            /\ (conn[c].life # "live" \/ conn[c].net = "broken")

ReadNothing(t) ==
  /\ Reading(t)
  /\ LET c == Client(t)
     IN  /\ ~HasData(c) /\ ~AtEnd(c)
         /\ rd' = Wait(rd, t, c)
  /\ Yield(t, IF pc[t] = "closingOk" THEN "drain" ELSE pc[t])
  /\ MarkClosing(t)
  /\ UNCHANGED <<state, sock, conn, appVars, wr, history>>

(* Bug: close() returns as soon as it has an answer.                       *)
DrainedBug(t) ==
  /\ Reading(t) /\ pc[t] \in {"drain", "closingOk"}
  /\ LET c == Client(t)
     IN  /\ HasData(c) \/ AtEnd(c)
         /\ conn' = Took(c)
         /\ rd' = Unlog(rd, c)
  /\ state' = "CLOSED"
  /\ MarkClosing(t)
  /\ Goto(t, "sentOk")
  /\ UNCHANGED <<sock, appVars, wr, history>>

(* close() takes any frame for the answer to its CLOSE, and an error too.  *)
Drained(t) ==
  /\ Reading(t) /\ pc[t] \in {"drain", "closingOk"}
  /\ LET c == Client(t)
     IN  /\ HasData(c) \/ AtEnd(c)
         /\ state' = "CLOSED"
         /\ conn' = [Took(c) EXCEPT ![sock] = Closed(@)]
         /\ rd' = Unlog(rd, c)
  /\ MarkClosing(t)
  /\ Goto(t, "sentOk")
  /\ UNCHANGED <<sock, appVars, wr, history>>

----------------------------------------------------------------------------
(* connect                                                                 *)

(* The state is not OPEN: ws_client:connect puts a new socket in place.    *)
Dial ==
  /\ pc["connect"] = "loop" /\ state # "OPEN" /\ running = Idle
  /\ \E c \in Conn :
       /\ ~Waited(c)
       /\ sock' = c
       /\ conn' = [d \in Conn |->
                     IF d = c
                     THEN [Blank EXCEPT !.life = "connecting", !.net = "up"]
                     ELSE IF Waited(d) THEN conn[d] ELSE Blank]
  /\ Yield("connect", "tcp")
  /\ UNCHANGED <<state, isClosing, appVars, rd, wr, history>>

(* TCP and TLS are up and the upgrade request is out.                      *)
Secured ==
  /\ running = Idle /\ pc["connect"] = "tcp"
  /\ conn[sock].life = "connecting" /\ conn[sock].net = "up"
  /\ conn' = [conn EXCEPT ![sock].life = "live"]
  /\ Yield("connect", "await")
  /\ rd' = Wait(rd, "connect", sock)
  /\ UNCHANGED <<wsVars, appVars, wr, history>>

(* Bug: the status line is one the tray does not know.                     *)
DialFailedBug ==
  /\ status' = "Failed"
  /\ Yield("connect", "backoff")

DialFailed ==
  /\ status' = "Disconnect"
  /\ Yield("connect", "backoff")

SetupFailed ==
  /\ running = Idle /\ pc["connect"] = "tcp"
  /\ conn' = [conn EXCEPT ![sock] = Closed(@)]
  /\ DialFailed
  /\ UNCHANGED <<wsVars, handler, sendText, rd, wr, history>>

UpgradeAnswered(m) ==
  /\ Reading("connect") /\ pc["connect"] = "await" /\ HasData(Client("connect"))
  /\ LET c == Client("connect")
     IN  /\ m = Head(conn[c].inbox)
         /\ conn' = Took(c)
         /\ rd' = Unlog(rd, c)

(* connect() returns without closing the socket.                           *)
UpgradeFailed ==
  /\ \/ UpgradeAnswered("refused")
     \/ /\ Reading("connect") /\ pc["connect"] = "await"
        /\ AtEnd(Client("connect"))
        /\ rd' = Unlog(rd, Client("connect"))
        /\ UNCHANGED conn
  /\ DialFailed
  /\ UNCHANGED <<wsVars, handler, sendText, wr, history>>

(* Bug: a handler made for an earlier session is kept, and no auth sent.   *)
OpenedBug ==
  /\ UpgradeAnswered("upgrade")
  /\ state' = "OPEN" /\ status' = "Connected"
  /\ Goto("connect", "sentOk")
  /\ UNCHANGED <<isClosing, sock, handler, sendText, wr, history>>

(* Bug: a dial that works does not set the status.                         *)
OpenedSilent ==
  /\ UpgradeAnswered("upgrade")
  /\ state' = "OPEN"
  /\ Goto("connect", "send")
  /\ UNCHANGED <<isClosing, sock, appVars, wr, history>>

(* The upgrade is accepted; rpc:new_handler sends auth before it returns.  *)
Opened ==
  /\ UpgradeAnswered("upgrade")
  /\ state' = "OPEN" /\ status' = "Connected"
  /\ Goto("connect", "send")
  /\ UNCHANGED <<isClosing, sock, handler, sendText, wr, history>>


(* After the pause a failed dial falls through to the same two lines.      *)
BackoffOver ==
  /\ pc["connect"] = "backoff"
  /\ Resume("connect", "send")
  /\ status' = "Connected"
  /\ UNCHANGED <<wsVars, conn, handler, sendText, rd, wr, history>>

----------------------------------------------------------------------------
(* send_ping and send_copy                                                 *)

(* Bug: the ping is sent when the state is not OPEN.                       *)
PingBug ==
  /\ pc["send_ping"] = "loop" /\ state # "OPEN"
  /\ Resume("send_ping", "send")
  /\ UNCHANGED <<wsVars, conn, appVars, rd, wr, history>>

(* Bug: send_copy waits for the server to answer auth.                     *)
CopyBug ==
  /\ pc["send_copy"] = "loop" /\ state = "OPEN" /\ sendText # 0
  /\ handler = "authed" /\ Passwd
  /\ Resume("send_copy", "send")
  /\ UNCHANGED <<wsVars, conn, appVars, rd, wr, history>>

Ping ==
  /\ pc["send_ping"] = "loop" /\ state = "OPEN"
  /\ Resume("send_ping", "send")
  /\ UNCHANGED <<wsVars, conn, appVars, rd, wr, history>>

Copy ==
  /\ pc["send_copy"] = "loop" /\ state = "OPEN" /\ sendText # 0
  /\ handler # "none" /\ Passwd
  /\ Resume("send_copy", "send")
  /\ UNCHANGED <<wsVars, conn, appVars, rd, wr, history>>

(* handler:send_copy on a nil handler, or a digest of a nil passwd, is an  *)
(* error that ends the coroutine.                                          *)
CopyDies ==
  /\ running = Idle
  /\ pc["send_copy"] = "loop" /\ state = "OPEN" /\ sendText # 0
  /\ handler = "none" \/ ~Passwd
  /\ Yield("send_copy", "dead")
  /\ UNCHANGED <<wsVars, conn, appVars, rd, wr, history>>

----------------------------------------------------------------------------
(* handler_receive                                                         *)

Receive ==
  /\ pc["handler_receive"] = "loop" /\ state = "OPEN"
  /\ Resume("handler_receive", "read")
  /\ UNCHANGED <<wsVars, conn, appVars, rd, wr, history>>

ReceiveFrom(c) ==
  Reading("handler_receive") /\ pc["handler_receive"] = "read"
  /\ c = Client("handler_receive")

(* A frame that handler_receive deals with: a request that process carries *)
(* out or does not know, or one that is not a request.  The clipboard a    *)
(* paste writes is not part of this module; a callback it causes says it   *)
(* comes `from' the program, and is ignored.                               *)
Process(c) ==
  /\ ReceiveFrom(c) /\ HasData(c)
  /\ LET m == Head(conn[c].inbox)
     IN  \/ m = "text" /\ UNCHANGED handler
         \/ handler # "none" /\ m = "unknown" /\ UNCHANGED handler
         \/ handler # "none" /\ m = "paste" /\ Passwd /\ UNCHANGED handler
         \/ handler # "none" /\ m = "auth" /\ handler' = "authed"
  /\ conn' = Took(c)
  /\ rd' = Unlog(rd, c)
  /\ Yield("handler_receive", "loop")
  /\ UNCHANGED <<wsVars, sendText, status, wr, history>>

(* One it cannot: the handler is nil or the text does not decrypt.  The    *)
(* coroutine ends, and copas closes the socket whose event resumed it.     *)
ProcessDies(c) ==
  /\ ReceiveFrom(c) /\ HasData(c)
  /\ LET m == Head(conn[c].inbox)
     IN  /\ m \notin {"close", "text"}
         /\ handler = "none" \/ m = "bad" \/ (m = "paste" /\ ~Passwd)
  /\ conn' = IF via = NoConn THEN Took(c)
             ELSE [Took(c) EXCEPT ![c] = Closed(@)]
  /\ rd' = Unlog(rd, c)
  /\ Yield("handler_receive", "dead")
  /\ UNCHANGED <<wsVars, appVars, wr, history>>

(* A CLOSE frame: returned, and ignored, once is_closing is set; else it is*)
(* echoed, on whatever socket ws_client names by now.                      *)
ReceiveClose(c) ==
  /\ ReceiveFrom(c) /\ HasData(c) /\ Head(conn[c].inbox) = "close"
  /\ rd' = Unlog(rd, c)
  /\ \/ /\ isClosing
        /\ conn' = Took(c)
        /\ Yield("handler_receive", "loop")
        /\ UNCHANGED <<wr, shipped>>
     \/ /\ ~isClosing
        /\ Transmit(Took(c), "handler_receive", "none", <<>>, "echo", "echo")
  /\ UNCHANGED <<wsVars, appVars, posted, sent>>

(* clean(): the websocket is CLOSED and the socket it names is shut.       *)
Clean ==
  /\ state' = "CLOSED"
  /\ conn' = [conn EXCEPT ![sock] = Closed(@)]
  /\ Yield("handler_receive", "loop")
  /\ UNCHANGED <<isClosing, sock, appVars, wr, history>>

ReceiveEnd(c) ==
  /\ ReceiveFrom(c) /\ AtEnd(c)
  /\ rd' = Unlog(rd, c)
  /\ Clean

EchoDone ==
  /\ running = "handler_receive" /\ pc["handler_receive"] = "echo"
  /\ Clean /\ UNCHANGED rd

----------------------------------------------------------------------------
(* copas.step: a socket event resumes the first coroutine queued on it.    *)
(* select reports a socket only while its TLS object is there; the watchdog*)
(* ticks any socket that has been in the log for two minutes.              *)

ReadEvent(c) ==
  /\ running = Idle /\ rd.q[c] # <<>>
  /\ \/ /\ c \in rd.set /\ conn[c].life = "live"
        /\ HasData(c) \/ conn[c].net = "broken"
     \/ c \in rd.log
  /\ rd' = Wake(rd, c)
  /\ running' = Head(rd.q[c]) /\ via' = c
  /\ UNCHANGED <<wsVars, conn, appVars, pc, wr, history>>

WriteEvent(c) ==
  /\ running = Idle /\ wr.q[c] # <<>>
  /\ \/ c \in wr.set /\ conn[c].life = "live"
     \/ c \in wr.log
  /\ wr' = Wake(wr, c)
  /\ running' = Head(wr.q[c]) /\ via' = c
  /\ UNCHANGED <<wsVars, conn, appVars, pc, rd, history>>

(* Bug: the callback does not look at the handler.                         *)
NotifyBug ==
  /\ running = Idle /\ posted < MaxPost
  /\ posted' = posted + 1
  /\ sendText' = posted + 1
  /\ UNCHANGED <<wsVars, conn, handler, status, pc, running, via, rd, wr,
                 sent, shipped>>

(* on_cliboard_change, called by the accept handler of the clipboard's     *)
(* socket, which copas runs between two coroutines.                        *)
Notify ==
  /\ running = Idle /\ posted < MaxPost
  /\ posted' = posted + 1
  /\ sendText' = IF handler # "none" THEN posted + 1 ELSE sendText
  /\ UNCHANGED <<wsVars, conn, handler, status, pc, running, via, rd, wr,
                 sent, shipped>>

----------------------------------------------------------------------------
(* The network and the server.                                             *)

Fail(c) ==
  /\ running = Idle /\ conn[c].net = "up"
  /\ \E n \in FailTo :
       conn' = [conn EXCEPT ![c] = IF n = "broken" THEN Broken(@)
                                   ELSE [@ EXCEPT !.net = n]]
  /\ UNCHANGED <<wsVars, appVars, pc, running, via, rd, wr, history>>

(* TCP gives up on what it has sent and not seen acknowledged.             *)
GiveUp(c) ==
  /\ conn[c].net = "unacked"
  /\ conn' = [conn EXCEPT ![c] = Broken(@)]
  /\ UNCHANGED <<wsVars, appVars, pc, running, via, rd, wr, history>>

(* The server answers the upgrade once, then sends requests only to a      *)
(* client it has heard from.                                               *)
ServerSend(c, m) ==
  /\ running = Idle /\ conn[c].net = "up" /\ conn[c].life = "live"
  /\ Len(conn[c].inbox) < MaxInbox
  /\ IF c = sock /\ pc["connect"] = "await"
     THEN m \in Answer /\ conn[c].inbox = <<>>
     ELSE m \in ServerFrames /\ (m # "close" => conn[c].first # "none")
  /\ conn' = [conn EXCEPT ![c].inbox = Append(@, m)]
  /\ UNCHANGED <<wsVars, appVars, pc, running, via, rd, wr, history>>

----------------------------------------------------------------------------
Step(t) == SendFrame(t) \/ SendFailed(t) \/ CloseFailed(t) \/ SendReturned(t)
           \/ ReadNothing(t) \/ Drained(t)

Connect == Dial \/ Secured \/ SetupFailed \/ UpgradeFailed \/ Opened
           \/ BackoffOver

Receiving == \/ Receive \/ EchoDone
             \/ \E c \in Conn : Process(c) \/ ProcessDies(c)
                                \/ ReceiveClose(c) \/ ReceiveEnd(c)

Program == \/ \E t \in Thread : Step(t)
               \/ Connect \/ Ping \/ Copy \/ CopyDies \/ Receiving
               \/ \E c \in Conn : ReadEvent(c) \/ WriteEvent(c)
               \/ Notify

Environment == \E c \in Conn : \/ Fail(c) \/ GiveUp(c)
                               \/ \E m \in Message : ServerSend(c, m)

Next == Program \/ Environment

Spec == Init /\ [][Next]_vars

(* copas gives the processor to coroutine t.                               *)
Resumed(t) ==
  \/ t = "connect" /\ (Dial \/ Secured \/ SetupFailed \/ BackoffOver)
  \/ t = "handler_receive" /\ Receive
  \/ t = "send_copy" /\ (Copy \/ CopyDies)
  \/ t = "send_ping" /\ Ping
  \/ \E c \in Conn : (ReadEvent(c) \/ WriteEvent(c)) /\ running' = t

Fairness ==
  /\ WF_vars(running # Idle /\ Program)
  /\ \A t \in Thread : SF_vars(Resumed(t))
  /\ WF_vars(\E c \in Conn : GiveUp(c))

FairSpec == Spec /\ Fairness

----------------------------------------------------------------------------
(* Type correctness.                                                       *)
Label == {"loop", "backoff", "tcp", "await", "read", "echo", "send", "sentOk",
          "sentErr", "closingOk", "closingErr", "drain", "dead"}
Socket == [life : Life, net : Net, first : {"none", "auth", "copy"},
           buf : Seq(Nat), inbox : Seq(Message)]
SocketSet == [set : SUBSET Conn, log : SUBSET Conn, q : [Conn -> Seq(Thread)]]

TypeOK ==
  /\ state \in {"CLOSED", "OPEN"} /\ isClosing \in BOOLEAN
  /\ sock \in Conn \union {NoConn} /\ conn \in [Conn -> Socket]
  /\ handler \in {"none", "fresh", "authed"} /\ sendText \in 0..MaxPost
  /\ status \in {"Disconnect", "Connected"}
  /\ pc \in [Thread -> Label] /\ running \in Thread \union {Idle}
  /\ via \in Conn \union {NoConn}
  /\ rd \in SocketSet /\ wr \in SocketSet
  /\ posted \in 0..MaxPost /\ sent \in 0..MaxPost /\ shipped \in Seq(Nat)

(* The first request the server reads on any connection is auth: main.lua  *)
(* has rpc:new_handler send it before anything can yield to send_copy,     *)
(* however sends fail, yield and are flushed later.                        *)
AuthFirst == \A c \in Conn : conn[c].first # "copy"

(* _send_text is only set once there is a handler, so send_copy never      *)
(* calls a nil handler; without that, only a missing passwd can end it.    *)
TextNeedsHandler == /\ sendText # 0 => handler # "none"
                    /\ Passwd => pc["send_copy"] # "dead"

(* A socket that carried a request and still works is ws_client's, and     *)
(* ws_client says it is OPEN: whatever coroutine closes the websocket,     *)
(* late or twice, no session is left behind on the server, and none is     *)
(* replaced while it works.                                                *)
OneSession == \A c \in Conn :
                conn[c].first # "none" => c = sock /\ state = "OPEN"

(* The tray never says Disconnect over an open session.                    *)
StatusDisconnect == status = "Disconnect" => state # "OPEN"

(* The handler is nil over an open session only while connect is inside    *)
(* the very first auth: the window in which handler_receive calls nil.     *)
Greeting == pc["connect"] \in {"send", "sentOk", "sentErr", "closingOk",
                               "closingErr", "drain"}
NilHandler == state = "OPEN" /\ handler = "none" => Greeting

(* The copies the server receives are a growing choice of the notified     *)
(* texts: none twice, none after a newer one.                              *)
Up == INSTANCE Uplink WITH offered <- posted, received <- shipped
Uplinked == Up!UplinkSpec

(* The text that send_copy is inside the send of.                          *)
Inside == IF pc["send_copy"] \in {"sentOk", "sentErr", "closingOk",
                                  "closingErr", "drain"}
          THEN sent ELSE 0

(* What becomes of a text depends on nothing else that the session does:   *)
(* it is kept if there is a handler, handed over once, and received then or*)
(* before send_copy is back, when whatever is kept by now is forgotten.    *)
Cop == INSTANCE Copier WITH offered <- posted, greeted <- handler # "none",
                            kept <- sendText, inside <- Inside,
                            received <- shipped
Copying == Cop!CopierSpec

(* A send of t has yielded on a socket that copas will not look at: it is  *)
(* not in the log, and select does not report it.                          *)
Stranded(t) ==
  \E c \in Conn : /\ \E i \in DOMAIN wr.q[c] : wr.q[c][i] = t
                  /\ c \notin wr.log
                  /\ c \notin wr.set \/ conn[c].life # "live"

(* A send of t has failed, and the close() it makes waits for a frame of   *)
(* the server, which it does without a limit.                              *)
InClose(t) == pc[t] = "drain"


(* A session whose peer has vanished is CLOSED: send_ping makes TCP give   *)
(* up.  There are two ways out, and both take send_ping away for ever: its *)
(* send at main.lua:86 yields behind that of another coroutine, which takes*)
(* the socket out of copas' set, or out of its log before it is closed; or *)
(* the send fails and its close(), by now on a newer session, gets no      *)
(* answer.                                                                 *)
HalfOpenNoticed == \/ []<>(state = "CLOSED" \/ conn[sock].net = "up")
                   \/ <>[](Stranded("send_ping") \/ InClose("send_ping"))

(* A text does not wait for ever in an open session: send_copy hands it    *)
(* over.  The ways out are those of send_ping: the send at main.lua:97     *)
(* yields behind that of another coroutine, such as connect's auth, and is *)
(* not resumed, or it fails and the close() that follows gets no answer.   *)
TextLeaves == \/ []<>(sendText = 0 \/ state = "CLOSED")
              \/ <>[](Stranded("send_copy") \/ InClose("send_copy"))

(* What the help says of -i: the text given is read into the server; so    *)
(* send_copy may forget a text only when it has handed that text over.     *)
NoSilentDrop == [][sendText # 0 /\ sendText' = 0 => sendText = sent]_vars

(* What the tray says: Connected is shown over an open session, or over    *)
(* one that has been lost since; not over a dial that failed.              *)
StatusHonest ==
  [][status # "Connected" /\ status' = "Connected" => state' = "OPEN"]_vars

(* What the help says of -o, it prints the oclip server: the coroutine     *)
(* that follows the server outlives everything a good server sends.        *)
ServerIsHeard == pc["handler_receive"] # "dead"
=============================================================================
