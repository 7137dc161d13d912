------------------------------- MODULE Relay -------------------------------
(***************************************************************************)
(* Several machines, each with a clipboard file and a daemon, and the      *)
(* server between them: a text copied on one is pasted on others, which    *)
(* convert its line ends.  Session and Clipboard look inside a daemon and a*)
(* machine; here their parts meet.  A machine's daemon is reduced to what  *)
(* both have of it: the knocks it has not accepted, and Copier.            *)
(***************************************************************************)
EXTENDS Naturals, Newline

CONSTANTS
  Machine,
  Char,     \* the characters
  Text,     \* what users may copy
  Mode,     \* each machine's crlf setting
  MaxCopy   \* bound: how often the users of each machine copy

ASSUME RelayAssumption ==
  /\ {CR, LF} \subseteq Char /\ Text \subseteq Seq(Char)
  /\ MaxCopy \in [Machine -> Nat]

VARIABLES
  clip,      \* each machine's clipboard file
  backlog,   \* knocks that its daemon has not accepted
  handler,   \* whether the daemon has a handler
  kept,      \* _send_text, with its number: a set that holds at most one
  sending,   \* the one that send_copy is inside the send of, the same way
  down,      \* the texts on their way from the server
  taken,     \* history: the texts the daemon has read after a knock
  log,       \* history: the numbers of those the server has received
  copied,    \* history: what users have copied, and where
  knocks     \* history: how often

history == <<taken, log, copied, knocks>>
vars == <<clip, backlog, handler, kept, sending, down, history>>

Init ==
  /\ clip = [m \in Machine |-> <<>>]
  /\ backlog = [m \in Machine |-> 0]
  /\ handler = [m \in Machine |-> FALSE]
  /\ kept = [m \in Machine |-> {}]
  /\ sending = [m \in Machine |-> {}]
  /\ down = [m \in Machine |-> <<>>]
  /\ taken = [m \in Machine |-> 0]
  /\ log = [m \in Machine |-> <<>>]
  /\ copied = {} /\ knocks = [m \in Machine |-> 0]

(* A user copies: oclip -i writes the file, then knocks.  A paste between  *)
(* the two does what it does between the knock and the accept.             *)
Copy(m, t) ==
  /\ knocks[m] < MaxCopy[m]
  /\ knocks' = [knocks EXCEPT ![m] = @ + 1]
  /\ clip' = [clip EXCEPT ![m] = t]
  /\ backlog' = [backlog EXCEPT ![m] = @ + 1]
  /\ copied' = copied \union {<<m, t>>}
  /\ UNCHANGED <<handler, kept, sending, down, taken, log>>

(* connect has greeted the server for the first time.                      *)
Greet(m) ==
  /\ ~handler[m]
  /\ handler' = [handler EXCEPT ![m] = TRUE]
  /\ UNCHANGED <<clip, backlog, kept, sending, down, history>>

(* Bug: the file is read though nobody has knocked.                        *)
AcceptBug(m) ==
  /\ backlog' = [backlog EXCEPT ![m] = @ - 1]
  /\ taken' = [taken EXCEPT ![m] = @ + 1]
  /\ kept' = [kept EXCEPT ![m] =
                IF handler[m] THEN {[n |-> taken[m] + 1, text |-> clip[m]]}
                ELSE @]
  /\ UNCHANGED <<clip, handler, sending, down, log, copied, knocks>>

(* The file is read after a knock, and its text kept if there is a handler.*)
Accept(m) ==
  /\ backlog[m] > 0
  /\ backlog' = [backlog EXCEPT ![m] = @ - 1]
  /\ taken' = [taken EXCEPT ![m] = @ + 1]
  /\ kept' = [kept EXCEPT ![m] =
                IF handler[m] THEN {[n |-> taken[m] + 1, text |-> clip[m]]}
                ELSE @]
  /\ UNCHANGED <<clip, handler, sending, down, log, copied, knocks>>

(* The texts that a machine has offered, and those the server has of it.   *)
Up(m) == INSTANCE Uplink WITH offered <- taken[m], received <- log[m]

(* The server receives text k of machine m and sends it to whom it likes.  *)
Deliver(m, k) ==
  /\ log' = [log EXCEPT ![m] = Append(@, k.n)]
  /\ \E to \in SUBSET Machine :
       down' = [x \in Machine |-> IF x \in to THEN Append(down[x], k.text)
                                  ELSE down[x]]

(* send_copy hands the text over.                                          *)
Send(m) ==
  /\ sending[m] = {}
  /\ sending' = [sending EXCEPT ![m] = kept[m]]
  /\ \E k \in kept[m] : UNCHANGED <<log, down>> \/ Deliver(m, k)
  /\ UNCHANGED <<clip, backlog, handler, kept, taken, copied, knocks>>

(* A text that was left in a buffer goes out with a later frame.           *)
Arrive(m) ==
  /\ \E k \in sending[m] : Up(m)!Newest < k.n /\ Deliver(m, k)
  /\ UNCHANGED <<clip, backlog, handler, kept, sending, taken, copied, knocks>>

(* Bug: the text is not cleared when it has been sent.                     *)
SentBug(m) ==
  /\ sending[m] # {}
  /\ sending' = [sending EXCEPT ![m] = {}]
  /\ UNCHANGED <<clip, backlog, handler, kept, down, history>>

(* The send is over, and the text that is kept by now is cleared.          *)
Sent(m) ==
  /\ sending[m] # {}
  /\ sending' = [sending EXCEPT ![m] = {}]
  /\ kept' = [kept EXCEPT ![m] = {}]
  /\ UNCHANGED <<clip, backlog, handler, down, history>>

(* Bug: settext does not say that the change is the program's own.         *)
PasteBug(m) ==
  /\ down[m] # <<>>
  /\ LET text == Converted(Mode[m], Head(down[m]))
     IN  /\ clip' = [clip EXCEPT ![m] = text]
         /\ kept' = [kept EXCEPT ![m] = {[n |-> taken[m] + 1, text |-> text]}]
  /\ taken' = [taken EXCEPT ![m] = @ + 1]
  /\ down' = [down EXCEPT ![m] = Tail(@)]
  /\ UNCHANGED <<backlog, handler, sending, log, copied, knocks>>

(* A paste writes the file; on_cliboard_change, told that the change is    *)
(* the program's own, keeps nothing.                                       *)
Paste(m) ==
  /\ down[m] # <<>>
  /\ clip' = [clip EXCEPT ![m] = Converted(Mode[m], Head(down[m]))]
  /\ down' = [down EXCEPT ![m] = Tail(@)]
  /\ UNCHANGED <<backlog, handler, kept, sending, history>>

(* The machine's session is lost, with what was on its way.                *)
Break(m) ==
  /\ down[m] # <<>>
  /\ down' = [down EXCEPT ![m] = <<>>]
  /\ UNCHANGED <<clip, backlog, handler, kept, sending, history>>

(* The machine's daemon has ended and been started again.                  *)
Restart(m) ==
  /\ handler[m]
  /\ backlog' = [backlog EXCEPT ![m] = 0]
  /\ handler' = [handler EXCEPT ![m] = FALSE]
  /\ kept' = [kept EXCEPT ![m] = {}]
  /\ sending' = [sending EXCEPT ![m] = {}]
  /\ down' = [down EXCEPT ![m] = <<>>]
  /\ UNCHANGED <<clip, history>>

Next == \E m \in Machine : \/ \E t \in Text : Copy(m, t)
                           \/ Greet(m) \/ Accept(m) \/ Send(m) \/ Arrive(m)
                           \/ Sent(m) \/ Paste(m) \/ Break(m) \/ Restart(m)

Spec == Init /\ [][Next]_vars

----------------------------------------------------------------------------
TypeOK ==
  /\ clip \in [Machine -> Seq(Char)]
  /\ backlog \in [Machine -> Nat] /\ handler \in [Machine -> BOOLEAN]
  /\ kept \in [Machine -> SUBSET [n : Nat, text : Seq(Char)]]
  /\ sending \in [Machine -> SUBSET [n : Nat, text : Seq(Char)]]
  /\ down \in [Machine -> Seq(Seq(Char))]
  /\ taken \in [Machine -> Nat] /\ log \in [Machine -> Seq(Nat)]
  /\ copied \in SUBSET (Machine \X Text) /\ knocks \in [Machine -> Nat]

(* Machines do not echo each other's texts for ever: a machine never gives *)
(* the server more texts than its own users have copied, though a paste    *)
(* that lands between a knock and its accept is read back and sent.        *)
NoEcho == \A m \in Machine : Len(log[m]) <= knocks[m]

(* Texts that go round through machines of both kinds keep their line ends:*)
(* where a machine has a mode, what it pastes is what it would paste had it*)
(* got the text from the user, however many machines it has been through.  *)
LinesKept ==
  \A m \in Machine : Mode[m] \in {"lf", "crlf"} =>
    \/ clip[m] = <<>> \/ <<m, clip[m]>> \in copied
    \/ \E c \in copied : clip[m] = Converted(Mode[m], c[2])

(* A machine's daemon handles the texts as Copier has it, as the Session of*)
(* a single daemon does: here over restarts, too.                          *)
Number(ks) == IF ks = {} THEN 0 ELSE (CHOOSE k \in ks : TRUE).n
Cop(m) == INSTANCE Copier WITH offered <- taken[m], greeted <- handler[m],
                               kept <- Number(kept[m]),
                               inside <- Number(sending[m]),
                               received <- log[m]
AllCopiers ==
  /\ \A m \in Machine : Cop(m)!Init
  /\ [][\A m \in Machine : [Cop(m)!Next]_(Cop(m)!vars)]_vars
=============================================================================
