----------------------------- MODULE Clipboard -----------------------------
(***************************************************************************)
(* The clipboard of a Linux desktop: the file ~/.oclip.clip, the processes *)
(* `oclip -i' that write it and knock on the daemon's port, the script     *)
(* that starts a daemon when nobody answers, and the daemons themselves,   *)
(* which read the file when knocked and write it when the server pastes.   *)
(*                                                                         *)
(* Each Client is one run of `oclip -i'; its shell and the daemon that the *)
(* shell starts bear its name.  A text is a sequence of blocks, so that    *)
(* two writers without a lock can leave a mixture in the file.             *)
(***************************************************************************)
EXTENDS Naturals, Sequences

CONSTANTS
  Client,    \* runs of oclip -i
  First,     \* the daemon that may be running from the start
  Server,    \* the author of what the server pastes
  Size,      \* the blocks in the text of each writer
  Running,   \* whether First may, may not, be running when it all starts
  MaxPaste,  \* bound: pastes in a behaviour
  MaxCrash   \* bound: daemons that end by themselves in a behaviour

Writer == Client \union {Server}
Daemon == Client \union {First}

ASSUME ClipboardAssumption ==
  /\ First \notin Client /\ Server \notin Client
  /\ Size \in [Writer -> Nat \ {0}]
  /\ Running \subseteq BOOLEAN
  /\ MaxPaste \in Nat /\ MaxCrash \in Nat

VARIABLES
  file,     \* ~/.oclip.clip; a missing file reads like an empty one
  last,     \* history: who opened or wrote it last
  script,   \* ~/.oclip.run.sh: has it its four commands?
  cli,      \* what each oclip -i is about to do
  sh,       \* what each shell that runs the script is about to do
  daemon,   \* the daemon processes
  backlog,  \* connections that the serving daemon has not accepted
  handler,  \* whether its main.lua has a handler
  pasting,  \* whether it is inside a settext
  handed,   \* history: the last text put in _send_text
  wanted,   \* history: a client found no daemon, and none has ended since
  pastes, crashes

server == <<backlog, handler, pasting>>
counts == <<pastes, crashes>>
vars == <<file, last, script, cli, sh, daemon, server, handed, wanted, counts>>

Text(w) == [i \in 1..Size[w] |-> w]

(* Writing t from the start of a file that holds old.                      *)
Over(t, old) == t \o SubSeq(old, Len(t) + 1, Len(old))

Serving == {d \in Daemon : daemon[d] = "serving"}

Init ==
  /\ file = <<>> /\ last = Server /\ script = "empty"
  /\ cli = [c \in Client |-> "start"]
  /\ sh = [c \in Client |-> "none"]
  /\ handler \in Running
  /\ daemon = [d \in Daemon |-> IF d = First /\ handler THEN "serving"
                                ELSE "none"]
  /\ backlog = 0 /\ pasting = FALSE
  /\ handed = <<>> /\ wanted = FALSE
  /\ pastes = 0 /\ crashes = 0

----------------------------------------------------------------------------
(* oclip -i: settext, then connect_master, then perhaps start_master.      *)

Open(c) ==
  /\ cli[c] = "start"
  /\ cli' = [cli EXCEPT ![c] = "opened"]
  /\ file' = <<>> /\ last' = c
  /\ UNCHANGED <<script, sh, daemon, server, handed, wanted, counts>>

Write(c) ==
  /\ cli[c] = "opened"
  /\ cli' = [cli EXCEPT ![c] = "written"]
  /\ file' = Over(Text(c), file) /\ last' = c
  /\ UNCHANGED <<script, sh, daemon, server, handed, wanted, counts>>

Knock(c) ==
  /\ cli[c] = "written" /\ Serving # {}
  /\ cli' = [cli EXCEPT ![c] = "done"]
  /\ backlog' = backlog + 1
  /\ UNCHANGED <<file, last, script, sh, daemon, handler, pasting, handed,
                 wanted, counts>>

(* Nobody answers: the script is opened, which empties it...               *)
NoMaster(c) ==
  /\ cli[c] = "written" /\ Serving = {}
  /\ cli' = [cli EXCEPT ![c] = "scripting"]
  /\ script' = "empty" /\ wanted' = TRUE
  /\ UNCHANGED <<file, last, sh, daemon, server, handed, counts>>

(* Bug: the script is closed only after it has been handed to the shell.   *)
LaunchBug(c) ==
  /\ cli[c] = "scripting"
  /\ cli' = [cli EXCEPT ![c] = "done"]
  /\ sh' = [sh EXCEPT ![c] = "forked"]
  /\ UNCHANGED <<file, last, script, daemon, server, handed, wanted, counts>>

(* ... and closed, which writes it, before a shell is started with it.     *)
Launch(c) ==
  /\ cli[c] = "scripting"
  /\ cli' = [cli EXCEPT ![c] = "done"]
  /\ script' = "full"
  /\ sh' = [sh EXCEPT ![c] = "forked"]
  /\ UNCHANGED <<file, last, daemon, server, handed, wanted, counts>>

----------------------------------------------------------------------------
(* The script: pkill oclip; nohup oclip &; sleep 1; oclip -c.              *)

ReadScript(c) ==
  /\ sh[c] = "forked"
  /\ sh' = [sh EXCEPT ![c] = IF script = "full" THEN "pkill" ELSE "done"]
  /\ UNCHANGED <<file, last, script, cli, daemon, server, handed, wanted,
                 counts>>

(* pkill ends every process called oclip: daemons, oclip -i, oclip -c.     *)
Pkill(c) ==
  /\ sh[c] = "pkill"
  /\ sh' = [d \in Client |-> IF d = c THEN "nohup"
                             ELSE IF sh[d] = "calling" THEN "done" ELSE sh[d]]
  /\ cli' = [d \in Client |->
               IF cli[d] \in {"start", "done"} THEN cli[d] ELSE "killed"]
  /\ daemon' = [d \in Daemon |->
                  IF daemon[d] = "none" THEN "none" ELSE "dead"]
  /\ backlog' = 0 /\ handler' = FALSE /\ pasting' = FALSE
  /\ UNCHANGED <<file, last, script, handed, wanted, counts>>

Nohup(c) ==
  /\ sh[c] = "nohup"
  /\ sh' = [sh EXCEPT ![c] = "sleep"]
  /\ daemon' = [daemon EXCEPT ![c] = "starting"]
  /\ UNCHANGED <<file, last, script, cli, server, handed, wanted, counts>>

Call(c) ==
  /\ sh[c] = "sleep"
  /\ sh' = [sh EXCEPT ![c] = "calling"]
  /\ UNCHANGED <<file, last, script, cli, daemon, server, handed, wanted,
                 counts>>

(* Bug: oclip -c does what -i does when nobody answers.                    *)
CalledBug(c) ==
  /\ sh[c] = "calling"
  /\ sh' = [sh EXCEPT ![c] = IF Serving = {} THEN "forked" ELSE "done"]
  /\ backlog' = IF Serving = {} THEN backlog ELSE backlog + 1
  /\ UNCHANGED <<file, last, script, cli, daemon, handler, pasting, handed,
                 wanted, counts>>

(* oclip -c knocks if it can, and does not look at the answer.             *)
Called(c) ==
  /\ sh[c] = "calling"
  /\ sh' = [sh EXCEPT ![c] = "done"]
  /\ backlog' = IF Serving = {} THEN backlog ELSE backlog + 1
  /\ UNCHANGED <<file, last, script, cli, daemon, handler, pasting, handed,
                 wanted, counts>>

----------------------------------------------------------------------------
(* A daemon.                                                               *)

(* It binds the port, or the assert ends it because another one has.       *)
Bind(d) ==
  /\ daemon[d] = "starting"
  /\ daemon' = [daemon EXCEPT ![d] =
                  IF Serving = {} THEN "serving" ELSE "dead"]
  /\ UNCHANGED <<file, last, script, cli, sh, server, handed, wanted, counts>>

(* connect has its first handler, some time after the port is open.        *)
NewHandler ==
  /\ Serving # {} /\ ~handler /\ ~pasting
  /\ handler' = TRUE
  /\ UNCHANGED <<file, last, script, cli, sh, daemon, backlog, pasting, handed,
                 wanted, counts>>

(* Bug: a text that waits to be sent is not replaced.                      *)
AcceptBug ==
  /\ backlog > 0 /\ ~pasting
  /\ backlog' = backlog - 1
  /\ handed' = IF handler /\ handed = <<>> THEN file ELSE handed
  /\ UNCHANGED <<file, last, script, cli, sh, daemon, handler, pasting,
                 wanted, counts>>

(* Bug: the accept handler runs when nobody has knocked.                   *)
AcceptSpurious ==
  /\ ~pasting
  /\ backlog' = backlog - 1
  /\ handed' = IF handler THEN file ELSE handed
  /\ UNCHANGED <<file, last, script, cli, sh, daemon, handler, pasting,
                 wanted, counts>>

(* A connection is accepted and closed, the file read, and its text kept   *)
(* for send_copy if there is a handler.                                    *)
Accept ==
  /\ backlog > 0 /\ ~pasting
  /\ backlog' = backlog - 1
  /\ handed' = IF handler THEN file ELSE handed
  /\ UNCHANGED <<file, last, script, cli, sh, daemon, handler, pasting,
                 wanted, counts>>

(* A paste of the server; the callback ignores it, since it says who it    *)
(* comes from.                                                             *)
PasteOpen ==
  /\ Serving # {} /\ handler /\ ~pasting /\ pastes < MaxPaste
  /\ pasting' = TRUE /\ pastes' = pastes + 1
  /\ file' = <<>> /\ last' = Server
  /\ UNCHANGED <<script, cli, sh, daemon, backlog, handler, handed, wanted,
                 crashes>>

PasteWrite ==
  /\ pasting
  /\ pasting' = FALSE
  /\ file' = Over(Text(Server), file) /\ last' = Server
  /\ UNCHANGED <<script, cli, sh, daemon, backlog, handler, handed, wanted,
                 counts>>

(* The serving daemon ends by itself, or the user ends it.                 *)
End(d) ==
  /\ daemon[d] = "serving" /\ crashes < MaxCrash
  /\ crashes' = crashes + 1
  /\ daemon' = [daemon EXCEPT ![d] = "dead"]
  /\ backlog' = 0 /\ handler' = FALSE /\ pasting' = FALSE
  /\ wanted' = FALSE
  /\ UNCHANGED <<file, last, script, cli, sh, handed, pastes>>

----------------------------------------------------------------------------
Next ==
  \/ \E c \in Client : \/ Open(c) \/ Write(c) \/ Knock(c) \/ NoMaster(c)
                       \/ Launch(c) \/ ReadScript(c) \/ Pkill(c) \/ Nohup(c)
                       \/ Call(c) \/ Called(c)
  \/ \E d \in Daemon : Bind(d) \/ End(d)
  \/ NewHandler \/ Accept \/ PasteOpen \/ PasteWrite

Spec == Init /\ [][Next]_vars

(* The kernel runs every process, and copas' loop accepts what knocks.     *)
Fairness ==
  /\ \A c \in Client :
       /\ WF_vars(Write(c) \/ Knock(c) \/ NoMaster(c) \/ Launch(c))
       /\ WF_vars(ReadScript(c) \/ Pkill(c) \/ Nohup(c) \/ Call(c) \/ Called(c))
  /\ \A d \in Daemon : WF_vars(Bind(d))
  /\ WF_vars(Accept) /\ WF_vars(PasteWrite)

FairSpec == Spec /\ Fairness

----------------------------------------------------------------------------
TypeOK ==
  /\ file \in Seq(Writer) /\ last \in Writer /\ script \in {"empty", "full"}
  /\ cli \in [Client -> {"start", "opened", "written", "scripting", "done",
                         "killed"}]
  /\ sh \in [Client -> {"none", "forked", "pkill", "nohup", "sleep",
                        "calling", "done"}]
  /\ daemon \in [Daemon -> {"none", "starting", "serving", "dead"}]
  /\ backlog \in Nat /\ handler \in BOOLEAN /\ pasting \in BOOLEAN
  /\ handed \in Seq(Writer) /\ wanted \in BOOLEAN
  /\ pastes \in 0..MaxPaste /\ crashes \in 0..MaxCrash

(* Nobody is half-way through anything.                                    *)
Quiet ==
  /\ \A c \in Client : /\ cli[c] \in {"start", "done", "killed"}
                       /\ sh[c] \in {"none", "done"}
  /\ \A d \in Daemon : daemon[d] # "starting"
  /\ backlog = 0 /\ ~pasting

(* A daemon that has served all along has taken up what the file ends up   *)
(* holding, whatever clients and pastes have written through each other,   *)
(* unless the server wrote last: settext is over before the knock, and a   *)
(* knock is answered with what the file holds then.                        *)
TakenUp == Quiet /\ daemon[First] = "serving" => handed = file \/ last = Server

(* A client that finds no daemon gets one started, however many scripts    *)
(* overwrite and kill each other: whoever kills starts a daemon after it,  *)
(* and a daemon gives up the port only to one that has it.                 *)
Restarted == Quiet /\ wanted => Serving # {}

(* And it comes: scripts that kill each other's daemons do not do so for   *)
(* ever, and none waits for another.                                       *)
Recovers == wanted ~> (Serving # {} \/ ~wanted)

(* What the help says of -i, of any daemon: the text given is read into    *)
(* the server, as soon as there is a session and nobody is at work.        *)
ReadIntoServer == Quiet /\ Serving # {} /\ handler =>
                    handed = file \/ last = Server
=============================================================================
