------------------------------ MODULE Settings ------------------------------
(***************************************************************************)
(* The settings file ~/.oclip and the processes that read it, each once:   *)
(* runs of oclip that the user starts (client, daemon, or any other), and  *)
(* the daemon and the `oclip -c' that the script of a client starts.       *)
(*                                                                         *)
(* get_config reads the file when the process starts and keeps the table.  *)
(* When there is no file it creates an empty one and keeps a table without *)
(* defaults.  Of the settings only the port matters here: it says where    *)
(* clients look for a daemon and where a daemon listens.                   *)
(***************************************************************************)
EXTENDS Naturals

CONSTANTS
  Run,      \* the processes the user starts
  Does,     \* what each of them is told to do
  Port,
  Default,  \* the port of a file that names none
  MaxSave   \* bound: edits of the file by the user

Missing == "missing"
Empty == "empty"
Content == {Missing, Empty} \union Port

ASSUME SettingsAssumption ==
  /\ Default \in Port /\ Port \cap {Missing, Empty, "unread", "bare"} = {}
  /\ Does \in [Run -> {"-i", "-o", "-c", "usage", "daemon"}]
  /\ MaxSave \in Nat

(* A process is a run, or what the script of a run starts.                 *)
Process == {"user", "daemon", "call"} \X Run

does == [p \in Process |-> CASE p[1] = "user" -> Does[p[2]]
                             [] p[1] = "daemon" -> "daemon"
                             [] p[1] = "call" -> "-c"]

VARIABLES
  settings,   \* the file ~/.oclip
  config,     \* each process' table: unread, none found, or its port
  at,         \* where each process is
  script,     \* ~/.oclip.run.sh: has it its four commands?
  sh,         \* what each shell that runs the script is about to do
  saved,      \* history: what the user last left in the file
  disturbed,  \* history: the user has removed the file, or saved it while
              \* a process that had found none was about to create it
  wanted,     \* history: a client has found no daemon; no save or end since
  saves

history == <<saved, disturbed, wanted, saves>>
vars == <<settings, config, at, script, sh, history>>

PortIn(s) == IF s = Empty THEN Default ELSE s

Init ==
  /\ settings \in Content
  /\ config = [p \in Process |-> "unread"]
  /\ at = [p \in Process |-> "none"]
  /\ script = "empty" /\ sh = [r \in Run |-> "none"]
  /\ saved = settings /\ disturbed = FALSE /\ wanted = FALSE /\ saves = 0

Serving(port) == {p \in Process : at[p] = "serving" /\ config[p] = port}

Goes(p, where) == at' = [at EXCEPT ![p] = where]

(* A process that ends takes its table with it.                            *)
Ends(p) == Goes(p, "ended") /\ config' = [config EXCEPT ![p] = "unread"]

(* The process has its table, and is about to use it.                      *)
Ready(p) == at[p] = "run" /\ config[p] \notin {"unread", Missing}

----------------------------------------------------------------------------
(* get_config.                                                             *)

(* Bug: the file is opened for writing, which empties it.                  *)
LoadBug(p) ==
  /\ at[p] = "run" \/ (at[p] = "none" /\ p[1] = "user")
  /\ config[p] = "unread"
  /\ config' = [config EXCEPT ![p] = Default]
  /\ settings' = Empty
  /\ Goes(p, "run")
  /\ UNCHANGED <<script, sh, history>>

(* Bug: a file that names no port leaves the process without the default.  *)
LoadRawBug(p) ==
  /\ at[p] = "run" \/ (at[p] = "none" /\ p[1] = "user")
  /\ config[p] = "unread"
  /\ config' = [config EXCEPT ![p] = settings]
  /\ Goes(p, "run")
  /\ UNCHANGED <<settings, script, sh, history>>

(* The first look at the file.  A run that has not read it has done nothing*)
(* yet, so the read is also where it starts.                               *)
Load(p) ==
  /\ at[p] = "run" \/ (at[p] = "none" /\ p[1] = "user")
  /\ config[p] = "unread"
  /\ config' = [config EXCEPT ![p] =
                  IF settings = Missing THEN Missing ELSE PortIn(settings)]
  /\ Goes(p, "run")
  /\ UNCHANGED <<settings, script, sh, history>>

(* None was found: it is created, and whatever is there by now is lost.    *)
Create(p) ==
  /\ at[p] = "run" /\ config[p] = Missing
  /\ settings' = Empty
  /\ config' = [config EXCEPT ![p] = "bare"]
  /\ UNCHANGED <<at, script, sh, history>>

----------------------------------------------------------------------------
(* What a process does with its port.                                      *)

(* tcp:connect and socket.bind raise an error when the port is nil.        *)
Raise(p) ==
  /\ Ready(p) /\ config[p] = "bare" /\ does[p] \in {"-i", "-c", "daemon"}
  /\ Ends(p)
  /\ UNCHANGED <<settings, script, sh, history>>

PrintOnly(p) ==
  /\ Ready(p) /\ does[p] \in {"-o", "usage"}
  /\ Ends(p)
  /\ UNCHANGED <<settings, script, sh, history>>

(* connect_master, for the client that does not look further.              *)
Knock(p) ==
  /\ Ready(p) /\ config[p] \in Port
  /\ \/ does[p] = "-i" /\ Serving(config[p]) # {}
     \/ does[p] = "-c"
  /\ Ends(p)
  /\ UNCHANGED <<settings, script, sh, history>>

NoMaster(p) ==
  /\ Ready(p) /\ config[p] \in Port
  /\ does[p] = "-i" /\ Serving(config[p]) = {}
  /\ Goes(p, "scripting")
  /\ script' = "empty" /\ wanted' = TRUE
  /\ UNCHANGED <<settings, config, sh, saved, disturbed, saves>>

Launch(p) ==
  /\ at[p] = "scripting"
  /\ Ends(p)
  /\ script' = "full"
  /\ sh' = [sh EXCEPT ![p[2]] = "forked"]
  /\ UNCHANGED <<settings, history>>

(* Bug: the port is shared by those who bind it.                           *)
BindBug(p) ==
  /\ Ready(p) /\ config[p] \in Port /\ does[p] = "daemon"
  /\ Goes(p, "serving")
  /\ UNCHANGED <<settings, config, script, sh, history>>

(* clipboard.init: the port is taken, or the assert ends the daemon.       *)
Bind(p) ==
  /\ Ready(p) /\ config[p] \in Port /\ does[p] = "daemon"
  /\ \/ Serving(config[p]) = {} /\ Goes(p, "serving") /\ UNCHANGED config
     \/ Serving(config[p]) # {} /\ Ends(p)
  /\ UNCHANGED <<settings, script, sh, history>>

End(p) ==
  /\ at[p] = "serving"
  /\ Ends(p)
  /\ wanted' = FALSE
  /\ UNCHANGED <<settings, script, sh, saved, disturbed, saves>>

----------------------------------------------------------------------------
(* The script: pkill oclip; nohup oclip &; sleep 1; oclip -c.              *)

ReadScript(r) ==
  /\ sh[r] = "forked"
  /\ sh' = [sh EXCEPT ![r] = IF script = "full" THEN "pkill" ELSE "done"]
  /\ UNCHANGED <<settings, config, at, script, history>>

Pkill(r) ==
  /\ sh[r] = "pkill"
  /\ sh' = [sh EXCEPT ![r] = "nohup"]
  /\ at' = [p \in Process |-> IF at[p] = "none" THEN "none" ELSE "ended"]
  /\ config' = [p \in Process |-> "unread"]
  /\ UNCHANGED <<settings, script, history>>

(* Bug: the daemon is started where it does not find the file.             *)
NohupBug(r) ==
  /\ sh[r] = "nohup"
  /\ sh' = [sh EXCEPT ![r] = "sleep"]
  /\ Goes(<<"daemon", r>>, "run")
  /\ config' = [config EXCEPT ![<<"daemon", r>>] = Default]
  /\ UNCHANGED <<settings, script, history>>

Nohup(r) ==
  /\ sh[r] = "nohup"
  /\ sh' = [sh EXCEPT ![r] = "sleep"]
  /\ Goes(<<"daemon", r>>, "run")
  /\ UNCHANGED <<settings, config, script, history>>

Call(r) ==
  /\ sh[r] = "sleep"
  /\ sh' = [sh EXCEPT ![r] = "done"]
  /\ Goes(<<"call", r>>, "run")
  /\ UNCHANGED <<settings, config, script, history>>

----------------------------------------------------------------------------
(* The user edits the file, in an editor or from the tray, or removes it.  *)
Save(s) ==
  /\ saves < MaxSave /\ s # settings
  /\ settings' = s /\ saved' = s /\ saves' = saves + 1
  /\ disturbed' = \/ disturbed \/ s = Missing
                  \/ \E p \in Process : at[p] = "run" /\ config[p] = Missing
  /\ wanted' = FALSE
  /\ UNCHANGED <<config, at, script, sh>>

Next ==
  \/ \E p \in Process : \/ Load(p) \/ Create(p) \/ Raise(p) \/ PrintOnly(p)
                        \/ Knock(p) \/ NoMaster(p) \/ Launch(p) \/ Bind(p)
                        \/ End(p)
  \/ \E r \in Run : ReadScript(r) \/ Pkill(r) \/ Nohup(r) \/ Call(r)
  \/ \E s \in Content : Save(s)

Spec == Init /\ [][Next]_vars

----------------------------------------------------------------------------
TypeOK ==
  /\ settings \in Content /\ saved \in Content
  /\ config \in [Process -> {"unread", Missing, "bare"} \union Port]
  /\ at \in [Process -> {"none", "run", "scripting", "serving", "ended"}]
  /\ script \in {"empty", "full"}
  /\ sh \in [Run -> {"none", "forked", "pkill", "nohup", "sleep", "done"}]
  /\ disturbed \in BOOLEAN /\ wanted \in BOOLEAN /\ saves \in 0..MaxSave

(* Nobody is half-way through anything.                                    *)
Quiet ==
  /\ \A p \in Process : at[p] \notin {"run", "scripting"}
  /\ \A r \in Run : sh[r] \in {"none", "done"}

(* A client that finds no daemon at its port gets one where the next client*)
(* will look, though its own port may be out of date, daemons of older     *)
(* settings may be there, and scripts kill what others have started.  A    *)
(* process that lacks a port because it has created the file does no harm. *)
Reachable ==
  Quiet /\ wanted /\ ~disturbed => Serving(PortIn(settings)) # {}

(* No process takes from the file what the user has saved, except one that *)
(* had found no file before that.                                          *)
SaveKept == ~disturbed => \/ settings = saved
                          \/ saved = Missing /\ settings = Empty

(* Only an edit of the file can leave two daemons: a first run does not    *)
(* make some processes look at one port and some at another.               *)
OneMaster == saves = 0 =>
               \A p, q \in Process :
                 at[p] = "serving" /\ at[q] = "serving" => p = q
=============================================================================
