------------------------------ MODULE Desktop ------------------------------
(***************************************************************************)
(* What daemons leave on a desktop: the temporary files of the CA bundle,  *)
(* the icon and the tray's scripts, and the link that starts oclip with    *)
(* the session, against the check mark each daemon's menu shows for it.    *)
(*                                                                         *)
(* On Linux the tray's functions do nothing, and the loop does not end.    *)
(***************************************************************************)
EXTENDS Naturals, FiniteSets

CONSTANTS
  Daemon,    \* runs of main.lua, at once or one after another
  Name,      \* names os.tmpname may return
  Nowhere,   \* no name
  Bundled,   \* cacert.pem in the working directory
  Platform,  \* whether the platform may, may not, be Linux
  MaxFault,  \* bound: file operations and scripts that fail
  MaxOther   \* bound: files and links that others remove or make

ASSUME DesktopAssumption ==
  /\ Nowhere \notin Name /\ Bundled \notin Name /\ Nowhere # Bundled
  /\ Platform \subseteq BOOLEAN
  /\ MaxFault \in Nat /\ MaxOther \in Nat

VARIABLES
  linux,    \* the platform
  bundled,  \* is there a cacert.pem in the working directory?
  file,     \* what each temporary file holds
  link,     \* is there an oclip.lnk in the Startup folder?
  main,     \* where each daemon is
  ca,       \* cafile's fname
  icon,     \* icon's icon_file
  vbs,      \* execute_vbs' fname
  mark,     \* the check mark of the menu
  orphan,   \* history: files whose daemon was ended, or could not remove them
  alone,    \* history: since the daemon read the link nobody else has touched
            \* it, and its own commands have worked
  faults, others

place == <<linux, bundled>>
counts == <<faults, others>>
vars == <<place, file, link, main, ca, icon, vbs, mark, orphan, alone, counts>>

Init ==
  /\ linux \in Platform /\ bundled \in BOOLEAN
  /\ file = [n \in Name |-> "none"] /\ link \in BOOLEAN
  /\ main = [d \in Daemon |-> "off"]
  /\ ca = [d \in Daemon |-> Bundled]
  /\ icon = [d \in Daemon |-> Nowhere] /\ vbs = icon
  /\ mark = [d \in Daemon |-> FALSE]
  /\ orphan = {} /\ alone = [d \in Daemon |-> FALSE]
  /\ faults = 0 /\ others = 0

Running(d) == main[d] \notin {"off", "gone"}
Owned(d) == {ca[d], icon[d], vbs[d]} \cap Name

(* os.tmpname, then io.open and write, none of whose results is looked at. *)
(* On Linux tmpname has made the file, on Windows it is there if it opens. *)
Make(n, what) ==
  /\ file[n] = "none"
  /\ orphan' = orphan \ {n}
  /\ \/ file' = [file EXCEPT ![n] = what] /\ UNCHANGED faults
     \/ /\ faults < MaxFault /\ faults' = faults + 1
        /\ \/ file' = [file EXCEPT ![n] = "empty"]
           \/ ~linux /\ UNCHANGED file

(* os.remove, whose result is not looked at either.                        *)
Remove(n) ==
  \/ /\ file' = IF n \in Name THEN [file EXCEPT ![n] = "none"] ELSE file
     /\ UNCHANGED <<orphan, faults>>
  \/ /\ n \in Name /\ faults < MaxFault /\ faults' = faults + 1
     /\ orphan' = orphan \union {n}
     /\ UNCHANGED file

Goes(d, where) == main' = [main EXCEPT ![d] = where]

----------------------------------------------------------------------------
(* Bug: the menu starts with no check mark.                                *)
TrayInitBug(d) ==
  /\ main[d] = "off"
  /\ Goes(d, "setup")
  /\ \E n \in Name : Make(n, "icon") /\ icon' = [icon EXCEPT ![d] = n]
  /\ alone' = [alone EXCEPT ![d] = TRUE]
  /\ UNCHANGED <<place, link, ca, vbs, mark, others>>

(* tray_init makes the icon's file and looks for the link.                 *)
TrayInit(d) ==
  /\ main[d] = "off"
  /\ Goes(d, "setup")
  /\ \E n \in Name : Make(n, "icon") /\ icon' = [icon EXCEPT ![d] = n]
  /\ mark' = [mark EXCEPT ![d] = link]
  /\ alone' = [alone EXCEPT ![d] = TRUE]
  /\ UNCHANGED <<place, link, ca, vbs, others>>

(* clipboard_init and net_init are done.                                   *)
EnterLoop(d) ==
  /\ main[d] = "setup"
  /\ Goes(d, "loop")
  /\ UNCHANGED <<place, file, link, ca, icon, vbs, mark, orphan, alone, counts>>

(* clipboard_init raises an error, or a pkill, a crash or the end of the   *)
(* session ends the daemon anywhere: cafile.exit and icon.exit are skipped.*)
Ended(d) ==
  /\ Running(d)
  /\ Goes(d, "gone")
  /\ orphan' = orphan \union {n \in Owned(d) : file[n] # "none"}
  /\ UNCHANGED <<place, file, link, ca, icon, vbs, mark, alone, counts>>

(* Bug: every dial makes a file.                                           *)
CafileGetBug(d) ==
  /\ main[d] = "loop"
  /\ \E n \in Name : Make(n, "ca") /\ ca' = [ca EXCEPT ![d] = n]
  /\ UNCHANGED <<place, link, main, icon, vbs, mark, alone, others>>

(* Bug: the name is forgotten when the file could not be written.          *)
CafileForgetBug(d) ==
  /\ main[d] = "loop"
  /\ IF ca[d] = Bundled THEN ~bundled ELSE file[ca[d]] = "none"
  /\ \E n \in Name : /\ Make(n, "ca")
                     /\ ca' = [ca EXCEPT ![d] = IF file'[n] = "ca" THEN n
                                                                 ELSE Nowhere]
  /\ UNCHANGED <<place, link, main, icon, vbs, mark, alone, others>>

(* cafile.get, as connect calls it for a dial: the name it has is kept as  *)
(* long as there is such a file, whatever is in it.                        *)
CafileGet(d) ==
  /\ main[d] = "loop"
  /\ IF ca[d] = Bundled THEN ~bundled ELSE file[ca[d]] = "none"
  /\ \E n \in Name : Make(n, "ca") /\ ca' = [ca EXCEPT ![d] = n]
  /\ UNCHANGED <<place, link, main, icon, vbs, mark, alone, others>>

----------------------------------------------------------------------------
(* The tray's callbacks, which tray.loop calls.                            *)

(* execute_vbs: the script is written, and the daemon waits for it.        *)
Script(d, what) ==
  /\ Goes(d, what)
  /\ \E n \in Name : /\ Make(n, "script") /\ file'[n] = "script"
                     /\ vbs' = [vbs EXCEPT ![d] = n]

OpenFile(d) ==
  /\ ~linux /\ main[d] = "loop"
  /\ Script(d, "opening")
  /\ UNCHANGED <<place, link, ca, icon, mark, alone, others>>

SetAutoStartup(d) ==
  /\ ~linux /\ main[d] = "loop" /\ ~mark[d]
  /\ mark' = [mark EXCEPT ![d] = TRUE]
  /\ Script(d, "linking")
  /\ UNCHANGED <<place, link, ca, icon, alone, others>>

(* The link is TRUE or FALSE from now on, by the doing of d; ok says       *)
(* whether what d meant to do has worked.                                  *)
Touch(d, now, ok) ==
  /\ link' = now
  /\ alone' = [e \in Daemon |-> alone[e] /\ IF e = d THEN ok ELSE now = link]

(* wscript has run, or has failed to; then its file is removed.            *)
ScriptDone(d) ==
  /\ main[d] \in {"opening", "linking"}
  /\ Goes(d, "loop")
  /\ Remove(vbs[d])
  /\ vbs' = [vbs EXCEPT ![d] = Nowhere]
  /\ IF main[d] = "opening" THEN UNCHANGED <<link, alone>>
     ELSE Touch(d, TRUE, TRUE) \/ Touch(d, link, FALSE)
  /\ UNCHANGED <<place, ca, icon, mark, others>>

UnsetAutoStartup(d) ==
  /\ ~linux /\ main[d] = "loop" /\ mark[d]
  /\ mark' = [mark EXCEPT ![d] = FALSE]
  /\ Touch(d, FALSE, TRUE) \/ Touch(d, link, FALSE)
  /\ UNCHANGED <<place, file, main, ca, icon, vbs, orphan, counts>>

(* Quit: tray.exit makes tray.loop answer -1, and main leaves its loop.    *)
Quit(d) ==
  /\ ~linux /\ main[d] = "loop"
  /\ Goes(d, "leaving")
  /\ UNCHANGED <<place, file, link, ca, icon, vbs, mark, orphan, alone, counts>>

CafileExit(d) ==
  /\ main[d] = "leaving"
  /\ Goes(d, "left")
  /\ Remove(ca[d])
  /\ UNCHANGED <<place, link, ca, icon, vbs, mark, alone, others>>

IconExit(d) ==
  /\ main[d] = "left"
  /\ Goes(d, "gone")
  /\ Remove(icon[d])
  /\ UNCHANGED <<place, link, ca, icon, vbs, mark, alone, others>>

----------------------------------------------------------------------------
(* Others: something cleans the temporary folder; the user, or the         *)
(* installer, makes or removes the link.                                   *)
Clean(n) ==
  /\ file[n] # "none" /\ others < MaxOther /\ others' = others + 1
  /\ file' = [file EXCEPT ![n] = "none"]
  /\ orphan' = orphan \ {n}
  /\ UNCHANGED <<place, link, main, ca, icon, vbs, mark, alone, faults>>

ChangeLink ==
  /\ others < MaxOther /\ others' = others + 1
  /\ link' = ~link
  /\ alone' = [d \in Daemon |-> FALSE]
  /\ UNCHANGED <<place, file, main, ca, icon, vbs, mark, orphan, faults>>

Next ==
  \/ \E d \in Daemon : \/ TrayInit(d) \/ EnterLoop(d) \/ Ended(d) \/ CafileGet(d)
                       \/ OpenFile(d) \/ SetAutoStartup(d) \/ ScriptDone(d)
                       \/ UnsetAutoStartup(d) \/ Quit(d) \/ CafileExit(d)
                       \/ IconExit(d)
  \/ \E n \in Name : Clean(n)
  \/ ChangeLink

Spec == Init /\ [][Next]_vars

----------------------------------------------------------------------------
TypeOK ==
  /\ linux \in BOOLEAN /\ bundled \in BOOLEAN /\ link \in BOOLEAN
  /\ file \in [Name -> {"none", "empty", "ca", "icon", "script"}]
  /\ main \in [Daemon -> {"off", "setup", "loop", "opening", "linking",
                          "leaving", "left", "gone"}]
  /\ ca \in [Daemon -> Name \union {Bundled}]
  /\ icon \in [Daemon -> Name \union {Nowhere}]
  /\ vbs \in [Daemon -> Name \union {Nowhere}]
  /\ mark \in [Daemon -> BOOLEAN] /\ alone \in [Daemon -> BOOLEAN]
  /\ orphan \in SUBSET Name
  /\ faults \in 0..MaxFault /\ others \in 0..MaxOther

(* A daemon that quits leaves no temporary file: every one there belongs to*)
(* a daemon that runs, or one that was ended or could not remove it.  It   *)
(* takes cafile's changing names, and a name that two daemons have come to *)
(* share, to get this wrong.                                               *)
NothingLeft ==
  \A n \in Name : file[n] # "none" =>
    n \in orphan \/ \E d \in Daemon : Running(d) /\ n \in Owned(d)

(* The check mark tells the truth about the link, however often it is      *)
(* toggled, as long as nobody else touches the link and nothing fails.     *)
MarkTrue ==
  \A d \in Daemon : main[d] \in {"setup", "loop", "opening"} /\ alone[d] =>
                      mark[d] = link
=============================================================================
