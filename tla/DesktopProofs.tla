---------------------------- MODULE DesktopProofs ----------------------------
(***************************************************************************)
(* Theorems about Desktop, for every number of daemons, of names, of       *)
(* failures and of files and links that others touch.                      *)
(***************************************************************************)
EXTENDS Desktop, TLAPS

USE DesktopAssumption


----------------------------------------------------------------------------
(* Type correctness, first of what the file operations do.                 *)

Kinds == {"none", "empty", "ca", "icon", "script"}

LEMMA MakeType ==
  ASSUME TypeOK, NEW n \in Name, NEW what \in Kinds, Make(n, what)
  PROVE  /\ file' \in [Name -> Kinds] /\ orphan' \in SUBSET Name
         /\ faults' \in 0..MaxFault
<1>1. file \in [Name -> Kinds] /\ orphan \in SUBSET Name /\ faults \in 0..MaxFault
  BY DEF TypeOK, Kinds
<1>2. file' \in [Name -> Kinds]
  BY <1>1 DEF Make, Kinds
<1>3. faults' \in 0..MaxFault
  BY <1>1 DEF Make
<1> QED
  BY <1>1, <1>2, <1>3 DEF Make

LEMMA RemoveType ==
  ASSUME TypeOK, NEW n \in Name \union {Bundled, Nowhere}, Remove(n)
  PROVE  /\ file' \in [Name -> Kinds] /\ orphan' \in SUBSET Name
         /\ faults' \in 0..MaxFault
<1>1. file \in [Name -> Kinds] /\ orphan \in SUBSET Name /\ faults \in 0..MaxFault
  BY DEF TypeOK, Kinds
<1>2. file' \in [Name -> Kinds]
  BY <1>1 DEF Remove, Kinds
<1>3. faults' \in 0..MaxFault
  BY <1>1 DEF Remove
<1> QED
  BY <1>1, <1>2, <1>3 DEF Remove

LEMMA TouchType ==
  ASSUME TypeOK, NEW d \in Daemon, NEW now \in BOOLEAN, NEW ok \in BOOLEAN,
         Touch(d, now, ok)
  PROVE  link' \in BOOLEAN /\ alone' \in [Daemon -> BOOLEAN]
<1>1. \A e \in Daemon : alone'[e] \in BOOLEAN
  BY DEF Touch
<1>2. alone' \in [Daemon -> BOOLEAN]
  BY <1>1 DEF Touch
<1> QED
  BY <1>2 DEF Touch

LEMMA TypeStep ==
  ASSUME TypeOK, [Next]_vars
  PROVE  TypeOK'
<1> DEFINE Places == {"off", "setup", "loop", "opening", "linking", "leaving",
                      "left", "gone"}
<1>0. /\ main \in [Daemon -> Places]
      /\ ca \in [Daemon -> Name \union {Bundled}]
      /\ icon \in [Daemon -> Name \union {Nowhere}]
      /\ vbs \in [Daemon -> Name \union {Nowhere}]
      /\ mark \in [Daemon -> BOOLEAN] /\ alone \in [Daemon -> BOOLEAN]
      /\ link \in BOOLEAN
      /\ "icon" \in Kinds /\ "ca" \in Kinds /\ "script" \in Kinds
  BY DEF TypeOK, Kinds
<1> USE <1>0
<1>1. ASSUME NEW d \in Daemon, TrayInit(d) PROVE TypeOK'
  <2>1. PICK n \in Name : Make(n, "icon") /\ icon' = [icon EXCEPT ![d] = n]
    BY <1>1 DEF TrayInit
  <2>2. mark' \in [Daemon -> BOOLEAN] /\ alone' \in [Daemon -> BOOLEAN]
    BY <1>1 DEF TrayInit
  <2>3. main' \in [Daemon -> Places] /\ icon' \in [Daemon -> Name \union {Nowhere}]
    BY <1>1, <2>1 DEF TrayInit, Goes
  <2> QED
    BY <1>1, <2>1, <2>2, <2>3, MakeType DEF TypeOK, TrayInit, place, Kinds
<1>2. ASSUME NEW d \in Daemon, EnterLoop(d) \/ Quit(d) PROVE TypeOK'
  <2>1. main' \in [Daemon -> Places]
    BY <1>2 DEF EnterLoop, Quit, Goes
  <2> QED
    BY <1>2, <2>1 DEF TypeOK, EnterLoop, Quit, place, counts
<1>3. ASSUME NEW d \in Daemon, Ended(d) PROVE TypeOK'
  <2>1. main' \in [Daemon -> Places] /\ orphan' \in SUBSET Name
    BY <1>3 DEF TypeOK, Ended, Goes, Owned
  <2> QED
    BY <1>3, <2>1 DEF TypeOK, Ended, place, counts
<1>4. ASSUME NEW d \in Daemon, CafileGet(d) PROVE TypeOK'
  <2>1. PICK n \in Name : Make(n, "ca") /\ ca' = [ca EXCEPT ![d] = n]
    BY <1>4 DEF CafileGet
  <2>2. ca' \in [Daemon -> Name \union {Bundled}]
    BY <2>1
  <2> QED
    BY <1>4, <2>1, <2>2, MakeType DEF TypeOK, CafileGet, place, Kinds
<1>5. ASSUME NEW d \in Daemon, NEW what \in Places, Script(d, what),
             UNCHANGED <<place, link, ca, icon, alone, others>>,
             mark' \in [Daemon -> BOOLEAN]
      PROVE  TypeOK'
  <2>1. PICK n \in Name : Make(n, "script") /\ vbs' = [vbs EXCEPT ![d] = n]
    BY <1>5 DEF Script
  <2>2. main' \in [Daemon -> Places] /\ vbs' \in [Daemon -> Name \union {Nowhere}]
    BY <1>5, <2>1 DEF Script, Goes
  <2> QED
    BY <1>5, <2>1, <2>2, MakeType DEF TypeOK, place, Kinds
<1>6. ASSUME NEW d \in Daemon, OpenFile(d) \/ SetAutoStartup(d) PROVE TypeOK'
  <2>1. mark' \in [Daemon -> BOOLEAN]
    BY <1>6 DEF OpenFile, SetAutoStartup
  <2>2. "opening" \in Places /\ "linking" \in Places
    OBVIOUS
  <2> QED
    BY <1>5, <1>6, <2>1, <2>2 DEF OpenFile, SetAutoStartup
<1>7. ASSUME NEW d \in Daemon, ScriptDone(d) PROVE TypeOK'
  <2>1. link' \in BOOLEAN /\ alone' \in [Daemon -> BOOLEAN]
    BY <1>7, TouchType DEF ScriptDone
  <2>2. main' \in [Daemon -> Places] /\ vbs' \in [Daemon -> Name \union {Nowhere}]
    BY <1>7 DEF ScriptDone, Goes
  <2>3. Remove(vbs[d]) /\ vbs[d] \in Name \union {Bundled, Nowhere}
    BY <1>7 DEF ScriptDone
  <2> QED
    BY <1>7, <2>1, <2>2, <2>3, RemoveType DEF TypeOK, ScriptDone, place, Kinds
<1>8. ASSUME NEW d \in Daemon, UnsetAutoStartup(d) PROVE TypeOK'
  <2>1. link' \in BOOLEAN /\ alone' \in [Daemon -> BOOLEAN]
    BY <1>8, TouchType DEF UnsetAutoStartup
  <2>2. mark' \in [Daemon -> BOOLEAN]
    BY <1>8 DEF UnsetAutoStartup
  <2> QED
    BY <1>8, <2>1, <2>2 DEF TypeOK, UnsetAutoStartup, place, counts
<1>9. ASSUME NEW d \in Daemon, CafileExit(d) PROVE TypeOK'
  <2>1. main' \in [Daemon -> Places] /\ Remove(ca[d])
    BY <1>9 DEF CafileExit, Goes
  <2> QED
    BY <1>9, <2>1, RemoveType DEF TypeOK, CafileExit, place, Kinds
<1>10. ASSUME NEW d \in Daemon, IconExit(d) PROVE TypeOK'
  <2>1. main' \in [Daemon -> Places] /\ Remove(icon[d])
    BY <1>10 DEF IconExit, Goes
  <2> QED
    BY <1>10, <2>1, RemoveType DEF TypeOK, IconExit, place, Kinds
<1>11. ASSUME NEW n \in Name, Clean(n) PROVE TypeOK'
  <2>1. others' \in 0..MaxOther
    BY <1>11 DEF TypeOK, Clean
  <2>2. file' \in [Name -> Kinds] /\ orphan' \in SUBSET Name
    BY <1>11 DEF TypeOK, Clean, Kinds
  <2> QED
    BY <1>11, <2>1, <2>2 DEF TypeOK, Clean, place, Kinds
<1>12. ASSUME ChangeLink PROVE TypeOK'
  <2>1. others' \in 0..MaxOther
    BY <1>12 DEF TypeOK, ChangeLink
  <2>2. link' \in BOOLEAN /\ alone' \in [Daemon -> BOOLEAN]
    BY <1>12 DEF ChangeLink
  <2> QED
    BY <1>12, <2>1, <2>2 DEF TypeOK, ChangeLink, place
<1>13. ASSUME UNCHANGED vars PROVE TypeOK'
  BY <1>13 DEF TypeOK, vars, place, counts
<1> QED
  BY <1>1, <1>2, <1>3, <1>4, <1>6, <1>7, <1>8, <1>9, <1>10, <1>11, <1>12, <1>13
  DEF Next

LEMMA InitType == Init => TypeOK
BY DEF Init, TypeOK

(* Every state of every behaviour is well typed.                           *)
THEOREM TypeCorrect == Spec => []TypeOK
  BY InitType, TypeStep, PTL DEF Spec

----------------------------------------------------------------------------
(* A daemon that quits leaves no file.  What a daemon has a name for is not*)
(* always its own to remove any more: a name whose file it has removed may *)
(* be another daemon's by now.  Every file that is there is one that some  *)
(* daemon has still to remove, or an orphan.                               *)

ToRemove(d) ==
  {icon[d]} \union (IF main[d] = "left" THEN {} ELSE {ca[d]})
            \union (IF main[d] \in {"opening", "linking"} THEN {vbs[d]} ELSE {})

Cared(n) == n \in orphan \/ \E d \in Daemon : Running(d) /\ n \in ToRemove(d)

CaredInv == \A n \in Name : file[n] # "none" => Cared(n)

(* A file that a daemon makes, and keeps the name of, is cared for.        *)
LEMMA MadeCared ==
  ASSUME TypeOK, CaredInv, NEW d \in Daemon, NEW m \in Name, NEW what \in Kinds,
         Make(m, what), Running(d)', m \in ToRemove(d)',
         \A n \in Name : file[n] # "none" /\ n \in ToRemove(d) /\ Running(d) =>
                          n \in ToRemove(d)',
         \A e \in Daemon : e # d /\ Running(e) =>
                            Running(e)' /\ ToRemove(e)' = ToRemove(e)
  PROVE  CaredInv'
<1> SUFFICES ASSUME NEW n \in Name, file'[n] # "none" PROVE Cared(n)'
  BY DEF CaredInv
<1>1. CASE n = m
  BY <1>1 DEF Cared
<1>2. CASE n # m
  <2>1. file[n] # "none" /\ orphan' = orphan \ {m}
    BY <1>2 DEF Make, TypeOK
  <2>2. Cared(n)
    BY <2>1 DEF CaredInv
  <2> QED
    BY <1>2, <2>1, <2>2 DEF Cared
<1> QED
  BY <1>1, <1>2

(* A daemon may drop a name when it has tried to remove the file.          *)
LEMMA RemovedCared ==
  ASSUME TypeOK, CaredInv, NEW d \in Daemon,
         NEW m \in Name \union {Bundled, Nowhere}, Remove(m),
         \A n \in Name : n # m /\ Running(d) /\ n \in ToRemove(d) =>
                          Running(d)' /\ n \in ToRemove(d)',
         \A e \in Daemon : e # d /\ Running(e) =>
                            Running(e)' /\ ToRemove(e)' = ToRemove(e)
  PROVE  CaredInv'
<1> SUFFICES ASSUME NEW n \in Name, file'[n] # "none" PROVE Cared(n)'
  BY DEF CaredInv
<1>1. file[n] # "none" /\ orphan \subseteq orphan'
  BY DEF Remove, TypeOK
<1>2. Cared(n)
  BY <1>1 DEF CaredInv
<1>3. n = m => n \in orphan'
  BY DEF Remove, TypeOK
<1> QED
  BY <1>1, <1>2, <1>3 DEF Cared

(* Nothing is lost from sight while the files stay as they are.            *)
LEMMA StillCared ==
  ASSUME CaredInv, UNCHANGED file, orphan \subseteq orphan',
         \A n \in Name, d \in Daemon :
           file[n] # "none" /\ Running(d) /\ n \in ToRemove(d) =>
             n \in orphan' \/ (Running(d)' /\ n \in ToRemove(d)')
  PROVE  CaredInv'
BY DEF CaredInv, Cared

LEMMA CaredStep ==
  ASSUME TypeOK, CaredInv, [Next]_vars
  PROVE  CaredInv'
<1>0. /\ main \in [Daemon -> {"off", "setup", "loop", "opening", "linking",
                             "leaving", "left", "gone"}]
      /\ ca \in [Daemon -> Name \union {Bundled}]
      /\ icon \in [Daemon -> Name \union {Nowhere}]
      /\ vbs \in [Daemon -> Name \union {Nowhere}]
      /\ "icon" \in Kinds /\ "ca" \in Kinds /\ "script" \in Kinds
  BY DEF TypeOK, Kinds
<1> USE <1>0
<1>1. ASSUME NEW d \in Daemon, TrayInit(d) PROVE CaredInv'
  <2>1. PICK m \in Name : Make(m, "icon") /\ icon' = [icon EXCEPT ![d] = m]
    BY <1>1 DEF TrayInit
  <2>2. /\ main[d] = "off" /\ main' = [main EXCEPT ![d] = "setup"]
        /\ UNCHANGED <<ca, vbs>>
    BY <1>1 DEF TrayInit, Goes
  <2>3. Running(d)' /\ m \in ToRemove(d)' /\ ~Running(d)
    BY <2>1, <2>2 DEF Running, ToRemove
  <2>4. \A e \in Daemon : e # d /\ Running(e) =>
                             Running(e)' /\ ToRemove(e)' = ToRemove(e)
    BY <2>1, <2>2 DEF Running, ToRemove
  <2> QED
    BY <2>1, <2>3, <2>4, MadeCared
<1>2. ASSUME NEW d \in Daemon, EnterLoop(d) \/ Quit(d) PROVE CaredInv'
  <2>1. /\ UNCHANGED <<file, ca, icon, vbs, orphan>>
        /\ main[d] \in {"setup", "loop"}
        /\ \/ main' = [main EXCEPT ![d] = "loop"]
           \/ main' = [main EXCEPT ![d] = "leaving"]
    BY <1>2 DEF EnterLoop, Quit, Goes, counts
  <2>2. \A e \in Daemon : Running(e) => Running(e)' /\ ToRemove(e)' = ToRemove(e)
    BY <2>1 DEF Running, ToRemove
  <2> QED
    BY <2>1, <2>2, StillCared
<1>3. ASSUME NEW d \in Daemon, Ended(d) PROVE CaredInv'
  <2>1. /\ UNCHANGED <<file, ca, icon, vbs>>
        /\ main' = [main EXCEPT ![d] = "gone"]
        /\ orphan' = orphan \union {n \in Owned(d) : file[n] # "none"}
    BY <1>3 DEF Ended, Goes
  <2>2. \A e \in Daemon : e # d /\ Running(e) =>
                             Running(e)' /\ ToRemove(e)' = ToRemove(e)
    BY <2>1 DEF Running, ToRemove
  <2>3. \A n \in Name : n \in ToRemove(d) => n \in Owned(d)
    BY DEF ToRemove, Owned
  <2> QED
    BY <2>1, <2>2, <2>3, StillCared
<1>4. ASSUME NEW d \in Daemon, CafileGet(d) PROVE CaredInv'
  <2>1. PICK m \in Name : Make(m, "ca") /\ ca' = [ca EXCEPT ![d] = m]
    BY <1>4 DEF CafileGet
  <2>2. main[d] = "loop" /\ UNCHANGED <<main, icon, vbs>>
    BY <1>4 DEF CafileGet
  <2>3. \A n \in Name : file[n] # "none" => n # ca[d]
    BY <1>4 DEF CafileGet
  <2>4. Running(d)' /\ m \in ToRemove(d)'
    BY <2>1, <2>2 DEF Running, ToRemove
  <2>5. \A n \in Name : file[n] # "none" /\ n \in ToRemove(d) => n \in ToRemove(d)'
    BY <2>1, <2>2, <2>3 DEF ToRemove
  <2>6. \A e \in Daemon : e # d /\ Running(e) =>
                             Running(e)' /\ ToRemove(e)' = ToRemove(e)
    BY <2>1, <2>2 DEF Running, ToRemove
  <2> QED
    BY <2>1, <2>4, <2>5, <2>6, MadeCared
<1>5. ASSUME NEW d \in Daemon, OpenFile(d) \/ SetAutoStartup(d) PROVE CaredInv'
  <2>1. PICK what \in {"opening", "linking"} : Script(d, what)
    BY <1>5 DEF OpenFile, SetAutoStartup
  <2>2. PICK m \in Name : Make(m, "script") /\ vbs' = [vbs EXCEPT ![d] = m]
    BY <2>1 DEF Script
  <2>3. /\ main[d] = "loop" /\ main' = [main EXCEPT ![d] = what]
        /\ UNCHANGED <<ca, icon>>
    BY <1>5, <2>1 DEF OpenFile, SetAutoStartup, Script, Goes
  <2>4. Running(d)' /\ m \in ToRemove(d)'
    BY <2>2, <2>3 DEF Running, ToRemove
  <2>5. \A n \in Name : n \in ToRemove(d) => n \in ToRemove(d)'
    BY <2>3 DEF ToRemove
  <2>6. \A e \in Daemon : e # d /\ Running(e) =>
                             Running(e)' /\ ToRemove(e)' = ToRemove(e)
    BY <2>2, <2>3 DEF Running, ToRemove
  <2> QED
    BY <2>2, <2>4, <2>5, <2>6, MadeCared
<1>6. ASSUME NEW d \in Daemon, ScriptDone(d) PROVE CaredInv'
  <2>1. /\ Remove(vbs[d]) /\ vbs' = [vbs EXCEPT ![d] = Nowhere]
        /\ main[d] \in {"opening", "linking"}
        /\ main' = [main EXCEPT ![d] = "loop"] /\ UNCHANGED <<ca, icon>>
    BY <1>6 DEF ScriptDone, Goes
  <2>2. /\ Running(d)'
        /\ \A n \in Name : n # vbs[d] /\ n \in ToRemove(d) => n \in ToRemove(d)'
    BY <2>1 DEF Running, ToRemove
  <2>3. \A e \in Daemon : e # d /\ Running(e) =>
                             Running(e)' /\ ToRemove(e)' = ToRemove(e)
    BY <2>1 DEF Running, ToRemove
  <2>4. vbs[d] \in Name \union {Bundled, Nowhere}
    OBVIOUS
  <2> QED
    BY <2>1, <2>2, <2>3, <2>4, RemovedCared
<1>7. ASSUME NEW d \in Daemon, CafileExit(d) PROVE CaredInv'
  <2>1. /\ Remove(ca[d]) /\ main[d] = "leaving"
        /\ main' = [main EXCEPT ![d] = "left"] /\ UNCHANGED <<ca, icon, vbs>>
    BY <1>7 DEF CafileExit, Goes
  <2>2. /\ Running(d)'
        /\ \A n \in Name : n # ca[d] /\ n \in ToRemove(d) => n \in ToRemove(d)'
    BY <2>1 DEF Running, ToRemove
  <2>3. \A e \in Daemon : e # d /\ Running(e) =>
                             Running(e)' /\ ToRemove(e)' = ToRemove(e)
    BY <2>1 DEF Running, ToRemove
  <2>4. ca[d] \in Name \union {Bundled, Nowhere}
    OBVIOUS
  <2> QED
    BY <2>1, <2>2, <2>3, <2>4, RemovedCared
<1>8. ASSUME NEW d \in Daemon, IconExit(d) PROVE CaredInv'
  <2>1. /\ Remove(icon[d]) /\ main[d] = "left"
        /\ main' = [main EXCEPT ![d] = "gone"] /\ UNCHANGED <<ca, icon, vbs>>
    BY <1>8 DEF IconExit, Goes
  <2>2. \A n \in Name : n # icon[d] => n \notin ToRemove(d)
    BY <2>1 DEF ToRemove
  <2>3. \A e \in Daemon : e # d /\ Running(e) =>
                             Running(e)' /\ ToRemove(e)' = ToRemove(e)
    BY <2>1 DEF Running, ToRemove
  <2>4. icon[d] \in Name \union {Bundled, Nowhere}
    OBVIOUS
  <2> QED
    BY <2>1, <2>2, <2>3, <2>4, RemovedCared
<1>9. ASSUME UNCHANGED <<file, main, ca, icon, vbs, orphan>> PROVE CaredInv'
  <2>1. \A e \in Daemon : Running(e) => Running(e)' /\ ToRemove(e)' = ToRemove(e)
    BY <1>9 DEF Running, ToRemove
  <2> QED
    BY <1>9, <2>1, StillCared
<1>10. ASSUME NEW d \in Daemon, UnsetAutoStartup(d) PROVE CaredInv'
  BY <1>9, <1>10 DEF UnsetAutoStartup
<1>11. ASSUME NEW m \in Name, Clean(m) PROVE CaredInv'
  <2>1. /\ file' = [file EXCEPT ![m] = "none"] /\ orphan' = orphan \ {m}
        /\ UNCHANGED <<main, ca, icon, vbs>>
    BY <1>11 DEF Clean
  <2>2. \A e \in Daemon : Running(e)' = Running(e) /\ ToRemove(e)' = ToRemove(e)
    BY <2>1 DEF Running, ToRemove
  <2> QED
    BY <2>1, <2>2 DEF CaredInv, Cared, TypeOK
<1>12. ASSUME ChangeLink PROVE CaredInv'
  BY <1>9, <1>12 DEF ChangeLink
<1>13. ASSUME UNCHANGED vars PROVE CaredInv'
  BY <1>9, <1>13 DEF vars
<1> QED
  BY <1>1, <1>2, <1>3, <1>4, <1>5, <1>6, <1>7, <1>8, <1>10, <1>11, <1>12, <1>13
  DEF Next

(* A daemon that quits leaves no temporary file, except those it was ended *)
(* with or could not remove.                                               *)
THEOREM NothingLeftAlways == Spec => []NothingLeft
<1>1. Init => TypeOK /\ CaredInv
  BY InitType DEF Init, CaredInv
<1>2. TypeOK /\ CaredInv /\ [Next]_vars => TypeOK' /\ CaredInv'
  BY TypeStep, CaredStep
<1>3. TypeOK /\ CaredInv => NothingLeft
  BY DEF CaredInv, Cared, ToRemove, NothingLeft, Owned
<1> QED
  BY <1>1, <1>2, <1>3, PTL DEF Spec

----------------------------------------------------------------------------
(* The check mark tells the truth.  While a link is being made the mark is *)
(* ahead of it; whoever sees another daemon change the link stops being    *)
(* alone.                                                                  *)

MarkInv == /\ MarkTrue
           /\ \A d \in Daemon : main[d] = "linking" => mark[d] = TRUE

LEMMA MarkStep ==
  ASSUME TypeOK, MarkInv, [Next]_vars
  PROVE  MarkInv'
<1>0. /\ main \in [Daemon -> {"off", "setup", "loop", "opening", "linking",
                             "leaving", "left", "gone"}]
      /\ mark \in [Daemon -> BOOLEAN] /\ alone \in [Daemon -> BOOLEAN]
      /\ link \in BOOLEAN
  BY DEF TypeOK
<1> USE <1>0
<1> DEFINE Right(d) ==
             /\ main[d] \in {"setup", "loop", "opening"} /\ alone[d] =>
                  mark[d] = link
             /\ main[d] = "linking" => mark[d] = TRUE
<1>1. \A d \in Daemon : Right(d)
  BY DEF MarkInv, MarkTrue
<1> SUFFICES ASSUME NEW e \in Daemon PROVE Right(e)'
  BY DEF MarkInv, MarkTrue
<1>2. ASSUME NEW d \in Daemon, TrayInit(d) PROVE Right(e)'
  BY <1>1, <1>2 DEF TrayInit, Goes
<1>3. ASSUME NEW d \in Daemon, EnterLoop(d) \/ Quit(d) PROVE Right(e)'
  BY <1>1, <1>3 DEF EnterLoop, Quit, Goes
<1>4. ASSUME NEW d \in Daemon, Ended(d) \/ CafileExit(d) \/ IconExit(d)
      PROVE  Right(e)'
  BY <1>1, <1>4 DEF Ended, CafileExit, IconExit, Goes
<1>5. ASSUME NEW d \in Daemon, CafileGet(d) PROVE Right(e)'
  BY <1>1, <1>5 DEF CafileGet
<1>6. ASSUME NEW d \in Daemon, OpenFile(d) PROVE Right(e)'
  BY <1>1, <1>6 DEF OpenFile, Script, Goes
<1>7. ASSUME NEW d \in Daemon, SetAutoStartup(d) PROVE Right(e)'
  BY <1>1, <1>7 DEF SetAutoStartup, Script, Goes
<1>8. ASSUME NEW d \in Daemon, ScriptDone(d) PROVE Right(e)'
  <2>1. /\ main[d] \in {"opening", "linking"} /\ UNCHANGED mark
        /\ main' = [main EXCEPT ![d] = "loop"]
    BY <1>8 DEF ScriptDone, Goes
  <2>2. CASE main[d] = "opening"
    BY <1>1, <1>8, <2>1, <2>2 DEF ScriptDone
  <2>3. CASE main[d] = "linking" /\ Touch(d, TRUE, TRUE)
    BY <1>1, <2>1, <2>3 DEF Touch
  <2>4. CASE main[d] = "linking" /\ Touch(d, link, FALSE)
    BY <1>1, <2>1, <2>4 DEF Touch
  <2> QED
    BY <1>8, <2>1, <2>2, <2>3, <2>4 DEF ScriptDone
<1>9. ASSUME NEW d \in Daemon, UnsetAutoStartup(d) PROVE Right(e)'
  <2>1. main[d] = "loop" /\ UNCHANGED main /\ mark' = [mark EXCEPT ![d] = FALSE]
    BY <1>9 DEF UnsetAutoStartup
  <2>2. CASE Touch(d, FALSE, TRUE)
    BY <1>1, <2>1, <2>2 DEF Touch
  <2>3. CASE Touch(d, link, FALSE)
    BY <1>1, <2>1, <2>3 DEF Touch
  <2> QED
    BY <1>9, <2>2, <2>3 DEF UnsetAutoStartup
<1>10. ASSUME NEW n \in Name, Clean(n) PROVE Right(e)'
  BY <1>1, <1>10 DEF Clean
<1>11. ASSUME ChangeLink PROVE Right(e)'
  BY <1>1, <1>11 DEF ChangeLink
<1>12. ASSUME UNCHANGED vars PROVE Right(e)'
  BY <1>1, <1>12 DEF vars
<1> QED
  BY <1>2, <1>3, <1>4, <1>5, <1>6, <1>7, <1>8, <1>9, <1>10, <1>11, <1>12 DEF Next

(* The check mark tells the truth about the link, however often it is      *)
(* toggled, as long as nobody else touches the link and nothing fails.     *)
THEOREM MarkTrueAlways == Spec => []MarkTrue
<1>1. Init => TypeOK /\ MarkInv
  BY InitType DEF Init, MarkInv, MarkTrue
<1>2. TypeOK /\ MarkInv /\ [Next]_vars => TypeOK' /\ MarkInv'
  BY TypeStep, MarkStep
<1>3. MarkInv => MarkTrue
  BY DEF MarkInv
<1> QED
  BY <1>1, <1>2, <1>3, PTL DEF Spec
=============================================================================
