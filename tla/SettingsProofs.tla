--------------------------- MODULE SettingsProofs ---------------------------
(***************************************************************************)
(* Theorems about Settings, for every set of runs, whatever each is told   *)
(* to do, and every number of edits; and about getopt, which tells them.   *)
(***************************************************************************)
EXTENDS MCSettings, Folding

USE SettingsAssumption

(* Facts about the constants that many steps need.                         *)
LEMMA Names ==
  /\ \A p \in Process : p[1] \in {"user", "daemon", "call"} /\ p[2] \in Run
  /\ \A r \in Run : <<"daemon", r>> \in Process /\ <<"call", r>> \in Process
  /\ does \in [Process -> {"-i", "-o", "-c", "usage", "daemon"}]
  /\ \A r \in Run : does[<<"daemon", r>>] = "daemon"
  /\ \A p \in Process : does[p] = "-i" => p[1] = "user"
<1>1. \A p \in Process : p[1] \in {"user", "daemon", "call"} /\ p[2] \in Run
  BY DEF Process
<1>2. \A r \in Run : <<"daemon", r>> \in Process /\ <<"call", r>> \in Process
  BY DEF Process
<1>3. ASSUME NEW p \in Process
      PROVE  /\ p[1] = "user" => does[p] = Does[p[2]]
             /\ p[1] = "daemon" => does[p] = "daemon"
             /\ p[1] = "call" => does[p] = "-c"
  BY DEF does
<1>4. \A p \in Process : does[p] \in {"-i", "-o", "-c", "usage", "daemon"}
  BY <1>1, <1>3
<1>5. does \in [Process -> {"-i", "-o", "-c", "usage", "daemon"}]
  BY <1>4 DEF does
<1>6. \A r \in Run : does[<<"daemon", r>>] = "daemon"
  BY <1>2, <1>3
<1>7. \A p \in Process : does[p] = "-i" => p[1] = "user"
  BY <1>1, <1>3
<1> QED
  BY <1>1, <1>2, <1>5, <1>6, <1>7

LEMMA Ports ==
  /\ Default \in Port /\ Port \subseteq Content
  /\ Missing \in Content /\ Empty \in Content /\ Missing # Empty
  /\ \A x \in Port : x \notin {Missing, Empty, "unread", "bare"}
  /\ \A s \in Content : s # Missing => PortIn(s) \in Port
BY DEF Content, PortIn, Missing, Empty

----------------------------------------------------------------------------
(* Type correctness.                                                       *)

LEMMA TypeStep ==
  ASSUME TypeOK, [Next]_vars
  PROVE  TypeOK'
<1> USE Names, Ports
<1>1. ASSUME NEW p \in Process, Load(p) PROVE TypeOK'
  <2>1. PortIn(settings) \in Port \/ settings = Missing
    BY DEF TypeOK
  <2> QED
    BY <1>1, <2>1 DEF TypeOK, Load, Goes, history
<1>2. ASSUME NEW p \in Process, Create(p) PROVE TypeOK'
  BY <1>2 DEF TypeOK, Create, history
<1>3. ASSUME NEW p \in Process, Raise(p) PROVE TypeOK'
  BY <1>3 DEF TypeOK, Raise, Ends, Goes, history
<1>4. ASSUME NEW p \in Process, PrintOnly(p) PROVE TypeOK'
  BY <1>4 DEF TypeOK, PrintOnly, Ends, Goes, history
<1>5. ASSUME NEW p \in Process, Knock(p) PROVE TypeOK'
  BY <1>5 DEF TypeOK, Knock, Ends, Goes, history
<1>6. ASSUME NEW p \in Process, NoMaster(p) PROVE TypeOK'
  BY <1>6 DEF TypeOK, NoMaster, Goes
<1>7. ASSUME NEW p \in Process, Launch(p) PROVE TypeOK'
  BY <1>7 DEF TypeOK, Launch, Ends, Goes, history
<1>8. ASSUME NEW p \in Process, Bind(p) PROVE TypeOK'
  BY <1>8 DEF TypeOK, Bind, Ends, Goes, history
<1>9. ASSUME NEW p \in Process, End(p) PROVE TypeOK'
  BY <1>9 DEF TypeOK, End, Ends, Goes
<1>10. ASSUME NEW r \in Run, ReadScript(r) PROVE TypeOK'
  BY <1>10 DEF TypeOK, ReadScript, history
<1>11. ASSUME NEW r \in Run, Pkill(r) PROVE TypeOK'
  BY <1>11 DEF TypeOK, Pkill, history
<1>12. ASSUME NEW r \in Run, Nohup(r) PROVE TypeOK'
  BY <1>12 DEF TypeOK, Nohup, Goes, history
<1>13. ASSUME NEW r \in Run, Call(r) PROVE TypeOK'
  BY <1>13 DEF TypeOK, Call, Goes, history
<1>14. ASSUME NEW s \in Content, Save(s) PROVE TypeOK'
  <2>1. saves' \in 0..MaxSave
    BY <1>14 DEF TypeOK, Save
  <2>2. disturbed' \in BOOLEAN
    BY <1>14 DEF Save
  <2> QED
    BY <1>14, <2>1, <2>2 DEF TypeOK, Save
<1>15. CASE UNCHANGED vars
  BY <1>15 DEF TypeOK, vars, history
<1> QED
  BY <1>1, <1>2, <1>3, <1>4, <1>5, <1>6, <1>7, <1>8, <1>9, <1>10, <1>11,
     <1>12, <1>13, <1>14, <1>15 DEF Next

LEMMA InitType == Init => TypeOK
<1> SUFFICES ASSUME Init PROVE TypeOK
  OBVIOUS
<1>1. config \in [Process -> {"unread", Missing, "bare"} \union Port]
  BY DEF Init
<1>2. at \in [Process -> {"none", "run", "scripting", "serving", "ended"}]
  BY DEF Init
<1>3. sh \in [Run -> {"none", "forked", "pkill", "nohup", "sleep", "done"}]
  BY DEF Init
<1>4. saves \in 0..MaxSave
  BY DEF Init
<1> QED
  BY <1>1, <1>2, <1>3, <1>4 DEF Init, TypeOK

(* Every state of every behaviour is well typed.                           *)
THEOREM TypeCorrect == Spec => []TypeOK
  BY InitType, TypeStep, PTL DEF Spec

----------------------------------------------------------------------------
(* What the user saves is kept.  A process that has found no file is about *)
(* to create one: as long as nothing is disturbed, the user has saved none.*)

(* Only a process that runs has a table.                                   *)
TableInv ==
  \A p \in Process :
    /\ config[p] # "unread" => at[p] \in {"run", "scripting", "serving"}
    /\ config[p] = Missing => at[p] = "run"
    /\ at[p] = "serving" => config[p] \in Port

KeptInv ==
  ~disturbed => /\ settings = saved \/ (saved = Missing /\ settings = Empty)
                /\ \A p \in Process : config[p] = Missing => saved = Missing

SafeInv == TypeOK /\ TableInv /\ KeptInv

LEMMA TableStep ==
  ASSUME TypeOK, TableInv, [Next]_vars
  PROVE  TableInv'
<1>0. /\ config \in [Process -> {"unread", Missing, "bare"} \union Port]
      /\ at \in [Process -> {"none", "run", "scripting", "serving", "ended"}]
      /\ Missing # "unread" /\ Missing # "bare" /\ TypeOK'
  BY TypeStep DEF TypeOK, Missing
<1> SUFFICES ASSUME NEW q \in Process
             PROVE  /\ config'[q] # "unread" =>
                         at'[q] \in {"run", "scripting", "serving"}
                    /\ config'[q] = Missing => at'[q] = "run"
                    /\ at'[q] = "serving" => config'[q] \in Port
  BY DEF TableInv
<1> USE <1>0, Names, Ports DEF TableInv
<1> DEFINE Good == /\ config'[q] # "unread" =>
                        at'[q] \in {"run", "scripting", "serving"}
                   /\ config'[q] = Missing => at'[q] = "run"
                   /\ at'[q] = "serving" => config'[q] \in Port
<1>1. ASSUME NEW p \in Process, Load(p) PROVE Good
  BY <1>1 DEF Load, Goes
<1>2. ASSUME NEW p \in Process, Create(p) PROVE Good
  BY <1>2 DEF Create
<1>3. ASSUME NEW p \in Process, Ends(p) PROVE Good
  BY <1>3 DEF Ends, Goes
<1>4. ASSUME NEW p \in Process, Raise(p) \/ PrintOnly(p) \/ Knock(p)
                                  \/ Launch(p) \/ End(p)
      PROVE  Good
  BY <1>3, <1>4 DEF Raise, PrintOnly, Knock, Launch, End
<1>5. ASSUME NEW p \in Process, NoMaster(p) PROVE Good
  BY <1>5 DEF NoMaster, Goes, Ready
<1>6. ASSUME NEW p \in Process, Bind(p) PROVE Good
  <2>1. CASE Goes(p, "serving") /\ UNCHANGED config
    BY <1>6, <2>1 DEF Bind, Goes, Ready
  <2> QED
    BY <1>3, <1>6, <2>1 DEF Bind
<1>7. ASSUME NEW r \in Run, Pkill(r) PROVE Good
  BY <1>7 DEF Pkill
<1>8. ASSUME NEW r \in Run, Nohup(r) PROVE Good
  BY <1>8 DEF Nohup, Goes
<1>9. ASSUME NEW r \in Run, Call(r) PROVE Good
  BY <1>9 DEF Call, Goes
<1>10. ASSUME UNCHANGED <<config, at>> PROVE Good
  BY <1>10
<1> QED
  BY <1>1, <1>2, <1>4, <1>5, <1>6, <1>7, <1>8, <1>9, <1>10
  DEF Next, ReadScript, Save, vars

LEMMA KeptStep ==
  ASSUME TypeOK, TableInv, KeptInv, [Next]_vars
  PROVE  KeptInv'
<1>0. /\ config \in [Process -> {"unread", Missing, "bare"} \union Port]
      /\ settings \in Content /\ saved \in Content
      /\ Missing # "unread" /\ Missing # "bare"
  BY DEF TypeOK, Missing
<1> SUFFICES ASSUME ~disturbed' PROVE KeptInv'
  BY DEF KeptInv
<1> USE <1>0, Names, Ports
<1> DEFINE FileKept == settings = saved \/ (saved = Missing /\ settings = Empty)
           Found == \A q \in Process : config[q] = Missing => saved = Missing
<1>1. ASSUME NEW p \in Process, Load(p) PROVE FileKept' /\ Found'
  <2>1. /\ FileKept /\ Found /\ UNCHANGED <<settings, saved, disturbed>>
    BY <1>1 DEF Load, history, KeptInv
  <2>2. ASSUME NEW q \in Process, config'[q] = Missing PROVE saved' = Missing
    <3>1. CASE q = p
      <4>1. settings = Missing
        BY <1>1, <2>2, <3>1 DEF Load
      <4> QED
        BY <2>1, <4>1
    <3>2. CASE q # p
      BY <1>1, <2>1, <2>2, <3>2 DEF Load
    <3> QED
      BY <3>1, <3>2
  <2> QED
    BY <2>1, <2>2
<1>2. ASSUME NEW p \in Process, Create(p) PROVE FileKept' /\ Found'
  <2>1. FileKept /\ Found /\ UNCHANGED <<saved, disturbed>>
    BY <1>2 DEF Create, history, KeptInv
  <2> QED
    BY <1>2, <2>1 DEF Create
<1>3. ASSUME UNCHANGED <<settings, saved, disturbed>>,
             \A q \in Process : config'[q] \in {config[q], "unread"}
      PROVE  FileKept' /\ Found'
  <2>1. FileKept /\ Found
    BY <1>3 DEF KeptInv
  <2> QED
    BY <1>3, <2>1
<1>4. ASSUME NEW p \in Process, Ends(p)
      PROVE  \A q \in Process : config'[q] \in {config[q], "unread"}
  BY <1>4 DEF Ends
<1>5. ASSUME NEW p \in Process, Raise(p) \/ PrintOnly(p) \/ Knock(p)
                                  \/ Launch(p) \/ End(p)
      PROVE  FileKept' /\ Found'
  BY <1>3, <1>4, <1>5 DEF Raise, PrintOnly, Knock, Launch, End, history
<1>6. ASSUME NEW p \in Process, NoMaster(p) \/ Bind(p)
      PROVE  FileKept' /\ Found'
  BY <1>3, <1>4, <1>6 DEF NoMaster, Bind, history
<1>7. ASSUME NEW r \in Run, ReadScript(r) \/ Pkill(r) \/ Nohup(r) \/ Call(r)
      PROVE  FileKept' /\ Found'
  BY <1>3, <1>7 DEF ReadScript, Pkill, Nohup, Call, history
<1>8. ASSUME NEW s \in Content, Save(s) PROVE FileKept' /\ Found'
  <2>1. \A q \in Process : config[q] # Missing
    BY <1>8 DEF Save, TableInv
  <2>2. settings' = saved' /\ config' = config
    BY <1>8 DEF Save
  <2>3. Found'
    BY <2>1, <2>2
  <2> QED
    BY <2>2, <2>3
<1>9. ASSUME UNCHANGED vars PROVE FileKept' /\ Found'
  <2>1. /\ UNCHANGED <<settings, saved, disturbed>>
        /\ \A q \in Process : config'[q] \in {config[q], "unread"}
    BY <1>9 DEF vars, history
  <2> QED
    BY <1>3, <2>1
<1> QED
  <2>1. FileKept' /\ Found'
    BY <1>1, <1>2, <1>5, <1>6, <1>7, <1>8, <1>9 DEF Next
  <2> QED
    BY <2>1 DEF KeptInv

LEMMA InitSafe == Init => SafeInv
<1> SUFFICES ASSUME Init PROVE SafeInv
  OBVIOUS
<1>1. \A p \in Process : config[p] = "unread" /\ at[p] = "none"
  BY DEF Init
<1>2. TableInv
  BY <1>1 DEF TableInv, Missing
<1>3. KeptInv
  <2>1. settings = saved
    BY DEF Init
  <2>2. \A p \in Process : config[p] # Missing
    BY <1>1 DEF Missing
  <2> QED
    BY <2>1, <2>2 DEF KeptInv
<1> QED
  BY <1>2, <1>3, InitType DEF SafeInv

LEMMA SafeStep == SafeInv /\ [Next]_vars => SafeInv'
BY TypeStep, TableStep, KeptStep DEF SafeInv

LEMMA Safe == Spec => []SafeInv
BY InitSafe, SafeStep, PTL DEF Spec

(* No process takes from the file what the user has saved, except one that *)
(* had found no file before that.                                          *)
THEOREM SaveKeptAlways == Spec => []SaveKept
<1>1. SafeInv => SaveKept
  BY DEF SafeInv, KeptInv, SaveKept
<1> QED
  BY <1>1, Safe, PTL

----------------------------------------------------------------------------
(* Without an edit there is one daemon: all ports in use are the one that  *)
(* the first content of the file names, even when there was no file and    *)
(* some processes have no port at all.                                     *)

Home == IF saved \in {Missing, Empty} THEN Default ELSE saved

HomeInv ==
  saves = 0 => /\ ~disturbed
               /\ \A p \in Process : config[p] \in Port => config[p] = Home

OneInv == SafeInv /\ HomeInv /\ OneMaster

LEMMA HomeOfFile ==
  ASSUME SafeInv, ~disturbed, settings # Missing
  PROVE  PortIn(settings) = Home
BY Ports DEF SafeInv, KeptInv, Home, PortIn

LEMMA HomeStep ==
  ASSUME SafeInv, HomeInv, [Next]_vars
  PROVE  HomeInv'
<1>0. /\ config \in [Process -> {"unread", Missing, "bare"} \union Port]
      /\ saves \in Nat
  BY DEF SafeInv, TypeOK
<1> SUFFICES ASSUME saves' = 0 PROVE HomeInv'
  BY DEF HomeInv
<1> USE <1>0, Names
<1>1. ASSUME NEW s \in Content, Save(s) PROVE FALSE
  BY <1>1 DEF Save
<1>2. CASE UNCHANGED <<saved, disturbed, saves>>
  <2>1. /\ ~disturbed' /\ saves = 0 /\ ~disturbed /\ Home' = Home
        /\ \A q \in Process : config[q] \in Port => config[q] = Home
    BY <1>2 DEF HomeInv, Home
  <2>2. ASSUME NEW p \in Process, Load(p), NEW q \in Process,
               config'[q] \in Port
        PROVE  config'[q] = Home
    <3>1. CASE q = p
      <4>1. settings # Missing /\ config'[q] = PortIn(settings)
        BY <2>2, <3>1, Ports DEF Load
      <4> QED
        BY <2>1, <4>1, HomeOfFile
    <3>2. CASE q # p
      <4>1. config'[q] = config[q]
        BY <2>2, <3>2 DEF Load
      <4> QED
        BY <2>1, <2>2, <4>1
    <3> QED
      BY <3>1, <3>2
  <2>3. ASSUME NEW q \in Process, config'[q] \in {config[q], "unread", "bare"},
               config'[q] \in Port
        PROVE  config'[q] = Home
    <3>1. config'[q] # "unread" /\ config'[q] # "bare"
      BY <2>3, Ports
    <3>2. config'[q] = config[q]
      BY <2>3, <3>1
    <3> QED
      BY <2>1, <2>3, <3>2
  <2>4. ASSUME NEW p \in Process, Ends(p)
        PROVE  \A q \in Process : config'[q] \in {config[q], "unread", "bare"}
    BY <2>4 DEF Ends
  <2>5. ASSUME NEW p \in Process, ~Load(p),
               \/ Create(p) \/ Raise(p) \/ PrintOnly(p) \/ Knock(p)
               \/ NoMaster(p) \/ Launch(p) \/ Bind(p) \/ End(p)
        PROVE  \A q \in Process : config'[q] \in {config[q], "unread", "bare"}
    BY <2>4, <2>5 DEF Create, Raise, PrintOnly, Knock, NoMaster, Launch, Bind, End
  <2>6. ASSUME NEW r \in Run, ReadScript(r) \/ Pkill(r) \/ Nohup(r) \/ Call(r)
        PROVE  \A q \in Process : config'[q] \in {config[q], "unread", "bare"}
    BY <2>6 DEF ReadScript, Pkill, Nohup, Call
  <2>7. ASSUME NEW q \in Process, config'[q] \in Port
        PROVE  config'[q] = Home
    <3>1. CASE \E p \in Process : Load(p)
      BY <2>2, <2>7, <3>1
    <3>2. CASE UNCHANGED vars
      BY <2>1, <2>7, <3>2 DEF vars
    <3> QED
      BY <1>1, <2>3, <2>5, <2>6, <2>7, <3>1, <3>2 DEF Next
  <2> QED
    BY <2>1, <2>7 DEF HomeInv
<1>3. ASSUME NEW p \in Process,
             \/ Load(p) \/ Create(p) \/ Raise(p) \/ PrintOnly(p) \/ Knock(p)
             \/ NoMaster(p) \/ Launch(p) \/ Bind(p) \/ End(p)
      PROVE  UNCHANGED <<saved, disturbed, saves>>
  BY <1>3 DEF Load, Create, Raise, PrintOnly, Knock, NoMaster, Launch, Bind,
              End, history
<1>4. ASSUME NEW r \in Run, ReadScript(r) \/ Pkill(r) \/ Nohup(r) \/ Call(r)
      PROVE  UNCHANGED <<saved, disturbed, saves>>
  BY <1>4 DEF ReadScript, Pkill, Nohup, Call, history
<1>5. CASE UNCHANGED vars
  BY <1>2, <1>5 DEF vars, history
<1> QED
  BY <1>1, <1>2, <1>3, <1>4, <1>5 DEF Next

(* A step brings at most one daemon to serve, and only if none serves at   *)
(* the same port.                                                          *)
LEMMA OneStep ==
  ASSUME SafeInv, HomeInv, OneMaster, [Next]_vars
  PROVE  OneMaster'
<1>0. /\ at \in [Process -> {"none", "run", "scripting", "serving", "ended"}]
      /\ saves \in Nat /\ TableInv
  BY DEF SafeInv, TypeOK
<1> SUFFICES ASSUME saves' = 0, NEW a \in Process, NEW b \in Process,
                    at'[a] = "serving", at'[b] = "serving"
             PROVE  a = b
  BY DEF OneMaster
<1> USE <1>0, Names
<1>1. saves = 0
  <2>1. ASSUME NEW s \in Content, Save(s) PROVE FALSE
    BY <2>1 DEF Save
  <2>2. ASSUME NEW p \in Process,
               \/ Load(p) \/ Create(p) \/ Raise(p) \/ PrintOnly(p) \/ Knock(p)
               \/ NoMaster(p) \/ Launch(p) \/ Bind(p) \/ End(p)
        PROVE  saves' = saves
    BY <2>2 DEF Load, Create, Raise, PrintOnly, Knock, NoMaster, Launch, Bind,
                End, history
  <2>3. ASSUME NEW r \in Run, ReadScript(r) \/ Pkill(r) \/ Nohup(r) \/ Call(r)
        PROVE  saves' = saves
    BY <2>3 DEF ReadScript, Pkill, Nohup, Call, history
  <2> QED
    BY <2>1, <2>2, <2>3 DEF Next, vars, history
<1>2. ASSUME \A q \in Process : at'[q] = "serving" => at[q] = "serving"
      PROVE  a = b
  BY <1>1, <1>2 DEF OneMaster
<1>3. ASSUME NEW p \in Process, Bind(p) PROVE a = b
  <2>1. CASE Serving(config[p]) = {} /\ Goes(p, "serving") /\ UNCHANGED config
    <3>1. \A q \in Process : at[q] # "serving"
      BY <1>1, <1>3, <2>1 DEF TableInv, HomeInv, Serving, Bind
    <3> QED
      BY <2>1, <3>1 DEF Goes
  <2>2. CASE Ends(p)
    BY <1>2, <2>2 DEF Ends, Goes
  <2> QED
    BY <1>3, <2>1, <2>2 DEF Bind
<1>4. ASSUME NEW p \in Process,
             \/ Load(p) \/ Create(p) \/ Raise(p) \/ PrintOnly(p) \/ Knock(p)
             \/ NoMaster(p) \/ Launch(p) \/ End(p)
      PROVE  a = b
  BY <1>2, <1>4 DEF Load, Create, Raise, PrintOnly, Knock, NoMaster, Launch,
                    End, Ends, Goes
<1>5. ASSUME NEW r \in Run, ReadScript(r) \/ Pkill(r) \/ Nohup(r) \/ Call(r)
      PROVE  a = b
  BY <1>2, <1>5 DEF ReadScript, Pkill, Nohup, Call, Goes
<1>6. ASSUME NEW s \in Content, Save(s) PROVE a = b
  BY <1>2, <1>6 DEF Save
<1>7. CASE UNCHANGED vars
  BY <1>2, <1>7 DEF vars
<1> QED
  BY <1>3, <1>4, <1>5, <1>6, <1>7 DEF Next

(* Only an edit of the file can leave two daemons.                         *)
THEOREM OneMasterAlways == Spec => []OneMaster
<1>1. Init => OneInv
  <2>1. ASSUME Init, NEW p \in Process PROVE config[p] \notin Port /\ at[p] = "none"
    BY <2>1, Ports DEF Init
  <2> QED
    BY <2>1, InitSafe DEF OneInv, HomeInv, OneMaster, Init
<1>2. OneInv /\ [Next]_vars => OneInv'
  BY SafeStep, HomeStep, OneStep DEF OneInv
<1>3. OneInv => OneMaster
  BY DEF OneInv
<1> QED
  BY <1>1, <1>2, <1>3, PTL DEF Spec

----------------------------------------------------------------------------
(* A client that finds no daemon gets one where the next client will look. *)
(* Until there is one, somebody is about to start it: a client that writes *)
(* the script, a shell that will find it full or has read it, or a daemon  *)
(* that has not reached its bind and has, or will read, today's port.      *)

Coming ==
  \/ Serving(PortIn(settings)) # {}
  \/ \E p \in Process : \/ at[p] = "scripting"
                        \/ /\ does[p] = "daemon" /\ at[p] = "run"
                           /\ config[p] \in {"unread", PortIn(settings)}
  \/ \E r \in Run : \/ sh[r] = "forked" /\ script = "full"
                    \/ sh[r] \in {"pkill", "nohup"}

(* Each process does what it is told, and a shell that is about to start a *)
(* daemon has not done so before.                                          *)
RoleInv ==
  /\ \A p \in Process : /\ at[p] = "serving" => does[p] = "daemon"
                        /\ at[p] = "scripting" => does[p] = "-i"
  /\ \A r \in Run : sh[r] = "nohup" => at[<<"daemon", r>>] \in {"none", "ended"}

(* A file that some process has read a port from is there.                 *)
ThereInv ==
  ~disturbed => /\ \A p \in Process : config[p] \in Port => settings # Missing
                /\ wanted => settings # Missing

ComingInv ==
  SafeInv /\ RoleInv /\ ThereInv /\ (wanted /\ ~disturbed => Coming)

LEMMA RoleStep ==
  ASSUME SafeInv, RoleInv, [Next]_vars
  PROVE  RoleInv'
<1>0. /\ at \in [Process -> {"none", "run", "scripting", "serving", "ended"}]
      /\ sh \in [Run -> {"none", "forked", "pkill", "nohup", "sleep", "done"}]
      /\ \A r, s \in Run : <<"daemon", r>> = <<"daemon", s>> => r = s
      /\ \A r, s \in Run : <<"daemon", r>> # <<"call", s>>
  BY DEF SafeInv, TypeOK
<1> USE <1>0, Names
<1> DEFINE Role(p) == /\ at[p] = "serving" => does[p] = "daemon"
                      /\ at[p] = "scripting" => does[p] = "-i"
           Fresh(r) == sh[r] = "nohup" =>
                         at[<<"daemon", r>>] \in {"none", "ended"}
           Good == /\ \A p \in Process : Role(p)'
                   /\ \A r \in Run : Fresh(r)'
<1>1. /\ \A p \in Process : Role(p)
      /\ \A r \in Run : Fresh(r)
  BY DEF RoleInv
<1>2. ASSUME NEW p \in Process, Load(p) PROVE Good
  BY <1>1, <1>2 DEF Load, Goes
<1>3. ASSUME NEW p \in Process, Ends(p), UNCHANGED sh PROVE Good
  BY <1>1, <1>3 DEF Ends, Goes
<1>4. ASSUME NEW p \in Process, NoMaster(p) PROVE Good
  BY <1>1, <1>4 DEF NoMaster, Goes, Ready
<1>5. ASSUME NEW p \in Process, Launch(p) PROVE Good
  BY <1>1, <1>5 DEF Launch, Ends, Goes
<1>6. ASSUME NEW p \in Process, Bind(p) PROVE Good
  <2>1. CASE Goes(p, "serving")
    BY <1>1, <1>6, <2>1 DEF Bind, Goes, Ready
  <2> QED
    BY <1>3, <1>6, <2>1 DEF Bind
<1>7. ASSUME NEW p \in Process, Raise(p) \/ PrintOnly(p) \/ Knock(p) \/ End(p)
      PROVE  Good
  BY <1>3, <1>7 DEF Raise, PrintOnly, Knock, End
<1>8. ASSUME NEW r \in Run, ReadScript(r) PROVE Good
  BY <1>1, <1>8 DEF ReadScript
<1>9. ASSUME NEW r \in Run, Pkill(r) PROVE Good
  BY <1>1, <1>9 DEF Pkill
<1>10. ASSUME NEW r \in Run, Nohup(r) PROVE Good
  BY <1>1, <1>10 DEF Nohup, Goes
<1>11. ASSUME NEW r \in Run, Call(r) PROVE Good
  BY <1>1, <1>11 DEF Call, Goes
<1>12. ASSUME UNCHANGED <<at, sh>> PROVE Good
  BY <1>1, <1>12
<1>13. Good
  BY <1>2, <1>4, <1>5, <1>6, <1>7, <1>8, <1>9, <1>10, <1>11, <1>12
  DEF Next, Create, Save, vars
<1> QED
  BY <1>13 DEF RoleInv

LEMMA ThereStep ==
  ASSUME SafeInv, ThereInv, [Next]_vars, ~disturbed'
  PROVE  ThereInv'
<1>0. config \in [Process -> {"unread", Missing, "bare"} \union Port]
  BY DEF SafeInv, TypeOK
<1> USE <1>0, Names
<1> DEFINE Read == \A p \in Process : config[p] \in Port => settings # Missing
           There == wanted => settings # Missing
<1>1. ASSUME NEW p \in Process, Load(p) PROVE Read' /\ There'
  <2>1. Read /\ There /\ UNCHANGED <<settings, wanted>>
    BY <1>1 DEF Load, history, ThereInv
  <2>2. ASSUME NEW q \in Process, config'[q] \in Port PROVE settings # Missing
    BY <1>1, <2>1, <2>2, Ports DEF Load
  <2> QED
    BY <2>1, <2>2
<1>2. ASSUME NEW p \in Process, Create(p) PROVE Read' /\ There'
  BY <1>2, Ports DEF Create
<1>3. ASSUME UNCHANGED <<settings, disturbed>>, wanted' => wanted,
             \A q \in Process : config'[q] \in {config[q], "unread"}
      PROVE  Read' /\ There'
  <2>1. Read /\ There
    BY <1>3 DEF ThereInv
  <2> QED
    BY <1>3, <2>1, Ports
<1>4. ASSUME NEW p \in Process, Ends(p)
      PROVE  \A q \in Process : config'[q] \in {config[q], "unread"}
  BY <1>4 DEF Ends
<1>5. ASSUME NEW p \in Process, Raise(p) \/ PrintOnly(p) \/ Knock(p)
                                  \/ Launch(p) \/ Bind(p) \/ End(p)
      PROVE  Read' /\ There'
  BY <1>3, <1>4, <1>5 DEF Raise, PrintOnly, Knock, Launch, Bind, End, history
<1>6. ASSUME NEW p \in Process, NoMaster(p) PROVE Read' /\ There'
  BY <1>6 DEF NoMaster, ThereInv
<1>7. ASSUME NEW r \in Run, ReadScript(r) \/ Pkill(r) \/ Nohup(r) \/ Call(r)
      PROVE  Read' /\ There'
  BY <1>3, <1>7 DEF ReadScript, Pkill, Nohup, Call, history
<1>8. ASSUME NEW s \in Content, Save(s) PROVE Read' /\ There'
  BY <1>8 DEF Save
<1>9. ASSUME UNCHANGED vars PROVE Read' /\ There'
  <2>1. UNCHANGED <<settings, disturbed, wanted, config>>
    BY <1>9 DEF vars, history
  <2> QED
    BY <1>3, <2>1
<1>10. Read' /\ There'
  BY <1>1, <1>2, <1>5, <1>6, <1>7, <1>8, <1>9 DEF Next
<1> QED
  BY <1>10 DEF ThereInv

LEMMA ComingStep ==
  ASSUME ComingInv, [Next]_vars, wanted', ~disturbed'
  PROVE  Coming'
<1>0. /\ config \in [Process -> {"unread", Missing, "bare"} \union Port]
      /\ at \in [Process -> {"none", "run", "scripting", "serving", "ended"}]
      /\ sh \in [Run -> {"none", "forked", "pkill", "nohup", "sleep", "done"}]
      /\ SafeInv /\ TableInv /\ RoleInv /\ ThereInv /\ TypeOK
  BY DEF ComingInv, SafeInv, TypeOK
<1> USE <1>0, Names
<1> DEFINE Served == \E q \in Process :
                       at[q] = "serving" /\ config[q] = PortIn(settings)
           Scripted == \E q \in Process : at[q] = "scripting"
           Starting == \E q \in Process :
                         /\ does[q] = "daemon" /\ at[q] = "run"
                         /\ config[q] \in {"unread", PortIn(settings)}
           Shelled == \E r \in Run : \/ sh[r] = "forked" /\ script = "full"
                                    \/ sh[r] \in {"pkill", "nohup"}
           Due == Served \/ Scripted \/ Starting \/ Shelled
<1>1. Due <=> Coming
  BY DEF Coming, Serving
<1>2. Due' <=> Coming'
  BY DEF Coming, Serving
<1>3. ASSUME wanted, ~disturbed
      PROVE  Due /\ settings # Missing /\ PortIn(settings) \in Port
  BY <1>1, <1>3, Ports DEF ComingInv, ThereInv, TypeOK
<1>4. ASSUME NEW p \in Process, Load(p) PROVE Due'
  <2>1. wanted /\ ~disturbed /\ UNCHANGED <<settings, script, sh>>
    BY <1>4 DEF Load, history
  <2>2. at[p] \in {"run", "none"} /\ config' = [config EXCEPT ![p] = PortIn(settings)]
    BY <1>3, <1>4, <2>1 DEF Load
  <2>3. CASE Served
    BY <1>4, <2>1, <2>2, <2>3 DEF Load, Goes
  <2>4. CASE Scripted
    BY <1>4, <2>1, <2>2, <2>4 DEF Load, Goes
  <2>5. CASE Starting
    BY <1>4, <2>1, <2>2, <2>5 DEF Load, Goes
  <2>6. CASE Shelled
    BY <2>1, <2>6
  <2> QED
    BY <1>3, <2>1, <2>3, <2>4, <2>5, <2>6
<1>5. ASSUME NEW p \in Process, Create(p) PROVE Due'
  <2>1. wanted /\ ~disturbed /\ UNCHANGED <<at, script, sh>>
    BY <1>5 DEF Create, history
  <2>2. settings' = settings
    BY <1>3, <1>5, <2>1 DEF Create, SafeInv, KeptInv
  <2>3. \A q \in Process : config[q] \in {"unread", PortIn(settings)} =>
                            config'[q] = config[q]
    BY <1>3, <1>5, <2>1, Ports DEF Create, Missing
  <2> QED
    BY <1>3, <2>1, <2>2, <2>3
<1>6. ASSUME NEW p \in Process, Ends(p), UNCHANGED <<settings, script, sh>>,
             at[p] = "run", wanted, ~disturbed,
             does[p] # "daemon" \/ config[p] = "bare"
      PROVE  Due'
  <2>1. \A q \in Process : q # p => config'[q] = config[q] /\ at'[q] = at[q]
    BY <1>6 DEF Ends, Goes
  <2>2. PortIn(settings) # "bare"
    BY <1>3, <1>6, Ports
  <2> QED
    BY <1>3, <1>6, <2>1, <2>2
<1>7. ASSUME NEW p \in Process, Raise(p) \/ PrintOnly(p) \/ Knock(p) PROVE Due'
  <2>0. Ready(p) /\ Ends(p) /\ UNCHANGED <<settings, script, sh, history>>
    BY <1>7 DEF Raise, PrintOnly, Knock
  <2>1. /\ Ends(p) /\ UNCHANGED <<settings, script, sh>> /\ wanted /\ ~disturbed
        /\ at[p] = "run"
    BY <2>0 DEF Ready, history
  <2>2. does[p] # "daemon" \/ config[p] = "bare"
    BY <1>7 DEF Raise, PrintOnly, Knock
  <2> QED
    BY <1>6, <2>1, <2>2
<1>8. ASSUME NEW p \in Process, NoMaster(p) PROVE Due'
  BY <1>8 DEF NoMaster, Goes
<1>9. ASSUME NEW p \in Process, Launch(p) PROVE Due'
  <2>1. p[2] \in Run /\ sh'[p[2]] = "forked" /\ script' = "full"
    BY <1>9 DEF Launch
  <2> QED
    BY <2>1
<1>10. ASSUME NEW p \in Process, Bind(p) PROVE Due'
  <2>1. /\ wanted /\ ~disturbed /\ UNCHANGED <<settings, script, sh>>
        /\ at[p] = "run" /\ config[p] \in Port
    BY <1>10 DEF Bind, Ready, history
  <2>2. \A q \in Process : q # p => config'[q] = config[q] /\ at'[q] = at[q]
    BY <1>10 DEF Bind, Ends, Goes
  <2>3. CASE config[p] = PortIn(settings)
    <3>1. CASE Goes(p, "serving") /\ UNCHANGED config
      BY <2>1, <2>3, <3>1 DEF Goes
    <3>2. CASE Serving(config[p]) # {}
      BY <2>1, <2>2, <2>3, <3>2 DEF Serving
    <3> QED
      BY <1>10, <3>1, <3>2 DEF Bind
  <2>4. CASE config[p] # PortIn(settings)
    BY <1>3, <2>1, <2>2, <2>4, Ports
  <2> QED
    BY <2>3, <2>4
<1>11. ASSUME NEW r \in Run, ReadScript(r) PROVE Due'
  <2>1. wanted /\ ~disturbed /\ UNCHANGED <<settings, config, at, script>>
    BY <1>11 DEF ReadScript, history
  <2>2. Shelled => Shelled'
    BY <1>11, <2>1 DEF ReadScript
  <2> QED
    BY <1>3, <2>1, <2>2
<1>12. ASSUME NEW r \in Run, Pkill(r) PROVE Due'
  <2>1. sh'[r] = "nohup"
    BY <1>12 DEF Pkill
  <2> QED
    BY <2>1
<1>13. ASSUME NEW r \in Run, Nohup(r) PROVE Due'
  <2>1. at[<<"daemon", r>>] \in {"none", "ended"}
    BY <1>13 DEF Nohup, RoleInv
  <2>2. config'[<<"daemon", r>>] = "unread"
    BY <1>13, <2>1 DEF Nohup, TableInv
  <2>3. at'[<<"daemon", r>>] = "run"
    BY <1>13 DEF Nohup, Goes
  <2> QED
    BY <2>2, <2>3
<1>14. ASSUME NEW r \in Run, Call(r) PROVE Due'
  <2>1. wanted /\ ~disturbed /\ UNCHANGED <<settings, config, script>>
    BY <1>14 DEF Call, history
  <2>2. does[<<"call", r>>] = "-c"
    BY DEF does
  <2>3. \A q \in Process : does[q] # "-c" => at'[q] = at[q]
    BY <1>14, <2>2 DEF Call, Goes
  <2>4. Shelled => Shelled'
    BY <1>14, <2>1 DEF Call
  <2>5. \A q \in Process : at[q] \in {"serving", "scripting"} => does[q] # "-c"
    BY DEF RoleInv
  <2> QED
    BY <1>3, <2>1, <2>3, <2>4, <2>5
<1>15. ASSUME NEW p \in Process, End(p) PROVE FALSE
  BY <1>15 DEF End
<1>16. ASSUME NEW s \in Content, Save(s) PROVE FALSE
  BY <1>16 DEF Save
<1>17. ASSUME UNCHANGED vars PROVE Due'
  <2>1. /\ UNCHANGED <<settings, config, at, script, sh>> /\ wanted /\ ~disturbed
    BY <1>17 DEF vars, history
  <2> QED
    BY <1>3, <2>1
<1>18. Due'
  BY <1>4, <1>5, <1>7, <1>8, <1>9, <1>10, <1>11, <1>12, <1>13, <1>14, <1>15,
     <1>16, <1>17 DEF Next
<1> QED
  BY <1>2, <1>18

(* Whatever scripts kill, and whichever settings older daemons have, a     *)
(* client that finds no daemon gets one where the next client will look.   *)
THEOREM ReachableAlways == Spec => []Reachable
<1>1. Init => ComingInv
  <2>1. ASSUME Init
        PROVE  /\ wanted = FALSE /\ \A r \in Run : sh[r] = "none"
               /\ \A p \in Process : config[p] \notin Port /\ at[p] = "none"
    BY <2>1, Ports DEF Init
  <2>2. Init => RoleInv /\ ThereInv
    BY <2>1 DEF RoleInv, ThereInv
  <2> QED
    BY <2>1, <2>2, InitSafe DEF ComingInv
<1>2. ComingInv /\ [Next]_vars => ComingInv'
  <2>1. SafeInv /\ RoleInv /\ [Next]_vars => SafeInv' /\ RoleInv'
    BY SafeStep, RoleStep
  <2>2. SafeInv /\ ThereInv /\ [Next]_vars => ThereInv'
    BY ThereStep DEF ThereInv
  <2> QED
    BY <2>1, <2>2, ComingStep DEF ComingInv
<1>3. ComingInv => Reachable
  <2>1. Quiet /\ Coming => Serving(PortIn(settings)) # {}
    BY DEF Quiet, Coming
  <2> QED
    BY <2>1 DEF ComingInv, Reachable
<1> QED
  BY <1>1, <1>2, <1>3, PTL DEF Spec

----------------------------------------------------------------------------
(* The command line: getopt, for command lines of any length, with words of*)
(* any length over any names.                                              *)

(* The words over some names.                                              *)
Word(names) ==
  {w \in [form : {"short", "long", "valued", "plain"}, letters : Seq(names)] :
     /\ w.form \in {"long", "valued"} => \E o \in names : w.letters = <<o>>
     /\ w.form = "plain" => w.letters = <<>>}

Value(names) == {"flag", "rest", "word", "value"} \X Seq(names)
Table(names) == UNION {[D -> Value(names)] : D \in SUBSET names}
Found(names) == [over : BOOLEAN, tab : Table(names)]

LEMMA WordType ==
  ASSUME NEW names, NEW arg \in Seq(Word(names)), NEW k \in 1..Len(arg)
  PROVE  arg[k] \in Word(names) /\ arg[k].letters \in Seq(names)
BY DEF Word

LEMMA EmptyTable ==
  ASSUME NEW names PROVE <<>> \in Table(names)
<1>1. DOMAIN <<>> = {}
  OBVIOUS
<1>2. <<>> \in [{} -> Value(names)]
  BY <1>1
<1>3. QED
  BY <1>2 DEF Table

LEMMA EnteredType ==
  ASSUME NEW names, NEW tab \in Table(names), NEW o \in names,
         NEW v \in Value(names)
  PROVE  Entered(tab, o, v) \in Table(names)
<1> DEFINE r == Entered(tab, o, v)
<1>1. PICK D \in SUBSET names : tab \in [D -> Value(names)]
  BY DEF Table
<1>2. r \in [D \union {o} -> Value(names)]
  BY <1>1 DEF Entered
<1>3. D \union {o} \in SUBSET names
  OBVIOUS
<1> HIDE DEF r
<1>4. r \in Table(names)
  BY <1>2, <1>3 DEF Table
<1>5. QED
  BY <1>4 DEF r

LEMMA NextWordType ==
  ASSUME NEW names, NEW arg \in Seq(Word(names)), NEW k \in 1..Len(arg)
  PROVE  NextWord(arg, k) \in Value(names) /\ Flag \in Value(names)
<1>1. <<>> \in Seq(names)
  OBVIOUS
<1>2. Flag \in Value(names)
  BY <1>1 DEF Flag, Value
<1>3. CASE k < Len(arg)
  <2>1. k + 1 \in 1..Len(arg)
    BY <1>3
  <2>2. arg[k + 1].letters \in Seq(names)
    BY <2>1, WordType
  <2>3. QED
    BY <1>2, <1>3, <2>2 DEF NextWord, Value
<1>4. QED
  BY <1>2, <1>3 DEF NextWord

(* What a letter of a short word is entered with.                          *)
Meant(arg, k, y) ==
  LET ls == arg[k].letters
  IN  IF ls[y] \notin Options THEN Flag
      ELSE IF y < Len(ls) THEN <<"rest", SubSeq(ls, y + 1, Len(ls))>>
      ELSE NextWord(arg, k)

LEMMA MeantType ==
  ASSUME NEW names, NEW arg \in Seq(Word(names)), NEW k \in 1..Len(arg),
         NEW y \in 1..Len(arg[k].letters)
  PROVE  arg[k].letters[y] \in names /\ Meant(arg, k, y) \in Value(names)
<1> DEFINE ls == arg[k].letters
<1>1. ls \in Seq(names)
  BY WordType
<1>2. ls[y] \in names
  BY <1>1
<1>3. y < Len(ls) => SubSeq(ls, y + 1, Len(ls)) \in Seq(names)
  BY <1>1, SubSeqProperties
<1>4. QED
  BY <1>2, <1>3, NextWordType DEF Meant, Value

LEMMA LetterEnters ==
  ASSUME NEW arg, NEW k, NEW acc, NEW y
  PROVE  Letter(arg, k, acc, y) =
           IF acc.over THEN acc
           ELSE [over |-> arg[k].letters[y] \in Options,
                 tab |-> Entered(acc.tab, arg[k].letters[y],
                                 Meant(arg, k, y))]
<1>1. CASE arg[k].letters[y] \in Options
  <2>1. (arg[k].letters[y] \in Options) = TRUE
    BY <1>1
  <2>2. CASE y < Len(arg[k].letters)
    BY <1>1, <2>1, <2>2 DEF Letter, Meant
  <2>3. CASE ~ (y < Len(arg[k].letters))
    BY <1>1, <2>1, <2>3 DEF Letter, Meant
  <2>4. QED
    BY <2>2, <2>3
<1>2. CASE arg[k].letters[y] \notin Options
  <2>1. (arg[k].letters[y] \in Options) = FALSE
    BY <1>2
  <2>2. Meant(arg, k, y) = Flag
    BY <1>2 DEF Meant
  <2>3. QED
    BY <1>2, <2>1, <2>2 DEF Letter
<1>3. QED
  BY <1>1, <1>2

LEMMA LetterType ==
  ASSUME NEW names, NEW arg \in Seq(Word(names)), NEW k \in 1..Len(arg)
  PROVE  \A acc \in Found(names), y \in 1..Len(arg[k].letters) :
           Letter(arg, k, acc, y) \in Found(names)
<1>1. SUFFICES ASSUME NEW acc \in Found(names),
                      NEW y \in 1..Len(arg[k].letters)
               PROVE  Letter(arg, k, acc, y) \in Found(names)
  OBVIOUS
<1>2. acc.tab \in Table(names)
  BY DEF Found
<1>3. Entered(acc.tab, arg[k].letters[y], Meant(arg, k, y)) \in Table(names)
  BY <1>2, MeantType, EnteredType
<1>4. (arg[k].letters[y] \in Options) \in BOOLEAN
  OBVIOUS
<1>5. QED
  BY <1>3, <1>4, LetterEnters DEF Found

(* What the scan of a short word has found after each letter.              *)
LEMMA LetterTrace ==
  ASSUME NEW names, NEW arg \in Seq(Word(names)),
         NEW k \in 1..Len(arg), NEW tab \in Table(names)
  PROVE  \E h : /\ h[0] = [over |-> FALSE, tab |-> tab]
                /\ ScanShort(tab, arg, k) = h[Len(arg[k].letters)].tab
                /\ \A i \in 1..Len(arg[k].letters) : h[i] = Letter(arg, k, h[i - 1], i)
<1> DEFINE n == Len(arg[k].letters)
           T == Found(names)
           base == [over |-> FALSE, tab |-> tab]
           ix == [i \in DOMAIN arg[k].letters |-> i]
           step == [p \in T \X (1..n) |-> Letter(arg, k, p[1], p[2])]
           Body(f, S) == IF S = {} THEN base ELSE Letter(arg, k, f[S \ {Max(S)}], ix[Max(S)])
           it == CHOOSE f : f = [S \in SUBSET (DOMAIN ix) |-> Body(f, S)]
           h == [i \in 0..n |-> it[1..i]]
<1>1. n \in Nat /\ DOMAIN arg[k].letters = 1..n /\ DOMAIN ix = 1..n
      /\ \A i \in 1..n : ix[i] = i
  <2>1. arg[k].letters \in Seq(names)
    BY WordType
  <2>2. QED
    BY <2>1
<1>2. PICK g \in [SUBSET (1..n) -> T] :
             \A S \in SUBSET (1..n) : Folds(g, S, base, step)
  <2>1. \A t \in T, i \in 1..n : step[<<t, i>>] = Letter(arg, k, t, i)
    OBVIOUS
  <2>2. \A t \in T, i \in 1..n : Letter(arg, k, t, i) \in T
    BY <1>1, LetterType
  <2>3. base \in T
    BY DEF Found
  <2> HIDE DEF step, n, T, base
  <2>4. \A t \in T, i \in 1..n : step[<<t, i>>] \in T
    BY <2>1, <2>2
  <2>5. n \in Nat
    BY <1>1
  <2> HIDE DEF Body, it, h
  <2>6. QED
    BY <2>3, <2>4, <2>5, FoldExists
<1>3. ASSUME NEW S \in SUBSET (1..n) PROVE g[S] = Body(g, S)
  <2>1. \A t \in T, i \in 1..n : step[<<t, i>>] = Letter(arg, k, t, i)
    OBVIOUS
  <2> HIDE DEF n, step, T, base, ix
  <2>2. g[S] = IF S = {} THEN base ELSE step[<<g[S \ {Max(S)}], Max(S)>>]
    BY <1>2 DEF Folds
  <2>3. CASE S # {}
    <3>1. Max(S) \in 1..n
      BY <1>1, <2>3, MaxIn
    <3>2. S \ {Max(S)} \in SUBSET (1..n)
      OBVIOUS
    <3>3. g[S \ {Max(S)}] \in T
      BY <1>2, <3>2
    <3>4. QED
      BY <1>1, <2>1, <2>2, <2>3, <3>1, <3>3
  <2>4. QED
    BY <2>2, <2>3
<1>4. it = [S \in SUBSET (DOMAIN ix) |-> Body(it, S)]
  <2>1. g = [S \in SUBSET (DOMAIN ix) |-> Body(g, S)]
    <3> HIDE DEF n, Body, ix, T
    <3>1. QED
      BY <1>1, <1>2, <1>3
  <2> HIDE DEF Body, ix
  <2>2. QED
    BY <2>1
<1>5. \A S \in SUBSET (1..n) : it[S] = Body(it, S)
  <2> HIDE DEF Body, it, n, ix
  <2>1. QED
    BY <1>1, <1>4
<1>6. \A i \in 0..n : h[i] = it[1..i]
  <2> HIDE DEF it
  <2>1. QED
    OBVIOUS
<1>7. h[0] = base
  <2>1. 1..0 = {} /\ 0 \in 0..n /\ {} \in SUBSET (1..n)
    BY <1>1
  <2> HIDE DEF it, h, base, n, ix
  <2>2. QED
    BY <1>5, <1>6, <2>1
<1>8. ASSUME NEW i \in 1..n PROVE h[i] = Letter(arg, k, h[i - 1], i)
  <2>1. /\ 1..i \in SUBSET (1..n)
        /\ 1..i # {}
        /\ i \in 1..i
        /\ (1..i) \ {i} = 1..(i - 1)
        /\ i \in 0..n
        /\ i - 1 \in 0..n
        /\ i \in Nat
    BY <1>1
  <2>2. Max(1..i) = i
    BY <2>1, LastIsMax
  <2> HIDE DEF it, h, base, n, ix
  <2>3. ix[Max(1..i)] = i
    BY <1>1, <2>2
  <2>4. it[1..i] = Body(it, 1..i)
    BY <1>5, <2>1
  <2>5. h[i] = it[1..i] /\ h[i - 1] = it[1..(i - 1)]
    BY <1>6, <2>1
  <2>6. QED
    BY <2>1, <2>2, <2>3, <2>4, <2>5
<1>9. ScanShort(tab, arg, k) = h[n].tab
  <2>1. FoldLeftDomain(LAMBDA acc, y : Letter(arg, k, acc, y),
                       base, arg[k].letters) = it[DOMAIN ix]
    BY DEF FoldLeftDomain, FoldLeft, MapThenFoldSet
  <2>2. n \in 0..n
    BY <1>1
  <2>3. it[DOMAIN ix] = h[n]
    <3> HIDE DEF it, h, n, ix
    <3>1. QED
      BY <1>1, <1>6, <2>2
  <2> HIDE DEF it, h, n, ix
  <2>4. QED
    BY <2>1, <2>3 DEF ScanShort
<1>10. QED
  <2> HIDE DEF h
  <2>1. QED
    BY <1>7, <1>8, <1>9

----------------------------------------------------------------------------
(* What a short word has said up to its y-th letter, as Speaks and Says    *)
(* have it for the whole word.                                             *)
Flags(arg, k, y) == \A x \in 1..(y - 1) : arg[k].letters[x] \notin Options

SpeaksBy(arg, k, o, y) ==
  \E x \in 1..y : arg[k].letters[x] = o /\ Flags(arg, k, x)

(* The table r has what letters 1 to y of the k-th word add to tab.        *)
LettersRight(names, arg, k, tab, y, acc) ==
  /\ acc \in Found(names)
  /\ acc.over <=> \E x \in 1..y : arg[k].letters[x] \in Options
  /\ DOMAIN acc.tab = DOMAIN tab \union {o \in names : SpeaksBy(arg, k, o, y)}
  /\ \A x \in 1..y : Flags(arg, k, x) =>
       acc.tab[arg[k].letters[x]] = Meant(arg, k, x)
  /\ \A o \in DOMAIN tab : ~ SpeaksBy(arg, k, o, y) => acc.tab[o] = tab[o]


LEMMA LetterStep ==
  ASSUME NEW names, NEW arg \in Seq(Word(names)), NEW k \in 1..Len(arg),
         NEW tab \in Table(names), NEW y \in 1..Len(arg[k].letters), NEW acc,
         LettersRight(names, arg, k, tab, y - 1, acc)
  PROVE  LettersRight(names, arg, k, tab, y, Letter(arg, k, acc, y))
<1> DEFINE ls == arg[k].letters
           r == Letter(arg, k, acc, y)
<1>1. /\ y \in Nat \ {0}
      /\ \A x : x \in 1..y <=> x \in 1..(y - 1) \/ x = y
      /\ \A x \in 1..y : ls[x] \in names
  <2>1. ls \in Seq(names) /\ Len(ls) \in Nat
    BY WordType
  <2>2. \A x \in 1..y : x \in 1..Len(ls)
    BY <2>1
  <2>3. QED
    BY <2>1, <2>2
<1>2. /\ acc \in Found(names)
      /\ acc.tab \in Table(names)
      /\ acc.over <=> \E x \in 1..(y - 1) : ls[x] \in Options
      /\ DOMAIN acc.tab =
           DOMAIN tab \union {o \in names : SpeaksBy(arg, k, o, y - 1)}
      /\ \A x \in 1..(y - 1) : Flags(arg, k, x) =>
           acc.tab[ls[x]] = Meant(arg, k, x)
      /\ \A o \in DOMAIN tab :
           ~ SpeaksBy(arg, k, o, y - 1) => acc.tab[o] = tab[o]
  BY DEF LettersRight, Found
<1>3. r \in Found(names)
  BY <1>2, LetterType
<1>4. acc.over <=> ~ Flags(arg, k, y)
  BY <1>2 DEF Flags
<1>5. CASE acc.over
  <2>1. r = acc
    BY <1>5, LetterEnters
  <2>2. \A o : SpeaksBy(arg, k, o, y) <=> SpeaksBy(arg, k, o, y - 1)
    BY <1>1, <1>4, <1>5 DEF SpeaksBy
  <2>3. \E x \in 1..y : ls[x] \in Options
    BY <1>1, <1>2, <1>5
  <2>4. r.over <=> \E x \in 1..y : ls[x] \in Options
    BY <2>1, <2>3, <1>2, <1>5
  <2>5. DOMAIN r.tab = DOMAIN tab \union {o \in names : SpeaksBy(arg, k, o, y)}
    BY <2>1, <2>2, <1>2
  <2>6. \A x \in 1..y : Flags(arg, k, x) => r.tab[ls[x]] = Meant(arg, k, x)
    BY <2>1, <1>1, <1>2, <1>4, <1>5
  <2>7. \A o \in DOMAIN tab : ~ SpeaksBy(arg, k, o, y) => r.tab[o] = tab[o]
    BY <2>1, <2>2, <1>2
  <2>8. LettersRight(names, arg, k, tab, y, r)
    <3> HIDE DEF r
    <3>1. QED
      BY <1>3, <2>4, <2>5, <2>6, <2>7 DEF LettersRight
  <2>9. QED
    BY <2>8
<1>6. CASE ~ acc.over
  <2>1. /\ r.over <=> ls[y] \in Options
        /\ r.tab = Entered(acc.tab, ls[y], Meant(arg, k, y))
    BY <1>6, LetterEnters
  <2>2. /\ DOMAIN r.tab = DOMAIN acc.tab \union {ls[y]}
        /\ r.tab[ls[y]] = Meant(arg, k, y)
        /\ \A x \in DOMAIN acc.tab \ {ls[y]} : r.tab[x] = acc.tab[x]
    <3>1. r.tab = Entered(acc.tab, ls[y], Meant(arg, k, y))
      BY <2>1
    <3> HIDE DEF r, ls
    <3>2. QED
      BY <3>1 DEF Entered
  <2>3. Flags(arg, k, y) /\ \A x \in 1..(y - 1) : ls[x] \notin Options
    BY <1>2, <1>6 DEF Flags
  <2>4. \A o : SpeaksBy(arg, k, o, y) <=> SpeaksBy(arg, k, o, y - 1) \/ o = ls[y]
    BY <1>1, <2>3 DEF SpeaksBy
  <2>5. r.over <=> \E x \in 1..y : ls[x] \in Options
    <3>1. (\E x \in 1..y : ls[x] \in Options) <=> ls[y] \in Options
      BY <1>1, <2>3
    <3>2. QED
      BY <2>1, <3>1
  <2>6. DOMAIN r.tab = DOMAIN tab \union {o \in names : SpeaksBy(arg, k, o, y)}
    <3>1. ls[y] \in names
      BY <1>1
    <3>2. QED
      BY <3>1, <2>2, <2>4, <1>2
  <2>7. ASSUME NEW x \in 1..y, Flags(arg, k, x)
        PROVE  r.tab[ls[x]] = Meant(arg, k, x)
    <3>1. CASE ls[x] = ls[y]
      <4>1. CASE x = y
        BY <4>1, <2>2
      <4>2. CASE x # y
        <5>1. ls[x] \notin Options
          BY <4>2, <1>1, <2>3
        <5>2. Meant(arg, k, x) = Flag /\ Meant(arg, k, y) = Flag
          BY <5>1, <3>1 DEF Meant
        <5>3. QED
          BY <5>2, <2>2, <3>1
      <4>3. QED
        BY <4>1, <4>2
    <3>2. CASE ls[x] # ls[y]
      <4>1. x \in 1..(y - 1)
        BY <3>2, <1>1
      <4>2. ls[x] \in DOMAIN acc.tab
        <5>1. SpeaksBy(arg, k, ls[x], y - 1)
          BY <4>1, <2>7 DEF SpeaksBy
        <5>2. ls[x] \in names
          BY <1>1
        <5>3. QED
          BY <5>1, <5>2, <1>2
      <4>3. QED
        BY <4>1, <4>2, <3>2, <2>2, <2>7, <1>2
    <3>3. QED
      BY <3>1, <3>2
  <2>8. ASSUME NEW o \in DOMAIN tab, ~ SpeaksBy(arg, k, o, y)
        PROVE  r.tab[o] = tab[o]
    BY <2>8, <2>2, <2>4, <1>2
  <2>9. LettersRight(names, arg, k, tab, y, r)
    <3> HIDE DEF r
    <3>1. QED
      BY <1>3, <2>5, <2>6, <2>7, <2>8 DEF LettersRight
  <2>10. QED
    BY <2>9
<1>7. QED
  BY <1>5, <1>6

LEMMA ShortRight ==
  ASSUME NEW names, NEW arg \in Seq(Word(names)), NEW k \in 1..Len(arg),
         NEW tab \in Table(names)
  PROVE  \E acc : /\ LettersRight(names, arg, k, tab, Len(arg[k].letters), acc)
                  /\ ScanShort(tab, arg, k) = acc.tab
<1> DEFINE n == Len(arg[k].letters)
<1>1. PICK h : /\ h[0] = [over |-> FALSE, tab |-> tab]
               /\ ScanShort(tab, arg, k) = h[n].tab
               /\ \A i \in 1..n : h[i] = Letter(arg, k, h[i - 1], i)
  BY LetterTrace
<1>2. n \in Nat
  <2>1. arg[k].letters \in Seq(names)
    BY WordType
  <2>2. QED
    BY <2>1
<1> DEFINE R == {i \in 0..n : LettersRight(names, arg, k, tab, i, h[i])}
<1>3. 0 \in R
  <2>1. h[0] \in Found(names) /\ h[0].over = FALSE /\ h[0].tab = tab
    BY <1>1 DEF Found
  <2>2. \A x : x \notin 1..0
    OBVIOUS
  <2>3. \A o : ~ SpeaksBy(arg, k, o, 0)
    BY <2>2 DEF SpeaksBy
  <2>4. LettersRight(names, arg, k, tab, 0, h[0])
    BY <2>1, <2>2, <2>3 DEF LettersRight
  <2>5. QED
    BY <2>4, <1>2
<1>4. ASSUME NEW i \in 1..n, i - 1 \in R PROVE i \in R
  <2>1. LettersRight(names, arg, k, tab, i, Letter(arg, k, h[i - 1], i))
    BY <1>4, LetterStep
  <2>2. i \in 0..n
    BY <1>2
  <2>3. QED
    BY <2>1, <2>2, <1>1
<1>5. n \in R
  <2> HIDE DEF R, n
  <2>1. \A i \in 0..n : i \in R
    BY <1>2, <1>3, <1>4, UpToIn
  <2>2. QED
    BY <2>1, <1>2
<1>6. QED
  BY <1>5, <1>1

(* The table r has what the k-th word says, and the rest of tab.           *)
WordRight(names, arg, k, tab, r) ==
  /\ r \in Table(names)
  /\ DOMAIN r = DOMAIN tab \union {o \in names : Speaks(arg, k, o)}
  /\ \A o \in names : Speaks(arg, k, o) => Says(arg, k, o, r[o])
  /\ \A o \in DOMAIN tab : ~ Speaks(arg, k, o) => r[o] = tab[o]

(* A word with one name enters it.                                         *)
LEMMA NameRight ==
  ASSUME NEW names, NEW arg \in Seq(Word(names)), NEW k \in 1..Len(arg),
         NEW tab \in Table(names), NEW v \in Value(names),
         arg[k].form \in {"long", "valued"},
         \A o \in names : arg[k].letters = <<o>> => Says(arg, k, o, v)
  PROVE  WordRight(names, arg, k, tab, Entered(tab, arg[k].letters[1], v))
<1>1. PICK o \in names : arg[k].letters = <<o>>
  BY WordType DEF Word
<1>2. arg[k].letters[1] = o /\ Says(arg, k, o, v)
  BY <1>1
<1>3. \A x : Speaks(arg, k, x) <=> x = o
  BY <1>1 DEF Speaks
<1> DEFINE r == Entered(tab, o, v)
<1>4. r \in Table(names)
  BY EnteredType
<1>5. /\ DOMAIN r = DOMAIN tab \union {o}
      /\ r[o] = v
      /\ \A x \in DOMAIN tab : x # o => r[x] = tab[x]
  BY DEF Entered
<1>6. WordRight(names, arg, k, tab, r)
  <2> HIDE DEF r
  <2>1. QED
    BY <1>2, <1>3, <1>4, <1>5 DEF WordRight
<1>7. QED
  BY <1>2, <1>6

LEMMA ScanRight ==
  ASSUME NEW names, NEW arg \in Seq(Word(names)), NEW k \in 1..Len(arg),
         NEW tab \in Table(names)
  PROVE  WordRight(names, arg, k, tab, Scan(arg, tab, k))
<1> DEFINE w == arg[k]
<1>1. w \in Word(names) /\ w.letters \in Seq(names)
  BY WordType
<1>2. <<"value", <<>> >> \in Value(names)
  <2>1. <<>> \in Seq(names)
    OBVIOUS
  <2>2. QED
    BY <2>1 DEF Value
<1>3. CASE w.form = "long"
  <2>1. Scan(arg, tab, k) = Entered(tab, w.letters[1], Flag)
    BY <1>3 DEF Scan
  <2>2. \A o \in names : w.letters = <<o>> => Says(arg, k, o, Flag)
    BY <1>3 DEF Says
  <2>3. Flag \in Value(names)
    BY NextWordType
  <2>4. QED
    BY <1>3, <2>1, <2>2, <2>3, NameRight
<1>4. CASE w.form = "valued"
  <2>1. Scan(arg, tab, k) = Entered(tab, w.letters[1], <<"value", <<>> >>)
    BY <1>4 DEF Scan
  <2>2. \A o \in names :
          w.letters = <<o>> => Says(arg, k, o, <<"value", <<>> >>)
    BY <1>4 DEF Says
  <2>3. QED
    BY <1>2, <1>4, <2>1, <2>2, NameRight
<1>5. CASE w.form = "short"
  <2> DEFINE n == Len(w.letters)
             r == Scan(arg, tab, k)
  <2>1. r = ScanShort(tab, arg, k)
    BY <1>5 DEF Scan
  <2>2. PICK acc : LettersRight(names, arg, k, tab, n, acc) /\ r = acc.tab
    BY <2>1, ShortRight
  <2>3. DOMAIN w.letters = 1..n
    BY <1>1
  <2>4. \A o : Speaks(arg, k, o) <=> SpeaksBy(arg, k, o, n)
    BY <1>5, <2>3 DEF Speaks, SpeaksBy, Flags
  <2>5. ASSUME NEW o \in names, Speaks(arg, k, o)
        PROVE  Says(arg, k, o, r[o])
    <3>1. PICK x \in 1..n : w.letters[x] = o /\ Flags(arg, k, x)
      BY <2>4, <2>5 DEF SpeaksBy
    <3>2. r[o] = Meant(arg, k, x)
      BY <2>2, <3>1 DEF LettersRight
    <3>3. x = n \/ x < n
      BY <1>1
    <3>4. CASE o \notin Options
      <4>1. r[o] = Flag
        BY <3>1, <3>2, <3>4 DEF Meant
      <4>2. QED
        BY <1>5, <2>3, <3>1, <3>4, <4>1 DEF Says, Flags
    <3>5. CASE o \in Options /\ x = n
      <4>1. n \in Nat /\ ~ (n < n)
        BY <1>1
      <4>2. r[o] = NextWord(arg, k)
        BY <3>1, <3>2, <3>5, <4>1 DEF Meant
      <4>3. QED
        BY <1>5, <2>3, <3>1, <3>5, <4>2 DEF Says, Flags
    <3>6. CASE o \in Options /\ x < n
      <4>1. r[o] = <<"rest", SubSeq(w.letters, x + 1, n)>>
        BY <3>1, <3>2, <3>6 DEF Meant
      <4>2. QED
        BY <1>5, <2>3, <3>1, <3>6, <4>1 DEF Says, Flags
    <3>7. QED
      BY <3>3, <3>4, <3>5, <3>6
  <2>6. /\ r \in Table(names)
        /\ DOMAIN r = DOMAIN tab \union {o \in names : SpeaksBy(arg, k, o, n)}
        /\ \A o \in DOMAIN tab : ~ SpeaksBy(arg, k, o, n) => r[o] = tab[o]
    BY <2>2 DEF LettersRight, Found
  <2> HIDE DEF r
  <2>7. WordRight(names, arg, k, tab, r)
    BY <2>4, <2>5, <2>6 DEF WordRight
  <2>8. QED
    BY <2>7 DEF r
<1>6. CASE w.form = "plain"
  <2>1. Scan(arg, tab, k) = tab
    BY <1>6 DEF Scan
  <2>2. w.letters = <<>>
    BY <1>1, <1>6 DEF Word
  <2>3. \A o : ~ Speaks(arg, k, o)
    BY <2>2 DEF Speaks
  <2>4. WordRight(names, arg, k, tab, tab)
    BY <2>3 DEF WordRight
  <2>5. QED
    BY <2>1, <2>4
<1>7. w.form \in {"short", "long", "valued", "plain"}
  BY <1>1 DEF Word
<1>8. QED
  BY <1>3, <1>4, <1>5, <1>6, <1>7

LEMMA ScanType ==
  ASSUME NEW names, NEW arg \in Seq(Word(names))
  PROVE  \A tab \in Table(names), k \in 1..Len(arg) :
           Scan(arg, tab, k) \in Table(names)
BY ScanRight DEF WordRight

(* What getopt has in its table after each word.                           *)
LEMMA WordTrace ==
  ASSUME NEW names, NEW arg \in Seq(Word(names))
  PROVE  \E h : /\ h[0] = <<>>
                /\ getopt(arg) = h[Len(arg)]
                /\ \A i \in 1..Len(arg) : h[i] = Scan(arg, h[i - 1], i)
<1> DEFINE n == Len(arg)
           T == Table(names)
           base == <<>>
           ix == [i \in DOMAIN arg |-> i]
           step == [p \in T \X (1..n) |-> Scan(arg, p[1], p[2])]
           Body(f, S) == IF S = {} THEN base ELSE Scan(arg, f[S \ {Max(S)}], ix[Max(S)])
           it == CHOOSE f : f = [S \in SUBSET (DOMAIN ix) |-> Body(f, S)]
           h == [i \in 0..n |-> it[1..i]]
<1>1. n \in Nat /\ DOMAIN arg = 1..n /\ DOMAIN ix = 1..n
      /\ \A i \in 1..n : ix[i] = i
  OBVIOUS
<1>2. PICK g \in [SUBSET (1..n) -> T] :
             \A S \in SUBSET (1..n) : Folds(g, S, base, step)
  <2>1. \A t \in T, i \in 1..n : step[<<t, i>>] = Scan(arg, t, i)
    OBVIOUS
  <2>2. \A t \in T, i \in 1..n : Scan(arg, t, i) \in T
    BY <1>1, ScanType
  <2>3. base \in T
    BY EmptyTable
  <2> HIDE DEF step, n, T, base
  <2>4. \A t \in T, i \in 1..n : step[<<t, i>>] \in T
    BY <2>1, <2>2
  <2>5. n \in Nat
    BY <1>1
  <2> HIDE DEF Body, it, h
  <2>6. QED
    BY <2>3, <2>4, <2>5, FoldExists
<1>3. ASSUME NEW S \in SUBSET (1..n) PROVE g[S] = Body(g, S)
  <2>1. \A t \in T, i \in 1..n : step[<<t, i>>] = Scan(arg, t, i)
    OBVIOUS
  <2> HIDE DEF n, step, T, base, ix
  <2>2. g[S] = IF S = {} THEN base ELSE step[<<g[S \ {Max(S)}], Max(S)>>]
    BY <1>2 DEF Folds
  <2>3. CASE S # {}
    <3>1. Max(S) \in 1..n
      BY <1>1, <2>3, MaxIn
    <3>2. S \ {Max(S)} \in SUBSET (1..n)
      OBVIOUS
    <3>3. g[S \ {Max(S)}] \in T
      BY <1>2, <3>2
    <3>4. QED
      BY <1>1, <2>1, <2>2, <2>3, <3>1, <3>3
  <2>4. QED
    BY <2>2, <2>3
<1>4. it = [S \in SUBSET (DOMAIN ix) |-> Body(it, S)]
  <2>1. g = [S \in SUBSET (DOMAIN ix) |-> Body(g, S)]
    <3> HIDE DEF n, Body, ix, T
    <3>1. QED
      BY <1>1, <1>2, <1>3
  <2> HIDE DEF Body, ix
  <2>2. QED
    BY <2>1
<1>5. \A S \in SUBSET (1..n) : it[S] = Body(it, S)
  <2> HIDE DEF Body, it, n, ix
  <2>1. QED
    BY <1>1, <1>4
<1>6. \A i \in 0..n : h[i] = it[1..i]
  <2> HIDE DEF it
  <2>1. QED
    OBVIOUS
<1>7. h[0] = base
  <2>1. 1..0 = {} /\ 0 \in 0..n /\ {} \in SUBSET (1..n)
    BY <1>1
  <2> HIDE DEF it, h, base, n, ix
  <2>2. QED
    BY <1>5, <1>6, <2>1
<1>8. ASSUME NEW i \in 1..n PROVE h[i] = Scan(arg, h[i - 1], i)
  <2>1. /\ 1..i \in SUBSET (1..n)
        /\ 1..i # {}
        /\ i \in 1..i
        /\ (1..i) \ {i} = 1..(i - 1)
        /\ i \in 0..n
        /\ i - 1 \in 0..n
        /\ i \in Nat
    BY <1>1
  <2>2. Max(1..i) = i
    BY <2>1, LastIsMax
  <2> HIDE DEF it, h, base, n, ix
  <2>3. ix[Max(1..i)] = i
    BY <1>1, <2>2
  <2>4. it[1..i] = Body(it, 1..i)
    BY <1>5, <2>1
  <2>5. h[i] = it[1..i] /\ h[i - 1] = it[1..(i - 1)]
    BY <1>6, <2>1
  <2>6. QED
    BY <2>1, <2>2, <2>3, <2>4, <2>5
<1>9. getopt(arg) = h[n]
  <2>1. FoldLeftDomain(LAMBDA tab, k : Scan(arg, tab, k), <<>>, arg) = it[DOMAIN ix]
    BY DEF FoldLeftDomain, FoldLeft, MapThenFoldSet
  <2>2. n \in 0..n
    BY <1>1
  <2>3. it[DOMAIN ix] = h[n]
    <3> HIDE DEF it, h, n, ix
    <3>1. QED
      BY <1>1, <1>6, <2>2
  <2> HIDE DEF it, h, n, ix
  <2>4. QED
    BY <2>1, <2>3 DEF getopt
<1>10. QED
  <2> HIDE DEF h
  <2>1. QED
    BY <1>7, <1>8, <1>9

(* The table r has what the first k words say, the last that speaks of an  *)
(* option having decided.                                                  *)
WordsRight(names, arg, k, r) ==
  /\ r \in Table(names)
  /\ DOMAIN r = {o \in names : \E j \in 1..k : Speaks(arg, j, o)}
  /\ \A o \in names, j \in 1..k :
       /\ Speaks(arg, j, o)
       /\ \A i \in 1..k : Speaks(arg, i, o) => i <= j
       => Says(arg, j, o, r[o])

LEMMA WordsStep ==
  ASSUME NEW names, NEW arg \in Seq(Word(names)), NEW k \in 1..Len(arg),
         NEW tab, WordsRight(names, arg, k - 1, tab)
  PROVE  WordsRight(names, arg, k, Scan(arg, tab, k))
<1> DEFINE r == Scan(arg, tab, k)
<1>1. /\ tab \in Table(names)
      /\ DOMAIN tab = {o \in names : \E j \in 1..(k - 1) : Speaks(arg, j, o)}
      /\ \A o \in names, j \in 1..(k - 1) :
           /\ Speaks(arg, j, o)
           /\ \A i \in 1..(k - 1) : Speaks(arg, i, o) => i <= j
           => Says(arg, j, o, tab[o])
  BY DEF WordsRight
<1>2. WordRight(names, arg, k, tab, r)
  BY <1>1, ScanRight
<1>3. /\ r \in Table(names)
      /\ DOMAIN r = DOMAIN tab \union {o \in names : Speaks(arg, k, o)}
      /\ \A o \in names : Speaks(arg, k, o) => Says(arg, k, o, r[o])
      /\ \A o \in DOMAIN tab : ~ Speaks(arg, k, o) => r[o] = tab[o]
  BY <1>2 DEF WordRight
<1>4. k \in Nat \ {0} /\ \A j : j \in 1..k <=> j \in 1..(k - 1) \/ j = k
  OBVIOUS
<1> HIDE DEF r
<1>5. DOMAIN r = {o \in names : \E j \in 1..k : Speaks(arg, j, o)}
  BY <1>1, <1>3, <1>4
<1>6. ASSUME NEW o \in names, NEW j \in 1..k, Speaks(arg, j, o),
             \A i \in 1..k : Speaks(arg, i, o) => i <= j
      PROVE  Says(arg, j, o, r[o])
  <2>1. CASE j = k
    BY <2>1, <1>3, <1>6
  <2>2. CASE j # k
    <3>1. j \in 1..(k - 1) /\ ~ Speaks(arg, k, o)
      BY <2>2, <1>4, <1>6
    <3>2. r[o] = tab[o]
      BY <3>1, <1>1, <1>3, <1>6
    <3>3. Says(arg, j, o, tab[o])
      BY <3>1, <1>1, <1>4, <1>6
    <3>4. QED
      BY <3>2, <3>3
  <2>3. QED
    BY <2>1, <2>2
<1>7. WordsRight(names, arg, k, r)
  BY <1>3, <1>5, <1>6 DEF WordsRight
<1>8. QED
  BY <1>7 DEF r

(* getopt's two loops, for every command line: an option is in its table   *)
(* exactly when a word speaks of it, with what the last such word says.    *)
THEOREM ParserAlways ==
  ASSUME NEW names, NEW arg \in Seq(Word(names))
  PROVE  OptionsOf(arg, names)
<1> DEFINE n == Len(arg)
           tab == getopt(arg)
<1>1. PICK h : /\ h[0] = <<>>
               /\ tab = h[n]
               /\ \A i \in 1..n : h[i] = Scan(arg, h[i - 1], i)
  BY WordTrace
<1> DEFINE R == {i \in 0..n : WordsRight(names, arg, i, h[i])}
<1>2. 0 \in R
  <2>1. \A j : j \notin 1..0
    OBVIOUS
  <2>2. DOMAIN h[0] = {}
    BY <1>1
  <2>3. h[0] \in Table(names)
    BY <1>1, EmptyTable
  <2>4. WordsRight(names, arg, 0, h[0])
    BY <2>1, <2>2, <2>3 DEF WordsRight
  <2>5. QED
    BY <2>4
<1>3. ASSUME NEW i \in 1..n, i - 1 \in R PROVE i \in R
  BY <1>1, <1>3, WordsStep
<1>4. WordsRight(names, arg, n, tab)
  <2>1. n \in Nat
    OBVIOUS
  <2>2. n \in R
    <3> HIDE DEF R, n
    <3>1. \A i \in 0..n : i \in R
      BY <2>1, <1>2, <1>3, UpToIn
    <3>2. QED
      BY <2>1, <3>1
  <2> HIDE DEF tab
  <2>3. QED
    BY <2>2, <1>1
<1>5. DOMAIN arg = 1..n
  OBVIOUS
<1>6. DOMAIN tab = {o \in names : \E j \in 1..n : Speaks(arg, j, o)}
  BY <1>4 DEF WordsRight
<1>7. ASSUME NEW o \in names
      PROVE  (o \in DOMAIN tab) = ({k \in DOMAIN arg : Speaks(arg, k, o)} # {})
  BY <1>5, <1>6
<1>8. ASSUME NEW o \in names, NEW k \in DOMAIN arg, Speaks(arg, k, o),
             \A j \in DOMAIN arg : Speaks(arg, j, o) => j <= k
      PROVE  Says(arg, k, o, tab[o])
  BY <1>4, <1>5, <1>8 DEF WordsRight
<1> HIDE DEF tab
<1>9. DOMAIN tab \subseteq names
  BY <1>6
<1>10. QED
  BY <1>7, <1>8, <1>9 DEF OptionsOf, tab

(* What a process does: it is a daemon when nothing is given, and of -i, -o*)
(* and -c the first that any word speaks of, wherever on the command line. *)
THEOREM CommandAlways ==
  ASSUME NEW names, NEW arg \in Seq(Word(names)), NEW Given,
         Given = {o \in names : \E k \in DOMAIN arg : Speaks(arg, k, o)}
  PROVE  /\ Command(arg) = "daemon" <=> arg = <<>>
         /\ Command(arg) = "-i" <=> "i" \in Given
         /\ Command(arg) = "-o" <=> "o" \in Given /\ "i" \notin Given
         /\ Command(arg) = "-c" <=> "c" \in Given /\ {"i", "o"} \cap Given = {}
<1>1. DOMAIN getopt(arg) = Given
  <2>1. OptionsOf(arg, names)
    BY ParserAlways
  <2>2. ASSUME NEW o \in names
        PROVE  o \in DOMAIN getopt(arg) <=> o \in Given
    <3>1. (o \in DOMAIN getopt(arg)) = ({k \in DOMAIN arg : Speaks(arg, k, o)} # {})
      BY <2>1 DEF OptionsOf
    <3>2. QED
      BY <3>1
  <2>3. DOMAIN getopt(arg) \subseteq names
    BY <2>1 DEF OptionsOf
  <2>4. QED
    BY <2>2, <2>3
<1>2. arg = <<>> => Given = {}
  OBVIOUS
<1>3. QED
  BY <1>1, <1>2 DEF Command

(* What a process does is what its words say.                              *)
THEOREM OptionsRightAlways == Spec => []OptionsRight
<1> DEFINE names == {"i", "o", "x"}
<1>1. Words \subseteq Word(names)
  <2>1. ASSUME NEW m \in 1..3, NEW s \in [1..m -> names]
        PROVE  Short(s) \in Word(names)
    <3>1. s \in Seq(names)
      BY SeqDef
    <3>2. QED
      BY <3>1 DEF Short, Word
  <2>2. ASSUME NEW o \in names
        PROVE  Long(o) \in Word(names) /\ Valued(o) \in Word(names)
    <3>1. <<o>> \in Seq(names)
      OBVIOUS
    <3>2. QED
      BY <3>1 DEF Long, Valued, Word
  <2>3. Plain \in Word(names)
    <3>1. <<>> \in Seq(names)
      OBVIOUS
    <3>2. QED
      BY <3>1 DEF Plain, Word
  <2>4. QED
    BY <2>1, <2>2, <2>3 DEF Words
<1>2. ParserRight
  <2>1. ASSUME NEW n \in 0..2, NEW arg \in [1..n -> Words]
        PROVE  OptionsOf(arg, names)
    <3>1. arg \in Seq(Word(names))
      <4>1. arg \in [1..n -> Word(names)]
        BY <1>1
      <4>2. QED
        BY <4>1, SeqDef
    <3>2. QED
      BY <3>1, ParserAlways
  <2>2. QED
    BY <2>1 DEF ParserRight, ArgLists
<1>3. OptionsRight
  BY <1>2 DEF OptionsRight
<1>4. QED
  BY <1>3, PTL
=============================================================================
