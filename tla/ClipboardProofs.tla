-------------------------- MODULE ClipboardProofs --------------------------
(***************************************************************************)
(* Theorems about Clipboard, for every set of clients, every length of     *)
(* their texts and every number of pastes and of daemons that end.         *)
(***************************************************************************)
EXTENDS Clipboard, TLAPS

USE ClipboardAssumption

----------------------------------------------------------------------------
(* Texts, and writing one over another.                                    *)

LEMMA TextType ==
  ASSUME NEW w \in Writer
  PROVE  Text(w) \in Seq(Writer)
<1>1. Size[w] \in Nat
  OBVIOUS
<1> QED
  BY <1>1 DEF Text

LEMMA OverType ==
  ASSUME NEW t \in Seq(Writer), NEW old \in Seq(Writer)
  PROVE  Over(t, old) \in Seq(Writer)
<1>1. SubSeq(old, Len(t) + 1, Len(old)) \in Seq(Writer)
  OBVIOUS
<1> QED
  BY <1>1 DEF Over

----------------------------------------------------------------------------
(* Type correctness.                                                       *)

LEMMA TypeStep ==
  ASSUME TypeOK, [Next]_vars
  PROVE  TypeOK'
<1>0. /\ Client \subseteq Writer /\ Client \subseteq Daemon /\ Server \in Writer
      /\ <<>> \in Seq(Writer) /\ file \in Seq(Writer)
  BY DEF Writer, Daemon, TypeOK
<1>1. ASSUME NEW c \in Client, Open(c) PROVE TypeOK'
  BY <1>0, <1>1 DEF TypeOK, Open, server, counts
<1>2. ASSUME NEW c \in Client, Write(c) PROVE TypeOK'
  <2>1. file' \in Seq(Writer) /\ last' \in Writer
    BY <1>0, <1>2, TextType, OverType DEF Write
  <2> QED
    BY <1>2, <2>1 DEF TypeOK, Write, server, counts
<1>3. ASSUME NEW c \in Client, Knock(c) PROVE TypeOK'
  BY <1>0, <1>3 DEF TypeOK, Knock, server, counts
<1>4. ASSUME NEW c \in Client, NoMaster(c) PROVE TypeOK'
  BY <1>0, <1>4 DEF TypeOK, NoMaster, server, counts
<1>5. ASSUME NEW c \in Client, Launch(c) PROVE TypeOK'
  BY <1>0, <1>5 DEF TypeOK, Launch, server, counts
<1>6. ASSUME NEW c \in Client, ReadScript(c) PROVE TypeOK'
  BY <1>0, <1>6 DEF TypeOK, ReadScript, server, counts
<1>7. ASSUME NEW c \in Client, Pkill(c) PROVE TypeOK'
  BY <1>0, <1>7 DEF TypeOK, Pkill, server, counts
<1>8. ASSUME NEW c \in Client, Nohup(c) PROVE TypeOK'
  BY <1>0, <1>8 DEF TypeOK, Nohup, server, counts
<1>9. ASSUME NEW c \in Client, Call(c) PROVE TypeOK'
  BY <1>0, <1>9 DEF TypeOK, Call, server, counts
<1>10. ASSUME NEW c \in Client, Called(c) PROVE TypeOK'
  BY <1>0, <1>10 DEF TypeOK, Called, server, counts
<1>11. ASSUME NEW d \in Daemon, Bind(d) PROVE TypeOK'
  BY <1>0, <1>11 DEF TypeOK, Bind, server, counts
<1>12. ASSUME NEW d \in Daemon, End(d) PROVE TypeOK'
  <2>1. crashes' \in 0..MaxCrash
    BY <1>12 DEF TypeOK, End
  <2>2. daemon' \in [Daemon -> {"none", "starting", "serving", "dead"}]
    BY <1>12 DEF TypeOK, End
  <2>3. /\ backlog' = 0 /\ handler' = FALSE /\ pasting' = FALSE
        /\ wanted' = FALSE
        /\ UNCHANGED <<file, last, script, cli, sh, handed, pastes>>
    BY <1>12 DEF End
  <2> QED
    BY <2>1, <2>2, <2>3 DEF TypeOK
<1>13. CASE NewHandler
  BY <1>0, <1>13 DEF TypeOK, NewHandler, server, counts
<1>14. CASE Accept
  BY <1>0, <1>14 DEF TypeOK, Accept, server, counts
<1>15. CASE PasteOpen
  BY <1>0, <1>15 DEF TypeOK, PasteOpen, server, counts
<1>16. CASE PasteWrite
  <2>1. file' \in Seq(Writer) /\ last' \in Writer
    BY <1>0, <1>16, TextType, OverType DEF PasteWrite
  <2> QED
    BY <1>16, <2>1 DEF TypeOK, PasteWrite, counts
<1>17. CASE UNCHANGED vars
  BY <1>17 DEF TypeOK, vars, server, counts
<1> QED
  BY <1>1, <1>2, <1>3, <1>4, <1>5, <1>6, <1>7, <1>8, <1>9,
     <1>10, <1>11, <1>12, <1>13, <1>14, <1>15, <1>16, <1>17 DEF Next

LEMMA InitType == Init => TypeOK
<1> SUFFICES ASSUME Init PROVE TypeOK
  OBVIOUS
<1>1. <<>> \in Seq(Writer) /\ Server \in Writer
  BY DEF Writer
<1>2. daemon \in [Daemon -> {"none", "starting", "serving", "dead"}]
  BY DEF Init
<1>3. /\ file \in Seq(Writer) /\ handed \in Seq(Writer) /\ last \in Writer
  BY <1>1 DEF Init
<1>4. /\ cli \in [Client -> {"start", "opened", "written", "scripting", "done",
                             "killed"}]
      /\ sh \in [Client -> {"none", "forked", "pkill", "nohup", "sleep",
                            "calling", "done"}]
  BY DEF Init
<1>5. /\ script = "empty" /\ backlog = 0 /\ handler \in BOOLEAN
      /\ pasting = FALSE /\ wanted = FALSE /\ pastes = 0 /\ crashes = 0
  BY DEF Init
<1>6. pastes \in 0..MaxPaste /\ crashes \in 0..MaxCrash
  BY <1>5
<1> QED
  BY <1>2, <1>3, <1>4, <1>5, <1>6 DEF TypeOK

(* Every state of every behaviour is well typed.                           *)
THEOREM TypeCorrect == Spec => []TypeOK
  BY InitType, TypeStep, PTL DEF Spec

----------------------------------------------------------------------------
(* A client that finds no daemon gets one.  Until there is one, somebody   *)
(* is about to start it: a client that has the script open, a shell that   *)
(* will read it or has, or a daemon that has not reached its bind.         *)

Coming ==
  \/ Serving # {}
  \/ \E d \in Daemon : daemon[d] = "starting"
  \/ \E c \in Client : \/ cli[c] = "scripting"
                       \/ sh[c] = "forked" /\ script = "full"
                       \/ sh[c] \in {"pkill", "nohup"}

WantedInv == TypeOK /\ (wanted => Coming)

LEMMA WantedStep ==
  ASSUME WantedInv, [Next]_vars
  PROVE  WantedInv'
<1>0. /\ TypeOK /\ TypeOK' /\ Client \subseteq Daemon
      /\ cli \in [Client -> {"start", "opened", "written", "scripting", "done",
                             "killed"}]
      /\ sh \in [Client -> {"none", "forked", "pkill", "nohup", "sleep",
                            "calling", "done"}]
      /\ daemon \in [Daemon -> {"none", "starting", "serving", "dead"}]
      /\ script \in {"empty", "full"}
  BY TypeStep DEF WantedInv, TypeOK, Daemon
<1> SUFFICES ASSUME wanted' PROVE Coming'
  BY <1>0 DEF WantedInv
<1> USE DEF Coming, Serving
<1>1. ASSUME NEW c \in Client, Open(c) \/ Write(c) \/ Knock(c) PROVE Coming'
  <2>1. /\ wanted /\ UNCHANGED <<script, sh, daemon>>
        /\ cli[c] # "scripting" /\ \A d \in Client : d # c => cli'[d] = cli[d]
    BY <1>0, <1>1 DEF Open, Write, Knock
  <2> QED
    BY <1>0, <2>1 DEF WantedInv
<1>2. ASSUME NEW c \in Client, NoMaster(c) PROVE Coming'
  BY <1>0, <1>2 DEF NoMaster
<1>3. ASSUME NEW c \in Client, Launch(c) PROVE Coming'
  BY <1>0, <1>3 DEF Launch
<1>4. ASSUME NEW c \in Client, ReadScript(c) PROVE Coming'
  BY <1>0, <1>4 DEF ReadScript, WantedInv
<1>5. ASSUME NEW c \in Client, Pkill(c) PROVE Coming'
  BY <1>0, <1>5 DEF Pkill
<1>6. ASSUME NEW c \in Client, Nohup(c) PROVE Coming'
  BY <1>0, <1>6 DEF Nohup
<1>7. ASSUME NEW c \in Client, Call(c) \/ Called(c) PROVE Coming'
  <2>1. /\ wanted /\ UNCHANGED <<script, cli, daemon>>
        /\ sh[c] \in {"sleep", "calling"}
        /\ \A d \in Client : d # c => sh'[d] = sh[d]
    BY <1>0, <1>7 DEF Call, Called
  <2> QED
    BY <1>0, <2>1 DEF WantedInv
<1>8. ASSUME NEW d \in Daemon, Bind(d) PROVE Coming'
  BY <1>0, <1>8 DEF Bind
<1>9. ASSUME NEW d \in Daemon, End(d) PROVE Coming'
  BY <1>9 DEF End
<1>10. CASE NewHandler \/ Accept \/ PasteOpen \/ PasteWrite
  BY <1>0, <1>10 DEF NewHandler, Accept, PasteOpen, PasteWrite, WantedInv
<1>11. CASE UNCHANGED vars
  BY <1>0, <1>11 DEF vars, WantedInv
<1> QED
  BY <1>1, <1>2, <1>3, <1>4, <1>5, <1>6, <1>7, <1>8, <1>9, <1>10, <1>11 DEF Next

(* Whenever everything has come to rest and a client had found no daemon,  *)
(* a daemon is serving, or the last one ended after it served.             *)
THEOREM RestartedAlways == Spec => []Restarted
<1>1. Init => WantedInv
  BY InitType DEF Init, WantedInv
<1>2. WantedInv => Restarted
  BY DEF WantedInv, Coming, Restarted, Quiet
<1> QED
  BY <1>1, <1>2, WantedStep, PTL DEF Spec

----------------------------------------------------------------------------
(* A daemon that has served all along has taken up the file.  What it has  *)
(* not taken up yet is on its way: a client is writing it or will knock,   *)
(* or has knocked.  That needs First to be the only daemon that serves.    *)

OneDaemon == \A d, e \in Daemon :
               daemon[d] = "serving" /\ daemon[e] = "serving" => d = e

OnItsWay == \/ handed = file \/ last = Server
            \/ backlog > 0
            \/ \E c \in Client : cli[c] \in {"opened", "written"}

TakenInv ==
  /\ TypeOK /\ OneDaemon
  /\ daemon[First] # "starting"
  /\ daemon[First] = "serving" => handler /\ OnItsWay

LEMMA TakenStep ==
  ASSUME TakenInv, [Next]_vars
  PROVE  TakenInv'
<1>0. /\ TypeOK /\ TypeOK' /\ Client \subseteq Daemon /\ First \in Daemon
      /\ First \notin Client
      /\ cli \in [Client -> {"start", "opened", "written", "scripting", "done",
                             "killed"}]
      /\ daemon \in [Daemon -> {"none", "starting", "serving", "dead"}]
      /\ backlog \in Nat
  BY TypeStep DEF TakenInv, TypeOK, Daemon
<1> USE DEF OneDaemon, OnItsWay, Serving
<1>1. ASSUME UNCHANGED <<daemon, handler>>,
             daemon[First] = "serving" => OnItsWay'
      PROVE  TakenInv'
  BY <1>0, <1>1 DEF TakenInv
<1>2. ASSUME NEW c \in Client, Open(c) \/ Write(c) PROVE TakenInv'
  BY <1>0, <1>1, <1>2 DEF Open, Write, server
<1>3. ASSUME NEW c \in Client, Knock(c) PROVE TakenInv'
  BY <1>0, <1>1, <1>3 DEF Knock
<1>4. ASSUME NEW c \in Client, NoMaster(c) PROVE TakenInv'
  <2>1. daemon[First] # "serving"
    BY <1>0, <1>4 DEF NoMaster
  <2> QED
    BY <1>1, <1>4, <2>1 DEF NoMaster, server
<1>5. ASSUME NEW c \in Client, Launch(c) PROVE TakenInv'
  <2>1. /\ UNCHANGED <<handed, file, last, backlog>>
        /\ cli[c] = "scripting" /\ \A d \in Client : d # c => cli'[d] = cli[d]
    BY <1>0, <1>5 DEF Launch, server
  <2>2. daemon[First] = "serving" => OnItsWay'
    BY <1>0, <2>1 DEF TakenInv
  <2> QED
    BY <1>1, <1>5, <2>2 DEF Launch, server
<1>6. ASSUME NEW c \in Client, ReadScript(c) \/ Call(c) PROVE TakenInv'
  <2>1. UNCHANGED <<handed, file, last, backlog, cli, daemon, handler>>
    BY <1>6 DEF ReadScript, Call, server
  <2> QED
    BY <1>1, <2>1 DEF TakenInv
<1>7. ASSUME NEW c \in Client, Called(c) PROVE TakenInv'
  BY <1>0, <1>1, <1>7 DEF Called, TakenInv
<1>8. ASSUME NEW c \in Client, Pkill(c) PROVE TakenInv'
  BY <1>0, <1>8 DEF Pkill, TakenInv
<1>9. ASSUME NEW c \in Client, Nohup(c) PROVE TakenInv'
  BY <1>0, <1>9 DEF Nohup, TakenInv, server
<1>10. ASSUME NEW d \in Daemon, Bind(d) PROVE TakenInv'
  <2>1. d # First
    BY <1>10 DEF Bind, TakenInv
  <2>2. daemon'[First] = daemon[First]
    BY <1>0, <1>10, <2>1 DEF Bind
  <2>3. OneDaemon'
    BY <1>0, <1>10 DEF Bind, TakenInv
  <2> QED
    BY <1>0, <1>10, <2>2, <2>3 DEF Bind, TakenInv, server
<1>11. ASSUME NEW d \in Daemon, End(d) PROVE TakenInv'
  <2>1. OneDaemon' /\ daemon'[First] \notin {"starting", "serving"}
    BY <1>0, <1>11 DEF End, TakenInv
  <2> QED
    BY <1>0, <2>1 DEF TakenInv
<1>12. CASE NewHandler
  BY <1>0, <1>12 DEF NewHandler, TakenInv
<1>13. CASE Accept
  BY <1>0, <1>1, <1>13 DEF Accept, TakenInv
<1>14. CASE PasteOpen \/ PasteWrite
  BY <1>0, <1>1, <1>14 DEF PasteOpen, PasteWrite
<1>15. CASE UNCHANGED vars
  <2>1. UNCHANGED <<handed, file, last, backlog, cli, daemon, handler>>
    BY <1>15 DEF vars, server
  <2> QED
    BY <1>1, <2>1 DEF TakenInv
<1> QED
  BY <1>2, <1>3, <1>4, <1>5, <1>6, <1>7, <1>8, <1>9, <1>10, <1>11, <1>12,
     <1>13, <1>14, <1>15 DEF Next

(* Whenever everything has come to rest, a daemon that has served from the *)
(* start has taken up what the file holds, or the server wrote it.         *)
THEOREM TakenUpAlways == Spec => []TakenUp
<1>1. Init => TakenInv
  <2> SUFFICES ASSUME Init PROVE TakenInv
    OBVIOUS
  <2>1. First \in Daemon /\ First \notin Client
    BY DEF Daemon
  <2>2. /\ daemon[First] = "serving" => handler
        /\ daemon[First] # "starting"
        /\ \A d \in Daemon : d # First => daemon[d] = "none"
    <3>1. \A d \in Daemon : daemon[d] = IF d = First /\ handler THEN "serving"
                                      ELSE "none"
      BY Zenon DEF Init
    <3> QED
      BY <2>1, <3>1, Zenon
  <2>3. daemon[First] = "serving" => handler /\ OnItsWay
    BY <2>2 DEF Init, OnItsWay
  <2>4. OneDaemon
    BY <2>2, Zenon DEF OneDaemon
  <2> QED
    BY InitType, <2>2, <2>3, <2>4 DEF TakenInv
<1>2. TakenInv => TakenUp
  <2> SUFFICES ASSUME TakenInv, Quiet, daemon[First] = "serving"
               PROVE  handed = file \/ last = Server
    BY DEF TakenUp
  <2>1. ~(backlog > 0)
    BY DEF Quiet
  <2>2. \A c \in Client : cli[c] \notin {"opened", "written"}
    BY DEF Quiet
  <2> QED
    BY <2>1, <2>2 DEF TakenInv, OnItsWay
<1> QED
  BY <1>1, <1>2, TakenStep, PTL DEF Spec
=============================================================================
