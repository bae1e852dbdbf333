----------------------------- MODULE WatchdogProofs -----------------------------
(***************************************************************************)
(* Proofs about Watchdog, for any number of processes and scripts: the     *)
(* types, and that the chains belong to the process that serves.           *)
(***************************************************************************)
EXTENDS Watchdog, TLAPS

\* One process holds the port: what makes ChainsAreOwned inductive.  Whoever
\* resets the chains holds it, so whoever serves is the same process.
OnePort == \A p, q \in Bound : p = q

PInv == PTypeOK /\ OnePort /\ ChainsAreOwned

\* What may happen to processes: a start, a restart, a signal or two, an
\* external interface, their own steps and their death.
PNext ==
    \/ Start \/ Restart
    \/ \E p \in Proc : Stop(p) \/ SecondSignal(p) \/ SetUp(p) \/ Own(p) \/ Die(p)

\* 0 is none of the processes.
LEMMA NoProcIsNone == NoProc \notin Proc
  BY DEF NoProc, Proc

-------------------------------------------------------------------------------
(***************************************************************************)
(* The processes.                                                          *)
(***************************************************************************)

\* The step keeps who is bound and who serves, and leaves the chains alone.
Keeps == Bound' \subseteq Bound /\ Serving' \subseteq Serving /\ chains' = chains

LEMMA KeepsInv == ASSUME OnePort, ChainsAreOwned, Keeps
                  PROVE  OnePort' /\ ChainsAreOwned'
  BY DEF OnePort, ChainsAreOwned, Keeps

LEMMA Nothing == ASSUME PInv, UNCHANGED pvars PROVE PInv'
  BY DEF pvars, PInv, PTypeOK, OnePort, ChainsAreOwned, Bound, Serving

\* Starts and restarts take nothing from those who are there.
LEMMA Starts == ASSUME PInv, Start \/ Restart PROVE PInv'
<1>1. \/ UNCHANGED pvars
      \/ \E p \in Proc, n \in Process :
           /\ p \notin Alive /\ proc' = [proc EXCEPT ![p] = n]
           /\ n.pc \in {"boot", "heir"}
           /\ chains' = chains /\ sock' \in Proc \cup {NoProc}
  <2>1. Fresh \in Process /\ Fresh.pc = "boot"
    BY DEF Fresh, Process, Pc
  <2>2. \A q \in Proc : HeirOf(q) \in Process /\ HeirOf(q).pc = "heir"
    BY DEF HeirOf, Process, Pc
  <2>3. CASE Start
    BY <2>1, <2>3 DEF Start, Free, PInv, PTypeOK
  <2>4. CASE Restart
    BY <2>2, <2>4 DEF Restart, Free, Listening
  <2> QED BY <2>3, <2>4
<1>2. CASE UNCHANGED pvars
  BY <1>2, Nothing
<1>3. ASSUME NEW p \in Proc, NEW n \in Process,
             p \notin Alive, proc' = [proc EXCEPT ![p] = n],
             n.pc \in {"boot", "heir"},
             chains' = chains, sock' \in Proc \cup {NoProc}
      PROVE  PInv'
  <2>1. PTypeOK'
    BY <1>3 DEF PInv, PTypeOK
  <2>2. Keeps
    BY <1>3 DEF Keeps, Bound, Serving, PInv, PTypeOK
  <2> QED BY <2>1, <2>2, KeepsInv DEF PInv
<1> QED BY <1>1, <1>2, <1>3

\* A signal makes a process that serves one that is doomed.
LEMMA Stops == ASSUME PInv, NEW p \in Proc, Stop(p) PROVE PInv'
<1>1. PTypeOK'
  BY DEF Stop, PInv, PTypeOK, Process, Pc
<1>2. Keeps
  BY DEF Stop, Keeps, Bound, Serving, PInv, PTypeOK
<1> QED BY <1>1, <1>2, KeepsInv DEF PInv

\* So does the hand-over, whichever process it is that sends the list.
LEMMA Downloads == ASSUME PInv, NEW h \in Proc, Download(h) PROVE PInv'
<1>1. proc \in [Proc -> Process] /\ proc[h].pc = "heir"
  BY DEF Download, PInv, PTypeOK
<1>2. chains' = chains /\ sock' = NoProc
  BY DEF Download
<1>3. CASE sock = NoProc
  <2>1. PTypeOK'
    BY <1>1, <1>2, <1>3 DEF Download, PInv, PTypeOK, Process, Pc
  <2>2. Keeps
    BY <1>1, <1>2, <1>3 DEF Download, Keeps, Bound, Serving, Process
  <2> QED BY <2>1, <2>2, KeepsInv DEF PInv
<1>4. CASE sock # NoProc
  <2>1. sock \in Proc
    BY <1>4 DEF PInv, PTypeOK
  <2>2. \A q \in Proc :
          /\ proc'[q].pc \in Pc /\ proc'[q].parent = proc[q].parent
          /\ proc'[q] \in Process
          /\ \/ proc'[q].pc = proc[q].pc
             \/ proc[q].pc = "heir" /\ proc'[q].pc = "wait"
             \/ proc[q].pc = "serve" /\ proc'[q].pc = "doomed"
    BY <1>1, <1>4, <2>1 DEF Download, Process, Pc
  <2>3. PTypeOK'
    BY <1>1, <1>2, <1>4, <2>2 DEF Download, PInv, PTypeOK
  <2>4. Keeps
    BY <1>2, <2>2 DEF Keeps, Bound, Serving
  <2> QED BY <2>3, <2>4, KeepsInv DEF PInv
<1> QED BY <1>3, <1>4

\* The end of a process frees its port and touches nobody else's.
LEMMA EndsWell == ASSUME PInv, NEW p \in Proc, Ends(p) PROVE PInv'
<1>1. \A q \in Proc : proc'[q] = Gone \/ proc'[q].pc = proc[q].pc
  BY DEF Ends, PInv, PTypeOK, Process
<1>2. PTypeOK'
  BY DEF Ends, PInv, PTypeOK, Process, Pc, Gone
<1>3. Keeps
  BY <1>1 DEF Ends, Keeps, Bound, Serving, Gone
<1> QED BY <1>2, <1>3, KeepsInv DEF PInv

\* Only these steps take the port or the chains.
LEMMA Binds == ASSUME PInv, NEW p \in Proc, Bind(p) PROVE PInv'
<1>1. CASE Bound = {}
  <2>1. /\ proc' = [proc EXCEPT ![p].pc = "route", ![p].fed = FALSE]
        /\ chains' = NoProc /\ sock' = sock
    BY <1>1 DEF Bind
  <2>2. \A q \in Proc :
          /\ proc'[q] \in Process
          /\ \/ q = p /\ proc'[q].pc = "route"
             \/ q # p /\ proc'[q] = proc[q]
    BY <2>1 DEF PInv, PTypeOK, Process, Pc
  <2>3. PTypeOK'
    BY <2>1, <2>2 DEF PInv, PTypeOK
  <2>4. Bound' \subseteq {p} /\ Serving' = {}
    BY <1>1, <2>2 DEF Bound, Serving
  <2> QED BY <2>3, <2>4 DEF PInv, OnePort, ChainsAreOwned
<1>2. CASE Bound # {}
  <2>1. proc' = [proc EXCEPT ![p] = Gone] /\ chains' = chains /\ sock' = sock
    BY <1>2 DEF Bind
  <2>2. PTypeOK'
    BY <2>1 DEF PInv, PTypeOK, Process, Pc, Gone
  <2>3. Keeps
    BY <2>1 DEF Keeps, Bound, Serving, PInv, PTypeOK, Gone
  <2> QED BY <2>2, <2>3, KeepsInv DEF PInv
<1> QED BY <1>1, <1>2

LEMMA SetsUp == ASSUME PInv, NEW p \in Proc, SetUp(p) PROVE PInv'
<1>1. PTypeOK'
  BY DEF SetUp, PInv, PTypeOK, Process, Pc
<1>2. Bound' \subseteq Bound /\ Serving' \subseteq Bound /\ p \in Bound
  BY DEF SetUp, Bound, Serving, PInv, PTypeOK, Process
<1>3. chains' = p
  BY DEF SetUp
<1> QED BY <1>1, <1>2, <1>3 DEF PInv, OnePort, ChainsAreOwned

\* The process that resets the chains holds the port, and serves no more.
LEMMA Terminates == ASSUME PInv, NEW p \in Proc, Terminate(p) PROVE PInv'
<1>1. PTypeOK'
  BY DEF Terminate, PInv, PTypeOK, Process, Pc
<1>2. Bound' \subseteq Bound /\ Serving' \subseteq Bound \ {p} /\ p \in Bound
  BY DEF Terminate, Bound, Serving, PInv, PTypeOK, Process
<1> QED BY <1>1, <1>2 DEF PInv, OnePort, ChainsAreOwned

LEMMA Hangs == ASSUME PInv, NEW p \in Proc, SecondSignal(p) PROVE PInv'
<1>1. PTypeOK'
  BY DEF SecondSignal, PInv, PTypeOK, Process, Pc
<1>2. Bound' \subseteq Bound /\ Serving' \subseteq Bound \ {p} /\ p \in Bound
  BY DEF SecondSignal, Bound, Serving, PInv, PTypeOK, Process
<1> QED BY <1>1, <1>2 DEF PInv, OnePort, ChainsAreOwned

LEMMA Waits == ASSUME PInv, NEW h \in Proc, ParentIsDead(h) PROVE PInv'
<1>1. PTypeOK'
  BY DEF ParentIsDead, PInv, PTypeOK, Process, Pc
<1>2. Keeps
  BY DEF ParentIsDead, Keeps, Bound, Serving, PInv, PTypeOK, Process
<1> QED BY <1>1, <1>2, KeepsInv DEF PInv

\* Whatever happens to processes, the invariant stays.
LEMMA ProcessesStep == ASSUME PInv, [PNext]_pvars PROVE PInv'
<1>1. CASE Start \/ Restart
  BY <1>1, Starts
<1>2. ASSUME NEW p \in Proc, Stop(p) \/ SecondSignal(p) \/ SetUp(p) PROVE PInv'
  BY <1>2, Stops, Hangs, SetsUp
<1>3. ASSUME NEW p \in Proc, Own(p) PROVE PInv'
  BY <1>3, Downloads, Waits, Binds, Terminates, EndsWell DEF Own, Exit
<1>4. ASSUME NEW p \in Proc, Die(p) PROVE PInv'
  BY <1>4, EndsWell DEF Die
<1>5. CASE UNCHANGED pvars
  BY <1>5, Nothing
<1> QED BY <1>1, <1>2, <1>3, <1>4, <1>5 DEF PNext

-------------------------------------------------------------------------------
(***************************************************************************)
(* The device.                                                             *)
(***************************************************************************)

\* The types of the watchdog's own variables.
DogTypeOK == dog \in Dog

DeviceTypeOK ==
    /\ UTypeOK
    /\ conf \in [Script -> Step]
    /\ gwid \in BOOLEAN
    /\ lock \in BOOLEAN
    /\ faults \in 0 .. MaxFaults
    /\ pinger = "on" => gwid

WInv == PInv /\ DogTypeOK /\ DeviceTypeOK

\* No step of the device does anything to processes but what PNext allows.
LEMMA ProcessesOnly == ASSUME WNext PROVE [PNext]_pvars
<1>1. CASE DogStep
  BY <1>1 DEF DogStep, DogLooks, DogStarts, DogRestarts, DogJudges, PNext
<1>2. ASSUME NEW c \in Script,
             Called(c) \/ ScriptStep(c) \/ ScriptGets(c) \/ ScriptDies(c)
      PROVE  [PNext]_pvars
  BY <1>2 DEF Called, ScriptStep, GetStr, Touch, Same, Last, Apply, StartAnew,
     ScriptGets, GotStr, Confirmed, GotConf, GotPages, ScriptDies, PNext
<1>3. ASSUME NEW p \in Proc,
             ProcessStep(p) \/ FromOutside(p) \/ ProcessFails(p) \/ HungIsKilled(p)
      PROVE  [PNext]_pvars
  BY <1>3 DEF ProcessStep, FromOutside, ProcessFails, HungIsKilled, PNext
<1>4. CASE Speaks \/ Answer \/ StatusStep \/ UdphdStep
  BY <1>4 DEF Speaks, Answer, StatusStep, UdphdStep
<1> QED BY <1>1, <1>2, <1>3, <1>4 DEF WNext

\* check_dog.sh reads the status only where it has looked at it.
LEMMA DogTypes == ASSUME WInv, WNext PROVE DogTypeOK'
<1> USE DEF DogTypeOK
<1>1. dog \in Dog /\ status \in {"none", "old", "fresh"}
  BY DEF WInv, DeviceTypeOK, UTypeOK
<1>2. CASE DogLooks \/ DogStarts
  BY <1>1, <1>2 DEF DogLooks, DogStarts, Dog
<1>3. CASE DogRestarts
  BY <1>1, <1>3 DEF DogRestarts, Dog, Asleep, Dead
<1>4. CASE DogJudges
  BY <1>4 DEF DogJudges, Dog
<1>5. CASE dog' = dog
  BY <1>1, <1>5
<1>6. WNext => DogStep \/ dog' = dog
  BY DEF WNext, Called, ScriptStep, GetStr, Touch, Same, Last, Apply, StartAnew,
     ScriptGets, GotStr, Confirmed, GotConf, GotPages, ScriptDies, ProcessStep,
     FromOutside, ProcessFails, HungIsKilled, Speaks, Answer, StatusStep, UdphdStep
<1> QED BY <1>2, <1>3, <1>4, <1>5, <1>6 DEF DogStep

\* A run of get_wifidog_conf.sh moves on, and the device does not lose its id.
LEMMA ScriptTypes ==
  ASSUME DeviceTypeOK, NEW c \in Script,
         Called(c) \/ ScriptStep(c) \/ ScriptGets(c) \/ ScriptDies(c)
  PROVE  DeviceTypeOK'
<1>1. UTypeOK' /\ pinger' = pinger
  BY DEF DeviceTypeOK, UTypeOK, uvars, Called, ScriptStep, GetStr, Touch, Same,
     Last, Apply, StartAnew, ScriptGets, GotStr, Confirmed, GotConf, GotPages,
     ScriptDies
<1>2. \E s \in Step : Goes(c, s)
  BY DEF Called, ScriptStep, GetStr, Touch, Same, Last, Apply, StartAnew,
     ScriptGets, GotStr, Confirmed, GotConf, GotPages, ScriptDies, Step, Waiting,
     AfterStart
<1>3. conf' \in [Script -> Step]
  BY <1>2 DEF Goes, DeviceTypeOK
<1>4. gwid' = gwid \/ gwid' = TRUE
  BY DEF device, Called, ScriptStep, GetStr, Touch, Same, Last, Apply, StartAnew,
     ScriptGets, GotStr, Confirmed, GotConf, GotPages, ScriptDies
<1>5. lock' = lock \/ lock' = TRUE \/ lock' = FALSE
  BY DEF device, Called, ScriptStep, GetStr, Touch, Same, Last, Apply, StartAnew,
     ScriptGets, GotStr, Confirmed, GotConf, GotPages, ScriptDies
<1>6. Called(c) \/ ScriptStep(c) \/ ScriptGets(c) => faults' = faults
  BY DEF device, Called, ScriptStep, GetStr, Touch, Same, Last, Apply, StartAnew,
     ScriptGets, GotStr, Confirmed, GotConf, GotPages
<1>7. faults' \in 0 .. MaxFaults
  BY <1>6, WatchdogAssumption DEF DeviceTypeOK, ScriptDies
<1>8. gwid' \in BOOLEAN /\ lock' \in BOOLEAN /\ (pinger' = "on" => gwid')
  BY <1>1, <1>4, <1>5, Zenon DEF DeviceTypeOK
<1> QED BY <1>1, <1>3, <1>7, <1>8 DEF DeviceTypeOK

\* udphd speaks only after it has read the id.
LEMMA UdphdTypes ==
  ASSUME DeviceTypeOK, Speaks \/ Answer \/ StatusStep \/ UdphdStep
  PROVE  DeviceTypeOK'
<1>1. UNCHANGED <<conf, gwid, lock, faults>>
  BY DEF Speaks, Answer, StatusStep, UdphdStep, device
<1>2. UTypeOK' /\ (pinger' = "on" => pinger = "on" \/ gwid)
  BY DEF DeviceTypeOK, UTypeOK, Speaks, UdphdUp, Answer, Pong, StatusStep,
     WriteStatus, UdphdStep, Command, CommandEnds, PingFails, ReceiverEnds, Age,
     BindFails
<1> QED BY <1>1, <1>2 DEF DeviceTypeOK

LEMMA DogAndProcessTypes ==
  ASSUME DeviceTypeOK,
         \/ DogStep
         \/ \E p \in Proc :
              ProcessStep(p) \/ FromOutside(p) \/ ProcessFails(p) \/ HungIsKilled(p)
  PROVE  DeviceTypeOK'
<1>1. UNCHANGED <<conf, gwid, lock>> /\ faults' \in 0 .. MaxFaults
  BY WatchdogAssumption DEF DeviceTypeOK, device, DogStep, DogLooks, DogStarts,
     DogRestarts, DogJudges, ProcessStep, FromOutside, ProcessFails,
     HungIsKilled
<1>2. UTypeOK' /\ (pinger' = "on" => pinger = "on")
  BY DEF DeviceTypeOK, UTypeOK, uvars, DogStep, DogLooks, DogStarts, DogRestarts,
     DogJudges, StartUdphd, ProcessStep, FromOutside, ProcessFails,
     HungIsKilled
<1> QED BY <1>1, <1>2 DEF DeviceTypeOK

LEMMA DeviceInit == ASSUME WInit PROVE WInv
<1>1. PInv
  BY NoProcIsNone DEF WInit, PInit, PInv, PTypeOK, OnePort, ChainsAreOwned,
     Bound, Serving, Gone, Process, Pc
<1>2. DogTypeOK
  BY DEF WInit, DogTypeOK, Dog
<1>3. DeviceTypeOK
  <2>1. conf \in [Script -> Step]
    BY DEF WInit, Step
  <2>2. UTypeOK /\ pinger # "on"
    BY DEF WInit, UInit, UTypeOK
  <2>3. faults \in 0 .. MaxFaults
    BY WatchdogAssumption DEF WInit
  <2>4. gwid \in BOOLEAN /\ lock \in BOOLEAN
    BY Zenon DEF WInit
  <2> QED BY <2>1, <2>2, <2>3, <2>4 DEF DeviceTypeOK
<1> QED BY <1>1, <1>2, <1>3 DEF WInv

LEMMA DeviceStep == ASSUME WInv, [WNext]_wvars PROVE WInv'
<1>1. CASE WNext
  <2>1. PInv'
    BY <1>1, ProcessesOnly, ProcessesStep DEF WInv
  <2>2. DogTypeOK'
    BY <1>1, DogTypes
  <2>3. DeviceTypeOK'
    BY <1>1, ScriptTypes, UdphdTypes, DogAndProcessTypes DEF WInv, WNext
  <2> QED BY <2>1, <2>2, <2>3 DEF WInv
<1>2. CASE UNCHANGED wvars
  <2>1. PInv'
    BY <1>2, ProcessesStep DEF wvars, pvars, WInv
  <2>2. DogTypeOK' /\ DeviceTypeOK'
    BY <1>2 DEF wvars, WInv, DogTypeOK, DeviceTypeOK, UTypeOK
  <2> QED BY <2>1, <2>2 DEF WInv
<1> QED BY <1>1, <1>2

LEMMA DeviceInvariant == WSpec => []WInv
<1>1. WInit => WInv
  BY DeviceInit
<1>2. WInv /\ [WNext]_wvars => WInv'
  BY DeviceStep
<1> QED BY <1>1, <1>2, PTL DEF WSpec

-------------------------------------------------------------------------------
\* check_dog.sh, get_wifidog_conf.sh, udphd and the processes themselves keep
\* the device in its types, and udphd is silent until the device has its id.
THEOREM DeviceTypeCorrect == WSpec => []WTypeOK
<1>1. WInv => WTypeOK
  BY DEF WInv, PInv, DogTypeOK, DeviceTypeOK, WTypeOK
<1> QED BY <1>1, DeviceInvariant, PTL

\* gateway.c: "Reset the firewall (if WiFiDog crashed)": however many scripts
\* start and restart wifidog at a time, the chains of the process that serves
\* are the ones it has set up.
THEOREM ServerOwnsChains == WSpec => []ChainsAreOwned
<1>1. WInv => ChainsAreOwned
  BY DEF WInv, PInv
<1> QED BY <1>1, DeviceInvariant, PTL
===============================================================================
