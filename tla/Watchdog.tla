-------------------------------- MODULE Watchdog --------------------------------
(***************************************************************************)
(* Who starts, restarts and watches over wifidog and udphd on a device:    *)
(*   - check_dog.sh, one loop of five minutes,                             *)
(*   - get_wifidog_conf.sh, any number of runs at a time: at boot by       *)
(*     wifidog.init, when the wan comes up, and as a remote command,       *)
(*   - "wdctl stop" and whatever kills a process.                          *)
(* No two of them share a lock, but for the device id.                     *)
(***************************************************************************)
EXTENDS Processes, Udphd

CONSTANTS
    Script,     \* runs of get_wifidog_conf.sh alive at a time (bound)
    MaxFaults   \* processes and scripts that die or hang (bound)

ASSUME WatchdogAssumption == MaxFaults \in Nat

VARIABLES
    dog,      \* where check_dog.sh is, and the value of $udphdstatus
    conf,     \* conf[c]: where run c of get_wifidog_conf.sh is
    gwid,     \* the device has its id: hdwifi_get_str succeeds
    lock,     \* /tmp/lock/yunwifi_str.lck exists
    faults    \* faults so far

wvars == <<proc, chains, sock, pinger, receiver, status,
           dog, conf, gwid, lock, faults>>

device == <<gwid, lock, faults>>

(***************************************************************************)
(* A run of get_wifidog_conf.sh: "str" asks for the id, "touch" has found  *)
(* no lock, "getstr" and "confirm" are the two retry loops it protects,    *)
(* "conf" is that for the configuration.  Then it is the "same" as before  *)
(* and "last" is about to start a wifidog, or it is "apply" and, if wdctl  *)
(* has failed, "start".  "pages" is the retry loop for the local pages.    *)
(***************************************************************************)
Waiting == {"getstr", "confirm", "conf", "pages"}
Step == Waiting \cup {"off", "str", "touch", "same", "last", "apply", "start"}

Asleep == [pc |-> "sleep"]
Dead   == [pc |-> "dead"]
Dog == {Asleep, Dead, [pc |-> "start"]}
       \cup [pc: {"daily", "judge"}, seen: {"none", "old", "fresh"}]

Running == {c \in Script : conf[c] # "off"}

Goes(c, s) == conf' = [conf EXCEPT ![c] = s]

\* The types, and that udphd does not speak before the device has its id.
WTypeOK ==
    /\ PTypeOK
    /\ UTypeOK
    /\ dog \in Dog
    /\ conf \in [Script -> Step]
    /\ gwid \in BOOLEAN
    /\ lock \in BOOLEAN
    /\ faults \in 0 .. MaxFaults
    /\ pinger = "on" => gwid

-------------------------------------------------------------------------------
(***************************************************************************)
(* check_dog.sh.                                                           *)
(***************************************************************************)

\* Mutant: "ps | grep wifidog", which finds itself.
DogGreps ==
    /\ dog = Asleep
    /\ dog' = [pc |-> "daily", seen |-> status]
    /\ UNCHANGED <<pvars, uvars, conf, device>>

\* "pidof wifidog || pidof get_wifidog_conf.sh", and the reading of the status
\* file when one of them is there.
DogLooks ==
    /\ dog = Asleep
    /\ dog' = IF Alive = {} /\ Running = {} THEN [pc |-> "start"]
              ELSE [pc |-> "daily", seen |-> status]
    /\ UNCHANGED <<pvars, uvars, conf, device>>

\* "No dog !start it"
DogStarts ==
    /\ dog.pc = "start"
    /\ Start
    /\ dog' = [pc |-> "daily", seen |-> status]
    /\ UNCHANGED <<uvars, conf, device>>

\* wdctl restart, when the last one is 86400 seconds ago.
DogRestarts ==
    /\ dog.pc = "daily"
    /\ \/ Restart
       \/ Refused /\ UNCHANGED pvars
    /\ dog' = [dog EXCEPT !.pc = "judge"]
    /\ UNCHANGED <<uvars, conf, device>>

\* Mutant: udphd is restarted when pidof does not find it.
DogJudgesByPid ==
    /\ dog.pc \in {"daily", "judge"}
    /\ IF pinger = "off" THEN StartUdphd ELSE UNCHANGED uvars
    /\ dog' = IF dog.seen = "none" THEN Dead ELSE Asleep
    /\ UNCHANGED <<pvars, conf, device>>

\* "$(($dognow - $udphdstatus))": udphd is restarted if its last answer is too
\* old.  Without a number the expression is no expression, and the shell ends
\* the script.
DogJudges ==
    /\ dog.pc \in {"daily", "judge"}
    /\ IF dog.seen = "old" THEN StartUdphd ELSE UNCHANGED uvars
    /\ dog' = IF dog.seen = "none" THEN Dead ELSE Asleep
    /\ UNCHANGED <<pvars, conf, device>>

DogStep == DogLooks \/ DogStarts \/ DogRestarts \/ DogJudges

-------------------------------------------------------------------------------
(***************************************************************************)
(* get_wifidog_conf.sh.                                                    *)
(***************************************************************************)

\* wifidog.init, 98-yunwifi-wifidog, a remote command: the first and the last
\* do not look whether it runs already.
Called(c) ==
    /\ conf[c] = "off"
    /\ Goes(c, "str")
    /\ UNCHANGED <<pvars, uvars, dog, device>>

\* get_yunwifi_str(), and the test of the lock in set_yunwifi_str(): "has run!"
\* goes on without an id.
GetStr(c) ==
    /\ conf[c] = "str"
    /\ Goes(c, IF gwid \/ lock THEN "conf" ELSE "touch")
    /\ UNCHANGED <<pvars, uvars, dog, device>>

Touch(c) ==
    /\ conf[c] = "touch"
    /\ Goes(c, "getstr")
    /\ lock' = TRUE
    /\ UNCHANGED <<pvars, uvars, dog, gwid, faults>>

\* The server has given the id and hdwifi_set_str has stored it, or has failed.
GotStr(c) ==
    /\ conf[c] = "getstr"
    /\ \/ Goes(c, "confirm") /\ gwid' = TRUE /\ UNCHANGED lock
       \/ Goes(c, "conf") /\ lock' = FALSE /\ UNCHANGED gwid
    /\ UNCHANGED <<pvars, uvars, dog, faults>>

Confirmed(c) ==
    /\ conf[c] = "confirm"
    /\ Goes(c, "conf")
    /\ lock' = FALSE
    /\ UNCHANGED <<pvars, uvars, dog, gwid, faults>>

\* get_conf_remote() and get_conf_local(): "remote wifidog conf same", or not.
GotConf(c) ==
    /\ conf[c] = "conf"
    /\ Goes(c, "same") \/ Goes(c, "apply")
    /\ UNCHANGED <<pvars, uvars, dog, device>>

Same(c) ==
    /\ conf[c] = "same"
    /\ Goes(c, IF Alive = {} THEN "last" ELSE "off")
    /\ UNCHANGED <<pvars, uvars, dog, device>>

Last(c) ==
    /\ conf[c] = "last"
    /\ Start
    /\ Goes(c, "off")
    /\ UNCHANGED <<uvars, dog, device>>

\* What follows is get_pages() when the pages are local.
AfterStart == {"off", "pages"}

\* "wdctl restart", and its exit status.
Apply(c) ==
    /\ conf[c] = "apply"
    /\ \/ Restart /\ \E s \in AfterStart : Goes(c, s)
       \/ Refused /\ Goes(c, "start") /\ UNCHANGED pvars
    /\ UNCHANGED <<uvars, dog, device>>

StartAnew(c) ==
    /\ conf[c] = "start"
    /\ Start
    /\ \E s \in AfterStart : Goes(c, s)
    /\ UNCHANGED <<uvars, dog, device>>

GotPages(c) ==
    /\ conf[c] = "pages"
    /\ Goes(c, "off")
    /\ UNCHANGED <<pvars, uvars, dog, device>>

\* The script is killed; the lock stays.
ScriptDies(c) ==
    /\ conf[c] # "off" /\ faults < MaxFaults
    /\ Goes(c, "off")
    /\ faults' = faults + 1
    /\ UNCHANGED <<pvars, uvars, dog, gwid, lock>>

\* What a run does by itself, and what it does when a server answers.
ScriptStep(c) ==
    \/ GetStr(c) \/ Touch(c) \/ Same(c) \/ Last(c) \/ Apply(c) \/ StartAnew(c)

ScriptGets(c) == GotStr(c) \/ Confirmed(c) \/ GotConf(c) \/ GotPages(c)

-------------------------------------------------------------------------------
ProcessStep(p) == Own(p) /\ UNCHANGED <<uvars, dog, conf, device>>

\* "wdctl stop", and an external interface that is there or comes up.
FromOutside(p) ==
    /\ Stop(p) \/ SetUp(p)
    /\ UNCHANGED <<uvars, dog, conf, device>>

ProcessFails(p) ==
    /\ faults < MaxFaults
    /\ Die(p) \/ SecondSignal(p)
    /\ faults' = faults + 1
    /\ UNCHANGED <<uvars, dog, conf, gwid, lock>>

\* Somebody kills a process that has hung.
HungIsKilled(p) ==
    /\ proc[p].pc = "hung"
    /\ Die(p)
    /\ UNCHANGED <<uvars, dog, conf, device>>

\* Mutant: init() does not wait for the id.
SpeaksUp == UdphdUp /\ UNCHANGED <<pvars, dog, conf, device>>

\* init() of udphd tries every five seconds until the device has its id.
Speaks == gwid /\ UdphdUp /\ UNCHANGED <<pvars, dog, conf, device>>

Answer      == Pong /\ UNCHANGED <<pvars, dog, conf, device>>
StatusStep  == WriteStatus /\ UNCHANGED <<pvars, dog, conf, device>>

UdphdStep ==
    /\ \/ Command \/ CommandEnds \/ PingFails \/ ReceiverEnds \/ Age
       \/ gwid /\ BindFails
    /\ UNCHANGED <<pvars, dog, conf, device>>

\* The init scripts have run: wifidog.init (65), udphd.init and
\* yunwifi-whitelist, which starts check_dog.sh (99).
WInit ==
    /\ PInit
    /\ UInit
    /\ dog = Asleep
    /\ \E c \in Script : conf = [d \in Script |-> IF d = c THEN "str" ELSE "off"]
    /\ gwid \in BOOLEAN
    /\ lock = FALSE
    /\ faults = 0

WNext ==
    \/ DogStep
    \/ \E c \in Script : Called(c) \/ ScriptStep(c) \/ ScriptGets(c) \/ ScriptDies(c)
    \/ \E p \in Proc :
           ProcessStep(p) \/ FromOutside(p) \/ ProcessFails(p) \/ HungIsKilled(p)
    \/ Speaks \/ Answer \/ StatusStep \/ UdphdStep

WSpec == WInit /\ [][WNext]_wvars

\* A process without its main thread is there.  "wdctl" may wait for ever for
\* its answer: another signal may have ended its thread_wdctl, too.
Hung == \E p \in Proc : proc[p].pc = "hung"

\* Processes and scripts are scheduled, but for a wdctl that waits.  Nothing is
\* assumed of the servers that get_wifidog_conf.sh asks, of the routing table,
\* nor of commands and faults; of udphd, that it finds a free port now and
\* then, and that its pings are answered now and then while they can be.
WFairness ==
    /\ \A p \in Proc : WF_wvars(ProcessStep(p))
    /\ SF_wvars(DogStep /\ (dog.pc = "daily" => ~Hung))
    /\ \A c \in Script : WF_wvars(ScriptStep(c) /\ (conf[c] = "apply" => ~Hung))
    /\ SF_wvars(Speaks)
    /\ SF_wvars(Answer)
    /\ WF_wvars(StatusStep)

FairWSpec == WSpec /\ WFairness
-------------------------------------------------------------------------------
\* What keeps wifidog from serving, and check_dog.sh from doing anything about
\* it: the watchdog's own end, a run of get_wifidog_conf.sh that waits for a
\* server, and a process that has hung or waits for a default route.
HeldUp ==
    \/ dog = Dead
    \/ \E c \in Script : conf[c] \in Waiting
    \/ Hung \/ \E p \in Proc : proc[p].pc = "route"

\* check_dog.sh: "No dog !start it": however starts, restarts, stops and deaths
\* interleave, wifidog serves again and again, or something holds it up for
\* good.
GatewayComesBack == []<>(Serving # {}) \/ <>[]HeldUp

\* check_dog.sh: "udphd seems not travel,restart it": whichever of its two
\* processes ends or hangs, udphd hears from the server again and again, or the
\* watchdog has ended or may wait for a wifidog that hangs.
TravelsAgain == []<>(status = "fresh") \/ <>[](dog = Dead \/ Hung)

\* wdctl.c: restart "without disconnecting active users": the process that has
\* been given their sessions does not end for want of the port.
UsersAreKept ==
    [][\A p \in Proc : proc[p].pc = "boot" /\ proc[p].fed /\ faults' = faults
                       => proc'[p] # Gone]_wvars
================================================================================
