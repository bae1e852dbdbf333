--------------------------------- MODULE Chains ---------------------------------
(***************************************************************************)
(* The chains of iptables that wifidog builds and tears down, command by   *)
(* command (iptables_fw_init(), iptables_fw_destroy()): what a signal, a   *)
(* crash or another thread's command in the middle of that leaves behind,  *)
(* and what the next start makes of it.  The other modules take fw_init()  *)
(* and fw_destroy() for one step.                                          *)
(*                                                                         *)
(* Rules of the same kind do not differ here: one device's rule and one    *)
(* server's are enough, and the rules of a configured rule set are one.    *)
(* A proxy and a trusted device are configured.  The rules of other        *)
(* programs in the built-in chains are left out, and so are the rules of   *)
(* inherited clients (GatewayRestart).                                     *)
(***************************************************************************)
EXTENDS SequencesExt

CONSTANTS
    MaxFaults,   \* crashes, and signals in the middle of a start or stop (bound)
    MaxCalls     \* calls that change rules, of other threads (bound)

ASSUME ChainsAssumption == MaxFaults \in Nat /\ MaxCalls \in Nat

VARIABLES
    fw,        \* the chains that are there, with the targets of their rules
    main,      \* the main thread: what it does, and at which command
    early,     \* it was interrupted before it had other threads
    stray,     \* a command of fw_init() that the signal did not wait for
    list,      \* what the thread with the list mutex has still to execute
    conf,      \* and the one with the config mutex
    faults,    \* faults so far
    calls      \* calls so far

vars == <<fw, main, early, stray, list, conf, faults, calls>>

threads == <<early, stray, list, conf>>

counts == <<faults, calls>>

-------------------------------------------------------------------------------
(***************************************************************************)
(* iptables.                                                               *)
(***************************************************************************)
BuiltIn ==
    {<<"mangle", "PREROUTING">>, <<"mangle", "POSTROUTING">>, <<"mangle", "INPUT">>,
     <<"nat", "PREROUTING">>, <<"filter", "FORWARD">>, <<"filter", "INPUT">>}

MangleChains == <<"Trusted", "Outgoing", "Incoming">>
NatChains == <<"Outgoing", "WIFI2Router", "WIFI2Internet", "Global", "Unknown",
               "AuthServers">>
FilterChains == <<"WIFI2Internet", "AuthServers", "Locked", "Global", "Validate",
                  "Known", "Unknown", "Ddos">>

Chain ==
    BuiltIn \cup ({"mangle"} \X ToSet(MangleChains))
            \cup ({"nat"}    \X ToSet(NatChains))
            \cup ({"filter"} \X ToSet(FilterChains))

Names == {k[2] : k \in Chain}

\* Where a rule sends its packets: to a chain, or what is done with them.
Targets == Names \cup {"client", "server", "trusted", "rules", "accept", "redirect", "reject"}

Bare == [k \in BuiltIn |-> <<>>]

IsThere(f, t, c) == <<t, c>> \in DOMAIN f

\* A rule's target has to be a chain of its table, if it is a chain.
Fits(f, m) ==
    IsThere(f, m.t, m.c) /\ (m.r \in Names => IsThere(f, m.t, m.r))

Mentioned(f, t, c) ==
    \E k \in DOMAIN f : k[1] = t /\ c \in ToSet(f[k])

\* iptables -N, -F, -X, -A, -I and -D with a rule or ("nth") its number; what
\* cannot be done is not done.
Exec(f, m) ==
    LET k == <<m.t, m.c>> IN
    CASE m.op = "N" /\ k \notin DOMAIN f -> [x \in DOMAIN f \cup {k} |->
                                             IF x = k THEN <<>> ELSE f[x]]
      [] m.op = "F" /\ k \in DOMAIN f    -> [f EXCEPT ![k] = <<>>]
      [] m.op = "X" /\ k \in DOMAIN f /\ f[k] = <<>> /\ ~Mentioned(f, m.t, m.c)
                                         -> Restrict(f, DOMAIN f \ {k})
      [] m.op = "nth" /\ m.r \in DOMAIN f[k]
                                         -> [f EXCEPT ![k] = RemoveAt(@, m.r)]
      [] m.op = "A" /\ Fits(f, m)        -> [f EXCEPT ![k] = Append(@, m.r)]
      [] m.op = "I" /\ Fits(f, m)        -> [f EXCEPT ![k] = <<m.r>> \o @]
      [] m.op \in {"D", "mention"} /\ Fits(f, m)
                                         -> [f EXCEPT ![k] = RemoveFirst(@, m.r)]
      [] OTHER                           -> f

\* iptables_fw_destroy_mention() begins again after each rule it has deleted.
Again(f, m) == m.op = "mention" /\ Fits(f, m) /\ m.r \in ToSet(f[<<m.t, m.c>>])

Command(op, t, c, r) == [op |-> op, t |-> t, c |-> c, r |-> r]

\* One command for each chain (and all its rules), or each rule, of a sequence.
Each(op, t, cs) == [i \in DOMAIN cs |-> Command(op, t, cs[i], "all")]
Fill(t, c, rs)  == [i \in DOMAIN rs |-> Command("A", t, c, rs[i])]

-------------------------------------------------------------------------------
(***************************************************************************)
(* iptables_fw_init() and iptables_fw_destroy().                           *)
(***************************************************************************)
\* Mutant: a chain is misspelt.
InitMangleMisspelt ==
    Each("N", "mangle", MangleChains) \o
    <<Command("A", "mangle", "INPUT", "WIFI2Outgoing")>>

InitMangle ==
    Each("N", "mangle", MangleChains) \o
    <<Command("I", "mangle", "PREROUTING", "Outgoing"),
      Command("I", "mangle", "PREROUTING", "Trusted"),
      Command("I", "mangle", "POSTROUTING", "Incoming"),
      Command("A", "mangle", "INPUT", "Outgoing")>> \o
    Fill("mangle", "Trusted", <<"trusted">>)

InitNat ==
    Each("N", "nat", NatChains) \o
    <<Command("A", "nat", "PREROUTING", "Outgoing"),
      Command("A", "nat", "Outgoing", "WIFI2Router"),
      Command("A", "nat", "WIFI2Router", "accept"),
      Command("A", "nat", "Outgoing", "WIFI2Internet")>> \o
    Fill("nat", "WIFI2Internet",
         <<"redirect", "redirect", "accept", "accept", "Unknown">>) \o
    Fill("nat", "Unknown", <<"AuthServers", "Global", "redirect">>)

\* No server's address is known yet: iptables_fw_set_authservers() does nothing.
InitFilter ==
    Each("N", "filter", FilterChains) \o
    <<Command("I", "filter", "FORWARD", "WIFI2Internet"),
      Command("I", "filter", "INPUT", "Ddos")>> \o
    Fill("filter", "WIFI2Internet", <<"reject", "AuthServers", "Locked">>) \o
    Fill("filter", "Locked", <<"rules">>) \o
    Fill("filter", "WIFI2Internet", <<"Global">>) \o
    Fill("filter", "Global", <<"rules">>) \o
    Fill("nat", "Global", <<"rules">>) \o
    Fill("filter", "WIFI2Internet", <<"Validate">>) \o
    Fill("filter", "Validate", <<"rules">>) \o
    Fill("filter", "WIFI2Internet", <<"Known">>) \o
    Fill("filter", "Known", <<"rules">>) \o
    Fill("filter", "WIFI2Internet", <<"Unknown">>) \o
    Fill("filter", "Unknown", <<"rules", "reject">>) \o
    Fill("filter", "Ddos", <<"accept", "accept", "reject">>)

\* Mutant: the rule for DHCP is forgotten.
DestroyMangleButDhcp ==
    <<Command("mention", "mangle", "PREROUTING", "Trusted"),
      Command("mention", "mangle", "PREROUTING", "Outgoing"),
      Command("mention", "mangle", "POSTROUTING", "Incoming")>> \o
    Each("F", "mangle", MangleChains) \o Each("X", "mangle", MangleChains)

DestroyMangle ==
    <<Command("mention", "mangle", "PREROUTING", "Trusted"),
      Command("mention", "mangle", "PREROUTING", "Outgoing"),
      Command("mention", "mangle", "POSTROUTING", "Incoming"),
      Command("D", "mangle", "INPUT", "Outgoing")>> \o
    Each("F", "mangle", MangleChains) \o Each("X", "mangle", MangleChains)

NatGone == <<"AuthServers", "Outgoing", "WIFI2Router", "WIFI2Internet", "Global",
             "Unknown">>

\* Mutant: a chain is deleted before those that mention it are flushed.
DestroyNatByChain ==
    <<Command("mention", "nat", "PREROUTING", "Outgoing")>> \o
    FlattenSeq([i \in DOMAIN NatGone |->
        <<Command("F", "nat", NatGone[i], "all"), Command("X", "nat", NatGone[i], "all")>>])

DestroyNat ==
    <<Command("mention", "nat", "PREROUTING", "Outgoing")>> \o
    Each("F", "nat", NatGone) \o Each("X", "nat", NatGone)

DestroyFilter ==
    <<Command("mention", "filter", "FORWARD", "WIFI2Internet"),
      Command("mention", "filter", "INPUT", "Ddos")>> \o
    Each("F", "filter", FilterChains) \o Each("X", "filter", FilterChains)

FwInit    == InitMangle \o InitNat \o InitFilter
FwDestroy == DestroyMangle \o DestroyNat \o DestroyFilter

\* "Reset the firewall (if WiFiDog crashed)", "Then initialize it".
Program == [start |-> FwDestroy \o FwInit, stop |-> FwDestroy]

Off      == [at |-> "off"]
Serves   == [at |-> "serve"]
Hangs    == [at |-> "hang"]
At(p, k) == [at |-> p, k |-> k]

Busy == main.at \in DOMAIN Program
Done == Busy /\ main.k > Len(Program[main.at])
Next1 == Program[main.at][main.k]

\* Other threads run from the end of the start to the end of the process.
Threads == main = Serves \/ main = Hangs \/ (main.at = "stop" /\ ~early)

Nothing == <<>>

\* Another fault, another call.
Fault == faults < MaxFaults /\ faults' = faults + 1 /\ UNCHANGED calls
Call  == calls < MaxCalls /\ calls' = calls + 1 /\ UNCHANGED faults
-------------------------------------------------------------------------------
\* main_loop(), with the port bound.
Start ==
    /\ main = Off
    /\ main' = At("start", 1)
    /\ UNCHANGED <<fw, threads, counts>>

\* The next command of fw_init() or fw_destroy().
Step ==
    /\ Busy /\ ~Done
    /\ fw' = Exec(fw, Next1)
    /\ main' = IF Again(fw, Next1) THEN main ELSE [main EXCEPT !.k = @ + 1]
    /\ UNCHANGED <<threads, counts>>

\* The process is gone, with its threads; a command that is under way ends.
Ends ==
    /\ main' = Off
    /\ early' = FALSE
    /\ stray' = Nothing /\ list' = Nothing /\ conf' = Nothing
    /\ fw' = IF stray = Nothing THEN fw ELSE Exec(fw, stray[1])

\* fw_init() finds no external interface, and the program exits.
NoInterface ==
    /\ main = At("start", Len(FwDestroy) + 1)
    /\ Ends
    /\ UNCHANGED counts

Serve ==
    /\ main.at = "start" /\ Done
    /\ main' = Serves
    /\ UNCHANGED <<fw, threads, counts>>

\* SIGINT, SIGTERM or SIGQUIT.  In the middle of a start termination_handler()
\* does not wait for the command that is under way.
LeftOver ==
    IF Next1.op = "mention"
    THEN {<<Command("nth", Next1.t, Next1.c, i)>> :
             i \in {j \in DOMAIN fw[<<Next1.t, Next1.c>>] :
                      fw[<<Next1.t, Next1.c>>][j] = Next1.r}}
    ELSE {<<Next1>>}

Signal ==
    \/ /\ main = Serves
       /\ main' = At("stop", 1)
       /\ UNCHANGED <<fw, threads, counts>>
    \/ /\ main.at = "start" /\ ~Done
       /\ main' = At("stop", 1)
       /\ early' = TRUE
       /\ stray' \in {Nothing} \cup LeftOver
       /\ Fault
       /\ UNCHANGED <<fw, list, conf>>

StrayStep ==
    /\ stray # Nothing
    /\ fw' = Exec(fw, stray[1])
    /\ stray' = Nothing
    /\ UNCHANGED <<main, early, list, conf, counts>>

Exit ==
    /\ main.at = "stop" /\ Done
    /\ Ends
    /\ UNCHANGED counts

\* Another signal while the first one's handler runs: pthread_exit() ends the
\* main thread, and with it the handler.  Without other threads that is the
\* end of the process.
SecondSignal ==
    /\ main.at = "stop" /\ ~Done
    /\ Fault
    /\ IF early THEN Ends ELSE main' = Hangs /\ UNCHANGED <<fw, threads>>

Crash ==
    /\ main # Off
    /\ IF main = Hangs THEN UNCHANGED counts ELSE Fault
    /\ Ends

-------------------------------------------------------------------------------
\* iptables_fw_access() of a worker, fw_counter or wdctl: a rule is added when
\* the listing shows none, or when there is no chain to list.
HasRule ==
    IsThere(fw, "mangle", "Outgoing") /\ "client" \in ToSet(fw[<<"mangle", "Outgoing">>])

Allow ==
    /\ Threads /\ list = Nothing
    /\ ~HasRule
    /\ list' = <<Command("A", "mangle", "Outgoing", "client"),
                 Command("A", "mangle", "Incoming", "client")>>
    /\ Call
    /\ UNCHANGED <<fw, main, early, stray, conf>>

Deny ==
    /\ Threads /\ list = Nothing
    /\ list' = <<Command("D", "mangle", "Outgoing", "client"),
                 Command("D", "mangle", "Incoming", "client")>>
    /\ Call
    /\ UNCHANGED <<fw, main, early, stray, conf>>

\* Mutant: the wrong chain of nat is flushed.
SetServersOfUnknown ==
    /\ Threads /\ conf = Nothing
    /\ conf' = <<Command("F", "filter", "AuthServers", "all"),
                 Command("F", "nat", "Unknown", "all"),
                 Command("A", "filter", "AuthServers", "server"),
                 Command("A", "nat", "AuthServers", "server")>>
    /\ Call
    /\ UNCHANGED <<fw, main, early, stray, list>>

\* fw_clear_authservers() and fw_set_authservers() in _connect_auth_server().
SetServers ==
    /\ Threads /\ conf = Nothing
    /\ conf' = <<Command("F", "filter", "AuthServers", "all"),
                 Command("F", "nat", "AuthServers", "all"),
                 Command("A", "filter", "AuthServers", "server"),
                 Command("A", "nat", "AuthServers", "server")>>
    /\ Call
    /\ UNCHANGED <<fw, main, early, stray, list>>

ListStep ==
    /\ list # Nothing
    /\ fw' = Exec(fw, Head(list))
    /\ list' = Tail(list)
    /\ UNCHANGED <<main, early, stray, conf, counts>>

ConfStep ==
    /\ conf # Nothing
    /\ fw' = Exec(fw, Head(conf))
    /\ conf' = Tail(conf)
    /\ UNCHANGED <<main, early, stray, list, counts>>

Init ==
    /\ fw = Bare
    /\ main = Off
    /\ early = FALSE
    /\ stray = Nothing /\ list = Nothing /\ conf = Nothing
    /\ faults = 0 /\ calls = 0

Next ==
    \/ Start \/ Step \/ NoInterface \/ Serve \/ Signal \/ StrayStep
    \/ Exit \/ SecondSignal \/ Crash
    \/ Allow \/ Deny \/ SetServers \/ ListStep \/ ConfStep

Spec == Init /\ [][Next]_vars
-------------------------------------------------------------------------------
\* The tables hold chains of wifidog with rules that have a known target, and
\* the main thread is at a command of a start or a stop.
ChTypeOK ==
    /\ DOMAIN fw \in SUBSET Chain /\ BuiltIn \subseteq DOMAIN fw
    /\ \A k \in DOMAIN fw : ToSet(fw[k]) \subseteq Targets
    /\ main \in {Off, Serves, Hangs} \/ (Busy /\ main.k \in 1 .. Len(Program[main.at]) + 1)
    /\ early \in BOOLEAN
    /\ faults \in 0 .. MaxFaults /\ calls \in 0 .. MaxCalls

\* The chains after n commands of fw_init(), where nothing of wifidog was there.
FirstStart[n \in 0 .. Len(FwInit)] ==
    IF n = 0 THEN Bare ELSE Exec(FirstStart[n - 1], FwInit[n])

\* gateway.c: "Reset the firewall (if WiFiDog crashed)": whatever an earlier
\* life has left, a start ends with the chains of a first start.
StartsClean ==
    main.at = "start" /\ Done => fw = FirstStart[Len(FwInit)]

\* What other threads of the process write to.
Dynamic == {<<"mangle", "Outgoing">>, <<"mangle", "Incoming">>,
            <<"nat", "AuthServers">>, <<"filter", "AuthServers">>}

\* What the other modules take for granted, fw_init() being one step there: as
\* long as the program serves, the chains are those of a first start, and only
\* clients and servers are added to them, each in chains of their own.
ServesWhole ==
    main = Serves =>
        LET whole == FirstStart[Len(FwInit)] IN
        /\ DOMAIN fw = DOMAIN whole
        /\ \A k \in DOMAIN fw \ Dynamic : fw[k] = whole[k]
        /\ \A k \in DOMAIN fw \cap Dynamic : ToSet(fw[k]) \subseteq {"client", "server"}

\* fw_destroy(): "This is used when we do a clean shutdown": after one, packets
\* no longer meet a rule of wifidog, and nothing is left but what other threads
\* have added while it went on.
StopsClean ==
    main.at = "stop" /\ Done /\ ~early =>
        /\ \A k \in BuiltIn : fw[k] = <<>>
        /\ DOMAIN fw \ BuiltIn \subseteq Dynamic
        /\ \A k \in Dynamic \cap DOMAIN fw : ToSet(fw[k]) \subseteq {"client", "server"}
===============================================================================
