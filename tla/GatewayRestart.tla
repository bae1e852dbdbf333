----------------------------- MODULE GatewayRestart -----------------------------
(***************************************************************************)
(* "wdctl restart" (wdctl_thread.c, gateway.c, firewall.c): the gateway    *)
(* forks a child, the heir, which executes the program again, reads the    *)
(* client list over the internal socket, waits until the gateway is dead,  *)
(* and then takes over with the clients it has read.  The gateway goes on  *)
(* serving until its SIGINT is handled, and may die at any moment.         *)
(*                                                                         *)
(* One restart at a time is modelled.                                      *)
(***************************************************************************)
EXTENDS Gateway

VARIABLE heir   \* where the heir is, and the client list it has read

rvars == <<up, list, last, fw, work, sync, heir>>

gateway == <<up, list, last, fw, work, sync>>

NoHeir == [pc |-> "none"]
Forked == [pc |-> "forked"]
Fed(l) == [pc |-> "fed", list |-> l]
Loading(l, n) == [pc |-> "init", list |-> l, next |-> n]

IsHeir(h) ==
    \/ h \in {NoHeir, Forked}
    \/ /\ \/ h = Fed(h.list)
          \/ h = Loading(h.list, h.next) /\ h.next \in DOMAIN h.list \cup {NoNode}
       /\ DOMAIN h.list \subseteq Node
       /\ \A n \in DOMAIN h.list : h.list[n] \in Client

RTypeOK == TypeOK /\ IsHeir(heir)

-------------------------------------------------------------------------------
\* wdctl_restart() up to accept(): fork and exec.
Fork ==
    /\ up /\ heir = NoHeir
    /\ heir' = Forked
    /\ UNCHANGED gateway

\* The exec fails, or the heir dies: the handler in accept() waits for ever, but
\* it holds no lock.  Rules it has restored stay in the kernel, unless it ends by
\* a signal, through termination_handler().
HeirDies ==
    /\ heir # NoHeir
    /\ heir' = NoHeir
    /\ fw' \in {fw} \cup {f \in {NoRules} : heir.pc = "init"}
    /\ UNCHANGED <<up, list, last, work, sync>>

\* The heir connects; the list is sent in one locked section, and read until
\* the socket is closed.  Then the gateway sends itself SIGINT (Terminate).
Send ==
    /\ up /\ heir = Forked
    /\ heir' = Fed(list)
    /\ UNCHANGED gateway

\* The gateway ends while it sends: of the list, which is sent in its order,
\* the heir has read the clients whose lines are complete.
SendCut ==
    /\ heir = Forked
    /\ Terminate \/ Crash
    /\ \E k \in Node \cup {NoNode} :
           heir' = Fed([n \in {m \in DOMAIN list : m <= k} |-> list[n]])

\* The gateway has ended before: "client list not downloaded".
NoParent ==
    /\ ~up /\ heir = Forked
    /\ heir' = Fed(NoList)
    /\ UNCHANGED gateway

\* "Parent PID %d seems to be dead. Continuing loading": fw_destroy() and
\* iptables_fw_init(), and fw_init() is at the first client.  What the heir has
\* read it has linked in the order it came in, so its nodes keep their numbers.
Load ==
    /\ ~up /\ heir.pc = "fed"
    /\ fw' = NoRules
    /\ heir' = Loading(heir.list, NextOf(heir.list, NoNode))
    /\ UNCHANGED <<up, list, last, work, sync>>

\* Mutants: a client is allowed as known; it gets its rule unasked.
RestoreKnown(l, n) == Allows(l, l[n].ip, Known)

RestoreEach(l, n) == fw' = Allow(fw, l, l[n].ip, l[n].state, FALSE)

\* fw_allow() for a client with the state it has, be it None.
RestoreRule(l, n) == Allows(l, l[n].ip, l[n].state)

\* The loop of fw_init() at one client.
Restore ==
    /\ heir.pc = "init" /\ heir.next # NoNode
    /\ RestoreRule(heir.list, heir.next)
    /\ heir' = [heir EXCEPT !.next = NextOf(heir.list, @)]
    /\ UNCHANGED <<up, list, last, work, sync>>

\* The node of a list that was allocated last.
LastOf(l) ==
    CHOOSE n \in DOMAIN l \cup {NoNode} : \A m \in DOMAIN l : m <= n

\* fw_init() is done, and main_loop() starts the threads.
Inherit ==
    /\ heir.pc = "init" /\ heir.next = NoNode
    /\ up' = TRUE
    /\ list' = heir.list
    /\ last' = LastOf(heir.list)
    /\ heir' = NoHeir
    /\ UNCHANGED <<fw, work, sync>>

\* The gateway's own steps.  check_dog.sh does not start a second one while
\* "pidof wifidog" finds the heir.
Serve ==
    /\ Next
    /\ up \/ heir = NoHeir
    /\ UNCHANGED heir

RInit == Init /\ heir = NoHeir

RNext ==
    \/ Serve
    \/ Fork \/ HeirDies \/ Send \/ SendCut \/ NoParent
    \/ Load \/ Restore \/ Inherit

RSpec == RInit /\ [][RNext]_rvars
-------------------------------------------------------------------------------
\* Some rule of the address marks its packets as those of an allowed client.
LetThrough(f, i) == \E m \in {Probation, Known} : f.out[i][m] > 0

Promised == INSTANCE Handover WITH
    New     <- None,
    Granted <- {Probation, Known},
    session <- [d \in Ip \X Mac |-> SessionIn(list, d)],
    open    <- {i \in Ip : LetThrough(fw, i)},
    kept    <- [d \in Ip \X Mac |->
                   IF heir.pc \in {"fed", "init"} THEN SessionIn(heir.list, d) ELSE Absent]

\* Whatever the threads do while the list is on its way, and wherever either
\* process dies, be it between two clients of the loop in fw_init(), only
\* sessions of one moment come back, in the states they had, and only granted
\* ones are let through by the rules that are restored.
KeepsHandover == Promised!HSpec

\* The chains stay consistent over restarts, too: an address with several
\* inherited clients gets one rule.
RulesStayUnique == RulesAreUnique

\* auth.c: "Got ALLOWED from central server ... adding to firewall": who is
\* allowed is let through.
AllowedIsLetThrough ==
    [][\A w \in Worker :
        /\ work[w].pc = "reply" /\ work[w].code = "ALLOWED"
        /\ work'[w] = Idle /\ up' /\ Answered(w) # NoNode
        => LetThrough(fw', work[w].ip)]_rvars
===============================================================================
