------------------------------- MODULE Admission -------------------------------
(***************************************************************************)
(* What the gateway promises about who gets through it, without a list,    *)
(* locks, chains of rules or threads.  A device is an address together     *)
(* with a hardware address; it has a session or not, and an address is     *)
(* open or not.  An address is only ever opened for a device that has a    *)
(* session at that moment, one device's step leaves every other device's   *)
(* session as it was, and a session that was granted never goes back to    *)
(* the state of a new one: it ends.                                        *)
(***************************************************************************)
CONSTANTS
    Ip, Mac,
    New,        \* the state of a session nobody has decided about
    Granted,    \* the states in which a device is let through
    Absent      \* no session

VARIABLES
    session,    \* session[<<i, m>>]: the state of the device's session
    open        \* the addresses that are let through

vars == <<session, open>>

Device == Ip \X Mac

Present(d) == session[d] # Absent

TypeOK ==
    /\ session \in [Device -> Granted \cup {New, Absent}]
    /\ open \subseteq Ip

Init ==
    /\ session = [d \in Device |-> Absent]
    /\ open = {}

\* A device shows up.
Open(d) ==
    /\ ~Present(d)
    /\ session' = [session EXCEPT ![d] = New]
    /\ UNCHANGED open

\* A device with a session is let through.
Grant(d, s) ==
    /\ Present(d)
    /\ session' = [session EXCEPT ![d] = s]
    /\ open' = open \cup {d[1]}

\* A device is turned away, or its session ends: at most its own address is
\* closed.  It may stay open (another device, or a rule with another mark).
Refuse(d) ==
    /\ Present(d)
    /\ open' \in {open, open \ {d[1]}}
    /\ UNCHANGED session

Close(d) ==
    /\ Present(d)
    /\ session' = [session EXCEPT ![d] = Absent]
    /\ open' \in {open, open \ {d[1]}}

\* Addresses are closed when one without a session is cleaned up.
Sweep ==
    /\ open' \subseteq open
    /\ \E i \in Ip : \A m \in Mac : ~Present(<<i, m>>)
    /\ UNCHANGED session

\* The gateway stops: all sessions end, and what was open may stay so.
Stop ==
    /\ session' = [d \in Device |-> Absent]
    /\ open' \in {open, {}}

Next ==
    \/ \E d \in Device : Open(d) \/ Refuse(d) \/ Close(d)
    \/ \E d \in Device, s \in Granted : Grant(d, s)
    \/ Sweep \/ Stop

Spec == Init /\ [][Next]_vars
===============================================================================
