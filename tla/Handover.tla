-------------------------------- MODULE Handover --------------------------------
(***************************************************************************)
(* What "wdctl restart" promises on top of Admission: the sessions that    *)
(* come back are sessions the gateway had at one moment before it stopped, *)
(* all in the state they had at that moment, each comes back once, and     *)
(* only addresses of granted ones among them are opened again.             *)
(***************************************************************************)
EXTENDS Admission

VARIABLE kept   \* the sessions that are kept for the next gateway

hvars == <<session, open, kept>>

Nobody == [d \in Device |-> Absent]

\* s without some of its sessions.
PartOf(k, s) == \A d \in Device : k[d] \in {s[d], Absent}

GrantedIn(s) == {d \in Device : s[d] \in Granted}

HInit == Init /\ kept = Nobody

\* A device with a session is granted; its address is opened, or left as it is.
GrantOnly(d, s) ==
    /\ Present(d)
    /\ session' = [session EXCEPT ![d] = s]
    /\ open' \in {open, open \cup {d[1]}}

\* The gateway goes on as Admission allows.
Go ==
    /\ \/ Next
       \/ \E d \in Device, s \in Granted : GrantOnly(d, s)
    /\ UNCHANGED kept

\* The sessions of this moment are written down, for one who has none yet.
Keep ==
    /\ kept = Nobody /\ kept' = session
    /\ UNCHANGED <<session, open>>

\* The gateway stops while they are being written down.
StopKeeping == Stop /\ kept = Nobody /\ PartOf(kept', session)

\* They are lost; what was opened for them may stay so until the next start.
Lose ==
    /\ kept' = Nobody
    /\ open' \in {open, {}}
    /\ UNCHANGED session

\* Before the next gateway takes over, the address of a granted one is opened.
Reopen(d) ==
    /\ session = Nobody
    /\ d \in GrantedIn(kept)
    /\ open' = open \cup {d[1]}
    /\ UNCHANGED <<session, kept>>

\* The next gateway takes over, and nobody else's address is open.
Resume ==
    /\ session = Nobody
    /\ session' = kept
    /\ kept' = Nobody
    /\ open \subseteq {d[1] : d \in GrantedIn(kept)}
    /\ UNCHANGED open

HNext ==
    \/ Go \/ Keep \/ StopKeeping \/ Lose \/ Resume
    \/ \E d \in Device : Reopen(d)

HSpec == HInit /\ [][HNext]_hvars
===============================================================================
