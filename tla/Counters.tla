-------------------------------- MODULE Counters --------------------------------
(***************************************************************************)
(* How long a client counts as active: the byte counter of its Outgoing    *)
(* rule in the kernel, the copy of it that fw_counter keeps in the client  *)
(* (fw_iptables.c, firewall.c), and what logins, denials and restarts do   *)
(* to either.  One device is enough: clients do not share counters.        *)
(*                                                                         *)
(* The unit of time is checkinterval.  A pass of fw_counter is over before *)
(* the next one is due.                                                    *)
(***************************************************************************)
EXTENDS Naturals

CONSTANTS
    Timeout,      \* clienttimeout
    Word,         \* 2^64: the counters are unsigned long long
    Burst,        \* bytes a device can send at a time
    MaxBytes,     \* bytes it sends at all (bound)
    MaxRestarts   \* "wdctl restart"s (bound)

ASSUME CountersAssumption ==
    /\ Timeout \in Nat \ {0}
    /\ MaxBytes \in Nat
    /\ Word \in Nat /\ MaxBytes < Word
    /\ Burst \subseteq Nat \ {0}
    /\ MaxRestarts \in Nat

None      == 0
Probation == 1
Known     == 2
Mark == {None, Probation, Known}

VARIABLES
    rule,       \* the device's Outgoing rule: its mark and its counter
    client,     \* the device's node in the client list
    pass,       \* where fw_counter is, and the line of the listing it has read
    restarts,   \* restarts so far
    sent,       \* history: bytes that rules of the device have let out
    charge,     \* history: what the session in the list can be charged for
    fresh,      \* history: the rule that is there has let some out since the
                \* last listing,
    heard       \* history: and had, between the last two listings

vars == <<rule, client, pass, restarts, sent, charge, fresh, heard>>

traffic == <<sent, charge, fresh, heard>>

NoRule   == [pc |-> "none"]
NoClient == [pc |-> "none"]

\* outgoing, outgoing_history, and how long last_updated is ago.
IsClient(c) ==
    \/ c = NoClient
    \/ c \in [state: Mark, out: 0 .. MaxBytes, hist: 0 .. MaxBytes,
              idle: 0 .. Timeout]

\* "due" has slept, "line" has the rule's line before it, "walk" goes through
\* the client list.
Asleep == [pc |-> "sleep"]
Due    == [pc |-> "due"]
Walks  == [pc |-> "walk"]
Line(b) == [pc |-> "line", bytes |-> b]

CTypeOK ==
    /\ rule = NoRule \/ rule \in [mark: Mark, bytes: 0 .. MaxBytes]
    /\ IsClient(client)
    /\ pass \in {Asleep, Due, Walks} \cup {Line(b) : b \in 0 .. MaxBytes}
    /\ restarts \in 0 .. MaxRestarts
    /\ sent \in 0 .. MaxBytes
    /\ charge \in 0 .. MaxBytes
    /\ fresh \in BOOLEAN
    /\ heard \in BOOLEAN

-------------------------------------------------------------------------------
\* fw_allow(): a rule that is there is left alone.
Allow(m) == rule' = IF rule = NoRule THEN [mark |-> m, bytes |-> 0] ELSE rule

\* fw_deny(): only a rule with this mark goes.
Deny(m) ==
    /\ rule' = IF rule # NoRule /\ rule.mark = m THEN NoRule ELSE rule
    /\ fresh' = (fresh /\ rule' # NoRule)

\* What was counted before a session and will be found during it: the counter
\* of a rule that a denial with another mark has left, and the line that
\* fw_counter has read and not worked on yet.
LeftOver ==
    LET r == IF rule = NoRule THEN 0 ELSE rule.bytes
        p == IF pass.pc = "line" THEN pass.bytes ELSE 0
    IN  IF r < p THEN p ELSE r

\* client_list_append().
Register ==
    /\ client = NoClient
    /\ client' = [state |-> None, out |-> 0, hist |-> 0, idle |-> 0]
    /\ charge' = LeftOver
    /\ UNCHANGED <<rule, pass, restarts, sent, fresh, heard>>

\* client_list_delete(): the server has got the last counters.
Remove == client' = NoClient /\ charge' = 0

\* authenticate_client(): AUTH_ALLOWED, AUTH_VALIDATION.
Granted(m) ==
    /\ client # NoClient
    /\ client' = [client EXCEPT !.state = m]
    /\ Allow(m)
    /\ UNCHANGED <<pass, restarts, traffic>>

\* authenticate_client(): AUTH_DENIED.  The node stays as it is.
Denied ==
    /\ client # NoClient
    /\ Deny(Known)
    /\ UNCHANGED <<client, pass, restarts, sent, charge, heard>>

\* A logout or wdctl_reset().
Leave ==
    /\ client # NoClient
    /\ Deny(client.state)
    /\ Remove
    /\ UNCHANGED <<pass, restarts, sent, heard>>

\* The kernel counts what a rule matches.
Send(k) ==
    /\ rule # NoRule
    /\ sent + k <= MaxBytes
    /\ sent' = sent + k
    /\ charge' = IF client = NoClient THEN 0 ELSE charge + k
    /\ rule' = [rule EXCEPT !.bytes = @ + k]
    /\ fresh' = TRUE
    /\ UNCHANGED <<client, pass, restarts, heard>>

-------------------------------------------------------------------------------
\* pthread_cond_timedwait() of checkinterval seconds is over.
Tick ==
    /\ pass = Asleep
    /\ pass' = Due
    /\ client' = IF client # NoClient /\ client.idle < Timeout
                 THEN [client EXCEPT !.idle = @ + 1] ELSE client
    /\ UNCHANGED <<rule, restarts, traffic>>

\* popen() of the listing of the Outgoing chain.
List ==
    /\ pass = Due
    /\ pass' = IF rule = NoRule THEN Walks ELSE Line(rule.bytes)
    /\ heard' = fresh
    /\ fresh' = FALSE
    /\ UNCHANGED <<rule, client, restarts, sent, charge>>

\* Mutants: a counter is added to what is there; one that has not moved counts.
Added(c, b) == [c EXCEPT !.out = @ + b, !.idle = 0]

Refreshed(c, b) ==
    IF (c.out + Word - c.hist) % Word <= b
    THEN [c EXCEPT !.out = c.hist + b, !.idle = 0]
    ELSE c

\* iptables_fw_counters_update() has found client c for a line with b bytes.
Updated(c, b) ==
    IF (c.out + Word - c.hist) % Word < b
    THEN [c EXCEPT !.out = c.hist + b, !.idle = 0]
    ELSE c

\* The line is worked on some time after it was read.
CountLine ==
    /\ pass.pc = "line"
    /\ IF client # NoClient
       THEN client' = Updated(client, pass.bytes) /\ UNCHANGED <<rule, fresh>>
       ELSE rule' = NoRule /\ fresh' = FALSE /\ UNCHANGED client
    /\ pass' = Walks
    /\ UNCHANGED <<restarts, sent, charge, heard>>

\* "Inactive for more than %ld seconds, removing client".
Expire ==
    /\ pass = Walks
    /\ client # NoClient /\ client.idle = Timeout
    /\ Deny(client.state)
    /\ Remove
    /\ pass' = Asleep
    /\ UNCHANGED <<restarts, sent, heard>>

\* "Access has changed to allowed, refreshing firewall and clearing counters".
Visit ==
    /\ pass = Walks
    /\ IF client = NoClient THEN UNCHANGED <<rule, client>>
       ELSE /\ client.idle < Timeout
            /\ client' = [client EXCEPT
                   !.state = Known,
                   !.out = IF client.state = None THEN 0 ELSE @]
            /\ IF client.state = Known THEN UNCHANGED rule ELSE Allow(Known)
    /\ pass' = Asleep
    /\ UNCHANGED <<restarts, traffic>>

\* "wdctl restart" as a whole: outgoing becomes outgoing_history and outgoing
\* of the new process, which makes every client a rule of its own.
Restart ==
    /\ restarts < MaxRestarts
    /\ restarts' = restarts + 1
    /\ client' = IF client = NoClient THEN NoClient
                 ELSE [client EXCEPT !.hist = client.out]
    /\ rule' = IF client = NoClient THEN NoRule
               ELSE [mark |-> client.state, bytes |-> 0]
    /\ pass' = Asleep
    /\ fresh' = FALSE
    /\ heard' = FALSE
    /\ UNCHANGED <<sent, charge>>

Init ==
    /\ rule = NoRule
    /\ client = NoClient
    /\ pass = Asleep
    /\ restarts = 0
    /\ sent = 0
    /\ charge = 0
    /\ fresh = FALSE
    /\ heard = FALSE

Counting == Tick \/ List \/ CountLine \/ Expire \/ Visit

Next ==
    \/ Register \/ Denied \/ Leave
    \/ \E m \in {Probation, Known} : Granted(m)
    \/ \E k \in Burst : Send(k)
    \/ Counting
    \/ Restart

Spec == Init /\ [][Next]_vars

\* fw_counter sleeps, lists and walks for ever.
FairSpec == Spec /\ WF_vars(Counting)
-------------------------------------------------------------------------------
\* What the auth server is told of a session's traffic was let out for its
\* address while it lasted, each byte once, whatever denials, new rules, late
\* lines and restarts do to the counters; but for what a rule or a line that
\* was left over when it began had counted by then, which is counted again.
NeverOvercounted == client # NoClient => client.out <= charge

\* A device that has fallen silent - as it has when MaxBytes are sent - does
\* not stay in the list: no old counter keeps its client young.
SilentLeaves == []<>(client = NoClient)

\* firewall.c: "Inactive for more than %ld seconds, removing client": who has
\* sent something between the last two listings is not removed for inactivity.
ActiveStays == [][Expire => ~heard]_vars
===============================================================================
