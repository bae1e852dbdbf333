-------------------------------- MODULE FwRules --------------------------------
(***************************************************************************)
(* The client rules wifidog keeps in the mangle table (fw_iptables.c) and  *)
(* the traffic class the bandwidth scripts keep for an address.  A value f *)
(* is a record:                                                            *)
(*   f.out[i][m]  rules "-s i -j MARK --set-mark m" of the Outgoing chain  *)
(*   f.in[i]      rules "-d i -j ACCEPT" of the Incoming chain             *)
(*   f.shaped     the addresses that have a tc class                       *)
(* Rules are counted, because "iptables -A" appends a second copy without  *)
(* complaint and "iptables -D" deletes one copy.                           *)
(***************************************************************************)
EXTENDS ClientList

CONSTANTS
    Ip,        \* addresses of the devices on the gateway's interface
    Mentions   \* <<i, j>>: the text of address i occurs in the text of j

ASSUME MentionsAssumption ==
    /\ Mentions \subseteq Ip \X Ip
    /\ \A i \in Ip : <<i, i>> \in Mentions

\* fw_connection_state and the mark of a rule: 0 is a client that was never
\* let through, 1 is FW_MARK_PROBATION, 2 is FW_MARK_KNOWN.
None      == 0
Probation == 1
Known     == 2
Mark == {None, Probation, Known}

Firewall == [out: [Ip -> [Mark -> Nat]], in: [Ip -> Nat], shaped: SUBSET Ip]

\* The chains as iptables_fw_init() and setifbroot.sh leave them.
NoRules == [out    |-> [i \in Ip |-> [m \in Mark |-> 0]],
            in     |-> [i \in Ip |-> 0],
            shaped |-> {}]

\* Some Outgoing rule names the address: what grep looks for.
HasRule(f, i) == \E m \in Mark : f.out[i][m] > 0

\* Mutant: deleting a rule that is not there is counted.
MinusOneAlways(k) == k - 1

\* "iptables -D" of k equal rules.
MinusOne(k) == IF k > 0 THEN k - 1 ELSE 0

\* setclientbw.sh: rate 0 "means no limit" and leaves the classes alone.
\* l is the client list, read without a lock of its own by fw_allow's caller.
SetBandwidth(f, l, i) ==
    LET c == FindByIp(l, i)
    IN  IF c # NoNode /\ l[c].rate > 0 THEN f.shaped \cup {i} ELSE f.shaped

\* fw_allow() -> iptables_fw_access(FW_ACCESS_ALLOW).  found is the exit status
\* of the grep as the program got it; a rule that is found is left as it is,
\* whatever its mark.
Allow(f, l, i, m, found) ==
    IF found THEN f
    ELSE [out    |-> [f.out EXCEPT ![i][m] = @ + 1],
          in     |-> [f.in EXCEPT ![i] = @ + 1],
          shaped |-> SetBandwidth(f, l, i)]

\* Mutants: the Incoming rule, or the traffic class, is forgotten.
DenyOutgoing(f, i, m) ==
    [f EXCEPT !.out[i][m] = MinusOne(@), !.shaped = @ \ {i}]

DenyKeepsClass(f, i, m) ==
    [f EXCEPT !.out[i][m] = MinusOne(@), !.in[i] = MinusOne(@)]

\* fw_deny() -> iptables_fw_access(FW_ACCESS_DENY) and delclientbw.sh: the
\* Outgoing rule goes only if it carries mark m.
Deny(f, i, m) ==
    [out    |-> [f.out EXCEPT ![i][m] = MinusOne(@)],
     in     |-> [f.in EXCEPT ![i] = MinusOne(@)],
     shaped |-> f.shaped \ {i}]

\* Mutant: only rules with the mark of a known client are deleted.
DestroyKnown(f, i) ==
    [f EXCEPT !.out[i][Known] = 0, !.in[i] = 0]

\* iptables_fw_destroy_mention() on both chains: it deletes and recurses until
\* no line of the listing contains the text of i.
DestroyMention(f, i) ==
    [out    |-> [j \in Ip |-> IF <<i, j>> \in Mentions THEN [m \in Mark |-> 0]
                                                       ELSE f.out[j]],
     in     |-> [j \in Ip |-> IF <<i, j>> \in Mentions THEN 0 ELSE f.in[j]],
     shaped |-> f.shaped]

===============================================================================
