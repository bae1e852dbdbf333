----------------------------- MODULE CountersProofs -----------------------------
(***************************************************************************)
(* Proofs about Counters, for any timeout, traffic and number of restarts. *)
(***************************************************************************)
EXTENDS Counters, TLAPS

\* What every counter goes back to: bytes that were let out.  A counter of the
\* kernel, or a copy of it in a listing, counts nothing that outgoing_history
\* counts already - not even a line of a rule or for a client that are gone -
\* and for a session nothing that it cannot be charged for.
Backed(b) == b <= sent /\ (client # NoClient => client.hist + b <= charge)

Inv ==
    /\ CTypeOK
    /\ NeverOvercounted
    /\ charge <= sent
    /\ client = NoClient => charge = 0
    /\ Backed(0)
    /\ rule # NoRule => Backed(rule.bytes)
    /\ pass.pc = "line" => Backed(pass.bytes)

\* The shapes of the records.
LEMMA Shapes ==
  ASSUME CTypeOK
  PROVE  /\ rule # NoRule => /\ rule.mark \in Mark /\ rule.bytes \in 0 .. MaxBytes
                             /\ rule = [mark |-> rule.mark, bytes |-> rule.bytes]
         /\ client # NoClient => /\ client.state \in Mark
                                 /\ client.out \in 0 .. MaxBytes
                                 /\ client.hist \in 0 .. MaxBytes
                                 /\ client.idle \in 0 .. Timeout
         /\ pass.pc = "line" => pass.bytes \in 0 .. MaxBytes
         /\ sent \in 0 .. MaxBytes /\ charge \in 0 .. MaxBytes
  BY DEF CTypeOK, IsClient, Asleep, Due, Walks, Line

LEMMA InvInit == ASSUME Init PROVE Inv
<1>1. rule = NoRule /\ client = NoClient /\ pass = Asleep /\ sent = 0 /\ charge = 0
  BY DEF Init
<1>2. CTypeOK
  <2>1. /\ restarts \in 0 .. MaxRestarts
        /\ sent \in 0 .. MaxBytes /\ charge \in 0 .. MaxBytes
    BY CountersAssumption DEF Init
  <2>2. fresh \in BOOLEAN /\ heard \in BOOLEAN
    BY Zenon DEF Init
  <2> QED BY <1>1, <2>1, <2>2 DEF CTypeOK, IsClient
<1>3. Asleep.pc # "line"
  BY DEF Asleep
<1> QED BY <1>1, <1>2, <1>3 DEF Inv, NeverOvercounted, Backed

-------------------------------------------------------------------------------
(***************************************************************************)
(* Steps of clients, workers and wdctl.                                    *)
(***************************************************************************)
LEMMA RegisterKeeps == ASSUME Inv, Register PROVE Inv'
<1>1. /\ LeftOver \in Nat /\ LeftOver <= sent
      /\ rule # NoRule => rule.bytes <= LeftOver
      /\ pass.pc = "line" => pass.bytes <= LeftOver
  BY Shapes DEF Inv, Backed, LeftOver
<1>2. /\ client'.out = 0 /\ client'.hist = 0 /\ charge' = LeftOver
      /\ client' \in [state: Mark, out: 0 .. MaxBytes, hist: 0 .. MaxBytes,
                      idle: 0 .. Timeout]
      /\ UNCHANGED <<rule, pass, restarts, sent, fresh, heard>>
  BY CountersAssumption DEF Register, Mark, None
<1>3. client' # NoClient
  BY DEF Register, NoClient
<1>4. charge' \in 0 .. MaxBytes
  BY <1>1, <1>2, Shapes, CountersAssumption DEF Inv
<1>5. CTypeOK'
  BY <1>2, <1>4 DEF Inv, CTypeOK, IsClient
<1> QED BY <1>1, <1>2, <1>3, <1>5, Shapes DEF Inv, NeverOvercounted, Backed

LEMMA GrantedKeeps ==
  ASSUME Inv, NEW m \in {Probation, Known}, Granted(m) PROVE Inv'
  BY Shapes, CountersAssumption DEF Granted, Allow, Inv, CTypeOK, IsClient,
     NeverOvercounted, Backed, traffic, Mark, None, NoClient, NoRule

LEMMA DeniedKeeps == ASSUME Inv, Denied PROVE Inv'
  BY Shapes, CountersAssumption DEF Denied, Deny, Inv, CTypeOK, IsClient,
     NeverOvercounted, Backed, Mark

LEMMA LeaveKeeps == ASSUME Inv, Leave PROVE Inv'
  BY Shapes, CountersAssumption DEF Leave, Deny, Remove, Inv, CTypeOK, IsClient,
     NeverOvercounted, Backed, Mark

LEMMA SendKeeps == ASSUME Inv, NEW k \in Burst, Send(k) PROVE Inv'
<1>1. /\ k \in Nat /\ sent \in 0 .. MaxBytes
      /\ sent' = sent + k /\ sent' \in 0 .. MaxBytes
  BY Shapes, CountersAssumption DEF Send, Inv
<1>2. /\ rule # NoRule /\ rule.bytes \in Nat /\ rule.mark \in Mark
      /\ rule' = [mark |-> rule.mark, bytes |-> rule.bytes + k]
  BY Shapes DEF Send, Inv
<1>3. /\ rule.bytes + k <= sent' /\ charge' <= sent' /\ charge' \in 0 .. MaxBytes
      /\ charge' = IF client = NoClient THEN 0 ELSE charge + k
  BY <1>1, <1>2, Shapes, CountersAssumption DEF Inv, Backed, Send
<1>4. UNCHANGED <<client, pass, restarts, heard>> /\ fresh' = TRUE
  BY DEF Send
<1>5. CTypeOK'
  <2>1. rule' \in [mark: Mark, bytes: 0 .. MaxBytes]
    BY <1>1, <1>2, <1>3, CountersAssumption
  <2> QED BY <1>1, <1>3, <1>4, <2>1 DEF Inv, CTypeOK, IsClient
<1>6. client # NoClient => client.hist \in Nat /\ client.out \in Nat
  BY Shapes DEF Inv
<1> QED BY <1>1, <1>2, <1>3, <1>4, <1>5, <1>6, Shapes
        DEF Inv, NeverOvercounted, Backed

\* outgoing becomes outgoing_history, and the rules start from 0.
LEMMA RestartKeeps == ASSUME Inv, Restart PROVE Inv'
<1>1. /\ sent' = sent /\ charge' = charge /\ pass' = Asleep /\ Asleep.pc # "line"
      /\ restarts' \in 0 .. MaxRestarts
      /\ fresh' = FALSE /\ heard' = FALSE
  BY CountersAssumption DEF Restart, Inv, CTypeOK, Asleep
<1>2. CASE client = NoClient
  BY <1>1, <1>2, Shapes DEF Restart, Inv, CTypeOK, IsClient, NeverOvercounted,
     Backed
<1>3. CASE client # NoClient
  <2>1. client \in [state: Mark, out: 0 .. MaxBytes, hist: 0 .. MaxBytes,
                    idle: 0 .. Timeout]
    BY <1>3 DEF Inv, CTypeOK, IsClient
  <2>2. /\ client' = [client EXCEPT !.hist = client.out]
        /\ rule' = [mark |-> client.state, bytes |-> 0]
    BY <1>3 DEF Restart
  <2>3. /\ client' \in [state: Mark, out: 0 .. MaxBytes, hist: 0 .. MaxBytes,
                        idle: 0 .. Timeout]
        /\ client'.hist = client.out /\ client'.out = client.out
        /\ client' # NoClient
    BY <2>1, <2>2 DEF NoClient
  <2>4. rule' \in [mark: Mark, bytes: 0 .. MaxBytes] /\ rule'.bytes = 0
    BY <2>1, <2>2, CountersAssumption
  <2>5. CTypeOK'
    BY <1>1, <2>3, <2>4 DEF Inv, CTypeOK, IsClient
  <2>6. /\ client.out <= charge /\ client.out \in Nat
        /\ charge \in Nat /\ charge <= sent /\ sent \in Nat
    BY <1>3, <2>1, Shapes DEF Inv, NeverOvercounted
  <2> QED BY <1>1, <2>3, <2>4, <2>5, <2>6 DEF Inv, NeverOvercounted, Backed
<1> QED BY <1>2, <1>3

-------------------------------------------------------------------------------
(***************************************************************************)
(* Steps of fw_counter.                                                    *)
(***************************************************************************)
LEMMA TickKeeps == ASSUME Inv, Tick PROVE Inv'
  BY Shapes, CountersAssumption DEF Tick, Inv, CTypeOK, IsClient,
     NeverOvercounted, Backed, traffic, Due, NoClient

LEMMA ListKeeps == ASSUME Inv, List PROVE Inv'
  BY Shapes, CountersAssumption DEF List, Inv, CTypeOK, IsClient,
     NeverOvercounted, Backed, Walks, Line

\* The copy is replaced by outgoing_history and the line, never added to.
LEMMA CountLineKeeps == ASSUME Inv, CountLine PROVE Inv'
<1>1. CASE client = NoClient
  BY <1>1, Shapes DEF CountLine, Inv, CTypeOK, IsClient, NeverOvercounted,
     Backed, Walks
<1>2. CASE client # NoClient
  <2>1. /\ client.hist \in Nat /\ pass.bytes \in Nat
        /\ client.hist + pass.bytes <= charge /\ charge <= MaxBytes
    BY <1>2, Shapes DEF CountLine, Inv, Backed
  <2>2. client \in [state: Mark, out: 0 .. MaxBytes, hist: 0 .. MaxBytes,
                    idle: 0 .. Timeout]
    BY <1>2 DEF Inv, CTypeOK, IsClient
  <2>3. \/ client' = client
        \/ client' = [client EXCEPT !.out = client.hist + pass.bytes, !.idle = 0]
    BY <1>2 DEF CountLine, Updated
  <2>4. /\ client' \in [state: Mark, out: 0 .. MaxBytes, hist: 0 .. MaxBytes,
                        idle: 0 .. Timeout]
        /\ client'.hist = client.hist
        /\ client'.out <= charge /\ client' # NoClient
    <3>1. client.hist + pass.bytes \in 0 .. MaxBytes /\ 0 \in 0 .. Timeout
      BY <2>1, Shapes, CountersAssumption DEF Inv
    <3>2. client.out <= charge
      BY <1>2 DEF Inv, NeverOvercounted
    <3>3. CASE client' = client
      BY <1>2, <2>2, <3>2, <3>3
    <3>4. CASE client' = [client EXCEPT !.out = client.hist + pass.bytes,
                                        !.idle = 0]
      <4>1. client' = [state |-> client.state, out |-> client.hist + pass.bytes,
                       hist |-> client.hist, idle |-> 0]
        BY <2>2, <3>4
      <4>2. client' # NoClient
        BY <4>1 DEF NoClient
      <4> QED BY <2>1, <2>2, <3>1, <4>1, <4>2
    <3> QED BY <2>3, <3>3, <3>4
  <2>5. UNCHANGED <<rule, fresh, restarts, sent, charge, heard>> /\ pass' = Walks
    BY <1>2 DEF CountLine
  <2>6. CTypeOK'
    BY <2>4, <2>5 DEF Inv, CTypeOK, IsClient
  <2> QED BY <1>2, <2>4, <2>5, <2>6 DEF Inv, NeverOvercounted, Backed, Walks
<1> QED BY <1>1, <1>2

LEMMA ExpireKeeps == ASSUME Inv, Expire PROVE Inv'
  BY Shapes, CountersAssumption DEF Expire, Deny, Remove, Inv, CTypeOK, IsClient,
     NeverOvercounted, Backed, Asleep

LEMMA VisitKeeps == ASSUME Inv, Visit PROVE Inv'
<1>1. CASE client = NoClient
  BY <1>1, Shapes DEF Visit, traffic, Inv, CTypeOK, IsClient, NeverOvercounted,
     Backed, Asleep
<1>2. CASE client # NoClient
  <2>1. client \in [state: Mark, out: 0 .. MaxBytes, hist: 0 .. MaxBytes,
                    idle: 0 .. Timeout]
    BY <1>2 DEF Inv, CTypeOK, IsClient
  <2>2. client' = [client EXCEPT
                      !.state = Known,
                      !.out = IF client.state = None THEN 0 ELSE @]
    BY <1>2 DEF Visit
  <2>3. /\ client' \in [state: Mark, out: 0 .. MaxBytes, hist: 0 .. MaxBytes,
                        idle: 0 .. Timeout]
        /\ client'.hist = client.hist
        /\ client'.out \in {0, client.out} /\ client' # NoClient
    <3>1. Known \in Mark /\ 0 \in 0 .. MaxBytes
      BY CountersAssumption DEF Mark
    <3>2. CASE client.state = None
      BY <2>1, <2>2, <3>1, <3>2 DEF NoClient
    <3>3. CASE client.state # None
      BY <2>1, <2>2, <3>1, <3>3 DEF NoClient
    <3> QED BY <3>2, <3>3
  <2>4. \/ rule' = rule
        \/ rule = NoRule /\ rule' = [mark |-> Known, bytes |-> 0]
    <3>1. CASE client.state = Known
      BY <1>2, <3>1 DEF Visit
    <3>2. CASE client.state # Known
      BY <1>2, <3>2 DEF Visit, Allow
    <3> QED BY <3>1, <3>2
  <2>5. UNCHANGED <<restarts, sent, charge, fresh, heard>> /\ pass' = Asleep
    BY DEF Visit, traffic
  <2>6. CTypeOK'
    <3>1. rule' = NoRule \/ rule' \in [mark: Mark, bytes: 0 .. MaxBytes]
      BY <2>4, CountersAssumption DEF Inv, CTypeOK, Mark
    <3> QED BY <2>3, <2>5, <3>1 DEF Inv, CTypeOK, IsClient
  <2>7. client'.out <= charge
    BY <1>2, <2>3, Shapes DEF Inv, NeverOvercounted
  <2> QED BY <1>2, <2>3, <2>4, <2>5, <2>6, <2>7
          DEF Inv, NeverOvercounted, Backed, Asleep
<1> QED BY <1>1, <1>2

LEMMA InvStep == ASSUME Inv, [Next]_vars PROVE Inv'
<1>1. CASE Register \/ Denied \/ Leave
  BY <1>1, RegisterKeeps, DeniedKeeps, LeaveKeeps
<1>2. CASE \E m \in {Probation, Known} : Granted(m)
  BY <1>2, GrantedKeeps
<1>3. CASE \E k \in Burst : Send(k)
  BY <1>3, SendKeeps
<1>4. CASE Counting
  BY <1>4, TickKeeps, ListKeeps, CountLineKeeps, ExpireKeeps, VisitKeeps
     DEF Counting
<1>5. CASE Restart
  BY <1>5, RestartKeeps
<1>6. CASE UNCHANGED vars
  BY <1>6 DEF vars, traffic, Inv, CTypeOK, IsClient, NeverOvercounted, Backed
<1> QED BY <1>1, <1>2, <1>3, <1>4, <1>5, <1>6 DEF Next

LEMMA Invariant == Spec => []Inv
<1>1. Init => Inv
  BY InvInit
<1>2. Inv /\ [Next]_vars => Inv'
  BY InvStep
<1> QED BY <1>1, <1>2, PTL DEF Spec

-------------------------------------------------------------------------------
\* fw_counter, logins and restarts keep counters and marks in their ranges.
THEOREM CountersTypeCorrect == Spec => []CTypeOK
<1>1. Inv => CTypeOK
  BY DEF Inv
<1> QED BY <1>1, Invariant, PTL

\* fw_iptables.c: what is reported of a session as outgoing was let out for its
\* address since it began, each byte once, however lines, rules and processes
\* come and go; only what a rule or a line left over from before had counted
\* when it began is counted for it, too.
THEOREM CountsOnce == Spec => []NeverOvercounted
<1>1. Inv => NeverOvercounted
  BY DEF Inv
<1> QED BY <1>1, Invariant, PTL
===============================================================================
