---------------------------- MODULE GatewayRefines ----------------------------
(***************************************************************************)
(* Gateway implements Admission: the client list and the Outgoing chain,   *)
(* read as sessions of devices and open addresses, keep the promise        *)
(* whatever the workers, the walk, wdctl and crashes do, for any number of *)
(* devices.                                                                *)
(***************************************************************************)
EXTENDS GatewayProofs

\* The refinement mapping, of a list and of rules.
Sessions(l) == [d \in Ip \X Mac |-> SessionIn(l, d)]
Opened(f) == {i \in Ip : HasRule(f, i)}

\* A node is the node of a device.
IsOf(l, n, d) == l[n].ip = d[1] /\ l[n].mac = d[2]

-------------------------------------------------------------------------------
(***************************************************************************)
(* Sessions.                                                               *)
(***************************************************************************)

\* A device without a node has no session; as devices have at most one node,
\* the state of a device's session is the state of any node of it.
LEMMA SessionFacts ==
    ASSUME NEW l, ListOK(l), NEW d \in Ip \X Mac
    PROVE  /\ (\A n \in DOMAIN l : ~IsOf(l, n, d)) => SessionIn(l, d) = Absent
           /\ \A n \in DOMAIN l : Unique(l) /\ IsOf(l, n, d) =>
                  SessionIn(l, d) = l[n].state /\ SessionIn(l, d) # Absent
<1> DEFINE c == Find(l, d[1], d[2])
<1>1. DOMAIN l \subseteq Nat \ {NoNode}
  BY NodesArePositive DEF ListOK
<1>2. /\ c # NoNode => c \in DOMAIN l /\ IsOf(l, c, d)
      /\ c = NoNode => \A n \in DOMAIN l : ~IsOf(l, n, d)
  BY <1>1, FindFacts DEF IsOf
<1>3. SessionIn(l, d) = IF c = NoNode THEN Absent ELSE l[c].state
  BY DEF SessionIn
<1>4. \A n \in DOMAIN l : l[n].state # Absent
  BY DEF ListOK, Client, Mark, None, Probation, Known, Absent
<1> HIDE DEF c
<1>5. ASSUME \A n \in DOMAIN l : ~IsOf(l, n, d)
      PROVE  SessionIn(l, d) = Absent
  BY <1>2, <1>3, <1>5
<1>6. ASSUME NEW n \in DOMAIN l, Unique(l), IsOf(l, n, d)
      PROVE  SessionIn(l, d) = l[n].state /\ SessionIn(l, d) # Absent
  <2>1. c \in DOMAIN l /\ IsOf(l, c, d) /\ c # NoNode
    BY <1>2, <1>6
  <2>2. c = n
    BY <1>6, <2>1 DEF Unique, IsOf
  <2> QED BY <1>3, <1>4, <2>1, <2>2
<1> QED BY <1>5, <1>6

\* The mapping of Gateway is the mapping above, before and after a step.
LEMMA MappingFacts ==
    /\ [d \in Ip \X Mac |-> SessionIn(list, d)] = Sessions(list)
    /\ [d \in Ip \X Mac |-> SessionIn(list, d)]' = Sessions(list')
    /\ {i \in Ip : HasRule(fw, i)} = Opened(fw)
    /\ {i \in Ip : HasRule(fw, i)}' = Opened(fw')
BY DEF Sessions, Opened

\* Writing bandwidths and times is no step of a session.
LEMMA KeepSessions ==
    ASSUME NEW l, NEW k, ListOK(l), ListOK(k), Unique(l),
           SameDevices(l, k), SameStates(l, k)
    PROVE  Sessions(k) = Sessions(l)
<1>1. Unique(k)
  BY SameDevicesUnique
<1>2. ASSUME NEW d \in Ip \X Mac
      PROVE  SessionIn(k, d) = SessionIn(l, d)
  <2>1. CASE \A n \in DOMAIN l : ~IsOf(l, n, d)
    <3>1. \A n \in DOMAIN k : ~IsOf(k, n, d)
      BY <2>1 DEF SameDevices, IsOf
    <3> QED BY <2>1, <3>1, SessionFacts
  <2>2. CASE \E n \in DOMAIN l : IsOf(l, n, d)
    <3>1. PICK n \in DOMAIN l : IsOf(l, n, d)
      BY <2>2
    <3>2. n \in DOMAIN k /\ IsOf(k, n, d) /\ k[n].state = l[n].state
      BY <3>1 DEF SameDevices, SameStates, IsOf
    <3> QED BY <1>1, <3>1, <3>2, SessionFacts
  <2> QED BY <2>1, <2>2
<1> QED BY <1>2 DEF Sessions

\* A change of one device's nodes is a change of its session only.
LEMMA OneSessionChanges ==
    ASSUME NEW l, NEW k, ListOK(l), ListOK(k), Unique(l), Unique(k),
           NEW d \in Ip \X Mac, NEW s, SessionIn(k, d) = s,
           \A n \in DOMAIN l : ~IsOf(l, n, d) =>
                n \in DOMAIN k /\ k[n] = l[n],
           \A n \in DOMAIN k : ~IsOf(k, n, d) =>
                n \in DOMAIN l /\ k[n] = l[n]
    PROVE  Sessions(k) = [Sessions(l) EXCEPT ![d] = s]
<1>1. ASSUME NEW e \in Ip \X Mac, e # d
      PROVE  SessionIn(k, e) = SessionIn(l, e)
  <2>0. \A n : /\ IsOf(l, n, e) => ~IsOf(l, n, d)
               /\ IsOf(k, n, e) => ~IsOf(k, n, d)
    BY <1>1 DEF IsOf
  <2>1. CASE \A n \in DOMAIN l : ~IsOf(l, n, e)
    <3>1. \A n \in DOMAIN k : ~IsOf(k, n, e)
      BY <2>0, <2>1 DEF IsOf
    <3> QED BY <2>1, <3>1, SessionFacts
  <2>2. CASE \E n \in DOMAIN l : IsOf(l, n, e)
    <3>1. PICK n \in DOMAIN l : IsOf(l, n, e)
      BY <2>2
    <3>2. n \in DOMAIN k /\ k[n] = l[n]
      BY <2>0, <3>1
    <3>3. IsOf(k, n, e)
      BY <3>1, <3>2 DEF IsOf
    <3> QED BY <3>1, <3>2, <3>3, SessionFacts
  <2> QED BY <2>1, <2>2
<1> QED BY <1>1 DEF Sessions

-------------------------------------------------------------------------------
(***************************************************************************)
(* Open addresses.                                                         *)
(***************************************************************************)

\* fw_allow() opens its address and no other, if grep's status is true.
LEMMA AllowOpens ==
    ASSUME NEW f \in Firewall, NEW l, NEW i \in Ip, NEW m \in Mark
    PROVE  Opened(Allow(f, l, i, m, HasRule(f, i))) = Opened(f) \cup {i}
<1>1. CASE HasRule(f, i)
  BY <1>1 DEF Allow, Opened
<1>2. CASE ~HasRule(f, i)
  <2> DEFINE g == Allow(f, l, i, m, HasRule(f, i))
  <2>1. g.out[i][m] = f.out[i][m] + 1 /\ f.out[i][m] \in Nat
    BY <1>2 DEF Allow, Firewall
  <2>2. \A j \in Ip \ {i} : g.out[j] = f.out[j]
    BY <1>2 DEF Allow, Firewall
  <2> HIDE DEF g
  <2>3. HasRule(g, i)
    <3>1. g.out[i][m] > 0
      BY <2>1
    <3> QED BY <3>1 DEF HasRule
  <2>4. \A j \in Ip \ {i} : HasRule(g, j) <=> HasRule(f, j)
    BY <2>2 DEF HasRule
  <2> QED BY <2>3, <2>4 DEF Opened, g
<1> QED BY <1>1, <1>2

\* fw_deny() closes its address or leaves it open, and closes no other.
LEMMA DenyOpens ==
    ASSUME NEW f \in Firewall, NEW i \in Ip, NEW m \in Mark
    PROVE  Opened(Deny(f, i, m)) \in {Opened(f), Opened(f) \ {i}}
<1> DEFINE g == Deny(f, i, m)
<1>1. \A j \in Ip : /\ HasRule(g, j) => HasRule(f, j)
                    /\ j # i => (HasRule(g, j) <=> HasRule(f, j))
  BY DenyRules
<1> HIDE DEF g
<1>2. CASE HasRule(g, i)
  <2>1. Opened(g) = Opened(f)
    BY <1>1, <1>2 DEF Opened
  <2> QED BY <2>1 DEF g
<1>3. CASE ~HasRule(g, i)
  <2>1. Opened(g) = Opened(f) \ {i}
    BY <1>1, <1>3 DEF Opened
  <2> QED BY <2>1 DEF g
<1> QED BY <1>2, <1>3

\* A process that is not up has no clients.
Down == ~up => DOMAIN list = {}

\* The list is filled only after fw_init(),
LEMMA DownStep ==
    ASSUME TypeOK, Down, [Next]_vars
    PROVE  Down'
<1>1. CASE Keeping
  BY <1>1 DEF Keeping, SameDevices, Down
<1>2. CASE Appending
  BY <1>2 DEF Appending, Down
<1>3. CASE Allowing
  BY <1>3 DEF Allowing, Down
<1>4. CASE Denying
  BY <1>4 DEF Denying, Down
<1>5. CASE Sweeping
  BY <1>5 DEF Sweeping, Down
<1>6. CASE Ending
  BY <1>6 DEF Ending, Exit, NoList, Down
<1>7. CASE Starting
  BY <1>7 DEF Starting, Down
<1> QED BY <1>1, <1>2, <1>3, <1>4, <1>5, <1>6, <1>7, StepKinds

\* and it dies with the process.
LEMMA DownIsEmpty == Spec => []Down
<1>1. Init => Down
  BY DEF Init, NoList, Down
<1>2. TypeOK /\ Down /\ [Next]_vars => Down'
  BY DownStep
<1> QED BY <1>1, <1>2, TypeCorrect, PTL DEF Spec

-------------------------------------------------------------------------------
(***************************************************************************)
(* Steps.                                                                  *)
(***************************************************************************)

\* Before the start nobody has a session and no address is open.
LEMMA InitImplements == Init => Promise!Init
<1> SUFFICES ASSUME Init PROVE Promise!Init
  OBVIOUS
<1>1. ListOK(list) /\ DOMAIN list = {}
  BY DEF Init, NoList, ListOK
<1>2. \A d \in Ip \X Mac : SessionIn(list, d) = Absent
  BY <1>1, SessionFacts
<1>3. Sessions(list) = [d \in Ip \X Mac |-> Absent]
  BY <1>2 DEF Sessions
<1>4. Opened(fw) = {}
  BY NoRulesNoRule DEF Init, Opened
<1> QED BY <1>3, <1>4, MappingFacts DEF Promise!Init, Promise!Device

\* What a step does to the sessions and to the rules: nothing,
NoMove == Sessions(list') = Sessions(list) /\ UNCHANGED fw

\* a device shows up,
Arrive(d) ==
    /\ Sessions(list)[d] = Absent
    /\ Sessions(list') = [Sessions(list) EXCEPT ![d] = None]
    /\ UNCHANGED fw

\* it is let through, whatever grep's status is taken for,
Admit(d, s) ==
    /\ Sessions(list)[d] # Absent
    /\ Sessions(list') = [Sessions(list) EXCEPT ![d] = s]
    /\ \E found \in GrepStatus(fw, d[1]) : fw' = Allow(fw, list', d[1], s, found)

\* it is turned away, and its session may end,
TurnAway(d, m) ==
    /\ Sessions(list)[d] # Absent
    /\ Sessions(list') \in {Sessions(list), [Sessions(list) EXCEPT ![d] = Absent]}
    /\ fw' = Deny(fw, d[1], m)

\* an address without a session is cleaned up,
CleanUp(i) ==
    /\ \A m \in Mac : Sessions(list)[<<i, m>>] = Absent
    /\ Sessions(list') = Sessions(list)
    /\ fw' = DestroyMention(fw, i)

\* or everything ends.
Halt ==
    /\ Sessions(list') = [d \in Ip \X Mac |-> Absent]
    /\ fw' \in {fw, NoRules}

\* Every kind of step is one of these.
LEMMA SessionSteps ==
    ASSUME TypeOK, TypeOK', Unique(list), Unique(list'), Fresh, Down, [Next]_vars
    PROVE  \/ NoMove \/ Halt
           \/ \E d \in Ip \X Mac : \/ Arrive(d)
                                   \/ \E s \in {Probation, Known} : Admit(d, s)
                                   \/ \E m \in Mark : TurnAway(d, m)
           \/ \E i \in Ip : CleanUp(i)
<1> DEFINE S == Sessions(list)
           T == Sessions(list')
           Device == Ip \X Mac
<1>0. /\ ListOK(list) /\ ListOK(list') /\ fw \in Firewall
      /\ \A n \in DOMAIN list : list[n].ip \in Ip /\ list[n].mac \in Mac
  BY DEF TypeOK, ListOK, Client
<1>n. ASSUME NEW n \in DOMAIN list
      PROVE  /\ <<list[n].ip, list[n].mac>> \in Device
             /\ S[<<list[n].ip, list[n].mac>>] # Absent
  <2>1. IsOf(list, n, <<list[n].ip, list[n].mac>>)
    BY DEF IsOf
  <2> QED BY <1>0, <2>1, SessionFacts DEF Sessions
<1>1. ASSUME Keeping PROVE NoMove
  BY <1>0, <1>1, KeepSessions DEF Keeping, NoMove
<1>2. ASSUME Appending PROVE \E d \in Device : Arrive(d)
  <2>1. PICK c \in Client : /\ Find(list, c.ip, c.mac) = NoNode
                            /\ c.state = None
                            /\ list' = AppendNode(list, last + 1, c)
    BY <1>2 DEF Appending
  <2> DEFINE d == <<c.ip, c.mac>>
  <2>2. d \in Device
    BY DEF Client
  <2>3. S[d] = Absent
    BY <2>1, <2>2 DEF Sessions, SessionIn
  <2>4. last + 1 \in DOMAIN list' /\ list'[last + 1] = c
    BY <2>1 DEF AppendNode
  <2>5. IsOf(list', last + 1, d)
    BY <2>4 DEF IsOf
  <2>6. SessionIn(list', d) = None
    BY <1>0, <2>1, <2>2, <2>4, <2>5, SessionFacts
  <2>7. \A n \in DOMAIN list : n \in DOMAIN list' /\ list'[n] = list[n]
    BY <2>1, AppendKeepsNodes
  <2>8. \A n \in DOMAIN list' : ~IsOf(list', n, d) =>
            n \in DOMAIN list /\ list'[n] = list[n]
    BY <2>1, <2>5 DEF AppendNode
  <2> HIDE DEF d
  <2>9. T = [S EXCEPT ![d] = None]
    BY <1>0, <2>2, <2>6, <2>7, <2>8, OneSessionChanges
  <2> QED BY <1>2, <2>2, <2>3, <2>9 DEF Appending, Arrive
<1>3. ASSUME Allowing
      PROVE  \E d \in Device, s \in {Probation, Known} : Admit(d, s)
  <2>1. PICK n \in DOMAIN list, s \in {Probation, Known} :
            list' = SetState(list, n, s) /\ Allows(list', list[n].ip, s)
    BY <1>3 DEF Allowing
  <2> DEFINE d == <<list[n].ip, list[n].mac>>
  <2>2. d \in Device /\ S[d] # Absent
    BY <1>n
  <2>3. /\ DOMAIN list' = DOMAIN list
        /\ \A k \in DOMAIN list \ {n} : list'[k] = list[k]
        /\ list'[n].ip = list[n].ip /\ list'[n].mac = list[n].mac
        /\ list'[n].state = s
    BY <1>0, <2>1 DEF SetState, ListOK, Client
  <2>4. IsOf(list, n, d) /\ IsOf(list', n, d)
    BY <2>3 DEF IsOf
  <2>5. \E found \in GrepStatus(fw, d[1]) : fw' = Allow(fw, list', d[1], s, found)
    BY <2>1 DEF Allows
  <2> HIDE DEF d
  <2>6. SessionIn(list', d) = s
    BY <1>0, <2>2, <2>3, <2>4, SessionFacts
  <2>7. T = [S EXCEPT ![d] = s]
    BY <1>0, <2>2, <2>3, <2>4, <2>6, OneSessionChanges
  <2> QED BY <2>2, <2>5, <2>7 DEF Admit
<1>4. ASSUME Denying PROVE \E d \in Device, m \in Mark : TurnAway(d, m)
  <2>1. PICK n \in DOMAIN list, m \in Mark :
            /\ list' \in {list, DeleteNode(list, n)}
            /\ fw' = Deny(fw, list[n].ip, m)
    BY <1>4 DEF Denying
  <2> DEFINE d == <<list[n].ip, list[n].mac>>
  <2>2. d \in Device /\ S[d] # Absent
    BY <1>n
  <2>3. fw' = Deny(fw, d[1], m)
    BY <2>1
  <2>4. IsOf(list, n, d)
    BY DEF IsOf
  <2>5. CASE list' = list
    <3> HIDE DEF d
    <3> QED BY <2>2, <2>3, <2>5 DEF TurnAway
  <2>6. CASE list' = DeleteNode(list, n)
    <3>1. \A k \in DOMAIN list' : k \in DOMAIN list /\ list'[k] = list[k]
      BY <2>6 DEF DeleteNode
    <3>2. \A k \in DOMAIN list : ~IsOf(list, k, d) =>
              k \in DOMAIN list' /\ list'[k] = list[k]
      BY <2>4, <2>6 DEF DeleteNode
    <3>3. \A k \in DOMAIN list' : ~IsOf(list', k, d)
      BY <2>6 DEF DeleteNode, Unique, IsOf
    <3> HIDE DEF d
    <3>4. SessionIn(list', d) = Absent
      BY <1>0, <2>2, <3>3, SessionFacts
    <3>5. T = [S EXCEPT ![d] = Absent]
      BY <1>0, <2>2, <3>1, <3>2, <3>4, OneSessionChanges
    <3> QED BY <2>2, <2>3, <3>5 DEF TurnAway
  <2> QED BY <2>1, <2>5, <2>6
<1>5. ASSUME Sweeping PROVE \E i \in Ip : CleanUp(i)
  <2>1. PICK i \in Ip : /\ FindByIp(list, i) = NoNode
                        /\ fw' = DestroyMention(fw, i)
                        /\ list' = list
    BY <1>5 DEF Sweeping
  <2>2. \A n \in DOMAIN list : list[n].ip # i
    BY <1>0, <2>1, HasNodeFacts DEF HasNode
  <2>3. \A m \in Mac : SessionIn(list, <<i, m>>) = Absent
    BY <1>0, <2>2, SessionFacts DEF IsOf
  <2>4. \A m \in Mac : S[<<i, m>>] = Absent
    BY <2>3 DEF Sessions
  <2> QED BY <2>1, <2>4 DEF CleanUp
<1>e. ASSUME DOMAIN list' = {}
      PROVE  T = [d \in Device |-> Absent]
  BY <1>0, <1>e, SessionFacts DEF Sessions
<1>6. ASSUME Ending PROVE Halt
  BY <1>6, <1>e DEF Ending, Exit, NoList, Halt
<1>7. ASSUME Starting PROVE Halt
  BY <1>7, <1>e DEF Starting, Down, Halt
<1> HIDE DEF Device
<1>8. \/ NoMove \/ Halt
      \/ \E d \in Device : \/ Arrive(d)
                           \/ \E s \in {Probation, Known} : Admit(d, s)
                           \/ \E m \in Mark : TurnAway(d, m)
      \/ \E i \in Ip : CleanUp(i)
  BY <1>1, <1>2, <1>3, <1>4, <1>5, <1>6, <1>7, StepKinds
<1> QED BY <1>8 DEF Device

\* Each of them is a step of Admission, or none.
LEMMA StepImplements ==
    ASSUME StatusLost = FALSE, TypeOK, TypeOK', Unique(list), Unique(list'),
           Fresh, Down, [Next]_vars
    PROVE  [Promise!Next]_Promise!vars
<1> DEFINE Goal == [Promise!Next]_Promise!vars
<1> SUFFICES Goal
  OBVIOUS
<1>0. fw \in Firewall
  BY DEF TypeOK
<1>p. \A d \in Ip \X Mac : Promise!Present(d) <=> Sessions(list)[d] # Absent
  BY MappingFacts DEF Promise!Present
<1>1. ASSUME NoMove PROVE Goal
  BY <1>1, MappingFacts DEF NoMove, Promise!vars
<1>2. ASSUME NEW d \in Ip \X Mac, Arrive(d) PROVE Goal
  <2>1. Promise!Open(d)
    BY <1>2, <1>p, MappingFacts DEF Arrive, Promise!Open
  <2> QED BY <2>1 DEF Promise!Next, Promise!Device
<1>3. ASSUME NEW d \in Ip \X Mac, NEW s \in {Probation, Known}, Admit(d, s)
      PROVE  Goal
  <2>1. Opened(fw') = Opened(fw) \cup {d[1]}
    BY <1>0, <1>3, AllowOpens DEF Admit, GrepStatus, Mark
  <2>2. Promise!Grant(d, s)
    BY <1>3, <1>p, <2>1, MappingFacts DEF Admit, Promise!Grant
  <2> QED BY <2>2 DEF Promise!Next, Promise!Device
<1>4. ASSUME NEW d \in Ip \X Mac, NEW m \in Mark, TurnAway(d, m) PROVE Goal
  <2>1. Opened(fw') \in {Opened(fw), Opened(fw) \ {d[1]}}
    BY <1>0, <1>4, DenyOpens DEF TurnAway
  <2>2. Promise!Refuse(d) \/ Promise!Close(d)
    BY <1>4, <1>p, <2>1, MappingFacts DEF TurnAway, Promise!Refuse, Promise!Close
  <2> QED BY <2>2 DEF Promise!Next, Promise!Device
<1>5. ASSUME NEW i \in Ip, CleanUp(i) PROVE Goal
  <2>1. Opened(fw') \subseteq Opened(fw)
    BY <1>0, <1>5, DestroyRules DEF CleanUp, Opened
  <2>2. \A m \in Mac : ~Promise!Present(<<i, m>>)
    BY <1>5, <1>p DEF CleanUp
  <2>3. Promise!Sweep
    BY <1>5, <2>1, <2>2, MappingFacts DEF CleanUp, Promise!Sweep
  <2> QED BY <2>3 DEF Promise!Next
<1>6. ASSUME Halt PROVE Goal
  <2>1. Opened(fw') \in {Opened(fw), {}}
    BY <1>6, NoRulesNoRule DEF Halt, Opened
  <2>2. Promise!Stop
    BY <1>6, <2>1, MappingFacts DEF Halt, Promise!Stop, Promise!Device
  <2> QED BY <2>2 DEF Promise!Next
<1> HIDE DEF Goal
<1> QED BY <1>1, <1>2, <1>3, <1>4, <1>5, <1>6, SessionSteps

\* wifidog keeps the promise of Admission: an address is only ever opened for
\* a device with a session, one device's step leaves the others' sessions
\* alone, and a session that was granted ends but is never new again.  It is
\* needed that execute() reports the status of the command it ran.
THEOREM GatewayKeepsPromise ==
    ASSUME StatusLost = FALSE
    PROVE  Spec => KeepsPromise
<1>1. Init => Promise!Init
  BY InitImplements
<1>2. /\ TypeOK /\ TypeOK' /\ OneSessionPerDevice /\ OneSessionPerDevice'
      /\ Fresh /\ Down /\ [Next]_vars
      => [Promise!Next]_Promise!vars
  <2>1. OneSessionPerDevice <=> Unique(list)
    BY DEF OneSessionPerDevice, Unique
  <2>2. OneSessionPerDevice' <=> Unique(list')
    BY DEF OneSessionPerDevice, Unique
  <2> QED BY <2>1, <2>2, StepImplements
<1> QED BY <1>1, <1>2, TypeCorrect, OneSession, NodesAreFresh, DownIsEmpty, PTL
        DEF Spec, KeepsPromise, Promise!Spec
===============================================================================
