----------------------------- MODULE RestartProofs -----------------------------
(***************************************************************************)
(* Proofs about GatewayRestart: "wdctl restart", cut short at any moment,  *)
(* for any number of devices, workers and nodes.                           *)
(***************************************************************************)
EXTENDS GatewayRestart, GatewayRefines

-------------------------------------------------------------------------------
(***************************************************************************)
(* The heir.                                                               *)
(***************************************************************************)
\* It has read a list.
HasRead == heir.pc \in {"fed", "init"}

\* What the heir has where it is.
LEMMA HeirFields ==
    ASSUME IsHeir(heir)
    PROVE  /\ heir.pc \in {"none", "forked", "fed", "init"}
           /\ HasRead => ListOK(heir.list)
           /\ heir.pc = "init" =>
                /\ heir = Loading(heir.list, heir.next)
                /\ heir.next \in DOMAIN heir.list \cup {NoNode}
BY DEF IsHeir, HasRead, ListOK, NoHeir, Forked, Fed, Loading

\* A heir that has read a list of clients is one, at any node of it.
LEMMA FedIsHeir ==
    ASSUME NEW l, ListOK(l)
    PROVE  IsHeir(Fed(l))
BY DEF IsHeir, Fed, ListOK

\* The same for the loop of fw_init().
LEMMA LoadingIsHeir ==
    ASSUME NEW l, ListOK(l), NEW n \in DOMAIN l \cup {NoNode}
    PROVE  IsHeir(Loading(l, n))
BY DEF IsHeir, Loading, ListOK

\* A list has a last node.
LEMMA LastOfFacts ==
    ASSUME NEW l, ListOK(l)
    PROVE  /\ LastOf(l) \in Node \cup {NoNode}
           /\ \A m \in DOMAIN l : m <= LastOf(l)
<1> DEFINE D == DOMAIN l \cup {NoNode}
           U == {n \in Nat : \A m \in D : m <= n}
<1>1. D \subseteq Nat /\ MaxNodes \in Nat /\ \A m \in D : m <= MaxNodes
  BY GatewayAssumption DEF ListOK, Node, NoNode
<1>2. U \in SUBSET Nat /\ U # {}
  BY <1>1
<1>3. PICK u \in U : \A n \in U : u <= n
  <2> HIDE DEF U
  <2> QED BY <1>2, LeastExists
<1>4. u \in D
  <2> SUFFICES ASSUME u \notin D PROVE FALSE
    OBVIOUS
  <2>1. u \in Nat /\ \A m \in D : m \in Nat /\ m <= u /\ m # u
    BY <1>1
  <2>2. NoNode \in D /\ NoNode = 0
    BY DEF NoNode
  <2>3. u - 1 \in Nat
    BY <2>1, <2>2
  <2>4. \A m \in D : m <= u - 1
    BY <2>1
  <2>5. u - 1 \in U
    BY <2>3, <2>4
  <2> QED BY <1>3, <2>1, <2>5
<1>5. u \in D /\ \A m \in DOMAIN l : m <= u
  BY <1>4
<1>6. LastOf(l) \in D /\ \A m \in DOMAIN l : m <= LastOf(l)
  <2> HIDE DEF U
  <2> QED BY <1>5 DEF LastOf
<1> QED BY <1>6 DEF ListOK

\* The node at which the loop of fw_init() goes on.
LEMMA NextOfType ==
    ASSUME NEW l, ListOK(l), NEW n
    PROVE  NextOf(l, n) \in DOMAIN l \cup {NoNode}
BY NodesArePositive, SearchTypes DEF ListOK

\* The loop allows a client of the list.
LEMMA RestoredFacts ==
    ASSUME fw \in Firewall, NEW l, ListOK(l), NEW n \in DOMAIN l, RestoreRule(l, n)
    PROVE  /\ l[n].ip \in Ip /\ l[n].mac \in Mac /\ l[n].state \in Mark
           /\ \E found \in GrepStatus(fw, l[n].ip) :
                  fw' = Allow(fw, l, l[n].ip, l[n].state, found)
           /\ fw' \in Firewall
<1>1. l[n].ip \in Ip /\ l[n].mac \in Mac /\ l[n].state \in Mark
  BY DEF ListOK, Client
<1>2. PICK found \in GrepStatus(fw, l[n].ip) :
          fw' = Allow(fw, l, l[n].ip, l[n].state, found)
  BY DEF RestoreRule, Allows
<1> QED BY <1>1, <1>2, AllowKeepsType

\* What a heir reads while the gateway ends: some nodes of the list.
LEMMA PartOfList ==
    ASSUME SendCut, ListOK(list)
    PROVE  \E l : /\ heir' = Fed(l) /\ ListOK(l)
                  /\ DOMAIN l \subseteq DOMAIN list
                  /\ \A n \in DOMAIN l : l[n] = list[n]
<1>1. PICK k \in Node \cup {NoNode} :
          heir' = Fed([n \in {m \in DOMAIN list : m <= k} |-> list[n]])
  BY DEF SendCut
<1> DEFINE l == [n \in {m \in DOMAIN list : m <= k} |-> list[n]]
<1>2. /\ DOMAIN l \subseteq DOMAIN list
      /\ \A n \in DOMAIN l : l[n] = list[n]
  OBVIOUS
<1>3. ListOK(l)
  BY <1>2 DEF ListOK
<1> HIDE DEF l
<1>4. heir' = Fed(l)
  BY <1>1 DEF l
<1> QED BY <1>2, <1>3, <1>4

-------------------------------------------------------------------------------
(***************************************************************************)
(* Types.                                                                  *)
(***************************************************************************)
\* The types hold over every step of a restart, too.
LEMMA RTypeOKStep ==
    ASSUME RTypeOK, [RNext]_rvars
    PROVE  RTypeOK'
<1>0. /\ TypeOK /\ IsHeir(heir) /\ ListOK(list) /\ fw \in Firewall
      /\ IsHeir(NoHeir) /\ IsHeir(Forked)
  BY DEF RTypeOK, TypeOK, ListOK, IsHeir
<1>1. CASE Serve
  BY <1>0, <1>1, TypeOKStep DEF Serve, RTypeOK
<1>2. CASE Fork
  BY <1>0, <1>2 DEF Fork, gateway, RTypeOK, TypeOK
<1>3. CASE HeirDies
  BY <1>0, <1>3, NoRulesType DEF HeirDies, RTypeOK, TypeOK
<1>4. CASE Send
  BY <1>0, <1>4, FedIsHeir DEF Send, gateway, RTypeOK, TypeOK
<1>5. CASE SendCut
  <2>1. TypeOK'
    <3>1. Next
      BY <1>5 DEF SendCut, Next
    <3> QED BY <1>0, <3>1, TypeOKStep
  <2>2. IsHeir(heir')
    BY <1>0, <1>5, PartOfList, FedIsHeir
  <2> QED BY <2>1, <2>2 DEF RTypeOK
<1>6. CASE NoParent
  <2>1. ListOK(NoList)
    BY DEF ListOK, NoList
  <2> QED BY <1>0, <1>6, <2>1, FedIsHeir DEF NoParent, gateway, RTypeOK, TypeOK
<1>7. CASE Load
  <2>1. ListOK(heir.list)
    BY <1>0, <1>7, HeirFields DEF Load, HasRead
  <2>2. IsHeir(heir')
    BY <1>7, <2>1, NextOfType, LoadingIsHeir DEF Load
  <2> QED BY <1>0, <1>7, <2>2, NoRulesType DEF Load, RTypeOK, TypeOK
<1>8. CASE Restore
  <2>1. /\ ListOK(heir.list) /\ heir.next \in DOMAIN heir.list
        /\ heir = Loading(heir.list, heir.next)
    BY <1>0, <1>8, HeirFields DEF Restore, HasRead
  <2>2. heir' = Loading(heir.list, NextOf(heir.list, heir.next))
    BY <1>8, <2>1 DEF Restore, Loading
  <2>3. IsHeir(heir')
    BY <2>1, <2>2, NextOfType, LoadingIsHeir
  <2>4. fw' \in Firewall
    BY <1>0, <1>8, <2>1, RestoredFacts DEF Restore
  <2> QED BY <1>0, <1>8, <2>3, <2>4 DEF Restore, RTypeOK, TypeOK
<1>9. CASE Inherit
  <2>1. ListOK(heir.list)
    BY <1>0, <1>9, HeirFields DEF Inherit, HasRead
  <2>2. LastOf(heir.list) \in Node \cup {NoNode}
    BY <2>1, LastOfFacts
  <2> QED BY <1>0, <1>9, <2>1, <2>2 DEF Inherit, RTypeOK, TypeOK, ListOK
<1>10. CASE UNCHANGED rvars
  BY <1>10 DEF rvars, RTypeOK, TypeOK
<1> QED BY <1>1, <1>2, <1>3, <1>4, <1>5, <1>6, <1>7, <1>8, <1>9, <1>10 DEF RNext

\* The loop of fw_init() works with nodes of the list the heir has read, and the
\* next gateway starts with a list of clients.
THEOREM RestartTypes == RSpec => []RTypeOK
<1>1. RInit => RTypeOK
  BY TypeOKInit DEF RInit, RTypeOK, IsHeir
<1>2. RTypeOK /\ [RNext]_rvars => RTypeOK'
  BY RTypeOKStep
<1> QED BY <1>1, <1>2, PTL DEF RSpec

-------------------------------------------------------------------------------
(***************************************************************************)
(* Rules.                                                                  *)
(***************************************************************************)
\* As long as grep's status is what execute() returns: the chains of the restored
\* rules are built by the same fw_allow(), from empty ones; two inherited clients
\* of an address share its rule, and the gateway that takes over starts from
\* chains it could have made itself.
THEOREM RestoredRulesAreUnique ==
    ASSUME StatusLost = FALSE
    PROVE  RSpec => []RulesStayUnique
<1> DEFINE I == \A i \in Ip : UniqueAt(fw, i)
<1>0. RulesStayUnique <=> I
  BY DEF RulesStayUnique, RulesAreUnique, UniqueAt
<1>1. RInit => I
  BY NoRulesUnique DEF RInit, Init
<1>2. RTypeOK /\ I /\ [RNext]_rvars => I'
  <2> SUFFICES ASSUME RTypeOK, I, [RNext]_rvars
               PROVE  \A i \in Ip : UniqueAt(fw', i)
    OBVIOUS
  <2>0. TypeOK /\ IsHeir(heir) /\ fw \in Firewall
    BY DEF RTypeOK, TypeOK
  <2>1. CASE Serve \/ SendCut
    <3>1. Next
      BY <2>1 DEF Serve, SendCut, Next
    <3> QED BY <2>0, <3>1, RulesStep
  <2>2. CASE fw' \in {fw, NoRules}
    BY <2>2, NoRulesUnique
  <2>3. CASE Restore
    <3>1. ListOK(heir.list) /\ heir.next \in DOMAIN heir.list
      BY <2>0, <2>3, HeirFields DEF Restore, HasRead
    <3> DEFINE c == heir.list[heir.next]
    <3>2. /\ c.ip \in Ip /\ c.state \in Mark
          /\ \E found \in GrepStatus(fw, c.ip) :
                 fw' = Allow(fw, heir.list, c.ip, c.state, found)
      BY <2>0, <2>3, <3>1, RestoredFacts DEF Restore
    <3>3. fw' = Allow(fw, heir.list, c.ip, c.state, HasRule(fw, c.ip))
      BY <3>2 DEF GrepStatus
    <3> HIDE DEF c
    <3> QED BY <2>0, <3>2, <3>3, AllowUnique
  <2> QED BY <2>1, <2>2, <2>3
          DEF RNext, Fork, HeirDies, Send, NoParent, Load, Inherit, gateway, rvars
<1> QED BY <1>0, <1>1, <1>2, RestartTypes, PTL DEF RSpec

-------------------------------------------------------------------------------
(***************************************************************************)
(* Sessions.                                                               *)
(***************************************************************************)
\* What holds of the heir's list: no device is in it twice, and while the heir
\* works through it there is no gateway.
HeirUnique == HasRead => Unique(heir.list)
HeirAlone == heir.pc = "init" => ~up

SessionInv == Unique(list) /\ Fresh /\ Down /\ HeirUnique /\ HeirAlone

\* The list the heir reads is one the gateway had, or the first part of it; the
\* heir links it in as it is.
LEMMA SessionInvStep ==
    ASSUME RTypeOK, SessionInv, [RNext]_rvars
    PROVE  SessionInv'
<1>0. TypeOK /\ IsHeir(heir) /\ ListOK(list)
  BY DEF RTypeOK, TypeOK, ListOK
<1>1. CASE Serve \/ SendCut
  <2>1. Next
    BY <1>1 DEF Serve, SendCut, Next
  <2>2. Unique(list') /\ Fresh' /\ Down'
    BY <1>0, <2>1, UniqueStep, FreshStep, DownStep DEF SessionInv
  <2>3. CASE Serve
    <3>1. heir' = heir
      BY <2>3 DEF Serve
    <3>2. heir.pc # "init"
      BY <2>3 DEF Serve, SessionInv, HeirAlone, NoHeir
    <3> QED BY <2>2, <3>1, <3>2 DEF SessionInv, HeirUnique, HeirAlone, HasRead
  <2>4. CASE SendCut
    <3>1. PICK l : /\ heir' = Fed(l)
                   /\ DOMAIN l \subseteq DOMAIN list
                   /\ \A n \in DOMAIN l : l[n] = list[n]
      BY <1>0, <2>4, PartOfList
    <3>2. heir'.list = l /\ heir'.pc = "fed"
      BY <3>1 DEF Fed
    <3>3. Unique(l)
      BY <3>1 DEF SessionInv, Unique
    <3> QED BY <2>2, <3>2, <3>3 DEF SessionInv, HeirUnique, HeirAlone
  <2> QED BY <1>1, <2>3, <2>4
<1>2. CASE Fork \/ HeirDies
  BY <1>2 DEF Fork, HeirDies, gateway, NoHeir, Forked, SessionInv, HeirUnique,
              HeirAlone, HasRead, Fresh, Down
<1>3. CASE Send
  BY <1>3 DEF Send, gateway, Fed, SessionInv, HeirUnique, HeirAlone, Fresh, Down
<1>4. CASE NoParent
  <2>1. Unique(NoList)
    BY DEF NoList, Unique
  <2> QED BY <1>4, <2>1
          DEF NoParent, gateway, Fed, SessionInv, HeirUnique, HeirAlone, Fresh, Down
<1>5. CASE Load
  BY <1>5 DEF Load, Loading, SessionInv, HeirUnique, HeirAlone, HasRead, Fresh, Down
<1>6. CASE Restore
  <2>1. heir'.list = heir.list /\ heir'.pc = "init" /\ heir.pc = "init"
    BY <1>0, <1>6, HeirFields DEF Restore, Loading
  <2> QED BY <1>6, <2>1
          DEF Restore, SessionInv, HeirUnique, HeirAlone, HasRead, Fresh, Down
<1>7. CASE Inherit
  <2>1. ListOK(heir.list) /\ Unique(heir.list)
    BY <1>0, <1>7, HeirFields DEF Inherit, HasRead, SessionInv, HeirUnique
  <2>2. \A n \in DOMAIN list' : n <= last'
    BY <1>7, <2>1, LastOfFacts DEF Inherit
  <2> QED BY <1>7, <2>1, <2>2
          DEF Inherit, NoHeir, SessionInv, HeirUnique, HeirAlone, HasRead, Fresh, Down
<1>8. CASE UNCHANGED rvars
  BY <1>8 DEF rvars, SessionInv, HeirUnique, HeirAlone, HasRead, Fresh, Down
<1> QED BY <1>1, <1>2, <1>3, <1>4, <1>5, <1>6, <1>7, <1>8 DEF RNext

\* So it stays,
LEMMA SessionInvHolds == RSpec => []SessionInv
<1>1. RInit => SessionInv
  BY DEF RInit, Init, NoList, NoHeir, SessionInv, HeirUnique, HeirAlone, HasRead,
         Unique, Fresh, Down
<1>2. RTypeOK /\ SessionInv /\ [RNext]_rvars => SessionInv'
  BY SessionInvStep
<1> QED BY <1>1, <1>2, RestartTypes, PTL DEF RSpec

\* and no restart gives a device a second session.
THEOREM OneSessionOverRestarts == RSpec => []OneSessionPerDevice
<1>1. SessionInv => OneSessionPerDevice
  BY DEF SessionInv, Unique, OneSessionPerDevice
<1> QED BY <1>1, SessionInvHolds, PTL

-------------------------------------------------------------------------------
(***************************************************************************)
(* The hand-over.                                                          *)
(***************************************************************************)
\* The refinement mapping: the addresses that are let through, and the sessions
\* the heir keeps.
Wide(f) == {i \in Ip : LetThrough(f, i)}
Nobodys == [d \in Ip \X Mac |-> Absent]
Kept == IF HasRead THEN Sessions(heir.list) ELSE Nobodys

\* It is the one of GatewayRestart, before and after a step.
LEMMA PromisedMapping ==
    /\ [d \in Ip \X Mac |-> SessionIn(list, d)] = Sessions(list)
    /\ [d \in Ip \X Mac |-> SessionIn(list, d)]' = Sessions(list')
    /\ {i \in Ip : LetThrough(fw, i)} = Wide(fw)
    /\ {i \in Ip : LetThrough(fw, i)}' = Wide(fw')
    /\ [d \in Ip \X Mac |-> IF heir.pc \in {"fed", "init"}
                            THEN SessionIn(heir.list, d) ELSE Absent] = Kept
    /\ [d \in Ip \X Mac |-> IF heir.pc \in {"fed", "init"}
                            THEN SessionIn(heir.list, d) ELSE Absent]' = Kept'
BY DEF Sessions, Wide, Kept, HasRead, Nobodys

\* An empty list is nobody's.
LEMMA EmptyIsNobodys ==
    ASSUME NEW l, DOMAIN l = {}
    PROVE  Sessions(l) = Nobodys
<1>1. ListOK(l)
  BY DEF ListOK
<1> QED BY <1>1, SessionFacts DEF Sessions, Nobodys

\* Whatever execute() reports, it is taken for found or for not found.
LEMMA GrepStatusType ==
    \A f, i : GrepStatus(f, i) \subseteq BOOLEAN
BY DEF GrepStatus, HasRule

\* fw_allow() lets its address through, or finds a rule and leaves it as it is;
\* with the state of a new client it lets nobody through.
LEMMA AllowWide ==
    ASSUME NEW f \in Firewall, NEW l, NEW i \in Ip, NEW m \in Mark, NEW found \in BOOLEAN
    PROVE  LET g == Allow(f, l, i, m, found)
           IN  /\ Wide(g) \in {Wide(f), Wide(f) \cup {i}}
               /\ m = None => Wide(g) = Wide(f)
<1> DEFINE g == Allow(f, l, i, m, found)
<1>1. CASE found
  BY <1>1 DEF Allow
<1>2. CASE ~found
  <2>1. /\ \A j \in Ip \ {i} : g.out[j] = f.out[j]
        /\ \A k \in Mark \ {m} : g.out[i][k] = f.out[i][k]
        /\ g.out[i][m] = f.out[i][m] + 1 /\ f.out[i][m] \in Nat
    BY <1>2 DEF Allow, Firewall
  <2> HIDE DEF g
  <2>2. \A j \in Ip \ {i} : LetThrough(g, j) <=> LetThrough(f, j)
    BY <2>1 DEF LetThrough
  <2>3. m = None => (LetThrough(g, i) <=> LetThrough(f, i))
    BY <2>1 DEF LetThrough, Mark, None, Probation, Known
  <2>4. m # None => LetThrough(g, i)
    <3>1. g.out[i][m] > 0
      BY <2>1
    <3> QED BY <3>1 DEF LetThrough, Mark
  <2>5. CASE m = None
    <3>1. Wide(g) = Wide(f)
      BY <2>2, <2>3, <2>5 DEF Wide
    <3> QED BY <3>1 DEF g
  <2>6. CASE m # None
    <3>1. Wide(g) = Wide(f) \cup {i}
      BY <2>2, <2>4, <2>6 DEF Wide
    <3> QED BY <2>6, <3>1 DEF g
  <2> QED BY <2>5, <2>6
<1> QED BY <1>1, <1>2

\* fw_deny() shuts out nobody else, and nobody is let through by it;
LEMMA DenyWide ==
    ASSUME NEW f \in Firewall, NEW i \in Ip, NEW m \in Mark
    PROVE  Wide(Deny(f, i, m)) \in {Wide(f), Wide(f) \ {i}}
<1> DEFINE g == Deny(f, i, m)
<1>1. \A j \in Ip : \A n \in Mark : f.out[j][n] \in Nat
  BY DEF Firewall
<1>2. \A j \in Ip : \A n \in Mark :
         \/ g.out[j][n] = f.out[j][n]
         \/ j = i /\ g.out[j][n] = MinusOne(f.out[j][n])
  BY DEF Deny, Firewall
<1>3. \A k \in Nat : MinusOne(k) > 0 => k > 0
  BY DEF MinusOne
<1>4. {Probation, Known} \subseteq Mark
  BY DEF Mark
<1> HIDE DEF g
<1>5. \A j \in Ip : LetThrough(g, j) => LetThrough(f, j)
  BY <1>1, <1>2, <1>3, <1>4 DEF LetThrough
<1>6. \A j \in Ip \ {i} : LetThrough(g, j) <=> LetThrough(f, j)
  BY <1>2, <1>4 DEF LetThrough
<1>7. CASE LetThrough(g, i)
  <2>1. Wide(g) = Wide(f)
    BY <1>5, <1>6, <1>7 DEF Wide
  <2> QED BY <2>1 DEF g
<1>8. CASE ~LetThrough(g, i)
  <2>1. Wide(g) = Wide(f) \ {i}
    BY <1>6, <1>8 DEF Wide
  <2> QED BY <2>1 DEF g
<1> QED BY <1>7, <1>8

\* neither by sweeping, nor by empty chains.
LEMMA SweepWide ==
    /\ \A f \in Firewall, i \in Ip : Wide(DestroyMention(f, i)) \subseteq Wide(f)
    /\ Wide(NoRules) = {}
<1>1. ASSUME NEW f \in Firewall, NEW i \in Ip, NEW j \in Ip,
             LetThrough(DestroyMention(f, i), j)
      PROVE  LetThrough(f, j)
  BY <1>1 DEF DestroyMention, LetThrough, Firewall, Mark
<1>2. \A j \in Ip : ~LetThrough(NoRules, j)
  BY DEF NoRules, LetThrough, Mark
<1> QED BY <1>1, <1>2 DEF Wide

\* The addresses of the granted clients of a list.
GrantedOf(l) == {d \in Ip \X Mac : Sessions(l)[d] \in {Probation, Known}}
Openable(l) == {d[1] : d \in GrantedOf(l)}

\* The loop of fw_init() opens the address of a granted client, or none.
LEMMA RestoreOpens ==
    ASSUME RTypeOK, SessionInv, Restore
    PROVE  \/ Wide(fw') = Wide(fw)
           \/ \E d \in GrantedOf(heir.list) : Wide(fw') = Wide(fw) \cup {d[1]}
<1> DEFINE l == heir.list
           c == l[heir.next]
           d == <<c.ip, c.mac>>
<1>0. ListOK(l) /\ heir.next \in DOMAIN l /\ Unique(l) /\ fw \in Firewall
  BY HeirFields DEF Restore, RTypeOK, TypeOK, HasRead, SessionInv, HeirUnique
<1>1. /\ c.ip \in Ip /\ c.mac \in Mac /\ c.state \in Mark
      /\ \E found \in GrepStatus(fw, c.ip) :
             fw' = Allow(fw, l, c.ip, c.state, found)
  BY <1>0, RestoredFacts DEF Restore
<1>2. PICK found \in BOOLEAN : fw' = Allow(fw, l, c.ip, c.state, found)
  BY <1>1, GrepStatusType
<1>3. d \in Ip \X Mac /\ Sessions(l)[d] = c.state
  <2>1. IsOf(l, heir.next, d)
    BY DEF IsOf
  <2>2. d \in Ip \X Mac
    BY <1>1
  <2> QED BY <1>0, <2>1, <2>2, SessionFacts DEF Sessions
<1>4. d[1] = c.ip
  OBVIOUS
<1> HIDE DEF c, d, l
<1>5. /\ Wide(fw') \in {Wide(fw), Wide(fw) \cup {d[1]}}
      /\ c.state = None => Wide(fw') = Wide(fw)
  BY <1>0, <1>1, <1>2, <1>4, AllowWide
<1>6. c.state # None => d \in GrantedOf(l)
  BY <1>1, <1>3 DEF GrantedOf, Mark
<1> QED BY <1>5, <1>6 DEF l

\* What has been restored so far is open for clients that were granted.
RestoredIsGranted == heir.pc = "init" => Wide(fw) \subseteq Openable(heir.list)

\* While the heir restores rules nobody else touches them.
LEMMA RestoredIsGrantedHolds == RSpec => []RestoredIsGranted
<1>1. RInit => RestoredIsGranted
  BY DEF RInit, NoHeir, RestoredIsGranted
<1>2. RTypeOK /\ SessionInv /\ RestoredIsGranted /\ [RNext]_rvars
      => RestoredIsGranted'
  <2> SUFFICES ASSUME RTypeOK, SessionInv, RestoredIsGranted, [RNext]_rvars,
                      heir'.pc = "init"
               PROVE  Wide(fw') \subseteq Openable(heir'.list)
    BY DEF RestoredIsGranted
  <2>1. CASE Load
    BY <2>1, SweepWide DEF Load
  <2>2. CASE Restore
    <3>1. heir.pc = "init" /\ heir'.list = heir.list
      BY <2>2, HeirFields DEF Restore, RTypeOK, Loading
    <3>2. Wide(fw') \subseteq Wide(fw) \cup Openable(heir.list)
      BY <2>2, RestoreOpens DEF Openable
    <3> QED BY <3>1, <3>2 DEF RestoredIsGranted
  <2>3. CASE UNCHANGED rvars
    BY <2>3 DEF rvars, RestoredIsGranted
  <2>4. CASE Serve
    BY <2>4 DEF Serve, SessionInv, HeirAlone, NoHeir
  <2>5. CASE SendCut
    BY <2>5 DEF SendCut, Fed
  <2> QED BY <2>1, <2>2, <2>3, <2>4, <2>5
          DEF RNext, Fork, HeirDies, Send, NoParent, Inherit, NoHeir, Forked, Fed
<1> QED BY <1>1, <1>2, RestartTypes, SessionInvHolds, PTL DEF RSpec

\* Before the first start nothing is open and nothing is kept.
LEMMA RInitImplements == RInit => Promised!HInit
<1> SUFFICES ASSUME RInit PROVE Promised!HInit
  OBVIOUS
<1>1. Sessions(list) = Nobodys
  BY EmptyIsNobodys DEF RInit, Init, NoList
<1>2. Wide(fw) = {}
  BY SweepWide DEF RInit, Init
<1>3. Kept = Nobodys
  BY DEF RInit, Kept, HasRead, NoHeir
<1> QED BY <1>1, <1>2, <1>3, PromisedMapping
        DEF Promised!HInit, Promised!Init, Promised!Nobody, Promised!Device, Nobodys

\* A step of the gateway is a step of Admission for the addresses that are let
\* through; fw_allow() may find a rule that lets nobody through and leave it.
LEMMA GatewayGoesOn ==
    ASSUME RTypeOK, RTypeOK', SessionInv, SessionInv', Next, Kept' = Kept
    PROVE  [Promised!HNext]_Promised!hvars
<1> DEFINE Goal == [Promised!HNext]_Promised!hvars
<1> SUFFICES Goal
  OBVIOUS
<1>0. /\ TypeOK /\ TypeOK' /\ fw \in Firewall
      /\ Unique(list) /\ Unique(list') /\ Fresh /\ Down
  BY DEF RTypeOK, TypeOK, SessionInv
<1>p. \A d \in Ip \X Mac : Promised!Present(d) <=> Sessions(list)[d] # Absent
  BY PromisedMapping DEF Promised!Present
<1>g. ASSUME \/ Promised!Next
             \/ \E d \in Ip \X Mac, s \in {Probation, Known} : Promised!GrantOnly(d, s)
      PROVE  Goal
  <2>1. Promised!Go
    BY <1>g, PromisedMapping DEF Promised!Go, Promised!Device
  <2> QED BY <2>1 DEF Promised!HNext
<1>1. ASSUME NoMove PROVE Goal
  BY <1>1, PromisedMapping DEF NoMove, Promised!hvars
<1>2. ASSUME NEW d \in Ip \X Mac, Arrive(d) PROVE Goal
  <2>1. Promised!Open(d)
    BY <1>2, <1>p, PromisedMapping DEF Arrive, Promised!Open
  <2>2. Promised!Next
    BY <2>1 DEF Promised!Next, Promised!Device
  <2> QED BY <1>g, <2>2
<1>3. ASSUME NEW d \in Ip \X Mac, NEW s \in {Probation, Known}, Admit(d, s)
      PROVE  Goal
  <2>1. Wide(fw') \in {Wide(fw), Wide(fw) \cup {d[1]}}
    <3>1. PICK found \in BOOLEAN : fw' = Allow(fw, list', d[1], s, found)
      BY <1>3, GrepStatusType DEF Admit
    <3> QED BY <1>0, <3>1, AllowWide DEF Mark
  <2>2. Promised!GrantOnly(d, s)
    BY <1>3, <1>p, <2>1, PromisedMapping DEF Admit, Promised!GrantOnly
  <2> QED BY <1>g, <2>2
<1>4. ASSUME NEW d \in Ip \X Mac, NEW m \in Mark, TurnAway(d, m) PROVE Goal
  <2>1. Wide(fw') \in {Wide(fw), Wide(fw) \ {d[1]}}
    BY <1>0, <1>4, DenyWide DEF TurnAway
  <2>2. Promised!Refuse(d) \/ Promised!Close(d)
    BY <1>4, <1>p, <2>1, PromisedMapping DEF TurnAway, Promised!Refuse, Promised!Close
  <2>3. Promised!Next
    BY <2>2 DEF Promised!Next, Promised!Device
  <2> QED BY <1>g, <2>3
<1>5. ASSUME NEW i \in Ip, CleanUp(i) PROVE Goal
  <2>1. Wide(fw') \subseteq Wide(fw)
    BY <1>0, <1>5, SweepWide DEF CleanUp
  <2>2. \A m \in Mac : ~Promised!Present(<<i, m>>)
    BY <1>5, <1>p DEF CleanUp
  <2>3. Promised!Sweep
    BY <1>5, <2>1, <2>2, PromisedMapping DEF CleanUp, Promised!Sweep
  <2>4. Promised!Next
    BY <2>3 DEF Promised!Next
  <2> QED BY <1>g, <2>4
<1>6. ASSUME Halt PROVE Goal
  <2>1. Wide(fw') \in {Wide(fw), {}}
    BY <1>6, SweepWide DEF Halt
  <2>2. Promised!Stop
    BY <1>6, <2>1, PromisedMapping DEF Halt, Promised!Stop, Promised!Device
  <2>3. Promised!Next
    BY <2>2 DEF Promised!Next
  <2> QED BY <1>g, <2>3
<1> HIDE DEF Goal
<1> QED BY <1>0, <1>1, <1>2, <1>3, <1>4, <1>5, <1>6, SessionSteps
        DEF vars

\* A part of a list is a part of its sessions.
LEMMA PartOfSessions ==
    ASSUME NEW l, NEW k, ListOK(l), ListOK(k), Unique(k),
           DOMAIN l \subseteq DOMAIN k, \A n \in DOMAIN l : l[n] = k[n],
           NEW d \in Ip \X Mac
    PROVE  Sessions(l)[d] \in {Sessions(k)[d], Absent}
<1>1. Unique(l)
  BY DEF Unique
<1>2. CASE \A n \in DOMAIN l : ~IsOf(l, n, d)
  BY <1>2, SessionFacts DEF Sessions
<1>3. CASE \E n \in DOMAIN l : IsOf(l, n, d)
  <2>1. PICK n \in DOMAIN l : IsOf(l, n, d)
    BY <1>3
  <2>2. n \in DOMAIN k /\ IsOf(k, n, d) /\ l[n].state = k[n].state
    BY <2>1 DEF IsOf
  <2>3. SessionIn(l, d) = l[n].state /\ SessionIn(k, d) = k[n].state
    BY <1>1, <2>1, <2>2, SessionFacts
  <2> QED BY <2>2, <2>3 DEF Sessions
<1> QED BY <1>2, <1>3

\* Every step of a restart is one of the hand-over, or none.
LEMMA RStepImplements ==
    ASSUME RTypeOK, RTypeOK', SessionInv, SessionInv', RestoredIsGranted,
           [RNext]_rvars
    PROVE  [Promised!HNext]_Promised!hvars
<1> DEFINE Goal == [Promised!HNext]_Promised!hvars
<1> SUFFICES Goal
  OBVIOUS
<1>0. /\ ListOK(list) /\ Unique(list) /\ IsHeir(heir)
      /\ HasRead => ListOK(heir.list)
      /\ HasRead' => ListOK(heir'.list)
  BY HeirFields DEF RTypeOK, TypeOK, ListOK, IsHeir, HasRead, SessionInv, NoHeir, Forked
<1>n. Promised!Nobody = Nobodys
  BY DEF Promised!Nobody, Promised!Device, Nobodys
<1>d. ~up => Sessions(list) = Nobodys
  BY EmptyIsNobodys DEF SessionInv, Down
<1>u. ASSUME Sessions(list') = Sessions(list), Wide(fw') = Wide(fw), Kept' = Kept
      PROVE  Goal
  BY <1>u, PromisedMapping DEF Promised!hvars
<1>1. CASE Serve
  <2>1. Next /\ Kept' = Kept
    BY <1>1 DEF Serve, Kept, HasRead
  <2> QED BY <2>1, GatewayGoesOn
<1>2. CASE Fork
  <2>1. Kept' = Kept
    BY <1>2 DEF Fork, Kept, HasRead, NoHeir, Forked
  <2> QED BY <1>2, <1>u, <2>1 DEF Fork, gateway
<1>3. CASE HeirDies
  <2>1. Kept' = Nobodys
    BY <1>3 DEF HeirDies, Kept, HasRead, NoHeir
  <2>2. Wide(fw') \in {Wide(fw), {}}
    BY <1>3, SweepWide DEF HeirDies
  <2>3. Sessions(list') = Sessions(list)
    BY <1>3 DEF HeirDies
  <2>4. Promised!Lose
    BY <1>n, <2>1, <2>2, <2>3, PromisedMapping DEF Promised!Lose
  <2> QED BY <2>4 DEF Promised!HNext
<1>4. CASE Send
  <2>1. Kept = Nobodys
    BY <1>4 DEF Send, Kept, HasRead, Forked
  <2>2. Kept' = Sessions(list)
    BY <1>4 DEF Send, Kept, HasRead, Fed
  <2>3. Sessions(list') = Sessions(list) /\ Wide(fw') = Wide(fw)
    BY <1>4 DEF Send, gateway
  <2>4. Promised!Keep
    BY <1>n, <2>1, <2>2, <2>3, PromisedMapping DEF Promised!Keep
  <2> QED BY <2>4 DEF Promised!HNext
<1>5. CASE SendCut
  <2>1. Kept = Nobodys
    BY <1>5 DEF SendCut, Kept, HasRead, Forked
  <2>2. PICK l : /\ heir' = Fed(l) /\ ListOK(l)
                 /\ DOMAIN l \subseteq DOMAIN list
                 /\ \A n \in DOMAIN l : l[n] = list[n]
    BY <1>0, <1>5, PartOfList
  <2>3. Kept' = Sessions(l)
    BY <2>2 DEF Kept, HasRead, Fed
  <2>4. \A d \in Ip \X Mac : Sessions(l)[d] \in {Sessions(list)[d], Absent}
    BY <1>0, <2>2, PartOfSessions
  <2>5. Sessions(list') = Nobodys
    BY <1>5, EmptyIsNobodys DEF SendCut, Terminate, Crash, Exit, NoList
  <2>6. Wide(fw') \in {Wide(fw), {}}
    BY <1>5, SweepWide DEF SendCut, Terminate, Crash
  <2>7. Promised!Stop
    BY <2>5, <2>6, PromisedMapping DEF Promised!Stop, Promised!Device, Nobodys
  <2>8. Promised!StopKeeping
    BY <1>n, <2>1, <2>3, <2>4, <2>7, PromisedMapping
       DEF Promised!StopKeeping, Promised!PartOf, Promised!Device
  <2> QED BY <2>8 DEF Promised!HNext
<1>6. CASE NoParent
  <2>1. Kept = Nobodys
    BY <1>6 DEF NoParent, Kept, HasRead, Forked
  <2>2. Kept' = Sessions(NoList)
    BY <1>6 DEF NoParent, Kept, HasRead, Fed
  <2>3. Sessions(NoList) = Nobodys
    BY EmptyIsNobodys DEF NoList
  <2> QED BY <1>6, <1>u, <2>1, <2>2, <2>3 DEF NoParent, gateway
<1>7. CASE Load
  <2>1. Kept' = Kept
    BY <1>7 DEF Load, Loading, Kept, HasRead
  <2>2. Sessions(list') = Nobodys
    BY <1>7, <1>d DEF Load
  <2>3. Wide(fw') = {}
    BY <1>7, SweepWide DEF Load
  <2>4. Promised!Stop
    BY <2>2, <2>3, PromisedMapping DEF Promised!Stop, Promised!Device, Nobodys
  <2>5. Promised!Go
    BY <2>1, <2>4, PromisedMapping DEF Promised!Go, Promised!Next
  <2> QED BY <2>5 DEF Promised!HNext
<1>8. CASE Restore
  <2>1. Kept = Sessions(heir.list) /\ Kept' = Kept
    <3>1. heir.pc = "init" /\ heir'.pc = "init" /\ heir'.list = heir.list
      BY <1>0, <1>8, HeirFields DEF Restore, Loading
    <3> QED BY <3>1 DEF Kept, HasRead
  <2>2. Sessions(list) = Nobodys /\ Sessions(list') = Nobodys
    BY <1>8, <1>d DEF Restore, SessionInv, HeirAlone
  <2>3. CASE Wide(fw') = Wide(fw)
    BY <1>u, <2>1, <2>2, <2>3
  <2>4. CASE \E d \in GrantedOf(heir.list) : Wide(fw') = Wide(fw) \cup {d[1]}
    <3>1. PICK d \in GrantedOf(heir.list) : Wide(fw') = Wide(fw) \cup {d[1]}
      BY <2>4
    <3>2. d \in Promised!Device /\ d \in Promised!GrantedIn(Kept)
      BY <2>1 DEF GrantedOf, Promised!GrantedIn, Promised!Device
    <3>3. Promised!Reopen(d)
      BY <1>n, <2>1, <2>2, <3>1, <3>2, PromisedMapping DEF Promised!Reopen
    <3> QED BY <3>2, <3>3 DEF Promised!HNext
  <2> QED BY <1>8, <2>3, <2>4, RestoreOpens
<1>9. CASE Inherit
  <2>1. Kept = Sessions(heir.list) /\ Sessions(list') = Kept
    BY <1>9 DEF Inherit, Kept, HasRead
  <2>2. Kept' = Nobodys
    BY <1>9 DEF Inherit, Kept, HasRead, NoHeir
  <2>3. Sessions(list) = Nobodys
    BY <1>9, <1>d DEF Inherit, SessionInv, HeirAlone
  <2>4. Wide(fw') = Wide(fw) /\ Wide(fw) \subseteq Openable(heir.list)
    BY <1>9 DEF Inherit, RestoredIsGranted
  <2>5. Wide(fw) \subseteq {d[1] : d \in Promised!GrantedIn(Kept)}
    BY <2>1, <2>4 DEF Openable, GrantedOf, Promised!GrantedIn, Promised!Device
  <2>6. Promised!Resume
    BY <1>n, <2>1, <2>2, <2>3, <2>4, <2>5, PromisedMapping DEF Promised!Resume
  <2> QED BY <2>6 DEF Promised!HNext
<1>10. CASE UNCHANGED rvars
  BY <1>10, <1>u DEF rvars, Kept, HasRead
<1> HIDE DEF Goal
<1> QED BY <1>1, <1>2, <1>3, <1>4, <1>5, <1>6, <1>7, <1>8, <1>9, <1>10 DEF RNext

\* A restart keeps the promise of Handover: wherever either process ends, the
\* sessions that come back are those of one moment, in the states they had, and
\* the rules that are restored let through only clients that were granted.
THEOREM RestartKeepsHandover == RSpec => KeepsHandover
<1>1. RInit => Promised!HInit
  BY RInitImplements
<1>2. /\ RTypeOK /\ RTypeOK' /\ SessionInv /\ SessionInv' /\ RestoredIsGranted
      /\ [RNext]_rvars
      => [Promised!HNext]_Promised!hvars
  BY RStepImplements
<1> QED BY <1>1, <1>2, RestartTypes, SessionInvHolds, RestoredIsGrantedHolds, PTL
        DEF RSpec, KeepsHandover, Promised!HSpec
===============================================================================
