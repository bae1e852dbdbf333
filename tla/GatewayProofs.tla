----------------------------- MODULE GatewayProofs -----------------------------
(***************************************************************************)
(* Proofs about Gateway for any number of devices, tokens, workers and     *)
(* nodes.                                                                  *)
(***************************************************************************)
EXTENDS Gateway, LeastProofs

ListOK(l) == DOMAIN l \subseteq Node /\ \A n \in DOMAIN l : l[n] \in Client

\* Two lists with the same nodes for the same devices.
SameDevices(l, k) ==
    /\ DOMAIN k = DOMAIN l
    /\ \A n \in DOMAIN l : k[n].ip = l[n].ip /\ k[n].mac = l[n].mac

\* Two lists whose nodes have the same state.
SameStates(l, k) == \A n \in DOMAIN l : k[n].state = l[n].state

-------------------------------------------------------------------------------
(***************************************************************************)
(* What the searches of the client list return, for lists of any length.   *)
(***************************************************************************)
\* The first node of a set of nodes is one of them, none comes before it, and
\* NoNode is returned for the empty set only.
LEMMA FirstOfFacts ==
    ASSUME NEW S \in SUBSET (Nat \ {NoNode})
    PROVE  /\ FirstOf(S) \in S \cup {NoNode}
           /\ FirstOf(S) = NoNode <=> S = {}
           /\ \A m \in S : FirstOf(S) <= m
<1>1. CASE S = {}
  BY <1>1 DEF FirstOf
<1>2. CASE S # {}
  <2>1. \E n \in S : \A m \in S : n <= m
    BY <1>2, LeastExists
  <2>2. FirstOf(S) \in S /\ \A m \in S : FirstOf(S) <= m
    BY <1>2, <2>1 DEF FirstOf
  <2> QED BY <1>2, <2>2
<1> QED BY <1>1, <1>2

\* client_list_find() returns a node with both addresses, and NULL only if
\* there is none.
LEMMA FindFacts ==
    ASSUME NEW l, DOMAIN l \subseteq Nat \ {NoNode}, NEW i, NEW m
    PROVE  /\ Find(l, i, m) # NoNode =>
                /\ Find(l, i, m) \in DOMAIN l
                /\ l[Find(l, i, m)].ip = i
                /\ l[Find(l, i, m)].mac = m
           /\ Find(l, i, m) = NoNode =>
                \A n \in DOMAIN l : ~(l[n].ip = i /\ l[n].mac = m)
<1> DEFINE S == {n \in DOMAIN l : l[n].ip = i /\ l[n].mac = m}
<1>1. S \in SUBSET (Nat \ {NoNode})
  OBVIOUS
<1>2. Find(l, i, m) = FirstOf(S)
  BY DEF Find
<1>3. /\ FirstOf(S) \in S \cup {NoNode}
      /\ FirstOf(S) = NoNode <=> S = {}
  <2> HIDE DEF S
  <2> QED BY <1>1, FirstOfFacts
<1> QED BY <1>2, <1>3

\* client_list_find_by_ip() likewise.
LEMMA FindByIpFacts ==
    ASSUME NEW l, DOMAIN l \subseteq Nat \ {NoNode}, NEW i
    PROVE  /\ FindByIp(l, i) # NoNode =>
                FindByIp(l, i) \in DOMAIN l /\ l[FindByIp(l, i)].ip = i
           /\ FindByIp(l, i) = NoNode <=> \A n \in DOMAIN l : l[n].ip # i
           /\ \A n \in DOMAIN l : l[n].ip = i => FindByIp(l, i) <= n
<1> DEFINE S == {n \in DOMAIN l : l[n].ip = i}
<1>1. S \in SUBSET (Nat \ {NoNode})
  OBVIOUS
<1>2. FindByIp(l, i) = FirstOf(S)
  BY DEF FindByIp
<1>3. /\ FirstOf(S) \in S \cup {NoNode}
      /\ FirstOf(S) = NoNode <=> S = {}
      /\ \A n \in S : FirstOf(S) <= n
  <2> HIDE DEF S
  <2> QED BY <1>1, FirstOfFacts
<1> QED BY <1>2, <1>3

\* What the searches for a reset and ->next return is a node or NULL.
LEMMA SearchTypes ==
    ASSUME NEW l, DOMAIN l \subseteq Nat \ {NoNode}, NEW a
    PROVE  /\ FindByMac(l, a) \in DOMAIN l \cup {NoNode}
           /\ FindByToken(l, a) \in DOMAIN l \cup {NoNode}
           /\ NextOf(l, a) \in DOMAIN l \cup {NoNode}
<1> DEFINE M == {n \in DOMAIN l : l[n].mac = a}
           T == {n \in DOMAIN l : l[n].token = a}
           N == {n \in DOMAIN l : n > a}
<1>1. /\ M \in SUBSET (Nat \ {NoNode})
      /\ T \in SUBSET (Nat \ {NoNode})
      /\ N \in SUBSET (Nat \ {NoNode})
  OBVIOUS
<1>2. /\ FindByMac(l, a) = FirstOf(M)
      /\ FindByToken(l, a) = FirstOf(T)
      /\ NextOf(l, a) = FirstOf(N)
  BY DEF FindByMac, FindByToken, NextOf
<1>3. /\ M \subseteq DOMAIN l /\ T \subseteq DOMAIN l /\ N \subseteq DOMAIN l
  OBVIOUS
<1>4. /\ FirstOf(M) \in M \cup {NoNode}
      /\ FirstOf(T) \in T \cup {NoNode}
      /\ FirstOf(N) \in N \cup {NoNode}
  <2> HIDE DEF M, T, N
  <2> QED BY <1>1, FirstOfFacts
<1> QED
  <2> HIDE DEF M, T, N
  <2> QED BY <1>2, <1>3, <1>4

-------------------------------------------------------------------------------
(***************************************************************************)
(* The list.                                                               *)
(***************************************************************************)
\* No node is NULL.
LEMMA NodesArePositive ==
    Node \subseteq Nat \ {NoNode}
BY GatewayAssumption DEF Node, NoNode

\* client_list_append() and client_list_delete() keep a list of clients one.
LEMMA AppendKeepsType ==
    ASSUME NEW l, ListOK(l), NEW n \in Node, NEW c \in Client
    PROVE  ListOK(AppendNode(l, n, c))
BY DEF ListOK, AppendNode

\* Deleting: the same, whether the node is in the list or not.
LEMMA DeleteKeepsType ==
    ASSUME NEW l, ListOK(l), NEW n
    PROVE  ListOK(DeleteNode(l, n))
BY DEF ListOK, DeleteNode

\* The writes to a node: its state, its bandwidth and the time of its last
\* traffic.  None of them moves a node to another device.
LEMMA SetStateFacts ==
    ASSUME NEW l, ListOK(l), NEW n \in DOMAIN l, NEW s \in Mark
    PROVE  ListOK(SetState(l, n, s)) /\ SameDevices(l, SetState(l, n, s))
BY DEF ListOK, SetState, SameDevices, Client

\* The bandwidth: neither a device nor a state.
LEMMA SetRateFacts ==
    ASSUME NEW l, ListOK(l), NEW n \in DOMAIN l, NEW r \in Rate
    PROVE  /\ ListOK([l EXCEPT ![n].rate = r])
           /\ SameDevices(l, [l EXCEPT ![n].rate = r])
           /\ SameStates(l, [l EXCEPT ![n].rate = r])
BY DEF ListOK, SameDevices, SameStates, Client

\* The time of the last traffic: the same.
LEMMA SetExpiredFacts ==
    ASSUME NEW l, ListOK(l), NEW n \in DOMAIN l, NEW b \in BOOLEAN
    PROVE  /\ ListOK([l EXCEPT ![n].expired = b])
           /\ SameDevices(l, [l EXCEPT ![n].expired = b])
           /\ SameStates(l, [l EXCEPT ![n].expired = b])
BY DEF ListOK, SameDevices, SameStates, Client

\* Find and FindByIp on a typed list.
LEMMA FindType ==
    ASSUME NEW l, ListOK(l), NEW i, NEW m
    PROVE  Find(l, i, m) \in DOMAIN l \cup {NoNode}
BY NodesArePositive, FindFacts DEF ListOK

\* What client_list_find() finds is a node of the device.
LEMMA FoundNode ==
    ASSUME NEW l, ListOK(l), NEW i, NEW m, Find(l, i, m) # NoNode
    PROVE  /\ Find(l, i, m) \in DOMAIN l
           /\ l[Find(l, i, m)].ip = i
           /\ l[Find(l, i, m)].mac = m
<1>1. DOMAIN l \subseteq Nat \ {NoNode}
  BY NodesArePositive DEF ListOK
<1> QED BY <1>1, FindFacts

\* What client_list_find_by_ip() returns is a node or NULL.
LEMMA FindByIpType ==
    ASSUME NEW l, ListOK(l), NEW i
    PROVE  FindByIp(l, i) \in DOMAIN l \cup {NoNode}
BY NodesArePositive, FindByIpFacts DEF ListOK

\* A reply of the server that comes whenever it likes leaves the devices and
\* their states alone.
LEMMA RepliedFacts ==
    ASSUME NEW l, ListOK(l), NEW i, NEW a, NEW r \in Rate
    PROVE  /\ ListOK(Replied(l, i, a, r))
           /\ SameDevices(l, Replied(l, i, a, r))
           /\ SameStates(l, Replied(l, i, a, r))
<1>1. CASE a = "ALLOWED" /\ FindByIp(l, i) # NoNode
  <2>1. FindByIp(l, i) \in DOMAIN l
    BY <1>1, FindByIpType
  <2>2. PICK n \in DOMAIN l : Replied(l, i, a, r) = [l EXCEPT ![n].rate = r]
    BY <1>1, <2>1 DEF Replied
  <2>3. /\ ListOK([l EXCEPT ![n].rate = r])
        /\ SameDevices(l, [l EXCEPT ![n].rate = r])
        /\ SameStates(l, [l EXCEPT ![n].rate = r])
    BY SetRateFacts
  <2> QED BY <2>2, <2>3
<1>2. CASE ~(a = "ALLOWED" /\ FindByIp(l, i) # NoNode)
  BY <1>2 DEF Replied, SameDevices, SameStates
<1> QED BY <1>1, <1>2

-------------------------------------------------------------------------------
(***************************************************************************)
(* The rules.                                                              *)
(***************************************************************************)
\* fw_allow(), fw_deny() and the sweeping of an address keep counts of rules
\* natural numbers; iptables -D of a rule that is not there changes nothing.
LEMMA AllowKeepsType ==
    ASSUME NEW f \in Firewall, NEW l, NEW i \in Ip, NEW m \in Mark, NEW found
    PROVE  Allow(f, l, i, m, found) \in Firewall
<1>1. SetBandwidth(f, l, i) \in SUBSET Ip
  BY DEF SetBandwidth, Firewall
<1>2. /\ [f.out EXCEPT ![i][m] = @ + 1] \in [Ip -> [Mark -> Nat]]
      /\ [f.in EXCEPT ![i] = @ + 1] \in [Ip -> Nat]
  BY DEF Firewall
<1> QED BY <1>1, <1>2 DEF Allow, Firewall

\* fw_deny(), with any mark.
LEMMA DenyKeepsType ==
    ASSUME NEW f \in Firewall, NEW i \in Ip, NEW m \in Mark
    PROVE  Deny(f, i, m) \in Firewall
<1>1. \A k \in Nat : MinusOne(k) \in Nat
  BY DEF MinusOne
<1>2. /\ [f.out EXCEPT ![i][m] = MinusOne(@)] \in [Ip -> [Mark -> Nat]]
      /\ [f.in EXCEPT ![i] = MinusOne(@)] \in [Ip -> Nat]
  BY <1>1 DEF Firewall
<1>3. f.shaped \ {i} \in SUBSET Ip
  BY DEF Firewall
<1> QED BY <1>2, <1>3 DEF Deny, Firewall

\* iptables_fw_destroy_mention() of an address.
LEMMA DestroyKeepsType ==
    ASSUME NEW f \in Firewall, NEW i \in Ip
    PROVE  DestroyMention(f, i) \in Firewall
BY DEF DestroyMention, Firewall

\* The chains after iptables_fw_init().
LEMMA NoRulesType ==
    NoRules \in Firewall
BY DEF NoRules, Firewall

-------------------------------------------------------------------------------
(***************************************************************************)
(* The threads.                                                            *)
(***************************************************************************)
\* The local variables a worker has where it is.
LEMMA JobFields ==
    ASSUME NEW j \in Job
    PROVE  /\ j.pc = "auth" => j.ip \in Ip /\ j.by \in Mac
           /\ j.pc \in {"login", "reply"} =>
                /\ j.ip \in Ip /\ j.mac \in Mac /\ j.token \in Token
                /\ j.by \in Mac /\ j.node \in Node
           /\ j.pc = "reply" => j.code \in Answer
BY DEF Job, Idle

\* The local variables of the fw_counter thread.
LEMMA SyncFields ==
    ASSUME NEW y \in Sync
    PROVE  /\ y.pc \in {"out", "in"} => y \in [pc: {"out", "in"}, todo: SUBSET Ip]
           /\ y.pc = "window" =>
                y.ip \in Ip /\ y.mac \in Mac /\ y.next \in Node \cup {NoNode}
           /\ y.pc = "logout" => y.ip \in Ip /\ y.next \in Node \cup {NoNode}
BY DEF Sync, Asleep

\* The top of the walk's loop is typed at any node of the list,
LEMMA VisitOfType ==
    ASSUME NEW l, ListOK(l), NEW p \in DOMAIN l \cup {NoNode}
    PROVE  VisitOf(l, p) \in Sync
<1>1. NextOf(l, p) \in Node \cup {NoNode}
  BY NodesArePositive, SearchTypes DEF ListOK
<1>2. CASE p = NoNode
  BY <1>2 DEF VisitOf, Sync
<1>3. CASE p # NoNode
  <2>1. l[p].ip \in Ip /\ l[p].mac \in Mac
    BY <1>3 DEF ListOK, Client
  <2> QED BY <1>1, <1>3, <2>1 DEF VisitOf, Sync
<1> QED BY <1>2, <1>3

\* and so wherever the walk goes on.
LEMMA GoOnType ==
    ASSUME NEW l, ListOK(l), NEW p, GoOn(l, p)
    PROVE  sync' \in Sync
BY VisitOfType DEF GoOn

-------------------------------------------------------------------------------
(***************************************************************************)
(* Types.                                                                  *)
(***************************************************************************)
\* The types hold before the program starts,
LEMMA TypeOKInit ==
    Init => TypeOK
<1> SUFFICES ASSUME Init PROVE TypeOK
  OBVIOUS
<1>1. DOMAIN list = {}
  BY DEF Init, NoList
<1> QED BY <1>1, NoRulesType
        DEF Init, TypeOK, Job, Sync, Idle, Asleep, NoNode

\* and every step of every thread keeps them.
LEMMA TypeOKStep ==
    ASSUME TypeOK, [Next]_vars
    PROVE  TypeOK'
<1> USE DEF TypeOK
<1>0. ListOK(list)
  BY DEF ListOK
<1>a. \A w \in Worker : \A j \in Job : [work EXCEPT ![w] = j] \in [Worker -> Job]
  OBVIOUS
<1>b. Idle \in Job
  BY DEF Job
<1>1. ASSUME NEW w \in Worker, NEW i \in Ip, NEW m \in Mac, ComeBack(w, i, m)
      PROVE  TypeOK'
  <2>1. [pc |-> "auth", ip |-> i, by |-> m] \in Job
    BY DEF Job
  <2> QED BY <1>1, <1>a, <2>1 DEF ComeBack
<1>2. ASSUME NEW w \in Worker, NEW i \in Ip, NEW m \in Mac, NEW t \in Token,
             NEW logout \in BOOLEAN, Register(w, i, m, t, logout)
      PROVE  TypeOK'
  <2>1. last + 1 \in Node
    BY <1>2, GatewayAssumption DEF Register, Node, NoNode
  <2>2. NewClient(i, m, t) \in Client
    BY GatewayAssumption DEF NewClient, Client, Mark, None
  <2>3. ListOK(list')
    BY <1>0, <1>2, <2>1, <2>2, AppendKeepsType DEF Register
  <2>4. [pc |-> "auth", ip |-> i, by |-> m] \in Job
    BY DEF Job
  <2>5. work' \in [Worker -> Job]
    BY <1>2, <1>a, <1>b, <2>4 DEF Register
  <2> QED BY <1>2, <2>1, <2>3, <2>5 DEF Register, ListOK
<1>3. ASSUME NEW w \in Worker, NEW i \in Ip, NEW m \in Mac, LogOut(w, i, m)
      PROVE  TypeOK'
  <2>1. list[Find(list, i, m)].state \in Mark
    BY <1>0, <1>3, FindType DEF LogOut, Client
  <2>2. fw' \in Firewall
    BY <1>3, <2>1, DenyKeepsType DEF LogOut
  <2>3. ListOK(list')
    BY <1>0, <1>3, DeleteKeepsType DEF LogOut
  <2>4. [pc |-> "logout", ip |-> i] \in Job
    BY DEF Job
  <2>5. work' \in [Worker -> Job]
    BY <1>3, <1>a, <2>4 DEF LogOut
  <2> QED BY <1>3, <2>2, <2>3, <2>5 DEF LogOut, ListOK
<1>4. ASSUME NEW w \in Worker, NEW a \in Answer, NEW r \in Rate,
             LogOutDone(w, a, r)
      PROVE  TypeOK'
  <2>1. ListOK(list')
    BY <1>0, <1>4, RepliedFacts DEF LogOutDone
  <2> QED BY <1>4, <1>a, <1>b, <2>1 DEF LogOutDone, ListOK
<1>5. ASSUME NEW w \in Worker, StartLogin(w)
      PROVE  TypeOK'
  <2> DEFINE c == FindByIp(list, work[w].ip)
  <2>1. work[w].ip \in Ip /\ work[w].by \in Mac
    BY <1>5, JobFields DEF StartLogin
  <2>2. c # NoNode =>
          [pc |-> "login", ip |-> work[w].ip, by |-> work[w].by, node |-> c,
           mac |-> list[c].mac, token |-> list[c].token] \in Job
    BY <1>0, <2>1, FindByIpType DEF Job, Client
  <2>3. work' \in [Worker -> Job]
    BY <1>5, <1>a, <1>b, <2>2 DEF StartLogin
  <2> QED BY <1>5, <2>3 DEF StartLogin
<1>6. ASSUME NEW w \in Worker, NEW a \in Answer, NEW r \in Rate,
             LoginAnswered(w, a, r)
      PROVE  TypeOK'
  <2>1. /\ work[w].ip \in Ip /\ work[w].mac \in Mac /\ work[w].token \in Token
        /\ work[w].by \in Mac /\ work[w].node \in Node
    BY <1>6, JobFields DEF LoginAnswered
  <2>2. WithAnswer(work[w], a) \in Job
    BY <2>1 DEF WithAnswer, Job
  <2>3. work' \in [Worker -> Job]
    BY <1>6, <1>a, <2>2 DEF LoginAnswered
  <2>4. ListOK(list')
    BY <1>0, <1>6, RepliedFacts DEF LoginAnswered
  <2> QED BY <1>6, <2>3, <2>4 DEF LoginAnswered, ListOK
<1>7. ASSUME NEW w \in Worker, FinishLogin(w)
      PROVE  TypeOK'
  <2>1. work[w].ip \in Ip
    BY <1>7, JobFields DEF FinishLogin
  <2>2. Answered(w) \in DOMAIN list \cup {NoNode}
    BY <1>0, FindType DEF Answered
  <2>3. ListOK(list')
    BY <1>0, <1>7, <2>2, SetStateFacts
       DEF FinishLogin, Mark
  <2>4. fw' \in Firewall
    BY <1>7, <2>1, AllowKeepsType, DenyKeepsType
       DEF FinishLogin, Allows, Mark
  <2>5. work' \in [Worker -> Job]
    BY <1>7, <1>a, <1>b DEF FinishLogin
  <2> QED BY <1>7, <2>3, <2>4, <2>5 DEF FinishLogin, ListOK
<1>8. ASSUME SyncStep
      PROVE  TypeOK'
  <2>1. CASE ReadOutgoing
    BY <2>1 DEF ReadOutgoing, Sync
  <2>2. CASE ReadIncoming
    BY <2>2 DEF ReadIncoming, Sync
  <2>3. CASE ReadFails
    BY <2>3 DEF ReadFails, Sync
  <2>4. ASSUME NEW i \in Ip, NEW busy \in BOOLEAN, CountLine(i, busy)
        PROVE  TypeOK'
    <3>1. sync \in [pc: {"out", "in"}, todo: SUBSET Ip]
      BY <2>4, SyncFields DEF CountLine
    <3>2. sync' \in [pc: {"out", "in"}, todo: SUBSET Ip]
      BY <2>4, <3>1 DEF CountLine
    <3>3. sync' \in Sync
      BY <3>2 DEF Sync
    <3>4. ListOK(list')
      BY <1>0, <2>4, FindByIpType, SetExpiredFacts DEF CountLine
    <3>5. fw' \in Firewall
      BY <2>4, DestroyKeepsType DEF CountLine
    <3> QED BY <2>4, <3>3, <3>4, <3>5 DEF CountLine, ListOK
  <2>5. CASE StartWalk
    BY <1>0, <2>5, GoOnType DEF StartWalk
  <2>6. CASE VisitGone
    BY <1>0, <2>6, GoOnType DEF VisitGone
  <2>7. CASE VisitExpired
    <3>1. Visited \in DOMAIN list
      BY <1>0, <2>7, FindType DEF VisitExpired, Visited
    <3>2. sync.ip \in Ip /\ sync.next \in Node \cup {NoNode}
      BY <2>7, SyncFields DEF VisitExpired
    <3>3. fw' \in Firewall
      BY <2>7, <3>1, <3>2, DenyKeepsType DEF VisitExpired, Client
    <3>4. ListOK(list')
      BY <1>0, <2>7, DeleteKeepsType DEF VisitExpired
    <3>5. sync' \in Sync
      BY <2>7, <3>2 DEF VisitExpired, Sync
    <3> QED BY <2>7, <3>3, <3>4, <3>5 DEF VisitExpired, ListOK
  <2>8. CASE VisitAlive
    <3>1. Visited \in DOMAIN list
      BY <1>0, <2>8, FindType DEF VisitAlive, Visited
    <3>2. sync.ip \in Ip
      BY <2>8, SyncFields DEF VisitAlive
    <3>3. ListOK(list')
      BY <1>0, <2>8, <3>1, SetStateFacts DEF VisitAlive, Mark
    <3>4. fw' \in Firewall
      BY <2>8, <3>2, AllowKeepsType DEF VisitAlive, Allows, Mark
    <3>5. sync' \in Sync
      BY <2>8, <3>3, GoOnType DEF VisitAlive
    <3> QED BY <2>8, <3>3, <3>4, <3>5 DEF VisitAlive, ListOK
  <2>9. ASSUME NEW a \in Answer, NEW r \in Rate, SyncLogOutDone(a, r)
        PROVE  TypeOK'
    <3>1. ListOK(list')
      BY <1>0, <2>9, RepliedFacts DEF SyncLogOutDone
    <3>2. sync' \in Sync
      BY <2>9, <3>1, GoOnType DEF SyncLogOutDone
    <3> QED BY <2>9, <3>1, <3>2 DEF SyncLogOutDone, ListOK
  <2> QED BY <1>8, <2>1, <2>2, <2>3, <2>4, <2>5, <2>6, <2>7, <2>8, <2>9
          DEF SyncStep
<1>9. ASSUME NEW w \in Worker, NEW a, Reset(w, a)
      PROVE  TypeOK'
  <2>1. ResetTarget(a) \in DOMAIN list
    BY <1>0, <1>9, NodesArePositive, SearchTypes, FindByIpType
       DEF Reset, ResetTarget, ListOK
  <2>2. fw' \in Firewall
    BY <1>9, <2>1, DenyKeepsType DEF Reset, Client
  <2>3. ListOK(list')
    BY <1>0, <1>9, DeleteKeepsType DEF Reset
  <2>4. [pc |-> "logout", ip |-> list[ResetTarget(a)].ip] \in Job
    BY <2>1 DEF Job, Client
  <2>5. work' \in [Worker -> Job]
    BY <1>9, <1>a, <2>4 DEF Reset
  <2> QED BY <1>9, <2>2, <2>3, <2>5 DEF Reset, ListOK
<1>10. ASSUME NEW n \in Node, Expire(n)
       PROVE  TypeOK'
  <2>1. ListOK(list')
    BY <1>0, <1>10, SetExpiredFacts DEF Expire
  <2> QED BY <1>10, <2>1 DEF Expire, ListOK
<1>11. ASSUME Exit, fw' \in Firewall
       PROVE  TypeOK'
  <2>1. DOMAIN list' = {}
    BY <1>11 DEF Exit, NoList
  <2> QED BY <1>11, <1>b, <2>1 DEF Exit, Sync, NoNode
<1>12. CASE Terminate
  BY <1>11, <1>12, NoRulesType DEF Terminate
<1>13. CASE Crash
  BY <1>11, <1>13 DEF Crash
<1>14. CASE Start
  BY <1>14, NoRulesType DEF Start
<1>15. CASE UNCHANGED vars
  BY <1>15 DEF vars
<1> QED
  BY <1>1, <1>2, <1>3, <1>4, <1>5, <1>6, <1>7, <1>8, <1>9, <1>10, <1>12,
     <1>13, <1>14, <1>15 DEF Next, Login

\* Whatever the interleaving of workers, walk, wdctl and crashes: the program's
\* state stays in its types; in particular fw_deny() and the walk never work
\* with a node that is not there.
THEOREM TypeCorrect == Spec => []TypeOK
<1>1. Init => TypeOK
  BY TypeOKInit
<1>2. TypeOK /\ [Next]_vars => TypeOK'
  BY TypeOKStep
<1> QED BY <1>1, <1>2, PTL DEF Spec

-------------------------------------------------------------------------------
(***************************************************************************)
(* What the steps of all the threads do to the list and to the rules, put  *)
(* in one place: seven kinds of steps.                                     *)
(***************************************************************************)

\* The list is kept up to bandwidths and times.
Keeping ==
    /\ SameDevices(list, list') /\ SameStates(list, list')
    /\ UNCHANGED <<up, last, fw>>

\* A device without a node gets one.
Appending ==
    /\ up
    /\ last + 1 \in Node /\ last' = last + 1
    /\ \E c \in Client : /\ Find(list, c.ip, c.mac) = NoNode
                         /\ c.state = None
                         /\ list' = AppendNode(list, last + 1, c)
    /\ UNCHANGED <<up, fw>>

\* The address of a node is allowed.
Allowing ==
    \E n \in DOMAIN list, m \in {Probation, Known} :
        /\ list' = SetState(list, n, m)
        /\ Allows(list', list[n].ip, m)
        /\ UNCHANGED <<up, last>>

\* The address of a node is denied, and the node may be deleted.
Denying ==
    \E n \in DOMAIN list, m \in Mark :
        /\ list' \in {list, DeleteNode(list, n)}
        /\ fw' = Deny(fw, list[n].ip, m)
        /\ UNCHANGED <<up, last>>

\* An address without a node loses its rules.
Sweeping ==
    \E i \in Ip :
        /\ FindByIp(list, i) = NoNode
        /\ fw' = DestroyMention(fw, i)
        /\ UNCHANGED <<up, list, last>>

Ending == Exit /\ fw' \in {fw, NoRules}

Starting == ~up /\ up' /\ fw' = NoRules /\ UNCHANGED <<list, last>>

\* There are no other steps.
LEMMA StepKinds ==
    ASSUME TypeOK, [Next]_vars
    PROVE  Keeping \/ Appending \/ Allowing \/ Denying \/ Sweeping \/ Ending
           \/ Starting
<1> DEFINE Goal == \/ Keeping \/ Appending \/ Allowing \/ Denying
                   \/ Sweeping \/ Ending \/ Starting
<1> SUFFICES Goal
  OBVIOUS
<1>0. ListOK(list)
  BY DEF TypeOK, ListOK
<1>u. ASSUME UNCHANGED <<up, list, last, fw>> PROVE Goal
  BY <1>u DEF Keeping, SameDevices, SameStates
<1>1. ASSUME NEW w \in Worker, NEW i \in Ip, NEW m \in Mac, NEW t \in Token,
             NEW logout \in BOOLEAN, Register(w, i, m, t, logout)
      PROVE  Goal
  <2>1. last + 1 \in Node
    BY <1>1, GatewayAssumption DEF Register, Node, NoNode, TypeOK
  <2>2. NewClient(i, m, t) \in Client
    BY GatewayAssumption DEF NewClient, Client, Mark, None
  <2>3. /\ NewClient(i, m, t).ip = i /\ NewClient(i, m, t).mac = m
        /\ NewClient(i, m, t).state = None
    BY DEF NewClient
  <2>4. Appending
    BY <1>1, <2>1, <2>2, <2>3 DEF Register, Appending
  <2> QED BY <2>4
<1>2. ASSUME NEW w \in Worker, NEW i \in Ip, NEW m \in Mac, LogOut(w, i, m)
      PROVE  Goal
  <2> DEFINE c == Find(list, i, m)
  <2>1. c \in DOMAIN list /\ list[c].ip = i
    BY <1>0, <1>2, FoundNode DEF LogOut
  <2>2. list[c].state \in Mark
    BY <1>0, <2>1 DEF ListOK, Client
  <2>3. Denying
    BY <1>2, <2>1, <2>2 DEF LogOut, Denying
  <2> QED BY <2>3
<1>3. ASSUME NEW w, NEW a, NEW r \in Rate,
             LoginAnswered(w, a, r) \/ LogOutDone(w, a, r) \/ SyncLogOutDone(a, r)
      PROVE  Goal
  <2>1. Keeping
    BY <1>0, <1>3, RepliedFacts
       DEF LoginAnswered, LogOutDone, SyncLogOutDone, Keeping
  <2> QED BY <2>1
<1>4. ASSUME NEW w \in Worker, FinishLogin(w)
      PROVE  Goal
  <2> DEFINE c == Answered(w)
  <2>1. CASE c = NoNode
    BY <1>4, <1>u, <2>1 DEF FinishLogin
  <2>2. CASE c # NoNode
    <3>1. c \in DOMAIN list /\ list[c].ip = work[w].ip
      BY <1>0, <2>2, FoundNode DEF Answered
    <3>2. CASE work[w].code = "ALLOWED"
      <4>1. Allowing
        BY <1>4, <2>2, <3>1, <3>2 DEF FinishLogin, Allowing
      <4> QED BY <4>1
    <3>3. CASE work[w].code = "VALIDATION"
      <4>1. Allowing
        BY <1>4, <2>2, <3>1, <3>3 DEF FinishLogin, Allowing
      <4> QED BY <4>1
    <3>4. CASE work[w].code = "DENIED"
      <4>1. Denying
        BY <1>4, <2>2, <3>1, <3>4 DEF FinishLogin, Denying, Mark
      <4> QED BY <4>1
    <3> QED BY <1>4, <2>1, <3>2, <3>3, <3>4 DEF FinishLogin
  <2> QED BY <2>1, <2>2
<1>5. ASSUME NEW i \in Ip, NEW busy \in BOOLEAN, CountLine(i, busy)
      PROVE  Goal
  <2>1. CASE busy
    <3>1. Keeping
      BY <1>0, <1>5, <2>1, FindByIpType, SetExpiredFacts DEF CountLine, Keeping
    <3> QED BY <3>1
  <2>2. CASE ~busy /\ FindByIp(list, i) = NoNode
    <3>1. Sweeping
      BY <1>5, <2>2 DEF CountLine, Sweeping
    <3> QED BY <3>1
  <2>3. CASE ~busy /\ FindByIp(list, i) # NoNode
    BY <1>5, <1>u, <2>3 DEF CountLine
  <2> QED BY <2>1, <2>2, <2>3
<1>6. ASSUME VisitExpired
      PROVE  Goal
  <2>1. Visited \in DOMAIN list /\ list[Visited].ip = sync.ip
    BY <1>0, <1>6, FoundNode DEF VisitExpired, Visited
  <2>2. list[Visited].state \in Mark
    BY <1>0, <2>1 DEF ListOK, Client
  <2>3. Denying
    BY <1>6, <2>1, <2>2 DEF VisitExpired, Denying
  <2> QED BY <2>3
<1>7. ASSUME VisitAlive
      PROVE  Goal
  <2>1. Visited \in DOMAIN list /\ list[Visited].ip = sync.ip
    BY <1>0, <1>7, FoundNode DEF VisitAlive, Visited
  <2>2. CASE list[Visited].state = Known
    BY <1>7, <1>u, <2>2 DEF VisitAlive
  <2>3. CASE list[Visited].state # Known
    <3>1. Allowing
      BY <1>7, <2>1, <2>3 DEF VisitAlive, Allowing
    <3> QED BY <3>1
  <2> QED BY <2>2, <2>3
<1>8. ASSUME NEW w, NEW a, Reset(w, a)
      PROVE  Goal
  <2>1. ResetTarget(a) \in DOMAIN list
    BY <1>0, <1>8, NodesArePositive, SearchTypes, FindByIpType
       DEF Reset, ResetTarget, ListOK
  <2>2. list[ResetTarget(a)].state \in Mark
    BY <1>0, <2>1 DEF ListOK, Client
  <2>3. Denying
    BY <1>8, <2>1, <2>2 DEF Reset, Denying
  <2> QED BY <2>3
<1>9. ASSUME NEW n \in Node, Expire(n)
      PROVE  Goal
  <2>1. Keeping
    BY <1>0, <1>9, SetExpiredFacts DEF Expire, Keeping
  <2> QED BY <2>1
<1>10. CASE Terminate \/ Crash
  <2>1. Ending
    BY <1>10 DEF Terminate, Crash, Ending
  <2> QED BY <2>1
<1>11. CASE Start
  <2>1. Starting
    BY <1>11 DEF Start, Starting
  <2> QED BY <2>1
<1>12. CASE SyncStep
  <2> HIDE DEF Goal
  <2> QED BY <1>u, <1>3, <1>5, <1>6, <1>7, <1>12
          DEF SyncStep, ReadOutgoing, ReadIncoming, ReadFails, StartWalk,
              VisitGone
<1> QED
  <2> HIDE DEF Goal
  <2> QED BY <1>u, <1>1, <1>2, <1>3, <1>4, <1>8, <1>9, <1>10, <1>11, <1>12
          DEF Next, Login, ComeBack, StartLogin, vars

-------------------------------------------------------------------------------
(***************************************************************************)
(* One session per device.                                                 *)
(***************************************************************************)

\* The property, of a list.
Unique(l) ==
    \A m, n \in DOMAIN l : l[m].ip = l[n].ip /\ l[m].mac = l[n].mac => m = n

\* Writes to a node make no second node,
LEMMA SameDevicesUnique ==
    ASSUME NEW l, NEW k, SameDevices(l, k), Unique(l)
    PROVE  Unique(k)
BY DEF SameDevices, Unique

\* nor does a deletion,
LEMMA DeleteUnique ==
    ASSUME NEW l, NEW n, Unique(l)
    PROVE  Unique(DeleteNode(l, n))
BY DEF DeleteNode, Unique

\* nor an append after a search that found nothing.
LEMMA AppendUnique ==
    ASSUME NEW l, ListOK(l), Unique(l), NEW n, NEW c, Find(l, c.ip, c.mac) = NoNode
    PROVE  Unique(AppendNode(l, n, c))
<1>1. \A k \in DOMAIN l : ~(l[k].ip = c.ip /\ l[k].mac = c.mac)
  BY NodesArePositive, FindFacts DEF ListOK
<1> QED BY <1>1 DEF AppendNode, Unique

\* No step gives a device a second node.
LEMMA UniqueStep ==
    ASSUME TypeOK, Unique(list), [Next]_vars
    PROVE  Unique(list')
<1>0. ListOK(list)
  BY DEF TypeOK, ListOK
<1>1. CASE Keeping
  BY <1>1, SameDevicesUnique DEF Keeping
<1>2. CASE Appending
  BY <1>0, <1>2, AppendUnique DEF Appending
<1>3. CASE Allowing
  BY <1>0, <1>3, SetStateFacts, SameDevicesUnique DEF Allowing, Mark
<1>4. CASE Denying
  BY <1>4, DeleteUnique DEF Denying
<1>5. CASE Ending
  BY <1>5 DEF Ending, Exit, NoList, Unique
<1>6. CASE Sweeping \/ Starting
  BY <1>6 DEF Sweeping, Starting
<1> QED BY <1>1, <1>2, <1>3, <1>4, <1>5, <1>6, StepKinds

\* No interleaving of requests of the same device, of resets and of timeouts
\* gives it a second node.
THEOREM OneSession == Spec => []OneSessionPerDevice
<1>0. OneSessionPerDevice <=> Unique(list)
  BY DEF OneSessionPerDevice, Unique
<1>1. Init => Unique(list)
  BY DEF Init, NoList, Unique
<1>2. TypeOK /\ Unique(list) /\ [Next]_vars => Unique(list)'
  BY UniqueStep
<1> QED BY <1>0, <1>1, <1>2, TypeCorrect, PTL DEF Spec

-------------------------------------------------------------------------------
(***************************************************************************)
(* The rules.  All of this is about an execute() that reports the status   *)
(* of the command it ran.                                                  *)
(***************************************************************************)

\* The rules of one address.
UniqueAt(f, i) ==
    /\ \A m, n \in Mark : f.out[i][m] > 0 /\ f.out[i][n] > 0 => m = n
    /\ \A m \in Mark : f.out[i][m] <= 1
    /\ f.in[i] <= 1
    /\ f.in[i] > 0 => HasRule(f, i)

\* fw_allow() looks at the Outgoing chain only; that is enough because there
\* is no Incoming rule without an Outgoing one.
LEMMA AllowUnique ==
    ASSUME NEW f \in Firewall, NEW l, NEW i \in Ip, NEW m \in Mark,
           \A j \in Ip : UniqueAt(f, j)
    PROVE  \A j \in Ip : UniqueAt(Allow(f, l, i, m, HasRule(f, i)), j)
<1> DEFINE g == Allow(f, l, i, m, HasRule(f, i))
<1>1. CASE HasRule(f, i)
  BY <1>1 DEF Allow
<1>2. CASE ~HasRule(f, i)
  <2>1. f.in[i] = 0 /\ \A n \in Mark : f.out[i][n] = 0
    BY <1>2 DEF UniqueAt, HasRule, Firewall
  <2>2. \A j \in Ip \ {i} : g.out[j] = f.out[j] /\ g.in[j] = f.in[j]
    BY <1>2 DEF Allow, Firewall
  <2>3. g.in[i] = 1 /\ \A n \in Mark : g.out[i][n] = IF n = m THEN 1 ELSE 0
    BY <1>2, <2>1 DEF Allow, Firewall
  <2>4. UniqueAt(g, i)
    <3> HIDE DEF g
    <3>1. HasRule(g, i)
      BY <2>3 DEF HasRule
    <3> QED BY <2>3, <3>1 DEF UniqueAt
  <2>5. \A j \in Ip \ {i} : UniqueAt(g, j)
    <3> HIDE DEF g
    <3> QED BY <2>2 DEF UniqueAt, HasRule
  <2> QED BY <2>4, <2>5
<1> QED BY <1>1, <1>2

\* fw_deny() may leave an Outgoing rule with another mark, but no Incoming rule.
LEMMA DenyUnique ==
    ASSUME NEW f \in Firewall, NEW i \in Ip, NEW m \in Mark,
           \A j \in Ip : UniqueAt(f, j)
    PROVE  \A j \in Ip : UniqueAt(Deny(f, i, m), j)
<1> DEFINE g == Deny(f, i, m)
<1>1. /\ f.in[i] \in Nat /\ f.in[i] <= 1
      /\ \A n \in Mark : f.out[i][n] \in Nat /\ f.out[i][n] <= 1
  BY DEF UniqueAt, Firewall
<1>2. g.in[i] = 0
  BY <1>1 DEF Deny, MinusOne, Firewall
<1>3. \A n \in Mark : g.out[i][n] = IF n = m THEN 0 ELSE f.out[i][n]
  BY <1>1 DEF Deny, MinusOne, Firewall
<1>4. UniqueAt(g, i)
  <2>1. \A n, k \in Mark : f.out[i][n] > 0 /\ f.out[i][k] > 0 => n = k
    BY DEF UniqueAt
  <2>2. \A n, k \in Mark : g.out[i][n] > 0 /\ g.out[i][k] > 0 => n = k
    <3> HIDE DEF g
    <3> QED BY <1>3, <2>1
  <2>3. \A n \in Mark : g.out[i][n] <= 1
    <3> HIDE DEF g
    <3> QED BY <1>1, <1>3
  <2>4. g.in[i] <= 1 /\ ~(g.in[i] > 0)
    <3> HIDE DEF g
    <3> QED BY <1>2
  <2> HIDE DEF g
  <2> QED BY <2>2, <2>3, <2>4 DEF UniqueAt
<1>5. \A j \in Ip \ {i} : g.out[j] = f.out[j] /\ g.in[j] = f.in[j]
  BY DEF Deny, Firewall
<1>6. \A j \in Ip \ {i} : UniqueAt(g, j)
  <2> HIDE DEF g
  <2> QED BY <1>5 DEF UniqueAt, HasRule
<1> QED BY <1>4, <1>6

\* Sweeping an address takes its rules in both chains together.
LEMMA DestroyUnique ==
    ASSUME NEW f \in Firewall, NEW i \in Ip, \A j \in Ip : UniqueAt(f, j)
    PROVE  \A j \in Ip : UniqueAt(DestroyMention(f, i), j)
BY DEF DestroyMention, UniqueAt, HasRule, Firewall

\* Empty chains hold no rule twice.
LEMMA NoRulesUnique ==
    \A j \in Ip : UniqueAt(NoRules, j)
BY DEF NoRules, UniqueAt, HasRule

\* No step gives an address a second rule.
LEMMA RulesStep ==
    ASSUME StatusLost = FALSE, TypeOK, \A i \in Ip : UniqueAt(fw, i), [Next]_vars
    PROVE  \A i \in Ip : UniqueAt(fw', i)
<1>0. fw \in Firewall /\ \A n \in DOMAIN list : list[n].ip \in Ip
  BY DEF TypeOK, Client
<1>1. CASE UNCHANGED fw
  BY <1>1
<1>2. CASE Allowing
  <2>1. PICK n \in DOMAIN list, m \in {Probation, Known} :
            Allows(list', list[n].ip, m)
    BY <1>2 DEF Allowing
  <2>2. fw' = Allow(fw, list', list[n].ip, m, HasRule(fw, list[n].ip))
    BY <2>1 DEF Allows, GrepStatus
  <2> QED BY <1>0, <2>2, AllowUnique DEF Mark
<1>3. CASE Denying
  BY <1>0, <1>3, DenyUnique DEF Denying
<1>4. CASE Sweeping
  BY <1>0, <1>4, DestroyUnique DEF Sweeping
<1>5. CASE fw' = NoRules
  BY <1>5, NoRulesUnique
<1> QED BY <1>1, <1>2, <1>3, <1>4, <1>5, StepKinds
        DEF Keeping, Appending, Ending, Starting

\* As long as grep's status is what execute() returns, the chains never hold
\* two rules of an address: not when two devices share it, not when a logout
\* overtakes a login, not when rules with another mark are left behind.
THEOREM OneRulePerAddress ==
    ASSUME StatusLost = FALSE
    PROVE  Spec => []RulesAreUnique
<1> DEFINE I == \A i \in Ip : UniqueAt(fw, i)
<1>0. RulesAreUnique <=> I
  BY DEF RulesAreUnique, UniqueAt
<1>1. Init => I
  BY NoRulesUnique DEF Init
<1>2. TypeOK /\ I /\ [Next]_vars => I'
  BY RulesStep
<1> QED BY <1>0, <1>1, <1>2, TypeCorrect, PTL DEF Spec

-------------------------------------------------------------------------------
(***************************************************************************)
(* Traffic classes.                                                        *)
(***************************************************************************)

\* Nodes are numbered in the order they are allocated.
Fresh == \A n \in DOMAIN list : n <= last

\* What the types say of nodes, as numbers.
LEMMA NodesAreNumbers ==
    ASSUME TypeOK
    PROVE  ListOK(list) /\ last \in Nat /\ \A n \in DOMAIN list : n \in Nat
<1>1. Node \subseteq Nat /\ NoNode \in Nat
  BY NodesArePositive DEF NoNode
<1>2. DOMAIN list \subseteq Node /\ last \in Node \cup {NoNode}
  BY DEF TypeOK
<1>3. ListOK(list)
  BY DEF TypeOK, ListOK
<1> QED BY <1>1, <1>2, <1>3

\* No step allocates a node that is in the list,
LEMMA FreshStep ==
    ASSUME TypeOK, Fresh, [Next]_vars
    PROVE  Fresh'
<1>0. ListOK(list) /\ last \in Nat /\ \A n \in DOMAIN list : n \in Nat
  BY NodesAreNumbers
<1>1. CASE Keeping
  BY <1>1 DEF Keeping, SameDevices, Fresh
<1>2. CASE Appending
  BY <1>0, <1>2 DEF Appending, AppendNode, Fresh
<1>3. CASE Allowing
  BY <1>3 DEF Allowing, SetState, Fresh
<1>4. CASE Denying
  BY <1>4 DEF Denying, DeleteNode, Fresh
<1>5. CASE Sweeping \/ Starting
  BY <1>5 DEF Sweeping, Starting, Fresh
<1>6. CASE Ending
  BY <1>6 DEF Ending, Exit, NoList, Fresh
<1> QED BY <1>1, <1>2, <1>3, <1>4, <1>5, <1>6, StepKinds

\* so the node a process allocates next is none of the list.
LEMMA NodesAreFresh == Spec => []Fresh
<1>1. Init => Fresh
  BY DEF Init, NoList, Fresh
<1>2. TypeOK /\ Fresh /\ [Next]_vars => Fresh'
  BY FreshStep
<1> QED BY <1>1, <1>2, TypeCorrect, PTL DEF Spec

\* Appending a node leaves the nodes that are there.
LEMMA AppendKeepsNodes ==
    ASSUME TypeOK, Fresh, NEW c, NEW n \in DOMAIN list
    PROVE  /\ n \in DOMAIN AppendNode(list, last + 1, c)
           /\ AppendNode(list, last + 1, c)[n] = list[n]
<1>1. n \in Nat /\ last \in Nat /\ n <= last
  BY NodesAreNumbers DEF Fresh
<1>2. n # last + 1
  BY <1>1
<1> QED BY <1>2 DEF AppendNode

\* Some node of the list has the address.
HasNode(l, i) == \E n \in DOMAIN l : l[n].ip = i

\* client_list_find_by_ip() finds a node of the address if there is one.
LEMMA HasNodeFacts ==
    ASSUME NEW l, ListOK(l), NEW i
    PROVE  HasNode(l, i) <=> FindByIp(l, i) # NoNode
<1>1. DOMAIN l \subseteq Nat \ {NoNode}
  BY NodesArePositive DEF ListOK
<1> QED BY <1>1, FindByIpFacts DEF HasNode

\* Writes to a node take no address away.
LEMMA SameDevicesHasNode ==
    ASSUME NEW l, NEW k, SameDevices(l, k), NEW i
    PROVE  HasNode(k, i) <=> HasNode(l, i)
BY DEF SameDevices, HasNode

\* setclientbw.sh and delclientbw.sh are called so that the classes follow the
\* client list, though neither is called when rules are swept away.
THEOREM ClassesFollowClients == Spec => []ClassHasClient
<1> DEFINE I == up => \A i \in fw.shaped : HasNode(list, i)
<1>0. TypeOK => (ClassHasClient <=> I)
  BY HasNodeFacts DEF ClassHasClient, TypeOK, ListOK
<1>1. Init => I
  BY DEF Init
<1>2. TypeOK /\ TypeOK' /\ Fresh /\ I /\ [Next]_vars => I'
  <2> SUFFICES ASSUME TypeOK, TypeOK', Fresh, I, [Next]_vars, up',
                      NEW i \in fw'.shaped
               PROVE  HasNode(list', i)
    OBVIOUS
  <2>0. ListOK(list) /\ ListOK(list')
    BY DEF TypeOK, ListOK
  <2>1. CASE Keeping
    BY <2>1, SameDevicesHasNode DEF Keeping
  <2>2. CASE Appending
    <3>1. PICK c \in Client : list' = AppendNode(list, last + 1, c)
      BY <2>2 DEF Appending
    <3>2. PICK n \in DOMAIN list : list[n].ip = i
      BY <2>2 DEF Appending, HasNode
    <3> QED BY <3>1, <3>2, AppendKeepsNodes DEF HasNode
  <2>3. CASE Allowing
    <3>1. PICK n \in DOMAIN list, m \in {Probation, Known} :
              list' = SetState(list, n, m) /\ Allows(list', list[n].ip, m)
      BY <2>3 DEF Allowing
    <3>2. SameDevices(list, list')
      BY <2>0, <3>1, SetStateFacts DEF Mark
    <3>3. fw'.shaped \subseteq fw.shaped \cup {list[n].ip}
      BY <3>1 DEF Allows, Allow, SetBandwidth
    <3>4. HasNode(list, list[n].ip)
      BY DEF HasNode
    <3> QED BY <2>3, <3>2, <3>3, <3>4, SameDevicesHasNode DEF Allowing
  <2>4. CASE Denying
    <3>1. PICK n \in DOMAIN list : /\ fw'.shaped = fw.shaped \ {list[n].ip}
                                   /\ list' \in {list, DeleteNode(list, n)}
      BY <2>4 DEF Denying, Deny
    <3>2. i # list[n].ip /\ HasNode(list, i)
      BY <2>4, <3>1 DEF Denying
    <3> QED BY <3>1, <3>2 DEF HasNode, DeleteNode
  <2>5. CASE Sweeping
    BY <2>5 DEF Sweeping, DestroyMention
  <2>6. CASE Ending
    BY <2>6 DEF Ending, Exit
  <2>7. CASE Starting
    BY <2>7 DEF Starting, NoRules
  <2> QED BY <2>1, <2>2, <2>3, <2>4, <2>5, <2>6, <2>7, StepKinds
<1> QED BY <1>0, <1>1, <1>2, TypeCorrect, NodesAreFresh, PTL DEF Spec

-------------------------------------------------------------------------------
(***************************************************************************)
(* Answers that come late.                                                 *)
(***************************************************************************)
\* fw_allow() adds rules of its own address only,
LEMMA AllowRules ==
    ASSUME NEW f \in Firewall, NEW l, NEW i \in Ip, NEW m \in Mark, NEW found,
           NEW j \in Ip, HasRule(Allow(f, l, i, m, found), j)
    PROVE  j = i \/ HasRule(f, j)
BY DEF Allow, HasRule, Firewall

\* fw_deny() adds none and takes none of another address,
LEMMA DenyRules ==
    ASSUME NEW f \in Firewall, NEW i \in Ip, NEW m \in Mark, NEW j \in Ip
    PROVE  /\ HasRule(Deny(f, i, m), j) => HasRule(f, j)
           /\ j # i => (HasRule(Deny(f, i, m), j) <=> HasRule(f, j))
<1>1. \A n \in Mark : f.out[j][n] \in Nat
  BY DEF Firewall
<1>2. \A n \in Mark :
         \/ Deny(f, i, m).out[j][n] = f.out[j][n]
         \/ j = i /\ Deny(f, i, m).out[j][n] = MinusOne(f.out[j][n])
  BY DEF Deny, Firewall
<1>3. \A k \in Nat : MinusOne(k) > 0 => k > 0
  BY DEF MinusOne
<1> HIDE DEF Deny
<1> QED BY <1>1, <1>2, <1>3 DEF HasRule

\* sweeping adds none,
LEMMA DestroyRules ==
    ASSUME NEW f \in Firewall, NEW i \in Ip, NEW j \in Ip,
           HasRule(DestroyMention(f, i), j)
    PROVE  HasRule(f, j)
BY DEF DestroyMention, HasRule, Firewall

\* and the chains a start leaves are empty.
LEMMA NoRulesNoRule ==
    \A j \in Ip : ~HasRule(NoRules, j)
BY DEF NoRules, HasRule

\* A request that outlives its session - logged out, reset or timed out while
\* the server was thinking - opens nothing when it comes back.
THEOREM DepartedStayOut == Spec => NoRuleForTheDeparted
<1> DEFINE A == \A i \in Ip : HasRule(fw, i)' /\ ~HasRule(fw, i) =>
                    FindByIp(list, i)' # NoNode
<1>1. TypeOK /\ TypeOK' /\ [Next]_vars => A
  <2> SUFFICES ASSUME TypeOK, TypeOK', [Next]_vars,
                      NEW i \in Ip, HasRule(fw', i), ~HasRule(fw, i)
               PROVE  HasNode(list', i)
    BY HasNodeFacts DEF TypeOK, ListOK
  <2>0. ListOK(list) /\ fw \in Firewall /\ \A n \in DOMAIN list : list[n].ip \in Ip
    BY DEF TypeOK, ListOK, Client
  <2>1. CASE Allowing
    <3>1. PICK n \in DOMAIN list, m \in {Probation, Known} :
              list' = SetState(list, n, m) /\ Allows(list', list[n].ip, m)
      BY <2>1 DEF Allowing
    <3>2. list[n].ip = i
      BY <2>0, <3>1, AllowRules DEF Allows, Mark
    <3>3. HasNode(list, i)
      BY <3>2 DEF HasNode
    <3> QED BY <2>0, <3>1, <3>3, SetStateFacts, SameDevicesHasNode DEF Mark
  <2>2. CASE Denying
    BY <2>0, <2>2, DenyRules DEF Denying
  <2>3. CASE Sweeping
    BY <2>0, <2>3, DestroyRules DEF Sweeping
  <2>4. CASE fw' \in {fw, NoRules}
    BY <2>4, NoRulesNoRule
  <2> QED BY <2>1, <2>2, <2>3, <2>4, StepKinds
          DEF Keeping, Appending, Ending, Starting
<1> QED BY <1>1, TypeCorrect, PTL DEF Spec, NoRuleForTheDeparted

-------------------------------------------------------------------------------
(***************************************************************************)
(* Answers.                                                                *)
(***************************************************************************)

\* The nodes that stay in the list keep their states.
StatesKept ==
    \A n \in DOMAIN list \cap DOMAIN list' : list'[n].state = list[n].state

\* A deletion changes no other node.
LEMMA DeleteKeepsStates ==
    ASSUME NEW c, list' = DeleteNode(list, c)
    PROVE  StatesKept
BY DEF DeleteNode, StatesKept

\* A reply does not, whenever it comes.
LEMMA ReplyKeepsStates ==
    ASSUME TypeOK, NEW i, NEW a, NEW r \in Rate, list' = Replied(list, i, a, r)
    PROVE  StatesKept
<1>1. ListOK(list)
  BY DEF TypeOK, ListOK
<1> QED BY <1>1, RepliedFacts DEF SameStates, StatesKept

\* Workers set a state only when they finish a login.
LEMMA WorkersKeepStates ==
    ASSUME TypeOK, Fresh, NEW w \in Worker, Login(w)
    PROVE  StatesKept \/ FinishLogin(w)
<1>1. ASSUME NEW i \in Ip, NEW m \in Mac, NEW t \in Token, NEW logout \in BOOLEAN,
             Register(w, i, m, t, logout)
      PROVE  StatesKept
  BY <1>1, AppendKeepsNodes DEF Register, StatesKept
<1>2. ASSUME NEW i \in Ip, NEW m \in Mac, ComeBack(w, i, m) \/ LogOut(w, i, m)
      PROVE  StatesKept
  BY <1>2, DeleteKeepsStates DEF ComeBack, LogOut, StatesKept
<1>3. ASSUME StartLogin(w) PROVE StatesKept
  BY <1>3 DEF StartLogin, StatesKept
<1>4. ASSUME NEW a \in Answer, NEW r \in Rate,
             LoginAnswered(w, a, r) \/ LogOutDone(w, a, r)
      PROVE  StatesKept
  BY <1>4, ReplyKeepsStates DEF LoginAnswered, LogOutDone
<1> QED BY <1>1, <1>2, <1>3, <1>4 DEF Login

\* The fw_counter thread sets one only when it visits a client that is alive.
LEMMA SyncKeepsStates ==
    ASSUME TypeOK, SyncStep
    PROVE  StatesKept \/ VisitAlive
<1>0. ListOK(list)
  BY DEF TypeOK, ListOK
<1>1. ASSUME ReadOutgoing \/ ReadIncoming \/ ReadFails \/ StartWalk \/ VisitGone
      PROVE  StatesKept
  BY <1>1 DEF ReadOutgoing, ReadIncoming, ReadFails, StartWalk, VisitGone, StatesKept
<1>2. ASSUME NEW i \in Ip, NEW busy \in BOOLEAN, CountLine(i, busy)
      PROVE  StatesKept
  <2>1. CASE list' = list
    BY <2>1 DEF StatesKept
  <2>2. CASE FindByIp(list, i) # NoNode
             /\ list' = [list EXCEPT ![FindByIp(list, i)].expired = FALSE]
    BY <1>0, <2>2, FindByIpType, SetExpiredFacts DEF SameStates, StatesKept
  <2> QED BY <1>2, <2>1, <2>2 DEF CountLine
<1>3. ASSUME VisitExpired PROVE StatesKept
  BY <1>3, DeleteKeepsStates DEF VisitExpired
<1>4. ASSUME NEW a \in Answer, NEW r \in Rate, SyncLogOutDone(a, r)
      PROVE  StatesKept
  BY <1>4, ReplyKeepsStates DEF SyncLogOutDone
<1> QED BY <1>1, <1>2, <1>3, <1>4 DEF SyncStep

\* Neither does wdctl, nor the clock, nor the end of the process.
LEMMA OthersKeepStates ==
    ASSUME TypeOK,
           \/ \E w \in Worker, a \in Token \cup Ip \cup Mac : Reset(w, a)
           \/ \E n \in Node : Expire(n)
           \/ Terminate \/ Crash \/ Start \/ UNCHANGED vars
    PROVE  StatesKept
<1>0. ListOK(list)
  BY DEF TypeOK, ListOK
<1>1. CASE \E w \in Worker, a \in Token \cup Ip \cup Mac : Reset(w, a)
  BY <1>1, DeleteKeepsStates DEF Reset
<1>2. CASE \E n \in Node : Expire(n)
  BY <1>0, <1>2, SetExpiredFacts DEF Expire, SameStates, StatesKept
<1>3. CASE Terminate \/ Crash
  BY <1>3 DEF Terminate, Crash, Exit, NoList, StatesKept
<1>4. CASE Start \/ UNCHANGED vars
  BY <1>4 DEF Start, vars, StatesKept
<1> QED BY <1>1, <1>2, <1>3, <1>4

\* What stays true of the client a worker has looked up by its address alone
\* and asks the server about: of the clients of the address it was the first,
\* so it or what has come after it is still the first.  z is the last node.
AsksFirst(l, z, i, m, n) ==
    /\ n <= z
    /\ \A k \in DOMAIN l : l[k].ip = i => n <= k
    /\ n \in DOMAIN l => l[n].ip = i /\ l[n].mac = m

Asks(w) == work[w].pc \in {"login", "reply"}

Asking ==
    \A w \in Worker :
        Asks(w) =>
            AsksFirst(list, last, work[w].ip, work[w].mac, work[w].node)

\* As nodes are appended at the end, no step of another thread changes that
\* before the process ends,
LEMMA AsksFirstStep ==
    ASSUME TypeOK, Fresh, [Next]_vars, ~Ending
    PROVE  \A i, m : \A n \in Node :
               AsksFirst(list, last, i, m, n) => AsksFirst(list', last', i, m, n)
<1> SUFFICES ASSUME NEW i, NEW m, NEW n \in Node, AsksFirst(list, last, i, m, n)
             PROVE  AsksFirst(list', last', i, m, n)
  OBVIOUS
<1>0. /\ ListOK(list) /\ last \in Nat /\ n \in Nat
      /\ \A k \in DOMAIN list : k \in Nat
  BY NodesAreNumbers, NodesArePositive
<1>1. ASSUME SameDevices(list, list'), last' = last
      PROVE  AsksFirst(list', last', i, m, n)
  BY <1>1 DEF SameDevices, AsksFirst
<1>2. CASE Appending
  BY <1>0, <1>2 DEF Appending, AppendNode, AsksFirst
<1>3. CASE Allowing
  BY <1>0, <1>1, <1>3, SetStateFacts DEF Allowing, Mark
<1>4. CASE Denying
  BY <1>4 DEF Denying, DeleteNode, AsksFirst
<1>5. CASE Sweeping \/ Starting
  BY <1>5 DEF Sweeping, Starting, AsksFirst
<1> QED BY <1>1, <1>2, <1>3, <1>4, <1>5, StepKinds DEF Keeping

\* and a worker that asks goes on asking about the same client until it is
\* done.
LEMMA WorkersAsk ==
    ASSUME TypeOK, [Next]_vars, NEW w \in Worker, Asks(w)'
    PROVE  \/ StartLogin(w)
           \/ /\ Asks(w)
              /\ work'[w].ip = work[w].ip /\ work'[w].mac = work[w].mac
              /\ work'[w].node = work[w].node
<1> DEFINE Goal == \/ StartLogin(w)
                   \/ /\ Asks(w)
                      /\ work'[w].ip = work[w].ip /\ work'[w].mac = work[w].mac
                      /\ work'[w].node = work[w].node
<1> SUFFICES Goal
  OBVIOUS
<1>0. /\ work'[w].pc \in {"login", "reply"} /\ Idle.pc = "idle"
      /\ work \in [Worker -> Job]
  BY DEF Asks, Idle, TypeOK
<1>1. ASSUME work'[w] = work[w] PROVE Goal
  BY <1>0, <1>1 DEF Asks
<1>2. ASSUME NEW v \in Worker, NEW j, work' = [work EXCEPT ![v] = j],
             j.pc \notin {"login", "reply"}
      PROVE  Goal
  BY <1>0, <1>1, <1>2
<1>3. ASSUME NEW v \in Worker, StartLogin(v) PROVE Goal
  <2>1. CASE v = w
    BY <1>3, <2>1
  <2>2. CASE v # w
    BY <1>0, <1>1, <1>3, <2>2 DEF StartLogin
  <2> QED BY <2>1, <2>2
<1>4. ASSUME NEW v \in Worker, NEW a \in Answer, NEW r \in Rate,
             LoginAnswered(v, a, r)
      PROVE  Goal
  <2>1. CASE v = w
    <3>1. work'[w] = WithAnswer(work[w], a) /\ work[w].pc = "login"
      BY <1>0, <1>4, <2>1 DEF LoginAnswered
    <3> QED BY <1>0, <3>1 DEF WithAnswer, Asks
  <2>2. CASE v # w
    BY <1>0, <1>1, <1>4, <2>2 DEF LoginAnswered
  <2> QED BY <2>1, <2>2
<1>5. ASSUME NEW v \in Worker, NEW i \in Ip, NEW m \in Mac,
             \/ ComeBack(v, i, m) \/ LogOut(v, i, m)
             \/ \E t \in Token, logout \in BOOLEAN : Register(v, i, m, t, logout)
      PROVE  Goal
  <2> HIDE DEF Goal
  <2> QED BY <1>0, <1>2, <1>5 DEF ComeBack, LogOut, Register
<1>6. ASSUME NEW v \in Worker, NEW a \in Answer, NEW r \in Rate,
             LogOutDone(v, a, r) \/ FinishLogin(v)
      PROVE  Goal
  <2> HIDE DEF Goal
  <2> QED BY <1>0, <1>2, <1>6 DEF LogOutDone, FinishLogin
<1>7. ASSUME NEW v \in Worker, NEW a, Reset(v, a) PROVE Goal
  <2> HIDE DEF Goal
  <2> QED BY <1>2, <1>7 DEF Reset
<1>8. ASSUME UNCHANGED work PROVE Goal
  BY <1>1, <1>8
<1>9. ASSUME SyncStep PROVE Goal
  <2> HIDE DEF Goal
  <2> QED BY <1>8, <1>9
          DEF SyncStep, ReadOutgoing, ReadIncoming, ReadFails, CountLine,
              StartWalk, VisitGone, VisitExpired, VisitAlive, SyncLogOutDone
<1>10. ASSUME Exit PROVE Goal
  BY <1>0, <1>10 DEF Exit
<1> HIDE DEF Goal
<1>11. ASSUME NEW v \in Worker, Login(v) PROVE Goal
  <2>1. ASSUME NEW i \in Ip, NEW m \in Mac,
               \/ ComeBack(v, i, m) \/ LogOut(v, i, m)
               \/ \E t \in Token, logout \in BOOLEAN : Register(v, i, m, t, logout)
        PROVE  Goal
    BY <1>5, <2>1
  <2>2. CASE FinishLogin(v)
    BY <1>0, <1>2, <2>2 DEF FinishLogin
  <2> QED BY <1>3, <1>4, <1>6, <1>11, <2>1, <2>2 DEF Login
<1> QED BY <1>7, <1>8, <1>9, <1>10, <1>11
        DEF Next, Terminate, Crash, Expire, Start, vars

\* The first client of an address is first when the worker looks it up.
LEMMA StartAsksFirst ==
    ASSUME TypeOK, Fresh, NEW w \in Worker, StartLogin(w), Asks(w)'
    PROVE  AsksFirst(list', last', work'[w].ip, work'[w].mac, work'[w].node)
<1> DEFINE c == FindByIp(list, work[w].ip)
<1>1. /\ c # NoNode /\ work'[w].node = c /\ work'[w].ip = work[w].ip
      /\ work'[w].mac = list[c].mac
  BY DEF StartLogin, Asks, Idle, TypeOK
<1>2. DOMAIN list \subseteq Nat \ {NoNode}
  BY NodesArePositive DEF TypeOK
<1>3. /\ c \in DOMAIN list /\ list[c].ip = work[w].ip
      /\ \A k \in DOMAIN list : list[k].ip = work[w].ip => c <= k
  BY <1>1, <1>2, FindByIpFacts
<1>4. list' = list /\ last' = last
  BY DEF StartLogin
<1> HIDE DEF c
<1> QED BY <1>1, <1>3, <1>4 DEF AsksFirst, Fresh

\* So it is whenever a worker waits for the server or has its answer.
LEMMA AskingStep ==
    ASSUME TypeOK, Fresh, Asking, [Next]_vars
    PROVE  Asking'
<1> SUFFICES ASSUME NEW w \in Worker, Asks(w)'
             PROVE  AsksFirst(list', last', work'[w].ip, work'[w].mac,
                              work'[w].node)
  BY DEF Asking
<1>1. CASE StartLogin(w)
  BY <1>1, StartAsksFirst
<1>2. CASE /\ Asks(w)
           /\ work'[w].ip = work[w].ip /\ work'[w].mac = work[w].mac
           /\ work'[w].node = work[w].node
  <2>1. ~Ending
    BY DEF Ending, Exit, Asks, Idle
  <2>2. work[w].node \in Node
    BY <1>2, JobFields DEF Asks, TypeOK
  <2>3. AsksFirst(list, last, work[w].ip, work[w].mac, work[w].node)
    BY <1>2 DEF Asking
  <2>4. AsksFirst(list', last', work[w].ip, work[w].mac, work[w].node)
    BY <2>1, <2>2, <2>3, AsksFirstStep
  <2> QED BY <1>2, <2>4
<1> QED BY <1>1, <1>2, WorkersAsk

\* In every state.
LEMMA AlwaysAsking == Spec => []Asking
<1>1. Init => Asking
  BY DEF Init, Asking, Asks, Idle
<1>2. TypeOK /\ Fresh /\ Asking /\ [Next]_vars => Asking'
  BY AskingStep
<1> QED BY <1>1, <1>2, TypeCorrect, NodesAreFresh, PTL DEF Spec

\* The state set at the end of a login is that of the session it was asked
\* about, or of the next one of its device.
LEMMA LoginFits ==
    ASSUME TypeOK, Asking, Unique(list), NEW w \in Worker, FinishLogin(w),
           NEW n \in DOMAIN list \cap DOMAIN list', list'[n].state # list[n].state
    PROVE  /\ work[w].pc = "reply" /\ work'[w] = Idle
           /\ IsAnswered(work[w], n) /\ IsElder(work[w], work[w].node)
<1>0. ListOK(list) /\ work[w].pc = "reply" /\ work'[w] = Idle
  BY DEF TypeOK, ListOK, FinishLogin
<1>1. \E s \in Mark : Answered(w) # NoNode /\ list' = SetState(list, Answered(w), s)
  BY DEF FinishLogin, Mark
<1>2. n = Answered(w)
  BY <1>1 DEF SetState
<1>3. work[w].ip = list[n].ip /\ work[w].mac = list[n].mac
  BY <1>0, <1>1, <1>2, FoundNode DEF Answered
<1>4. AsksFirst(list, last, work[w].ip, work[w].mac, work[w].node)
  BY <1>0 DEF Asking, Asks
<1>5. work[w].node \in Nat /\ n \in Nat
  BY <1>0, JobFields, NodesAreNumbers, NodesArePositive DEF TypeOK
<1>6. CASE work[w].node \in DOMAIN list
  BY <1>0, <1>3, <1>4, <1>6 DEF AsksFirst, Unique, IsAnswered, IsElder
<1>7. CASE work[w].node \notin DOMAIN list
  <2>1. work[w].node <= n /\ work[w].node # n
    BY <1>3, <1>4, <1>7 DEF AsksFirst
  <2>2. work[w].node < n
    BY <1>5, <2>1
  <2> QED BY <1>0, <1>3, <1>4, <1>7, <2>2 DEF AsksFirst, IsAnswered, IsElder
<1> QED BY <1>0, <1>6, <1>7

\* auth.c looks up by address alone whom it asks the server about, and one
\* "can't trust the client to still exist after n seconds have passed".  The
\* answer decides about the session that was asked about, be it another
\* device's than the sender's, and when that one is gone about a later one of
\* the same device only; another device gets the sender's answer only if it
\* was at the address before the sender.
THEOREM AnswersFitSessions == Spec => AnswerFitsSession
<1> DEFINE A == \A n \in DOMAIN list \cap DOMAIN list' :
        list'[n].state # list[n].state =>
            \/ sync.pc = "window" /\ Visited = n /\ list'[n].state = Known
            \/ \E w \in Worker :
                /\ work[w].pc = "reply" /\ work'[w] = Idle
                /\ IsAnswered(work[w], n) /\ IsElder(work[w], work[w].node)
<1>1. TypeOK /\ Fresh /\ OneSessionPerDevice /\ Asking /\ [Next]_vars => A
  <2> SUFFICES ASSUME TypeOK, Fresh, OneSessionPerDevice, Asking, [Next]_vars
               PROVE  A
    OBVIOUS
  <2>0. Unique(list)
    BY DEF OneSessionPerDevice, Unique
  <2>1. CASE StatesKept
    BY <2>1 DEF StatesKept
  <2>2. CASE \E w \in Worker : FinishLogin(w)
    BY <2>0, <2>2, LoginFits
  <2>3. CASE VisitAlive
    <3>1. sync.pc = "window" /\ Visited # NoNode
      BY <2>3 DEF VisitAlive
    <3>2. list[Visited] \in Client /\ Visited \in DOMAIN list
      <4>1. ListOK(list)
        BY DEF TypeOK, ListOK
      <4> QED BY <3>1, <4>1, FindType DEF Visited, ListOK
    <3>3. list' = list \/ list' = SetState(list, Visited, Known)
      BY <2>3 DEF VisitAlive
    <3>4. \A n \in DOMAIN list \cap DOMAIN list' :
              list'[n].state # list[n].state => n = Visited /\ list'[n].state = Known
      BY <3>2, <3>3 DEF SetState, Client
    <3> QED BY <3>1, <3>4
  <2> QED BY <2>1, <2>2, <2>3, WorkersKeepStates, SyncKeepsStates,
             OthersKeepStates DEF Next
<1> QED BY <1>1, TypeCorrect, NodesAreFresh, OneSession, AlwaysAsking, PTL
        DEF Spec, AnswerFitsSession
===============================================================================
