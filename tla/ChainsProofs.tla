------------------------------ MODULE ChainsProofs ------------------------------
(***************************************************************************)
(* Proofs about Chains: the tables stay in order whatever is executed and  *)
(* whoever is interrupted, a stop leaves nothing of wifidog but what other *)
(* threads add meanwhile, and a start ends with the chains of a first one. *)
(***************************************************************************)
EXTENDS Chains, SequenceTheorems, LeastProofs

-------------------------------------------------------------------------------
(***************************************************************************)
(* The invariant.                                                          *)
(***************************************************************************)
Own   == Chain \ BuiltIn
Input == <<"mangle", "INPUT">>

\* Where a rule of wifidog in a built-in chain sends its packets.
Jumps(k) ==
    CASE k = <<"mangle", "PREROUTING">>  -> {"Trusted", "Outgoing"}
      [] k = <<"mangle", "POSTROUTING">> -> {"Incoming"}
      [] k = <<"mangle", "INPUT">>       -> {"Outgoing"}
      [] k = <<"nat", "PREROUTING">>     -> {"Outgoing"}
      [] k = <<"filter", "FORWARD">>     -> {"WIFI2Internet"}
      [] k = <<"filter", "INPUT">>       -> {"Ddos"}
      [] OTHER                           -> {}

\* No rule of a built-in chain is another's, the rule for DHCP is there once at
\* most (fw_destroy() deletes one), and no rule's chain is missing.
Typed(f)    == DOMAIN f \subseteq Chain /\ BuiltIn \subseteq DOMAIN f
               /\ f \in [DOMAIN f -> Seq(Targets)]
Usual(f)    == \A k \in BuiltIn : ToSet(f[k]) \subseteq Jumps(k)
DhcpOnce(f) == f[Input] \in {<<>>, <<"Outgoing">>}
Closed(f)   == \A k \in DOMAIN f : \A r \in ToSet(f[k]) \cap Names : <<k[1], r>> \in DOMAIN f

Sound(f) == Typed(f) /\ Usual(f) /\ DhcpOnce(f) /\ Closed(f)

Where(m) == <<m.t, m.c>>

\* The commands of fw_init(), of fw_destroy(), of other threads, and what a
\* signal interrupts.
InitCommand(m) ==
    \/ m.op = "N" /\ Where(m) \in Own
    \/ m.op \in {"A", "I"} /\ Where(m) \in Own \ Dynamic /\ m.r \in Targets
    \/ m.op \in {"A", "I"} /\ Where(m) \in BuiltIn /\ m.r \in Jumps(Where(m))

DestroyCommand(m) ==
    \/ m.op = "mention" /\ Where(m) \in BuiltIn /\ m.r \in Jumps(Where(m))
    \/ m.op = "D" /\ Where(m) = Input /\ m.r = "Outgoing"
    \/ m.op \in {"F", "X"} /\ Where(m) \in Own

ThreadCommand(m) ==
    \/ m.op \in {"A", "D"} /\ Where(m) \in Dynamic /\ m.r \in {"client", "server"}
    \/ m.op = "F" /\ Where(m) \in Dynamic

DeleteByNumber(m) == m.op = "nth" /\ Where(m) \in BuiltIn /\ m.r \in Nat

\* The command that adds the rule for DHCP meets a chain without it.
DhcpIsNew(f, m) == m.op \in {"A", "I"} /\ Where(m) = Input => f[Input] = <<>>

StrayOK ==
    \/ stray = Nothing
    \/ /\ stray = <<stray[1]>>
       /\ InitCommand(stray[1]) \/ DestroyCommand(stray[1]) \/ DeleteByNumber(stray[1])
       /\ DhcpIsNew(fw, stray[1])

ThreadCommands ==
    {m \in [op : {"A", "D", "F"}, t : {"mangle", "nat", "filter"}, c : Names,
            r : {"client", "server", "all"}] : ThreadCommand(m)}

QueuesOK == list \in Seq(ThreadCommands) /\ conf \in Seq(ThreadCommands)

\* Where the main thread is.
MainOK ==
    \/ main \in {Off, Serves, Hangs}
    \/ \E k \in 1 .. Len(FwDestroy) + Len(FwInit) + 1 : main = At("start", k)
    \/ \E k \in 1 .. Len(FwDestroy) + 1 : main = At("stop", k)

CountsOK == faults \in 0 .. MaxFaults /\ calls \in 0 .. MaxCalls

\* Who is about when.
TogetherOK ==
    /\ early \in BOOLEAN
    /\ early => main.at = "stop"
    /\ stray # Nothing => early
    /\ early \/ main.at \in {"off", "start"} => list = Nothing /\ conf = Nothing

\* What a command of fw_destroy() has done stays done until the end of it.
Later == IF main.at = "stop" THEN Dynamic ELSE {}

EffectOn(f, m, d) ==
    /\ m.op \in {"mention", "D"} => m.r \notin ToSet(f[Where(m)])
    /\ m.op = "F" /\ Where(m) \in DOMAIN f =>
            ToSet(f[Where(m)]) \subseteq IF Where(m) \in d THEN {"client", "server"} ELSE {}
    /\ m.op = "X" /\ Where(m) \in DOMAIN f => Where(m) \in d

Effect(m) == EffectOn(fw, m, Later)

Destroying ==
    \/ main.at = "stop" /\ ~early
    \/ main.at = "start" /\ main.k <= Len(FwDestroy) + 1

EffectsOK ==
    Destroying => \A j \in 1 .. Len(FwDestroy) : j < main.k => Effect(FwDestroy[j])

\* There is no rule for DHCP after the fourth command of a start, which deletes
\* it, until the 48th, the seventh of fw_init(), adds it.
DhcpOK ==
    main.at = "start" /\ main.k \in 5 .. 48 => fw[Input] = <<>>

BuiltOK ==
    main.at = "start" /\ main.k > Len(FwDestroy) =>
        fw = FirstStart[main.k - Len(FwDestroy) - 1]

\* fw_init() leaves the chains of other threads empty.
EmptyOK ==
    main.at = "start" /\ main.k > Len(FwDestroy) =>
        \A k \in DOMAIN fw \cap Dynamic : fw[k] = <<>>

CInv ==
    /\ Sound(fw) /\ MainOK /\ CountsOK /\ StrayOK /\ QueuesOK /\ TogetherOK
    /\ EffectsOK /\ DhcpOK /\ BuiltOK /\ EmptyOK /\ ServesWhole

-------------------------------------------------------------------------------
(***************************************************************************)
(* Sequences: what adding to one and deleting from one does to the set of  *)
(* its elements.                                                           *)
(***************************************************************************)
\* The elements of an empty sequence, and of any other.
LEMMA Elements ==
    ASSUME NEW T, NEW s \in Seq(T)
    PROVE  /\ ToSet(s) \subseteq T
           /\ ToSet(s) = {} <=> s = <<>>
           /\ \A e : e \in ToSet(s) <=> \E i \in 1 .. Len(s) : s[i] = e
<1>1. DOMAIN s = 1 .. Len(s) /\ Len(s) \in Nat
  OBVIOUS
<1>2. \A e : e \in ToSet(s) <=> \E i \in 1 .. Len(s) : s[i] = e
  BY <1>1 DEF ToSet
<1>3. \A i \in 1 .. Len(s) : s[i] \in T
  OBVIOUS
<1>4. ASSUME s # <<>> PROVE s[1] \in ToSet(s)
  BY <1>4, <1>2, EmptySeq
<1>5. ToSet(<<>>) = {}
  BY DEF ToSet
<1> QED BY <1>2, <1>3, <1>4, <1>5

\* RemoveAt() leaves a sequence of some of the elements.
LEMMA RemoveAtFacts ==
    ASSUME NEW T, NEW s \in Seq(T), NEW i \in 1 .. Len(s)
    PROVE  RemoveAt(s, i) \in Seq(T) /\ ToSet(RemoveAt(s, i)) \subseteq ToSet(s)
<1>1. i - 1 \in 0 .. Len(s) /\ i + 1 \in 1 .. Len(s) + 1 /\ Len(s) \in Nat
  OBVIOUS
<1>2. s \in Seq(ToSet(s))
  BY DEF ToSet
<1>3. RemoveAt(s, i) \in Seq(ToSet(s))
  BY <1>1, <1>2 DEF RemoveAt
<1>4. ToSet(s) \subseteq T
  BY Elements
<1>5. RemoveAt(s, i) \in Seq(T)
  BY <1>3, <1>4, SeqMonotonic
<1> QED BY <1>3, <1>5, Elements

\* RemoveFirst() too, and it changes nothing where there is no such element.
LEMMA RemoveFirstFacts ==
    ASSUME NEW T, NEW s \in Seq(T), NEW e
    PROVE  /\ RemoveFirst(s, e) \in Seq(T)
           /\ ToSet(RemoveFirst(s, e)) \subseteq ToSet(s)
           /\ e \notin ToSet(s) => RemoveFirst(s, e) = s
<1> DEFINE I == {i \in 1 .. Len(s) : s[i] = e}
<1>1. CASE I = {}
  <2>1. RemoveFirst(s, e) = s
    BY <1>1 DEF RemoveFirst
  <2> QED BY <2>1
<1>2. CASE I # {}
  <2>1. I \in SUBSET Nat
    OBVIOUS
  <2>2. \E n \in I : \A m \in I : n <= m
    <3> HIDE DEF I
    <3> QED BY <1>2, <2>1, LeastExists
  <2>3. Min(I) \in I
    BY <2>2 DEF Min
  <2>4. RemoveFirst(s, e) = RemoveAt(s, Min(I))
    BY <1>2 DEF RemoveFirst, SelectInSeq
  <2>5. e \in ToSet(s)
    BY <1>2, Elements
  <2> QED BY <2>3, <2>4, <2>5, RemoveAtFacts
<1> QED BY <1>1, <1>2

\* Of a sequence of one element, nothing is left.
LEMMA RemoveOne ==
    ASSUME NEW e
    PROVE  RemoveAt(<<e>>, 1) = <<>>
<1>1. Len(<<e>>) = 1 /\ <<e>> \in Seq({e})
  OBVIOUS
<1>2. SubSeq(<<e>>, 1, 1 - 1) = <<>> /\ SubSeq(<<e>>, 1 + 1, 1) = <<>>
  BY <1>1, SubSeqEmpty
<1>3. <<>> \o <<>> = <<>>
  OBVIOUS
<1> QED BY <1>1, <1>2, <1>3 DEF RemoveAt

\* And RemoveFirst() removes that one.
LEMMA RemoveOnly ==
    ASSUME NEW e
    PROVE  RemoveFirst(<<e>>, e) = <<>>
<1> DEFINE I == {i \in 1 .. Len(<<e>>) : <<e>>[i] = e}
<1>1. I = {1}
  OBVIOUS
<1>2. Min(I) = 1
  BY <1>1 DEF Min
<1>3. RemoveFirst(<<e>>, e) = RemoveAt(<<e>>, Min(I))
  BY <1>1 DEF RemoveFirst, SelectInSeq
<1> QED BY <1>2, <1>3, RemoveOne

\* Append(s, e) and <<e>> \o s add e.
LEMMA AddFacts ==
    ASSUME NEW T, NEW s \in Seq(T), NEW e \in T
    PROVE  /\ Append(s, e) \in Seq(T) /\ ToSet(Append(s, e)) = ToSet(s) \cup {e}
           /\ <<e>> \o s \in Seq(T) /\ ToSet(<<e>> \o s) = ToSet(s) \cup {e}
<1>1. Append(s, e) \in Seq(T) /\ <<e>> \o s \in Seq(T) /\ <<e>> \in Seq(T)
  OBVIOUS
<1>2. Append(s, e) = s \o <<e>>
  BY AppendIsConcat
<1>3. \A u : ToSet(u) = Range(u)
  BY DEF ToSet, Range
<1>4. ToSet(<<e>>) = {e}
  BY DEF ToSet
<1>5. /\ Range(s \o <<e>>) = Range(s) \cup Range(<<e>>)
      /\ Range(<<e>> \o s) = Range(<<e>>) \cup Range(s)
  BY <1>1, RangeConcatenation
<1> QED BY <1>1, <1>2, <1>3, <1>4, <1>5

-------------------------------------------------------------------------------
(***************************************************************************)
(* iptables: what a command does to tables in order.                       *)
(***************************************************************************)
\* The chains of wifidog are no built-in ones, a built-in chain's rule names a
\* chain of its table, and what other threads add is no chain.
LEMMA ChainFacts ==
    /\ Own = ({"mangle"} \X ToSet(MangleChains)) \cup ({"nat"} \X ToSet(NatChains))
             \cup ({"filter"} \X ToSet(FilterChains))
    /\ Dynamic \subseteq Own
    /\ Chain = BuiltIn \cup Own /\ Own \cap BuiltIn = {}
    /\ Input \in BuiltIn
    /\ \A k \in Chain : k = <<k[1], k[2]>> /\ k[2] \in Names
<1>1. /\ ToSet(MangleChains) = {"Trusted", "Outgoing", "Incoming"}
      /\ ToSet(NatChains) = {"Outgoing", "WIFI2Router", "WIFI2Internet", "Global",
                             "Unknown", "AuthServers"}
      /\ ToSet(FilterChains) = {"WIFI2Internet", "AuthServers", "Locked", "Global",
                                "Validate", "Known", "Unknown", "Ddos"}
  BY DEF ToSet, MangleChains, NatChains, FilterChains
<1>2. \A k \in BuiltIn : k \notin {"mangle"} \X ToSet(MangleChains)
                      /\ k \notin {"nat"} \X ToSet(NatChains)
                      /\ k \notin {"filter"} \X ToSet(FilterChains)
  BY <1>1 DEF BuiltIn
<1>3. Own = ({"mangle"} \X ToSet(MangleChains)) \cup ({"nat"} \X ToSet(NatChains))
             \cup ({"filter"} \X ToSet(FilterChains))
  BY <1>2 DEF Own, Chain
<1>4. Dynamic \subseteq Own
  BY <1>1, <1>3 DEF Dynamic
<1>5. BuiltIn \subseteq Chain /\ Input \in BuiltIn
  BY DEF Chain, BuiltIn, Input
<1>6. \A k \in Chain : k = <<k[1], k[2]>>
  BY DEF Chain, BuiltIn
<1> QED BY <1>3, <1>4, <1>5, <1>6 DEF Own, Names

\* No rule of a thread or of a rule set names a chain.
LEMMA TargetFacts ==
    /\ Names \subseteq Targets
    /\ "client" \in Targets \ Names /\ "server" \in Targets \ Names
    /\ \A k \in BuiltIn : \A r \in Jumps(k) : <<k[1], r>> \in Own /\ r \in Names
<1>1. /\ ToSet(MangleChains) = {"Trusted", "Outgoing", "Incoming"}
      /\ ToSet(NatChains) = {"Outgoing", "WIFI2Router", "WIFI2Internet", "Global",
                             "Unknown", "AuthServers"}
      /\ ToSet(FilterChains) = {"WIFI2Internet", "AuthServers", "Locked", "Global",
                                "Validate", "Known", "Unknown", "Ddos"}
  BY DEF ToSet, MangleChains, NatChains, FilterChains
<1>2. \A k \in BuiltIn : k[2] \notin {"client", "server"}
  BY DEF BuiltIn
<1>3. \A k \in Own : k[2] \notin {"client", "server"}
  BY <1>1, ChainFacts
<1>4. "client" \notin Names /\ "server" \notin Names
  BY <1>2, <1>3, ChainFacts DEF Names
<1>5. \A k \in BuiltIn : \A r \in Jumps(k) : <<k[1], r>> \in Own
  BY <1>1, ChainFacts DEF BuiltIn, Jumps
<1>6. \A k \in Own : k[2] \in Names
  BY ChainFacts
<1>7. \A k \in BuiltIn : \A r \in Jumps(k) : r \in Names
  BY <1>5, <1>6
<1> QED BY <1>4, <1>5, <1>7 DEF Targets

\* The shapes that a change by a command has: a new chain, other rules in a
\* chain, a chain less.
MadeOf(f, k)       == [x \in DOMAIN f \cup {k} |-> IF x = k THEN <<>> ELSE f[x]]
RewrittenOf(f, k, s) == [f EXCEPT ![k] = s]

\* A new chain of wifidog leaves the tables in order.
LEMMA MadeSound ==
    ASSUME NEW f, Sound(f), NEW k \in Own, k \notin DOMAIN f
    PROVE  Sound(MadeOf(f, k))
<1> DEFINE g == MadeOf(f, k)
<1>1. /\ DOMAIN g = DOMAIN f \cup {k} /\ g[k] = <<>>
      /\ \A x \in DOMAIN f : g[x] = f[x]
  BY DEF MadeOf
<1>2. g = [x \in DOMAIN g |-> g[x]]
  BY DEF MadeOf
<1>3. k \in Chain /\ k \notin BuiltIn
  BY ChainFacts
<1> HIDE DEF g
<1>4. \A x \in DOMAIN g : g[x] \in Seq(Targets)
  BY <1>1, EmptySeq DEF Sound, Typed
<1>5. Typed(g)
  BY <1>1, <1>2, <1>3, <1>4 DEF Sound, Typed
<1>6. Usual(g) /\ DhcpOnce(g)
  BY <1>1, <1>3, ChainFacts DEF Sound, Typed, Usual, DhcpOnce
<1>7. ToSet(<<>>) = {}
  BY DEF ToSet
<1>8. Closed(g)
  BY <1>1, <1>7 DEF Sound, Closed
<1> QED BY <1>5, <1>6, <1>8 DEF Sound, g

\* So does a chain's new sequence of rules, if what is new in it fits.
LEMMA RewrittenSound ==
    ASSUME NEW f, Sound(f), NEW k \in DOMAIN f, NEW s \in Seq(Targets),
           \A r \in ToSet(s) \ ToSet(f[k]) :
                /\ k \in BuiltIn => r \in Jumps(k)
                /\ r \in Names => <<k[1], r>> \in DOMAIN f,
           k = Input => s \in {<<>>, <<"Outgoing">>}
    PROVE  Sound(RewrittenOf(f, k, s))
<1> DEFINE g == RewrittenOf(f, k, s)
<1>1. /\ DOMAIN g = DOMAIN f /\ g[k] = s
      /\ \A x \in DOMAIN f \ {k} : g[x] = f[x]
  BY DEF RewrittenOf
<1>2. g = [x \in DOMAIN g |-> g[x]]
  BY DEF RewrittenOf
<1> HIDE DEF g
<1>3. \A x \in DOMAIN g : g[x] \in Seq(Targets)
  BY <1>1 DEF Sound, Typed
<1>4. Typed(g)
  BY <1>1, <1>2, <1>3 DEF Sound, Typed
<1>5. Usual(g)
  BY <1>1 DEF Sound, Typed, Usual
<1>6. DhcpOnce(g)
  BY <1>1, ChainFacts DEF Sound, Typed, DhcpOnce
<1>7. Closed(g)
  <2> SUFFICES ASSUME NEW x \in DOMAIN g, NEW r \in ToSet(g[x]) \cap Names
               PROVE  <<x[1], r>> \in DOMAIN g
    BY DEF Closed
  <2>1. CASE x = k /\ r \notin ToSet(f[k])
    BY <2>1, <1>1
  <2>2. CASE ~(x = k /\ r \notin ToSet(f[k]))
    <3>1. r \in ToSet(f[x])
      BY <2>2, <1>1
    <3> QED BY <3>1, <1>1 DEF Sound, Closed
  <2> QED BY <2>1, <2>2
<1> QED BY <1>4, <1>5, <1>6, <1>7 DEF Sound, g

\* And the removal of a chain of wifidog that no rule names.
LEMMA RemovedSound ==
    ASSUME NEW f, Sound(f), NEW k \in Own, ~Mentioned(f, k[1], k[2])
    PROVE  Sound(Restrict(f, DOMAIN f \ {k}))
<1> DEFINE g == Restrict(f, DOMAIN f \ {k})
<1>1. DOMAIN g = DOMAIN f \ {k} /\ \A x \in DOMAIN g : g[x] = f[x]
  BY DEF Restrict
<1>2. g = [x \in DOMAIN g |-> g[x]]
  BY DEF Restrict
<1>3. k \in Chain /\ k \notin BuiltIn /\ k = <<k[1], k[2]>>
  BY ChainFacts
<1> HIDE DEF g
<1>4. Typed(g)
  BY <1>1, <1>2, <1>3 DEF Sound, Typed
<1>5. Usual(g) /\ DhcpOnce(g)
  BY <1>1, <1>3, ChainFacts DEF Sound, Typed, Usual, DhcpOnce
<1>6. Closed(g)
  <2> SUFFICES ASSUME NEW x \in DOMAIN g, NEW r \in ToSet(g[x]) \cap Names
               PROVE  <<x[1], r>> \in DOMAIN g
    BY DEF Closed
  <2>1. <<x[1], r>> \in DOMAIN f
    BY <1>1 DEF Sound, Closed
  <2>2. <<x[1], r>> # k
    BY <1>1, <1>3 DEF Mentioned
  <2> QED BY <1>1, <2>1, <2>2
<1> QED BY <1>4, <1>5, <1>6 DEF Sound, g

\* What each command does, for tables in order; nothing else is changed.
LEMMA ExecN ==
    ASSUME NEW f, NEW m, m.op = "N"
    PROVE  Exec(f, m) = IF Where(m) \in DOMAIN f THEN f ELSE MadeOf(f, Where(m))
BY DEF Exec, MadeOf, Where

\* -F
LEMMA ExecF ==
    ASSUME NEW f, NEW m, m.op = "F"
    PROVE  Exec(f, m) = IF Where(m) \in DOMAIN f THEN RewrittenOf(f, Where(m), <<>>) ELSE f
BY DEF Exec, RewrittenOf, Where

\* -X
LEMMA ExecX ==
    ASSUME NEW f, NEW m, m.op = "X"
    PROVE  Exec(f, m) =
              IF Where(m) \in DOMAIN f /\ f[Where(m)] = <<>> /\ ~Mentioned(f, m.t, m.c)
              THEN Restrict(f, DOMAIN f \ {Where(m)})
              ELSE f
BY DEF Exec, Where

\* -D with a number.
LEMMA ExecNumber ==
    ASSUME NEW f, NEW m, m.op = "nth"
    PROVE  Exec(f, m) =
              IF m.r \in DOMAIN f[Where(m)]
              THEN RewrittenOf(f, Where(m), RemoveAt(f[Where(m)], m.r))
              ELSE f
BY DEF Exec, RewrittenOf, Where

\* -A and -I
LEMMA ExecAdd ==
    ASSUME NEW f, NEW m, m.op \in {"A", "I"}
    PROVE  Exec(f, m) =
              IF Fits(f, m)
              THEN RewrittenOf(f, Where(m), IF m.op = "A" THEN Append(f[Where(m)], m.r)
                                                          ELSE <<m.r>> \o f[Where(m)])
              ELSE f
<1>1. CASE m.op = "A"
  BY <1>1 DEF Exec, RewrittenOf, Where
<1>2. CASE m.op = "I"
  BY <1>2 DEF Exec, RewrittenOf, Where
<1> QED BY <1>1, <1>2

\* -D with a rule.
LEMMA ExecD ==
    ASSUME NEW f, NEW m, m.op \in {"D", "mention"}
    PROVE  Exec(f, m) =
              IF Fits(f, m)
              THEN RewrittenOf(f, Where(m), RemoveFirst(f[Where(m)], m.r))
              ELSE f
BY DEF Exec, RewrittenOf, Where

\* The commands of the program and of other threads leave the tables in order,
\* if the rule for DHCP is added to a chain without it.
LEMMA ExecSound ==
    ASSUME NEW f, Sound(f), NEW m, DhcpIsNew(f, m),
           InitCommand(m) \/ DestroyCommand(m) \/ ThreadCommand(m) \/ DeleteByNumber(m)
    PROVE  Sound(Exec(f, m))
<1> DEFINE k == Where(m)
<1>1. k = <<m.t, m.c>> /\ k[1] = m.t /\ k[2] = m.c
  BY DEF Where
<1>2. /\ f \in [DOMAIN f -> Seq(Targets)] /\ BuiltIn \subseteq DOMAIN f
      /\ \A x \in BuiltIn : ToSet(f[x]) \subseteq Jumps(x)
      /\ f[Input] \in {<<>>, <<"Outgoing">>}
  BY DEF Sound, Typed, Usual, DhcpOnce
<1>3. Own \cap BuiltIn = {} /\ Dynamic \subseteq Own /\ Input \in BuiltIn
  BY ChainFacts
<1>4. m.op \in {"N", "F", "X", "nth", "A", "I", "D", "mention"}
  BY DEF InitCommand, DestroyCommand, ThreadCommand, DeleteByNumber
<1>5. m.op \in {"N", "F", "X"} => k \in Own
  BY <1>3 DEF InitCommand, DestroyCommand, ThreadCommand, DeleteByNumber
<1> HIDE DEF k
<1>6. CASE m.op = "N"
  BY <1>5, <1>6, ExecN, MadeSound DEF k
<1>7. CASE m.op = "F"
  <2>1. k # Input /\ <<>> \in Seq(Targets) /\ ToSet(<<>>) = {}
    BY <1>3, <1>5, <1>7, EmptySeq DEF ToSet
  <2>2. k \in DOMAIN f => Sound(RewrittenOf(f, k, <<>>))
    BY <2>1, RewrittenSound
  <2> QED BY <1>7, <2>2, ExecF DEF k
<1>8. CASE m.op = "X"
  BY <1>1, <1>5, <1>8, ExecX, RemovedSound DEF k
<1>9. CASE m.op = "nth"
  <2>1. k \in BuiltIn /\ k \in DOMAIN f /\ f[k] \in Seq(Targets)
    BY <1>2, <1>9 DEF k, InitCommand, DestroyCommand, ThreadCommand, DeleteByNumber
  <2>2. ASSUME m.r \in DOMAIN f[k] PROVE Sound(RewrittenOf(f, k, RemoveAt(f[k], m.r)))
    <3>1. m.r \in 1 .. Len(f[k])
      BY <2>1, <2>2
    <3>2. /\ RemoveAt(f[k], m.r) \in Seq(Targets)
          /\ ToSet(RemoveAt(f[k], m.r)) \subseteq ToSet(f[k])
      BY <2>1, <3>1, RemoveAtFacts
    <3>3. k = Input => RemoveAt(f[k], m.r) = <<>>
      <4>1. SUFFICES ASSUME k = Input PROVE RemoveAt(f[k], m.r) = <<>>
        OBVIOUS
      <4>2. Len(<<>>) = 0 /\ Len(<<"Outgoing">>) = 1
        OBVIOUS
      <4>3. f[k] # <<>>
        BY <3>1, <4>2
      <4>4. f[k] = <<"Outgoing">>
        BY <1>2, <4>1, <4>3
      <4>5. m.r = 1
        BY <3>1, <4>2, <4>4
      <4> QED BY <4>4, <4>5, RemoveOne
    <3> QED BY <2>1, <3>2, <3>3, RewrittenSound
  <2> QED BY <1>9, <2>2, ExecNumber DEF k
<1>10. CASE m.op \in {"A", "I"}
  <2> DEFINE s == IF m.op = "A" THEN Append(f[k], m.r) ELSE <<m.r>> \o f[k]
  <2>1. m.r \in Targets
    BY <1>10, TargetFacts DEF InitCommand, DestroyCommand, ThreadCommand, DeleteByNumber
  <2>2. ASSUME Fits(f, m) PROVE Sound(RewrittenOf(f, k, s))
    <3>1. k \in DOMAIN f /\ (m.r \in Names => <<k[1], m.r>> \in DOMAIN f)
      BY <1>1, <2>2 DEF Fits, IsThere
    <3>2. s \in Seq(Targets) /\ ToSet(s) = ToSet(f[k]) \cup {m.r}
      BY <1>2, <2>1, <3>1, AddFacts
    <3>3. k \in BuiltIn => m.r \in Jumps(k)
      BY <1>3, <1>10 DEF k, InitCommand, DestroyCommand, ThreadCommand, DeleteByNumber
    <3>4. k = Input => s = <<"Outgoing">>
      <4>1. SUFFICES ASSUME k = Input PROVE s = <<"Outgoing">>
        OBVIOUS
      <4>2. f[k] = <<>> /\ m.r = "Outgoing"
        BY <1>3, <1>10, <3>3, <4>1 DEF k, DhcpIsNew, Jumps, Input
      <4> QED BY <4>2
    <3> HIDE DEF s
    <3> QED BY <3>1, <3>2, <3>3, <3>4, RewrittenSound
  <2> QED BY <1>10, <2>2, ExecAdd DEF k
<1>11. CASE m.op \in {"D", "mention"}
  <2>1. ASSUME Fits(f, m) PROVE Sound(RewrittenOf(f, k, RemoveFirst(f[k], m.r)))
    <3>1. k \in DOMAIN f
      BY <1>1, <2>1 DEF Fits, IsThere
    <3>2. /\ RemoveFirst(f[k], m.r) \in Seq(Targets)
          /\ ToSet(RemoveFirst(f[k], m.r)) \subseteq ToSet(f[k])
      BY <1>2, <3>1, RemoveFirstFacts
    <3>3. k = Input => RemoveFirst(f[k], m.r) \in {<<>>, <<"Outgoing">>}
      <4>1. SUFFICES ASSUME k = Input PROVE RemoveFirst(f[k], m.r) \in {<<>>, <<"Outgoing">>}
        OBVIOUS
      <4>2. CASE m.r \in ToSet(f[k])
        <5>1. f[k] = <<"Outgoing">> /\ m.r = "Outgoing"
          BY <1>2, <4>1, <4>2 DEF ToSet
        <5> QED BY <5>1, RemoveOnly
      <4>3. CASE m.r \notin ToSet(f[k])
        BY <1>2, <3>1, <4>1, <4>3, RemoveFirstFacts
      <4> QED BY <4>2, <4>3
    <3> QED BY <3>1, <3>2, <3>3, RewrittenSound
  <2> QED BY <1>11, <2>1, ExecD DEF k
<1> QED BY <1>4, <1>6, <1>7, <1>8, <1>9, <1>10, <1>11

\* No command but -N adds a chain, and no command but -A and -I a rule.
LEMMA ExecShrinks ==
    ASSUME NEW f, Sound(f), NEW m, DestroyCommand(m) \/ DeleteByNumber(m)
    PROVE  /\ DOMAIN Exec(f, m) \subseteq DOMAIN f
           /\ \A x \in DOMAIN Exec(f, m) : ToSet(Exec(f, m)[x]) \subseteq ToSet(f[x])
<1> DEFINE k == Where(m)
<1>1. /\ f \in [DOMAIN f -> Seq(Targets)] /\ BuiltIn \subseteq DOMAIN f
      /\ k = <<m.t, m.c>>
  BY DEF Sound, Typed, Where
<1>2. m.op \in {"F", "X", "nth", "D", "mention"}
  BY DEF DestroyCommand, DeleteByNumber
<1>3. ASSUME NEW s, k \in DOMAIN f, ToSet(s) \subseteq ToSet(f[k])
      PROVE  /\ DOMAIN RewrittenOf(f, k, s) = DOMAIN f
             /\ \A x \in DOMAIN f : ToSet(RewrittenOf(f, k, s)[x]) \subseteq ToSet(f[x])
  BY <1>1, <1>3 DEF RewrittenOf
<1> HIDE DEF k
<1>4. CASE m.op = "F"
  <2>1. ToSet(<<>>) = {}
    BY DEF ToSet
  <2> QED BY <1>3, <1>4, <2>1, ExecF DEF k
<1>5. CASE m.op = "X"
  BY <1>5, ExecX DEF Restrict
<1>6. CASE m.op = "nth"
  <2>1. k \in DOMAIN f
    BY <1>1, <1>6 DEF k, DestroyCommand, DeleteByNumber
  <2>2. ASSUME m.r \in DOMAIN f[k] PROVE ToSet(RemoveAt(f[k], m.r)) \subseteq ToSet(f[k])
    <3>1. f[k] \in Seq(Targets)
      BY <1>1, <2>1
    <3>2. m.r \in 1 .. Len(f[k])
      BY <3>1, <2>2
    <3> QED BY <3>1, <3>2, RemoveAtFacts
  <2> QED BY <1>3, <1>6, <2>1, <2>2, ExecNumber DEF k
<1>7. CASE m.op \in {"D", "mention"}
  <2>1. Fits(f, m) => k \in DOMAIN f
    BY <1>1 DEF Fits, IsThere
  <2>2. k \in DOMAIN f => ToSet(RemoveFirst(f[k], m.r)) \subseteq ToSet(f[k])
    BY <1>1, RemoveFirstFacts
  <2> QED BY <1>3, <1>7, <2>1, <2>2, ExecD DEF k
<1> QED BY <1>2, <1>4, <1>5, <1>6, <1>7

\* Another thread leaves the chains there, and adds to its own only.
LEMMA ExecOfThread ==
    ASSUME NEW f, Sound(f), NEW m, ThreadCommand(m)
    PROVE  /\ DOMAIN Exec(f, m) = DOMAIN f
           /\ \A x \in DOMAIN f :
                ToSet(Exec(f, m)[x]) \subseteq
                    ToSet(f[x]) \cup IF x \in Dynamic THEN {"client", "server"} ELSE {}
           /\ \A x \in DOMAIN f \ Dynamic : Exec(f, m)[x] = f[x]
<1> DEFINE k == Where(m)
<1>1. f \in [DOMAIN f -> Seq(Targets)] /\ k = <<m.t, m.c>> /\ k \in Dynamic
  BY DEF Sound, Typed, Where, ThreadCommand
<1>2. ASSUME NEW s, k \in DOMAIN f, ToSet(s) \subseteq ToSet(f[k]) \cup {"client", "server"}
      PROVE  /\ DOMAIN RewrittenOf(f, k, s) = DOMAIN f
             /\ \A x \in DOMAIN f :
                    ToSet(RewrittenOf(f, k, s)[x]) \subseteq
                        ToSet(f[x]) \cup IF x \in Dynamic THEN {"client", "server"} ELSE {}
             /\ \A x \in DOMAIN f \ Dynamic : RewrittenOf(f, k, s)[x] = f[x]
  BY <1>1, <1>2 DEF RewrittenOf
<1>3. Fits(f, m) => k \in DOMAIN f
  BY <1>1 DEF Fits, IsThere
<1> HIDE DEF k
<1>4. CASE m.op = "F"
  <2>1. ToSet(<<>>) = {}
    BY DEF ToSet
  <2> QED BY <1>2, <1>4, <2>1, ExecF DEF k
<1>5. CASE m.op = "A"
  <2> DEFINE s == IF m.op = "A" THEN Append(f[k], m.r) ELSE <<m.r>> \o f[k]
  <2>1. m.r \in {"client", "server"} /\ m.r \in Targets
    BY <1>5, TargetFacts DEF ThreadCommand
  <2>2. ASSUME Fits(f, m) PROVE ToSet(s) = ToSet(f[k]) \cup {m.r}
    BY <1>1, <1>3, <2>1, <2>2, AddFacts
  <2>3. Exec(f, m) = IF Fits(f, m) THEN RewrittenOf(f, k, s) ELSE f
    <3>1. m.op \in {"A", "I"}
      BY <1>5
    <3> QED BY <3>1, ExecAdd DEF k
  <2> HIDE DEF s
  <2>4. CASE Fits(f, m)
    BY <1>2, <1>3, <2>1, <2>2, <2>3, <2>4
  <2>5. CASE ~Fits(f, m)
    BY <2>3, <2>5
  <2> QED BY <2>4, <2>5
<1>6. CASE m.op = "D"
  <2>1. k \in DOMAIN f => ToSet(RemoveFirst(f[k], m.r)) \subseteq ToSet(f[k])
    BY <1>1, RemoveFirstFacts
  <2> QED BY <1>2, <1>3, <1>6, <2>1, ExecD DEF k
<1> QED BY <1>4, <1>5, <1>6 DEF ThreadCommand

\* When fw_destroy() goes on from a jump, it is gone.
LEMMA JumpGone ==
    ASSUME NEW f, Sound(f), NEW m, DestroyCommand(m), m.op \in {"mention", "D"},
           ~Again(f, m)
    PROVE  m.r \notin ToSet(Exec(f, m)[Where(m)])
<1> DEFINE k == Where(m)
<1>1. k \in BuiltIn /\ k = <<m.t, m.c>> /\ k[1] = m.t /\ m.r \in Jumps(k)
  BY ChainFacts DEF Where, DestroyCommand, Jumps, Input
<1>2. f \in [DOMAIN f -> Seq(Targets)] /\ k \in DOMAIN f /\ f[k] \in Seq(Targets)
  BY <1>1 DEF Sound, Typed
<1>3. CASE ~Fits(f, m)
  <2>1. <<k[1], m.r>> \notin DOMAIN f /\ m.r \in Names
    BY <1>1, <1>2, <1>3 DEF Fits, IsThere
  <2>2. m.r \notin ToSet(f[k])
    BY <1>2, <2>1 DEF Sound, Closed
  <2> QED BY <1>3, <2>2, ExecD
<1>4. CASE Fits(f, m)
  <2>1. Exec(f, m)[k] = RemoveFirst(f[k], m.r)
    BY <1>2, <1>4, ExecD DEF RewrittenOf
  <2>2. CASE m.r \notin ToSet(f[k])
    BY <1>2, <2>1, <2>2, RemoveFirstFacts
  <2>3. CASE m.r \in ToSet(f[k])
    <3>1. m.op # "mention"
      BY <1>1, <1>4, <2>3 DEF Again
    <3>2. k = Input /\ f[k] \in {<<>>, <<"Outgoing">>}
      BY <3>1 DEF DestroyCommand, Sound, DhcpOnce
    <3>3. f[k] = <<"Outgoing">> /\ m.r = "Outgoing" /\ ToSet(<<>>) = {}
      BY <2>3, <3>2 DEF ToSet
    <3> QED BY <2>1, <3>3, RemoveOnly
  <2> QED BY <2>2, <2>3
<1> QED BY <1>3, <1>4

-------------------------------------------------------------------------------
(***************************************************************************)
(* The programs: which command fw_destroy() and fw_init() have where.      *)
(***************************************************************************)
Words ==
    {"all", "N", "F", "X", "A", "I", "D", "mention", "mangle", "nat", "filter",
     "PREROUTING", "POSTROUTING", "INPUT", "FORWARD", "Trusted", "Outgoing", "Incoming",
     "WIFI2Router", "WIFI2Internet", "Global", "Unknown", "AuthServers", "Locked",
     "Validate", "Known", "Ddos", "trusted", "rules", "accept", "redirect", "reject"}
Record == [op : Words, t : Words, c : Words, r : Words]

IsProgram(p) == p \in Seq(Record)
AreWords(cs) == cs \in Seq(Words)

\* p runs s and then u; p takes a table's chains cs down after what s does.
Joined(p, s, u)      == p = s \o u
TornDown(p, s, t, cs) == p = s \o Each("F", t, cs) \o Each("X", t, cs)

\* Each() has one command for each chain.
LEMMA EachFacts ==
    ASSUME NEW op \in Words, NEW t \in Words, NEW cs, AreWords(cs)
    PROVE  /\ IsProgram(Each(op, t, cs)) /\ Len(Each(op, t, cs)) = Len(cs)
           /\ \A j \in 1 .. Len(cs) : Each(op, t, cs)[j] = Command(op, t, cs[j], "all")
<1>1. Each(op, t, cs) = [j \in 1 .. Len(cs) |-> Command(op, t, cs[j], "all")]
  BY DEF Each, AreWords
<1>2. \A j \in 1 .. Len(cs) : Command(op, t, cs[j], "all") \in Record
  BY DEF Command, Record, Words, AreWords
<1>3. Len(cs) \in Nat /\ DOMAIN cs = 1 .. Len(cs)
  BY DEF AreWords
<1>4. IsProgram(Each(op, t, cs)) /\ Len(Each(op, t, cs)) = Len(cs)
  BY <1>1, <1>2, <1>3 DEF IsProgram
<1> QED BY <1>1, <1>4

\* Where the commands of two programs are in the one that runs both.
LEMMA ConcatAt ==
    ASSUME NEW s, IsProgram(s), NEW u, IsProgram(u), NEW p, Joined(p, s, u)
    PROVE  /\ IsProgram(p) /\ Len(p) = Len(s) + Len(u)
           /\ \A i \in 1 .. Len(s) : p[i] = s[i]
           /\ \A i \in Len(s) + 1 .. Len(s) + Len(u) : p[i] = u[i - Len(s)]
BY DEF IsProgram, Joined

\* Lengths are natural numbers.
LEMMA Lengths ==
    /\ \A s : IsProgram(s) => Len(s) \in Nat
    /\ \A cs : AreWords(cs) => Len(cs) \in Nat
BY DEF IsProgram, AreWords

\* A table is taken down jump by jump, then each chain is flushed, then each
\* is deleted.
LEMMA TableAt ==
    ASSUME NEW s, IsProgram(s), NEW t \in Words, NEW cs, AreWords(cs),
           NEW p, TornDown(p, s, t, cs)
    PROVE  /\ IsProgram(p) /\ Len(p) = Len(s) + Len(cs) + Len(cs)
           /\ \A i \in 1 .. Len(s) : p[i] = s[i]
           /\ \A i \in Len(s) + 1 .. Len(s) + Len(cs) :
                p[i] = Command("F", t, cs[i - Len(s)], "all")
           /\ \A i \in Len(s) + Len(cs) + 1 .. Len(s) + Len(cs) + Len(cs) :
                p[i] = Command("X", t, cs[i - (Len(s) + Len(cs))], "all")
<1> DEFINE fl == Each("F", t, cs)
           del == Each("X", t, cs)
           sf == s \o fl
           n == Len(s)
           l == Len(cs)
<1>1. /\ IsProgram(fl) /\ Len(fl) = l
      /\ \A j \in 1 .. l : fl[j] = Command("F", t, cs[j], "all")
      /\ IsProgram(del) /\ Len(del) = l
      /\ \A j \in 1 .. l : del[j] = Command("X", t, cs[j], "all")
  <2>1. "F" \in Words /\ "X" \in Words
    BY DEF Words
  <2> QED BY <2>1, EachFacts
<1>2. Joined(p, sf, del) /\ Joined(sf, s, fl)
  BY DEF Joined, TornDown
<1>3. n \in Nat /\ l \in Nat
  BY Lengths
<1>4. n = Len(s)
  OBVIOUS
<1> HIDE DEF fl, del, sf, n, l
<1>5. /\ IsProgram(sf) /\ Len(sf) = n + l
      /\ \A i \in 1 .. n : sf[i] = s[i]
      /\ \A i \in n + 1 .. n + l : sf[i] = fl[i - n]
  <2>1. /\ IsProgram(sf) /\ Len(sf) = Len(s) + Len(fl)
        /\ \A i \in 1 .. Len(s) : sf[i] = s[i]
        /\ \A i \in Len(s) + 1 .. Len(s) + Len(fl) : sf[i] = fl[i - Len(s)]
    <3>1. IsProgram(s) /\ IsProgram(fl) /\ Joined(sf, s, fl)
      BY <1>1, <1>2
    <3> QED BY ONLY <3>1, ConcatAt
  <2> QED BY ONLY <1>1, <1>4, <2>1
<1>6. /\ IsProgram(p) /\ Len(p) = n + l + l
      /\ \A i \in 1 .. n + l : p[i] = sf[i]
      /\ \A i \in n + l + 1 .. n + l + l : p[i] = del[i - (n + l)]
  <2>1. /\ IsProgram(p) /\ Len(p) = Len(sf) + Len(del)
        /\ \A i \in 1 .. Len(sf) : p[i] = sf[i]
        /\ \A i \in Len(sf) + 1 .. Len(sf) + Len(del) : p[i] = del[i - Len(sf)]
    <3>1. IsProgram(sf) /\ IsProgram(del) /\ Joined(p, sf, del)
      BY <1>1, <1>2, <1>5
    <3> QED BY ONLY <3>1, ConcatAt
  <2>2. Len(sf) = n + l /\ Len(del) = l
    BY <1>1, <1>5
  <2> QED BY ONLY <2>1, <2>2
<1>7. \A i \in n + 1 .. n + l : i - n \in 1 .. l
  BY <1>3
<1>8. \A i \in n + l + 1 .. n + l + l : i - (n + l) \in 1 .. l
  BY <1>3
<1>9. \A i \in n + 1 .. n + l : p[i] = Command("F", t, cs[i - n], "all")
  <2> SUFFICES ASSUME NEW i \in n + 1 .. n + l
               PROVE  p[i] = Command("F", t, cs[i - n], "all")
    OBVIOUS
  <2>1. i \in 1 .. n + l /\ i - n \in 1 .. l
    BY <1>3, <1>7
  <2> QED BY ONLY <1>1, <1>5, <1>6, <2>1
<1>10. \A i \in n + l + 1 .. n + l + l : p[i] = Command("X", t, cs[i - (n + l)], "all")
  BY ONLY <1>1, <1>6, <1>8
<1>11. \A i \in 1 .. n : p[i] = s[i]
  BY ONLY <1>3, <1>5, <1>6
<1> QED BY ONLY <1>6, <1>9, <1>10, <1>11 DEF n, l

\* The commands of fw_destroy().
LEMMA DestroyAt ==
    /\ IsProgram(FwDestroy) /\ Len(FwDestroy) = 41
    /\ FwDestroy[1] = Command("mention", "mangle", "PREROUTING", "Trusted")
    /\ FwDestroy[2] = Command("mention", "mangle", "PREROUTING", "Outgoing")
    /\ FwDestroy[3] = Command("mention", "mangle", "POSTROUTING", "Incoming")
    /\ FwDestroy[4] = Command("D", "mangle", "INPUT", "Outgoing")
    /\ \A i \in 5 .. 7 : FwDestroy[i] = Command("F", "mangle", MangleChains[i - 4], "all")
    /\ \A i \in 8 .. 10 : FwDestroy[i] = Command("X", "mangle", MangleChains[i - 7], "all")
    /\ FwDestroy[11] = Command("mention", "nat", "PREROUTING", "Outgoing")
    /\ \A i \in 12 .. 17 : FwDestroy[i] = Command("F", "nat", NatGone[i - 11], "all")
    /\ \A i \in 18 .. 23 : FwDestroy[i] = Command("X", "nat", NatGone[i - 17], "all")
    /\ FwDestroy[24] = Command("mention", "filter", "FORWARD", "WIFI2Internet")
    /\ FwDestroy[25] = Command("mention", "filter", "INPUT", "Ddos")
    /\ \A i \in 26 .. 33 : FwDestroy[i] = Command("F", "filter", FilterChains[i - 25], "all")
    /\ \A i \in 34 .. 41 : FwDestroy[i] = Command("X", "filter", FilterChains[i - 33], "all")
<1> DEFINE jm == <<Command("mention", "mangle", "PREROUTING", "Trusted"),
                   Command("mention", "mangle", "PREROUTING", "Outgoing"),
                   Command("mention", "mangle", "POSTROUTING", "Incoming"),
                   Command("D", "mangle", "INPUT", "Outgoing")>>
           jn == <<Command("mention", "nat", "PREROUTING", "Outgoing")>>
           jf == <<Command("mention", "filter", "FORWARD", "WIFI2Internet"),
                   Command("mention", "filter", "INPUT", "Ddos")>>
<1>0. "mangle" \in Words /\ "nat" \in Words /\ "filter" \in Words
  BY DEF Words
<1>1. /\ IsProgram(jm) /\ Len(jm) = 4
      /\ IsProgram(jn) /\ Len(jn) = 1
      /\ IsProgram(jf) /\ Len(jf) = 2
  BY DEF Command, Record, Words, IsProgram
<1>2. /\ AreWords(MangleChains) /\ Len(MangleChains) = 3
      /\ AreWords(NatGone) /\ Len(NatGone) = 6
      /\ AreWords(FilterChains) /\ Len(FilterChains) = 8
  BY DEF MangleChains, NatGone, FilterChains, Words, AreWords
<1>3. /\ jm[1] = Command("mention", "mangle", "PREROUTING", "Trusted")
      /\ jm[2] = Command("mention", "mangle", "PREROUTING", "Outgoing")
      /\ jm[3] = Command("mention", "mangle", "POSTROUTING", "Incoming")
      /\ jm[4] = Command("D", "mangle", "INPUT", "Outgoing")
      /\ jn[1] = Command("mention", "nat", "PREROUTING", "Outgoing")
      /\ jf[1] = Command("mention", "filter", "FORWARD", "WIFI2Internet")
      /\ jf[2] = Command("mention", "filter", "INPUT", "Ddos")
  OBVIOUS
<1>4. /\ TornDown(DestroyMangle, jm, "mangle", MangleChains)
      /\ TornDown(DestroyNat, jn, "nat", NatGone)
      /\ TornDown(DestroyFilter, jf, "filter", FilterChains)
  BY DEF TornDown, DestroyMangle, DestroyNat, DestroyFilter
<1> HIDE DEF jm, jn, jf
<1>5. /\ IsProgram(DestroyMangle) /\ Len(DestroyMangle) = 4 + 3 + 3
      /\ \A i \in 1 .. 4 : DestroyMangle[i] = jm[i]
      /\ \A i \in 4 + 1 .. 4 + 3 :
            DestroyMangle[i] = Command("F", "mangle", MangleChains[i - 4], "all")
      /\ \A i \in 4 + 3 + 1 .. 4 + 3 + 3 :
            DestroyMangle[i] = Command("X", "mangle", MangleChains[i - (4 + 3)], "all")
  <2>1. /\ IsProgram(jm) /\ "mangle" \in Words /\ AreWords(MangleChains)
        /\ TornDown(DestroyMangle, jm, "mangle", MangleChains)
    BY <1>0, <1>1, <1>2, <1>4
  <2>2. Len(jm) = 4 /\ Len(MangleChains) = 3
    BY <1>1, <1>2
  <2>3. /\ IsProgram(DestroyMangle)
        /\ Len(DestroyMangle) = Len(jm) + Len(MangleChains) + Len(MangleChains)
        /\ \A i \in 1 .. Len(jm) : DestroyMangle[i] = jm[i]
        /\ \A i \in Len(jm) + 1 .. Len(jm) + Len(MangleChains) :
              DestroyMangle[i] = Command("F", "mangle", MangleChains[i - Len(jm)], "all")
        /\ \A i \in Len(jm) + Len(MangleChains) + 1 ..
                    Len(jm) + Len(MangleChains) + Len(MangleChains) :
              DestroyMangle[i] =
                  Command("X", "mangle", MangleChains[i - (Len(jm) + Len(MangleChains))], "all")
    BY ONLY <2>1, TableAt
  <2> QED BY ONLY <2>2, <2>3
<1>6. /\ IsProgram(DestroyNat) /\ Len(DestroyNat) = 1 + 6 + 6
      /\ \A i \in 1 .. 1 : DestroyNat[i] = jn[i]
      /\ \A i \in 1 + 1 .. 1 + 6 : DestroyNat[i] = Command("F", "nat", NatGone[i - 1], "all")
      /\ \A i \in 1 + 6 + 1 .. 1 + 6 + 6 :
            DestroyNat[i] = Command("X", "nat", NatGone[i - (1 + 6)], "all")
  <2>1. /\ IsProgram(jn) /\ "nat" \in Words /\ AreWords(NatGone)
        /\ TornDown(DestroyNat, jn, "nat", NatGone)
    BY <1>0, <1>1, <1>2, <1>4
  <2>2. Len(jn) = 1 /\ Len(NatGone) = 6
    BY <1>1, <1>2
  <2>3. /\ IsProgram(DestroyNat) /\ Len(DestroyNat) = Len(jn) + Len(NatGone) + Len(NatGone)
        /\ \A i \in 1 .. Len(jn) : DestroyNat[i] = jn[i]
        /\ \A i \in Len(jn) + 1 .. Len(jn) + Len(NatGone) :
              DestroyNat[i] = Command("F", "nat", NatGone[i - Len(jn)], "all")
        /\ \A i \in Len(jn) + Len(NatGone) + 1 .. Len(jn) + Len(NatGone) + Len(NatGone) :
              DestroyNat[i] = Command("X", "nat", NatGone[i - (Len(jn) + Len(NatGone))], "all")
    BY ONLY <2>1, TableAt
  <2> QED BY ONLY <2>2, <2>3
<1>7. /\ IsProgram(DestroyFilter) /\ Len(DestroyFilter) = 2 + 8 + 8
      /\ \A i \in 1 .. 2 : DestroyFilter[i] = jf[i]
      /\ \A i \in 2 + 1 .. 2 + 8 :
            DestroyFilter[i] = Command("F", "filter", FilterChains[i - 2], "all")
      /\ \A i \in 2 + 8 + 1 .. 2 + 8 + 8 :
            DestroyFilter[i] = Command("X", "filter", FilterChains[i - (2 + 8)], "all")
  <2>1. /\ IsProgram(jf) /\ "filter" \in Words /\ AreWords(FilterChains)
        /\ TornDown(DestroyFilter, jf, "filter", FilterChains)
    BY <1>0, <1>1, <1>2, <1>4
  <2>2. Len(jf) = 2 /\ Len(FilterChains) = 8
    BY <1>1, <1>2
  <2>3. /\ IsProgram(DestroyFilter)
        /\ Len(DestroyFilter) = Len(jf) + Len(FilterChains) + Len(FilterChains)
        /\ \A i \in 1 .. Len(jf) : DestroyFilter[i] = jf[i]
        /\ \A i \in Len(jf) + 1 .. Len(jf) + Len(FilterChains) :
              DestroyFilter[i] = Command("F", "filter", FilterChains[i - Len(jf)], "all")
        /\ \A i \in Len(jf) + Len(FilterChains) + 1 ..
                    Len(jf) + Len(FilterChains) + Len(FilterChains) :
              DestroyFilter[i] =
                  Command("X", "filter", FilterChains[i - (Len(jf) + Len(FilterChains))], "all")
    BY ONLY <2>1, TableAt
  <2> QED BY ONLY <2>2, <2>3
<1> DEFINE mn == DestroyMangle \o DestroyNat
<1>8. Joined(FwDestroy, mn, DestroyFilter) /\ Joined(mn, DestroyMangle, DestroyNat)
  BY DEF Joined, FwDestroy
<1> HIDE DEF mn
<1>9. Len(DestroyMangle) = 10 /\ Len(DestroyNat) = 13 /\ Len(DestroyFilter) = 18
  BY ONLY <1>5, <1>6, <1>7
<1>10. /\ IsProgram(mn) /\ Len(mn) = 10 + 13
       /\ \A i \in 1 .. 10 : mn[i] = DestroyMangle[i]
       /\ \A i \in 10 + 1 .. 10 + 13 : mn[i] = DestroyNat[i - 10]
  <2>1. /\ IsProgram(DestroyMangle) /\ IsProgram(DestroyNat)
        /\ Joined(mn, DestroyMangle, DestroyNat)
    BY ONLY <1>5, <1>6, <1>8
  <2>2. /\ IsProgram(mn) /\ Len(mn) = Len(DestroyMangle) + Len(DestroyNat)
        /\ \A i \in 1 .. Len(DestroyMangle) : mn[i] = DestroyMangle[i]
        /\ \A i \in Len(DestroyMangle) + 1 .. Len(DestroyMangle) + Len(DestroyNat) :
              mn[i] = DestroyNat[i - Len(DestroyMangle)]
    BY ONLY <2>1, ConcatAt
  <2> QED BY ONLY <1>9, <2>2
<1>11. /\ IsProgram(FwDestroy) /\ Len(FwDestroy) = 23 + 18
       /\ \A i \in 1 .. 23 : FwDestroy[i] = mn[i]
       /\ \A i \in 23 + 1 .. 23 + 18 : FwDestroy[i] = DestroyFilter[i - 23]
  <2>1. IsProgram(mn) /\ IsProgram(DestroyFilter) /\ Joined(FwDestroy, mn, DestroyFilter)
    BY ONLY <1>7, <1>8, <1>10
  <2>2. /\ IsProgram(FwDestroy) /\ Len(FwDestroy) = Len(mn) + Len(DestroyFilter)
        /\ \A i \in 1 .. Len(mn) : FwDestroy[i] = mn[i]
        /\ \A i \in Len(mn) + 1 .. Len(mn) + Len(DestroyFilter) :
              FwDestroy[i] = DestroyFilter[i - Len(mn)]
    BY ONLY <2>1, ConcatAt
  <2>3. Len(mn) = 23 /\ Len(DestroyFilter) = 18
    BY ONLY <1>9, <1>10
  <2> QED BY ONLY <2>2, <2>3
<1>12. /\ \A i \in 1 .. 10 : FwDestroy[i] = DestroyMangle[i]
       /\ \A i \in 11 .. 23 : FwDestroy[i] = DestroyNat[i - 10]
       /\ \A i \in 24 .. 41 : FwDestroy[i] = DestroyFilter[i - 23]
  BY ONLY <1>10, <1>11
<1>13. /\ \A i \in 1 .. 4 : FwDestroy[i] = jm[i]
       /\ \A i \in 5 .. 7 : FwDestroy[i] = Command("F", "mangle", MangleChains[i - 4], "all")
       /\ \A i \in 8 .. 10 : FwDestroy[i] = Command("X", "mangle", MangleChains[i - 7], "all")
  BY ONLY <1>5, <1>12
<1>14. /\ FwDestroy[11] = jn[1]
       /\ \A i \in 12 .. 17 : FwDestroy[i] = Command("F", "nat", NatGone[i - 11], "all")
       /\ \A i \in 18 .. 23 : FwDestroy[i] = Command("X", "nat", NatGone[i - 17], "all")
  BY ONLY <1>6, <1>12
<1>15. /\ \A i \in 24 .. 25 : FwDestroy[i] = jf[i - 23]
       /\ \A i \in 26 .. 33 : FwDestroy[i] = Command("F", "filter", FilterChains[i - 25], "all")
       /\ \A i \in 34 .. 41 : FwDestroy[i] = Command("X", "filter", FilterChains[i - 33], "all")
  BY ONLY <1>7, <1>12
<1> QED BY ONLY <1>3, <1>11, <1>13, <1>14, <1>15

\* The chains by name.
LEMMA ChainSets ==
    /\ ToSet(MangleChains) = {"Trusted", "Outgoing", "Incoming"}
    /\ ToSet(NatChains) = {"Outgoing", "WIFI2Router", "WIFI2Internet", "Global",
                           "Unknown", "AuthServers"}
    /\ ToSet(FilterChains) = {"WIFI2Internet", "AuthServers", "Locked", "Global",
                              "Validate", "Known", "Unknown", "Ddos"}
BY DEF ToSet, MangleChains, NatChains, FilterChains

\* fw_destroy() flushes and deletes every chain of wifidog, a table's chains
\* in one go each.
LEMMA ChainAt ==
    ASSUME NEW k \in Own
    PROVE  \/ /\ k[1] = "mangle"
              /\ \E i \in 5 .. 7 : FwDestroy[i] = Command("F", k[1], k[2], "all")
              /\ \E i \in 8 .. 10 : FwDestroy[i] = Command("X", k[1], k[2], "all")
           \/ /\ k[1] = "nat"
              /\ \E i \in 12 .. 17 : FwDestroy[i] = Command("F", k[1], k[2], "all")
              /\ \E i \in 18 .. 23 : FwDestroy[i] = Command("X", k[1], k[2], "all")
           \/ /\ k[1] = "filter"
              /\ \E i \in 26 .. 33 : FwDestroy[i] = Command("F", k[1], k[2], "all")
              /\ \E i \in 34 .. 41 : FwDestroy[i] = Command("X", k[1], k[2], "all")
<1>1. CASE k \in {"mangle"} \X ToSet(MangleChains)
  <2>1. PICK j \in 1 .. 3 : MangleChains[j] = k[2]
    BY <1>1 DEF ToSet, MangleChains
  <2>2. 4 + j \in 5 .. 7 /\ 7 + j \in 8 .. 10 /\ (4 + j) - 4 = j /\ (7 + j) - 7 = j
    OBVIOUS
  <2>3. /\ FwDestroy[4 + j] = Command("F", "mangle", MangleChains[j], "all")
        /\ FwDestroy[7 + j] = Command("X", "mangle", MangleChains[j], "all")
    BY <2>2, DestroyAt
  <2> QED BY <1>1, <2>1, <2>2, <2>3
<1>2. CASE k \in {"nat"} \X ToSet(NatChains)
  <2>1. PICK j \in 1 .. 6 : NatGone[j] = k[2]
    <3>1. k[2] \in {"Outgoing", "WIFI2Router", "WIFI2Internet", "Global", "Unknown",
                    "AuthServers"}
      BY <1>2, ChainSets
    <3>2. /\ NatGone[1] = "AuthServers" /\ NatGone[2] = "Outgoing"
          /\ NatGone[3] = "WIFI2Router" /\ NatGone[4] = "WIFI2Internet"
          /\ NatGone[5] = "Global" /\ NatGone[6] = "Unknown"
      BY DEF NatGone
    <3> QED BY <3>1, <3>2
  <2>2. 11 + j \in 12 .. 17 /\ 17 + j \in 18 .. 23 /\ (11 + j) - 11 = j /\ (17 + j) - 17 = j
    OBVIOUS
  <2>3. /\ FwDestroy[11 + j] = Command("F", "nat", NatGone[j], "all")
        /\ FwDestroy[17 + j] = Command("X", "nat", NatGone[j], "all")
    BY <2>2, DestroyAt
  <2> QED BY <1>2, <2>1, <2>2, <2>3
<1>3. CASE k \in {"filter"} \X ToSet(FilterChains)
  <2>1. PICK j \in 1 .. 8 : FilterChains[j] = k[2]
    BY <1>3 DEF ToSet, FilterChains
  <2>2. 25 + j \in 26 .. 33 /\ 33 + j \in 34 .. 41 /\ (25 + j) - 25 = j /\ (33 + j) - 33 = j
    OBVIOUS
  <2>3. /\ FwDestroy[25 + j] = Command("F", "filter", FilterChains[j], "all")
        /\ FwDestroy[33 + j] = Command("X", "filter", FilterChains[j], "all")
    BY <2>2, DestroyAt
  <2> QED BY <1>3, <2>1, <2>2, <2>3
<1> QED BY <1>1, <1>2, <1>3, ChainFacts

\* It deletes every jump before.
LEMMA JumpAt ==
    ASSUME NEW k \in BuiltIn, NEW r \in Jumps(k)
    PROVE  \E i \in 1 .. 41 :
              /\ FwDestroy[i].op \in {"mention", "D"} /\ Where(FwDestroy[i]) = k
              /\ FwDestroy[i].r = r
              /\ \/ k[1] = "mangle" /\ i < 5
                 \/ k[1] = "nat" /\ i < 12
                 \/ k[1] = "filter" /\ i < 26
<1> DEFINE Is(i, op) == FwDestroy[i] = Command(op, k[1], k[2], r)
<1>1. ASSUME NEW i \in 1 .. 41, NEW op \in {"mention", "D"}, Is(i, op)
      PROVE  /\ FwDestroy[i].op \in {"mention", "D"} /\ Where(FwDestroy[i]) = k
             /\ FwDestroy[i].r = r
  <2>1. k = <<k[1], k[2]>>
    BY ChainFacts
  <2> QED BY <1>1, <2>1 DEF Command, Where
<1>2. CASE k = <<"mangle", "PREROUTING">>
  <2>1. r \in {"Trusted", "Outgoing"}
    BY <1>2 DEF Jumps
  <2> QED BY <1>1, <1>2, <2>1, DestroyAt
<1>3. CASE k = <<"mangle", "POSTROUTING">>
  <2>1. r = "Incoming"
    BY <1>3 DEF Jumps
  <2> QED BY <1>1, <1>3, <2>1, DestroyAt
<1>4. CASE k = <<"mangle", "INPUT">>
  <2>1. r = "Outgoing"
    BY <1>4 DEF Jumps
  <2> QED BY <1>1, <1>4, <2>1, DestroyAt
<1>5. CASE k = <<"nat", "PREROUTING">>
  <2>1. r = "Outgoing"
    BY <1>5 DEF Jumps
  <2> QED BY <1>1, <1>5, <2>1, DestroyAt
<1>6. CASE k = <<"filter", "FORWARD">>
  <2>1. r = "WIFI2Internet"
    BY <1>6 DEF Jumps
  <2> QED BY <1>1, <1>6, <2>1, DestroyAt
<1>7. CASE k = <<"filter", "INPUT">>
  <2>1. r = "Ddos"
    BY <1>7 DEF Jumps
  <2> QED BY <1>1, <1>7, <2>1, DestroyAt
<1> QED BY <1>2, <1>3, <1>4, <1>5, <1>6, <1>7 DEF BuiltIn

\* The commands of fw_destroy() are of three kinds.
LEMMA DestroyCommands ==
    ASSUME NEW j \in 1 .. 41
    PROVE  /\ DestroyCommand(FwDestroy[j])
           /\ FwDestroy[j].op = "X" =>
                \/ FwDestroy[j].t = "mangle" /\ j \in 8 .. 10
                \/ FwDestroy[j].t = "nat" /\ j \in 18 .. 23
                \/ FwDestroy[j].t = "filter" /\ j \in 34 .. 41
           /\ FwDestroy[j].op = "D" => j = 4
<1>1. CASE j \in {1, 2, 3, 4, 11, 24, 25}
  BY <1>1, DestroyAt DEF DestroyCommand, Command, Where, BuiltIn, Jumps, Input
<1>2. ASSUME NEW t, NEW c, NEW op \in {"F", "X"}, <<t, c>> \in Own,
             FwDestroy[j] = Command(op, t, c, "all")
      PROVE  DestroyCommand(FwDestroy[j]) /\ FwDestroy[j].op = op /\ FwDestroy[j].t = t
  BY <1>2 DEF DestroyCommand, Command, Where
<1>3. /\ \A i \in 1 .. 3 : <<"mangle", MangleChains[i]>> \in Own
      /\ \A i \in 1 .. 6 : <<"nat", NatGone[i]>> \in Own
      /\ \A i \in 1 .. 8 : <<"filter", FilterChains[i]>> \in Own
  BY ChainFacts, ChainSets DEF MangleChains, NatGone, FilterChains
<1>4. CASE j \in 5 .. 7
  <2>1. j - 4 \in 1 .. 3 /\ FwDestroy[j] = Command("F", "mangle", MangleChains[j - 4], "all")
    BY <1>4, DestroyAt
  <2> QED BY <1>2, <1>3, <2>1
<1>5. CASE j \in 8 .. 10
  <2>1. j - 7 \in 1 .. 3 /\ FwDestroy[j] = Command("X", "mangle", MangleChains[j - 7], "all")
    BY <1>5, DestroyAt
  <2> QED BY <1>2, <1>3, <1>5, <2>1
<1>6. CASE j \in 12 .. 17
  <2>1. j - 11 \in 1 .. 6 /\ FwDestroy[j] = Command("F", "nat", NatGone[j - 11], "all")
    BY <1>6, DestroyAt
  <2> QED BY <1>2, <1>3, <2>1
<1>7. CASE j \in 18 .. 23
  <2>1. j - 17 \in 1 .. 6 /\ FwDestroy[j] = Command("X", "nat", NatGone[j - 17], "all")
    BY <1>7, DestroyAt
  <2> QED BY <1>2, <1>3, <1>7, <2>1
<1>8. CASE j \in 26 .. 33
  <2>1. j - 25 \in 1 .. 8 /\ FwDestroy[j] = Command("F", "filter", FilterChains[j - 25], "all")
    BY <1>8, DestroyAt
  <2> QED BY <1>2, <1>3, <2>1
<1>9. CASE j \in 34 .. 41
  <2>1. j - 33 \in 1 .. 8 /\ FwDestroy[j] = Command("X", "filter", FilterChains[j - 33], "all")
    BY <1>9, DestroyAt
  <2> QED BY <1>2, <1>3, <1>9, <2>1
<1> QED BY <1>1, <1>4, <1>5, <1>6, <1>7, <1>8, <1>9

\* A part of fw_init() that has nothing to do with the rule for DHCP.
Plain(p) ==
    /\ IsProgram(p)
    /\ \A i \in 1 .. Len(p) : InitCommand(p[i]) /\ Where(p[i]) # Input

\* Two such parts are one.
LEMMA PlainJoin ==
    ASSUME NEW s, Plain(s), NEW u, Plain(u)
    PROVE  Plain(s \o u)
<1> DEFINE p == s \o u
<1>1. IsProgram(s) /\ IsProgram(u) /\ Joined(p, s, u)
  BY DEF Plain, Joined
<1> HIDE DEF p
<1>2. /\ IsProgram(p) /\ Len(p) = Len(s) + Len(u)
      /\ \A i \in 1 .. Len(s) : p[i] = s[i]
      /\ \A i \in Len(s) + 1 .. Len(s) + Len(u) : p[i] = u[i - Len(s)]
  BY ONLY <1>1, ConcatAt
<1>3. Len(s) \in Nat /\ Len(u) \in Nat
  BY <1>1, Lengths
<1>4. ASSUME NEW i \in 1 .. Len(p) PROVE InitCommand(p[i]) /\ Where(p[i]) # Input
  <2>1. CASE i \in 1 .. Len(s)
    BY <1>2, <2>1 DEF Plain
  <2>2. CASE i \notin 1 .. Len(s)
    <3>1. i \in Len(s) + 1 .. Len(s) + Len(u) /\ i - Len(s) \in 1 .. Len(u)
      BY <1>2, <1>3, <2>2
    <3> QED BY <1>2, <3>1 DEF Plain
  <2> QED BY <2>1, <2>2
<1> QED BY <1>2, <1>4 DEF Plain, p

\* Such commands, and parts of a few of them.
PlainCommand(m) == m \in Record /\ InitCommand(m) /\ Where(m) # Input

\* A part of two such commands, and one of four.
LEMMA PlainFew ==
    ASSUME NEW m1, PlainCommand(m1), NEW m2, PlainCommand(m2)
    PROVE  /\ Plain(<<m1, m2>>)
           /\ \A m3, m4 : PlainCommand(m3) /\ PlainCommand(m4) => Plain(<<m1, m2, m3, m4>>)
<1>1. Plain(<<m1, m2>>)
  <2>1. Len(<<m1, m2>>) = 2 /\ <<m1, m2>>[1] = m1 /\ <<m1, m2>>[2] = m2
    OBVIOUS
  <2>2. <<m1, m2>> \in Seq(Record)
    BY DEF PlainCommand
  <2> QED BY <2>1, <2>2 DEF Plain, IsProgram, PlainCommand
<1>2. ASSUME NEW m3, NEW m4, PlainCommand(m3), PlainCommand(m4)
      PROVE  Plain(<<m1, m2, m3, m4>>)
  <2> DEFINE p == <<m1, m2, m3, m4>>
  <2>1. Len(p) = 4 /\ p[1] = m1 /\ p[2] = m2 /\ p[3] = m3 /\ p[4] = m4
    OBVIOUS
  <2>2. p \in Seq(Record)
    BY <1>2 DEF PlainCommand
  <2> HIDE DEF p
  <2>3. Plain(p)
    BY <1>2, <2>1, <2>2 DEF Plain, IsProgram, PlainCommand
  <2> QED BY <2>3 DEF p
<1> QED BY <1>1, <1>2

\* A rule in a chain of wifidog, or a jump in a built-in one.
LEMMA PlainRule ==
    ASSUME NEW op \in {"A", "I"}, NEW t \in Words, NEW c \in Words, NEW r \in Words,
           \/ <<t, c>> \in Own \ Dynamic /\ r \in Targets
           \/ <<t, c>> \in BuiltIn \ {Input} /\ r \in Jumps(<<t, c>>)
    PROVE  PlainCommand(Command(op, t, c, r))
<1> DEFINE m == Command(op, t, c, r)
<1>1. m \in Record
  BY DEF Command, Record, Words
<1>2. m.op = op /\ Where(m) = <<t, c>> /\ m.r = r
  BY DEF Command, Where
<1> HIDE DEF m
<1>3. PlainCommand(m)
  BY <1>1, <1>2, ChainFacts DEF PlainCommand, InitCommand
<1> QED BY <1>3 DEF m

\* Creating chains of wifidog, and filling one.
LEMMA PlainEach ==
    ASSUME NEW t \in Words, NEW cs, AreWords(cs), \A j \in 1 .. Len(cs) : <<t, cs[j]>> \in Own
    PROVE  Plain(Each("N", t, cs))
<1>1. "N" \in Words
  BY DEF Words
<1>2. /\ IsProgram(Each("N", t, cs)) /\ Len(Each("N", t, cs)) = Len(cs)
      /\ \A j \in 1 .. Len(cs) : Each("N", t, cs)[j] = Command("N", t, cs[j], "all")
  BY <1>1, EachFacts
<1>3. Input \notin Own
  BY ChainFacts
<1>4. ASSUME NEW j \in 1 .. Len(cs)
      PROVE  InitCommand(Each("N", t, cs)[j]) /\ Where(Each("N", t, cs)[j]) # Input
  <2> DEFINE m == Each("N", t, cs)[j]
  <2>1. m = Command("N", t, cs[j], "all")
    BY <1>2
  <2> HIDE DEF m
  <2>2. m.op = "N" /\ Where(m) = <<t, cs[j]>>
    BY <2>1 DEF Where, Command
  <2>3. InitCommand(m) /\ Where(m) # Input
    BY <1>3, <2>2 DEF InitCommand
  <2> QED BY <2>3 DEF m
<1> QED BY <1>2, <1>4 DEF Plain

\* The rules of a chain.
Rules(rs) == AreWords(rs) /\ \A j \in 1 .. Len(rs) : rs[j] \in Targets

\* Adding them one by one.
LEMMA PlainFill ==
    ASSUME NEW t \in Words, NEW c \in Words, <<t, c>> \in Own \ Dynamic, NEW rs, Rules(rs)
    PROVE  Plain(Fill(t, c, rs))
<1>0. AreWords(rs) /\ \A j \in 1 .. Len(rs) : rs[j] \in Targets
  BY DEF Rules
<1>1. Fill(t, c, rs) = [j \in 1 .. Len(rs) |-> Command("A", t, c, rs[j])]
  BY <1>0 DEF Fill, AreWords
<1>2. \A j \in 1 .. Len(rs) : Command("A", t, c, rs[j]) \in Record
  BY <1>0 DEF Command, Record, Words, AreWords
<1>3. Len(rs) \in Nat
  BY <1>0 DEF AreWords
<1>4. IsProgram(Fill(t, c, rs)) /\ Len(Fill(t, c, rs)) = Len(rs)
  BY <1>1, <1>2, <1>3 DEF IsProgram
<1>5. Input \notin Own
  BY ChainFacts
<1>6. ASSUME NEW j \in 1 .. Len(rs)
      PROVE  InitCommand(Fill(t, c, rs)[j]) /\ Where(Fill(t, c, rs)[j]) # Input
  <2> DEFINE m == Fill(t, c, rs)[j]
  <2>1. m = Command("A", t, c, rs[j])
    BY <1>1
  <2> HIDE DEF m
  <2>2. m.op = "A" /\ Where(m) = <<t, c>> /\ m.r \in Targets
    BY <1>0, <2>1 DEF Where, Command
  <2>3. InitCommand(m) /\ Where(m) # Input
    BY <1>5, <2>2 DEF InitCommand
  <2> QED BY <2>3 DEF m
<1> QED BY <1>4, <1>6 DEF Plain

\* The words of the program: chains of wifidog, and targets.
LEMMA WordFacts ==
    /\ "mangle" \in Words /\ "nat" \in Words /\ "filter" \in Words
    /\ \A r \in {"Trusted", "Outgoing", "Incoming"} : <<"mangle", r>> \in Own /\ r \in Words
    /\ \A r \in {"Outgoing", "WIFI2Router", "WIFI2Internet", "Global", "Unknown",
                 "AuthServers"} : <<"nat", r>> \in Own /\ r \in Words
    /\ \A r \in {"WIFI2Internet", "AuthServers", "Locked", "Global", "Validate", "Known",
                 "Unknown", "Ddos"} : <<"filter", r>> \in Own /\ r \in Words
    /\ \A r \in {"Trusted", "Outgoing", "Incoming", "WIFI2Router", "WIFI2Internet", "Global",
                 "Unknown", "AuthServers", "Locked", "Validate", "Known", "Ddos", "trusted",
                 "rules", "accept", "redirect", "reject"} : r \in Targets /\ r \in Words
    /\ \A r : <<"mangle", r>> \in Dynamic => r \in {"Outgoing", "Incoming"}
    /\ \A r : <<"nat", r>> \in Dynamic => r = "AuthServers"
    /\ \A r : <<"filter", r>> \in Dynamic => r = "AuthServers"
<1>1. /\ \A r \in {"Trusted", "Outgoing", "Incoming"} : <<"mangle", r>> \in Own
      /\ \A r \in {"Outgoing", "WIFI2Router", "WIFI2Internet", "Global", "Unknown",
                   "AuthServers"} : <<"nat", r>> \in Own
      /\ \A r \in {"WIFI2Internet", "AuthServers", "Locked", "Global", "Validate", "Known",
                   "Unknown", "Ddos"} : <<"filter", r>> \in Own
  BY ChainFacts, ChainSets
<1>2. \A t, r : <<t, r>> \in Own => r \in Names
  BY ChainFacts
<1>3. \A r \in {"Trusted", "Outgoing", "Incoming", "WIFI2Router", "WIFI2Internet", "Global",
                "Unknown", "AuthServers", "Locked", "Validate", "Known", "Ddos"} : r \in Names
  BY <1>1, <1>2
<1>4. \A r \in {"Trusted", "Outgoing", "Incoming", "WIFI2Router", "WIFI2Internet", "Global",
                "Unknown", "AuthServers", "Locked", "Validate", "Known", "Ddos", "trusted",
                "rules", "accept", "redirect", "reject"} : r \in Words
  BY DEF Words
<1>5. /\ \A r : <<"mangle", r>> \in Dynamic => r \in {"Outgoing", "Incoming"}
      /\ \A r : <<"nat", r>> \in Dynamic => r = "AuthServers"
      /\ \A r : <<"filter", r>> \in Dynamic => r = "AuthServers"
  BY DEF Dynamic
<1> QED BY <1>1, <1>3, <1>4, <1>5 DEF Targets, Words

\* iptables_fw_init() in the table nat.
LEMMA InitNatPlain == Plain(InitNat)
<1>1. Plain(Each("N", "nat", NatChains))
  <2>1. AreWords(NatChains)
    BY DEF AreWords, NatChains, Words
  <2>2. \A j \in 1 .. Len(NatChains) : <<"nat", NatChains[j]>> \in Own
    BY WordFacts DEF NatChains
  <2> QED BY <2>1, <2>2, WordFacts, PlainEach
<1> DEFINE m1 == Command("A", "nat", "PREROUTING", "Outgoing")
           m2 == Command("A", "nat", "Outgoing", "WIFI2Router")
           m3 == Command("A", "nat", "WIFI2Router", "accept")
           m4 == Command("A", "nat", "Outgoing", "WIFI2Internet")
<1>2. Plain(<<m1, m2, m3, m4>>)
  <2>1. "PREROUTING" \in Words
    BY DEF Words
  <2>2. /\ <<"nat", "PREROUTING">> \in BuiltIn \ {Input}
        /\ "Outgoing" \in Jumps(<<"nat", "PREROUTING">>)
    BY DEF BuiltIn, Input, Jumps
  <2>3. PlainCommand(m1)
    BY <2>1, <2>2, WordFacts, PlainRule
  <2>4. PlainCommand(m2) /\ PlainCommand(m3) /\ PlainCommand(m4)
    BY WordFacts, PlainRule
  <2> HIDE DEF m1, m2, m3, m4
  <2> QED BY <2>3, <2>4, PlainFew
<1> DEFINE f1 == Fill("nat", "WIFI2Internet",
                      <<"redirect", "redirect", "accept", "accept", "Unknown">>)
           f2 == Fill("nat", "Unknown", <<"AuthServers", "Global", "redirect">>)
<1>3. Plain(f1)
  <2> DEFINE rs == <<"redirect", "redirect", "accept", "accept", "Unknown">>
  <2>1. Rules(rs)
    BY WordFacts DEF Rules, AreWords
  <2> HIDE DEF rs
  <2>2. Plain(Fill("nat", "WIFI2Internet", rs))
    BY <2>1, WordFacts, PlainFill
  <2> QED BY <2>2 DEF rs
<1>4. Plain(f2)
  <2> DEFINE rs == <<"AuthServers", "Global", "redirect">>
  <2>1. Rules(rs)
    BY WordFacts DEF Rules, AreWords
  <2> HIDE DEF rs
  <2>2. Plain(Fill("nat", "Unknown", rs))
    BY <2>1, WordFacts, PlainFill
  <2> QED BY <2>2 DEF rs
<1> DEFINE e == Each("N", "nat", NatChains)
           c == <<m1, m2, m3, m4>>
<1>5. InitNat = ((e \o c) \o f1) \o f2
  BY DEF InitNat
<1> HIDE DEF e, c, f1, f2
<1>6. Plain(e \o c)
  BY <1>1, <1>2, PlainJoin DEF e, c
<1>7. Plain((e \o c) \o f1)
  BY <1>3, <1>6, PlainJoin
<1>8. Plain(((e \o c) \o f1) \o f2)
  BY <1>4, <1>7, PlainJoin
<1> QED BY <1>5, <1>8

\* The rules that fw_init() fills the chains of the table filter with.
LEMMA RuleLists ==
    /\ Rules(<<"reject", "AuthServers", "Locked">>)
    /\ Rules(<<"rules">>)
    /\ Rules(<<"Global">>)
    /\ Rules(<<"Validate">>)
    /\ Rules(<<"Known">>)
    /\ Rules(<<"Unknown">>)
    /\ Rules(<<"rules", "reject">>)
    /\ Rules(<<"accept", "accept", "reject">>)
<1>1. Rules(<<"reject", "AuthServers", "Locked">>)
  BY WordFacts DEF Rules, AreWords
<1>2. Rules(<<"rules">>)
  BY WordFacts DEF Rules, AreWords
<1>3. Rules(<<"Global">>)
  BY WordFacts DEF Rules, AreWords
<1>4. Rules(<<"Validate">>)
  BY WordFacts DEF Rules, AreWords
<1>5. Rules(<<"Known">>)
  BY WordFacts DEF Rules, AreWords
<1>6. Rules(<<"Unknown">>)
  BY WordFacts DEF Rules, AreWords
<1>7. Rules(<<"rules", "reject">>)
  BY WordFacts DEF Rules, AreWords
<1>8. Rules(<<"accept", "accept", "reject">>)
  BY WordFacts DEF Rules, AreWords
<1> QED BY <1>1, <1>2, <1>3, <1>4, <1>5, <1>6, <1>7, <1>8

\* iptables_fw_init() in the table filter.
LEMMA InitFilterPlain == Plain(InitFilter)
<1> DEFINE e == Each("N", "filter", FilterChains)
           c == <<Command("I", "filter", "FORWARD", "WIFI2Internet"),
                  Command("I", "filter", "INPUT", "Ddos")>>
           f1 == Fill("filter", "WIFI2Internet", <<"reject", "AuthServers", "Locked">>)
           f2 == Fill("filter", "Locked", <<"rules">>)
           f3 == Fill("filter", "WIFI2Internet", <<"Global">>)
           f4 == Fill("filter", "Global", <<"rules">>)
           f5 == Fill("nat", "Global", <<"rules">>)
           f6 == Fill("filter", "WIFI2Internet", <<"Validate">>)
           f7 == Fill("filter", "Validate", <<"rules">>)
           f8 == Fill("filter", "WIFI2Internet", <<"Known">>)
           f9 == Fill("filter", "Known", <<"rules">>)
           f10 == Fill("filter", "WIFI2Internet", <<"Unknown">>)
           f11 == Fill("filter", "Unknown", <<"rules", "reject">>)
           f12 == Fill("filter", "Ddos", <<"accept", "accept", "reject">>)
<1>1. Plain(e)
  <2>1. AreWords(FilterChains)
    BY DEF AreWords, FilterChains, Words
  <2>2. \A j \in 1 .. Len(FilterChains) : <<"filter", FilterChains[j]>> \in Own
    BY WordFacts DEF FilterChains
  <2> QED BY <2>1, <2>2, WordFacts, PlainEach
<1>2. Plain(c)
  <2> DEFINE m1 == Command("I", "filter", "FORWARD", "WIFI2Internet")
             m2 == Command("I", "filter", "INPUT", "Ddos")
  <2>1. "FORWARD" \in Words /\ "INPUT" \in Words
    BY DEF Words
  <2>2. /\ <<"filter", "FORWARD">> \in BuiltIn \ {Input}
        /\ "WIFI2Internet" \in Jumps(<<"filter", "FORWARD">>)
        /\ <<"filter", "INPUT">> \in BuiltIn \ {Input}
        /\ "Ddos" \in Jumps(<<"filter", "INPUT">>)
    BY DEF BuiltIn, Input, Jumps
  <2>3. PlainCommand(m1) /\ PlainCommand(m2)
    BY <2>1, <2>2, WordFacts, PlainRule
  <2> HIDE DEF m1, m2
  <2>4. Plain(<<m1, m2>>)
    BY <2>3, PlainFew
  <2> QED BY <2>4 DEF m1, m2
<1>3. /\ Plain(f1) /\ Plain(f2) /\ Plain(f3) /\ Plain(f4)
      /\ Plain(f5) /\ Plain(f6) /\ Plain(f7) /\ Plain(f8)
      /\ Plain(f9) /\ Plain(f10) /\ Plain(f11) /\ Plain(f12)
  <2>1. Plain(f1)
    BY WordFacts, RuleLists, PlainFill
  <2>2. Plain(f2)
    BY WordFacts, RuleLists, PlainFill
  <2>3. Plain(f3)
    BY WordFacts, RuleLists, PlainFill
  <2>4. Plain(f4)
    BY WordFacts, RuleLists, PlainFill
  <2>5. Plain(f5)
    BY WordFacts, RuleLists, PlainFill
  <2>6. Plain(f6)
    BY WordFacts, RuleLists, PlainFill
  <2>7. Plain(f7)
    BY WordFacts, RuleLists, PlainFill
  <2>8. Plain(f8)
    BY WordFacts, RuleLists, PlainFill
  <2>9. Plain(f9)
    BY WordFacts, RuleLists, PlainFill
  <2>10. Plain(f10)
    BY WordFacts, RuleLists, PlainFill
  <2>11. Plain(f11)
    BY WordFacts, RuleLists, PlainFill
  <2>12. Plain(f12)
    BY WordFacts, RuleLists, PlainFill
  <2> QED BY <2>1, <2>2, <2>3, <2>4, <2>5, <2>6, <2>7, <2>8, <2>9, <2>10, <2>11, <2>12
<1>4. InitFilter = e \o c \o f1 \o f2 \o f3 \o f4 \o f5 \o f6 \o f7 \o f8 \o f9 \o f10
                   \o f11 \o f12
  BY DEF InitFilter
<1> HIDE DEF e, c, f1, f2, f3, f4, f5, f6, f7, f8, f9, f10, f11, f12
<1>5. Plain(e \o c)
  BY <1>1, <1>2, PlainJoin
<1>6. Plain(e \o c \o f1)
  BY <1>3, <1>5, PlainJoin
<1>7. Plain(e \o c \o f1 \o f2)
  BY <1>3, <1>6, PlainJoin
<1>8. Plain(e \o c \o f1 \o f2 \o f3)
  BY <1>3, <1>7, PlainJoin
<1>9. Plain(e \o c \o f1 \o f2 \o f3 \o f4)
  BY <1>3, <1>8, PlainJoin
<1>10. Plain(e \o c \o f1 \o f2 \o f3 \o f4 \o f5)
  BY <1>3, <1>9, PlainJoin
<1>11. Plain(e \o c \o f1 \o f2 \o f3 \o f4 \o f5 \o f6)
  BY <1>3, <1>10, PlainJoin
<1>12. Plain(e \o c \o f1 \o f2 \o f3 \o f4 \o f5 \o f6 \o f7)
  BY <1>3, <1>11, PlainJoin
<1>13. Plain(e \o c \o f1 \o f2 \o f3 \o f4 \o f5 \o f6 \o f7 \o f8)
  BY <1>3, <1>12, PlainJoin
<1>14. Plain(e \o c \o f1 \o f2 \o f3 \o f4 \o f5 \o f6 \o f7 \o f8 \o f9)
  BY <1>3, <1>13, PlainJoin
<1>15. Plain(e \o c \o f1 \o f2 \o f3 \o f4 \o f5 \o f6 \o f7 \o f8 \o f9 \o f10)
  BY <1>3, <1>14, PlainJoin
<1>16. Plain(e \o c \o f1 \o f2 \o f3 \o f4 \o f5 \o f6 \o f7 \o f8 \o f9 \o f10 \o f11)
  BY <1>3, <1>15, PlainJoin
<1>17. Plain(e \o c \o f1 \o f2 \o f3 \o f4 \o f5 \o f6 \o f7 \o f8 \o f9 \o f10 \o f11 \o f12)
  BY <1>3, <1>16, PlainJoin
<1> QED BY <1>4, <1>17

\* iptables_fw_init() in the table mangle: the seventh command adds the rule
\* for DHCP.
LEMMA InitMangleAt ==
    /\ IsProgram(InitMangle) /\ Len(InitMangle) = 8
    /\ \A i \in 1 .. 8 : InitCommand(InitMangle[i]) /\ (Where(InitMangle[i]) = Input => i = 7)
<1> DEFINE e == Each("N", "mangle", MangleChains)
           m1 == Command("I", "mangle", "PREROUTING", "Outgoing")
           m2 == Command("I", "mangle", "PREROUTING", "Trusted")
           m3 == Command("I", "mangle", "POSTROUTING", "Incoming")
           m4 == Command("A", "mangle", "INPUT", "Outgoing")
           c == <<m1, m2, m3, m4>>
           f == Fill("mangle", "Trusted", <<"trusted">>)
<1>1. Plain(e) /\ Len(e) = 3
  <2>1. AreWords(MangleChains) /\ Len(MangleChains) = 3
    BY DEF AreWords, MangleChains, Words
  <2>2. \A j \in 1 .. Len(MangleChains) : <<"mangle", MangleChains[j]>> \in Own
    BY WordFacts DEF MangleChains
  <2>3. Len(e) = 3
    BY <2>1 DEF Each, MangleChains
  <2> QED BY <2>1, <2>2, <2>3, WordFacts, PlainEach
<1>2. Plain(f) /\ Len(f) = 1
  <2>1. Rules(<<"trusted">>)
    BY WordFacts DEF Rules, AreWords
  <2>2. Len(f) = 1
    BY DEF Fill
  <2> QED BY <2>1, <2>2, WordFacts, PlainFill
<1>3. /\ "PREROUTING" \in Words /\ "POSTROUTING" \in Words /\ "INPUT" \in Words
      /\ "A" \in Words /\ "I" \in Words
  BY DEF Words
<1>4. /\ <<"mangle", "PREROUTING">> \in BuiltIn \ {Input}
      /\ {"Outgoing", "Trusted"} \subseteq Jumps(<<"mangle", "PREROUTING">>)
      /\ <<"mangle", "POSTROUTING">> \in BuiltIn \ {Input}
      /\ "Incoming" \in Jumps(<<"mangle", "POSTROUTING">>)
      /\ <<"mangle", "INPUT">> \in BuiltIn /\ "Outgoing" \in Jumps(<<"mangle", "INPUT">>)
  BY DEF BuiltIn, Input, Jumps
<1>5. PlainCommand(m1) /\ PlainCommand(m2) /\ PlainCommand(m3)
  BY <1>3, <1>4, WordFacts, PlainRule
<1>6. m4 \in Record /\ InitCommand(m4)
  BY <1>3, <1>4, WordFacts DEF Record, Command, InitCommand, Where
<1>7. IsProgram(c) /\ Len(c) = 4 /\ c[1] = m1 /\ c[2] = m2 /\ c[3] = m3 /\ c[4] = m4
  <2> HIDE DEF m1, m2, m3, m4
  <2>1. {m1, m2, m3, m4} \subseteq Record
    BY <1>5, <1>6 DEF PlainCommand
  <2> QED BY <2>1 DEF IsProgram
<1>8. Joined(e \o c, e, c) /\ Joined(InitMangle, e \o c, f)
  BY DEF Joined, InitMangle
<1> HIDE DEF e, c, f, m1, m2, m3, m4
<1>9. IsProgram(e) /\ IsProgram(f)
  BY <1>1, <1>2 DEF Plain
<1>10. /\ IsProgram(e \o c) /\ Len(e \o c) = 3 + 4
       /\ \A i \in 1 .. 3 : (e \o c)[i] = e[i]
       /\ \A i \in 3 + 1 .. 3 + 4 : (e \o c)[i] = c[i - 3]
  <2> DEFINE p == e \o c
  <2>1. Joined(p, e, c)
    BY <1>8
  <2> HIDE DEF p
  <2>2. /\ IsProgram(p) /\ Len(p) = Len(e) + Len(c)
        /\ \A i \in 1 .. Len(e) : p[i] = e[i]
        /\ \A i \in Len(e) + 1 .. Len(e) + Len(c) : p[i] = c[i - Len(e)]
    <3>1. IsProgram(e) /\ IsProgram(c) /\ Joined(p, e, c)
      BY <1>7, <1>9, <2>1
    <3> QED BY ONLY <3>1, ConcatAt
  <2>3. Len(e) = 3 /\ Len(c) = 4
    BY <1>1, <1>7
  <2>4. /\ IsProgram(p) /\ Len(p) = 3 + 4
        /\ \A i \in 1 .. 3 : p[i] = e[i]
        /\ \A i \in 3 + 1 .. 3 + 4 : p[i] = c[i - 3]
    BY ONLY <2>2, <2>3
  <2> QED BY <2>4 DEF p
<1> DEFINE q == e \o c
<1>11. /\ IsProgram(q) /\ Len(q) = 7 /\ Joined(InitMangle, q, f)
       /\ \A i \in 1 .. 3 : q[i] = e[i]
       /\ q[4] = m1 /\ q[5] = m2 /\ q[6] = m3 /\ q[7] = m4
  BY <1>7, <1>8, <1>10
<1> HIDE DEF q
<1>12. /\ IsProgram(InitMangle) /\ Len(InitMangle) = 8
       /\ \A i \in 1 .. 7 : InitMangle[i] = q[i]
       /\ InitMangle[8] = f[1]
  <2>1. /\ IsProgram(InitMangle) /\ Len(InitMangle) = Len(q) + Len(f)
        /\ \A i \in 1 .. Len(q) : InitMangle[i] = q[i]
        /\ \A i \in Len(q) + 1 .. Len(q) + Len(f) : InitMangle[i] = f[i - Len(q)]
    <3>1. IsProgram(q) /\ IsProgram(f) /\ Joined(InitMangle, q, f)
      BY <1>9, <1>11
    <3> QED BY ONLY <3>1, ConcatAt
  <2>2. Len(q) = 7 /\ Len(f) = 1
    BY <1>2, <1>11
  <2> QED BY ONLY <2>1, <2>2
<1>13. \A i \in 1 .. 3 : InitCommand(e[i]) /\ Where(e[i]) # Input
  BY <1>1 DEF Plain
<1>14. InitCommand(f[1]) /\ Where(f[1]) # Input
  BY <1>2 DEF Plain
<1> QED BY ONLY <1>5, <1>6, <1>11, <1>12, <1>13, <1>14 DEF PlainCommand

\* The commands of fw_init().
LEMMA InitAt ==
    /\ IsProgram(FwInit) /\ Len(FwInit) = 53
    /\ \A i \in 1 .. 53 : InitCommand(FwInit[i]) /\ (Where(FwInit[i]) = Input => i = 7)
<1>1. Len(InitNat) = 18 /\ Len(InitFilter) = 27
  BY DEF InitNat, InitFilter, Each, Fill, NatChains, FilterChains, Command
<1>2. Plain(InitNat) /\ Plain(InitFilter) /\ IsProgram(InitNat) /\ IsProgram(InitFilter)
  BY InitNatPlain, InitFilterPlain DEF Plain
<1> DEFINE mn == InitMangle \o InitNat
<1>3. Joined(mn, InitMangle, InitNat) /\ Joined(FwInit, mn, InitFilter)
  BY DEF Joined, FwInit
<1> HIDE DEF mn
<1>4. IsProgram(InitMangle) /\ Len(InitMangle) = 8
  BY InitMangleAt
<1>5. /\ IsProgram(mn) /\ Len(mn) = 26
      /\ \A i \in 1 .. 8 : mn[i] = InitMangle[i]
      /\ \A i \in 9 .. 26 : mn[i] = InitNat[i - 8]
  <2>1. /\ IsProgram(mn) /\ Len(mn) = Len(InitMangle) + Len(InitNat)
        /\ \A i \in 1 .. Len(InitMangle) : mn[i] = InitMangle[i]
        /\ \A i \in Len(InitMangle) + 1 .. Len(InitMangle) + Len(InitNat) :
                mn[i] = InitNat[i - Len(InitMangle)]
    <3>1. IsProgram(InitMangle) /\ IsProgram(InitNat) /\ Joined(mn, InitMangle, InitNat)
      BY <1>2, <1>3, <1>4
    <3> QED BY ONLY <3>1, ConcatAt
  <2> QED BY ONLY <1>1, <1>4, <2>1
<1>6. /\ IsProgram(FwInit) /\ Len(FwInit) = 53
      /\ \A i \in 1 .. 26 : FwInit[i] = mn[i]
      /\ \A i \in 27 .. 53 : FwInit[i] = InitFilter[i - 26]
  <2>1. /\ IsProgram(FwInit) /\ Len(FwInit) = Len(mn) + Len(InitFilter)
        /\ \A i \in 1 .. Len(mn) : FwInit[i] = mn[i]
        /\ \A i \in Len(mn) + 1 .. Len(mn) + Len(InitFilter) :
                FwInit[i] = InitFilter[i - Len(mn)]
    <3>1. IsProgram(mn) /\ IsProgram(InitFilter) /\ Joined(FwInit, mn, InitFilter)
      BY <1>2, <1>3, <1>5
    <3> QED BY ONLY <3>1, ConcatAt
  <2>2. Len(mn) = 26 /\ Len(InitFilter) = 27
    BY <1>1, <1>5
  <2> QED BY ONLY <2>1, <2>2
<1>7. \A i \in 1 .. 18 : InitCommand(InitNat[i]) /\ Where(InitNat[i]) # Input
  BY ONLY <1>1, <1>2 DEF Plain
<1>8. \A i \in 1 .. 27 : InitCommand(InitFilter[i]) /\ Where(InitFilter[i]) # Input
  BY ONLY <1>1, <1>2 DEF Plain
<1>9. ASSUME NEW i \in 1 .. 53
      PROVE  InitCommand(FwInit[i]) /\ (Where(FwInit[i]) = Input => i = 7)
  <2>1. CASE i \in 1 .. 8
    <3>1. FwInit[i] = InitMangle[i]
      BY ONLY <1>5, <1>6, <2>1
    <3> QED BY <2>1, <3>1, InitMangleAt
  <2>2. CASE i \in 9 .. 26
    <3>1. i - 8 \in 1 .. 18 /\ FwInit[i] = InitNat[i - 8]
      BY ONLY <1>5, <1>6, <2>2
    <3> QED BY <1>7, <3>1
  <2>3. CASE i \in 27 .. 53
    <3>1. i - 26 \in 1 .. 27 /\ FwInit[i] = InitFilter[i - 26]
      BY ONLY <1>6, <2>3
    <3> QED BY <1>8, <3>1
  <2> QED BY <2>1, <2>2, <2>3
<1> QED BY <1>6, <1>9

\* A start runs fw_destroy() and then fw_init(), a stop only the first.
LEMMA ProgramAt ==
    /\ DOMAIN Program = {"start", "stop"}
    /\ Program["stop"] = FwDestroy /\ Len(Program["stop"]) = 41
    /\ Len(Program["start"]) = 94
    /\ \A i \in 1 .. 41 : Program["start"][i] = FwDestroy[i]
    /\ \A i \in 42 .. 94 : Program["start"][i] = FwInit[i - 41]
<1> DEFINE p == Program["start"]
<1>1. DOMAIN Program = {"start", "stop"} /\ Program["stop"] = FwDestroy
  BY DEF Program
<1>2. Joined(p, FwDestroy, FwInit)
  BY DEF Joined, Program
<1> HIDE DEF p
<1>3. IsProgram(FwDestroy) /\ IsProgram(FwInit) /\ Len(FwDestroy) = 41 /\ Len(FwInit) = 53
  BY DestroyAt, InitAt
<1>4. /\ IsProgram(p) /\ Len(p) = Len(FwDestroy) + Len(FwInit)
      /\ \A i \in 1 .. Len(FwDestroy) : p[i] = FwDestroy[i]
      /\ \A i \in Len(FwDestroy) + 1 .. Len(FwDestroy) + Len(FwInit) :
            p[i] = FwInit[i - Len(FwDestroy)]
  <2>1. IsProgram(FwDestroy) /\ IsProgram(FwInit) /\ Joined(p, FwDestroy, FwInit)
    BY <1>2, <1>3
  <2> QED BY ONLY <2>1, ConcatAt
<1>5. /\ Len(p) = 94
      /\ \A i \in 1 .. 41 : p[i] = FwDestroy[i]
      /\ \A i \in 42 .. 94 : p[i] = FwInit[i - 41]
  BY ONLY <1>3, <1>4
<1> QED BY <1>1, <1>3, <1>5 DEF p


-------------------------------------------------------------------------------
(***************************************************************************)
(* A first start, command by command.                                      *)
(***************************************************************************)
\* g holds the chains after each of the first b commands of fw_init().
Records(g, b) ==
    g = [n \in 0 .. b |-> IF n = 0 THEN Bare ELSE Exec(g[n - 1], FwInit[n])]

\* There is such a record of every length: the shortest that did not exist
\* would be an earlier one with a command more.
LEMMA RecordExists ==
    ASSUME NEW l \in Nat
    PROVE  \E g : Records(g, l)
<1> DEFINE Bad == {b \in 0 .. l : ~\E g : Records(g, b)}
<1>1. CASE Bad = {}
  BY <1>1
<1>2. CASE Bad # {}
  <2>1. Bad \subseteq Nat
    OBVIOUS
  <2>2. PICK b \in Bad : \A c \in Bad : b <= c
    <3> HIDE DEF Bad
    <3> QED BY <1>2, <2>1, LeastExists
  <2>3. b \in 0 .. l /\ ~\E g : Records(g, b)
    OBVIOUS
  <2>4. b # 0
    <3> DEFINE g == [n \in 0 .. 0 |-> Bare]
    <3>1. \A n \in 0 .. 0 : n = 0
      OBVIOUS
    <3>2. Records(g, 0)
      BY <3>1 DEF Records
    <3> QED BY <2>3, <3>2
  <2>5. PICK g : Records(g, b - 1)
    <3>1. b - 1 \in 0 .. l /\ ~(b <= b - 1)
      BY <2>3, <2>4
    <3>2. b - 1 \notin Bad
      BY <2>2, <3>1
    <3> QED BY <3>1, <3>2
  <2> DEFINE h == [n \in 0 .. b |-> IF n = b THEN Exec(g[b - 1], FwInit[b]) ELSE g[n]]
  <2>6. ASSUME NEW n \in 0 .. b
        PROVE  h[n] = IF n = 0 THEN Bare ELSE Exec(h[n - 1], FwInit[n])
    <3>1. \A i \in 0 .. b : i # b => h[i] = g[i]
      OBVIOUS
    <3>2. h[b] = Exec(g[b - 1], FwInit[b])
      BY <2>3
    <3> HIDE DEF h
    <3>3. CASE n = b
      <4>1. b - 1 \in 0 .. b /\ b - 1 # b
        BY <2>3, <2>4
      <4> QED BY <2>4, <3>1, <3>2, <3>3, <4>1
    <3>4. CASE n # b
      <4>1. n \in 0 .. b - 1
        BY <2>3, <3>4
      <4>2. g[n] = IF n = 0 THEN Bare ELSE Exec(g[n - 1], FwInit[n])
        BY <2>5, <4>1 DEF Records
      <4>3. n # 0 => n - 1 \in 0 .. b /\ n - 1 # b
        BY <2>3
      <4> QED BY <3>1, <3>4, <4>2, <4>3
    <3> QED BY <3>3, <3>4
  <2>7. h = [n \in 0 .. b |-> h[n]]
    OBVIOUS
  <2> HIDE DEF h
  <2>8. Records(h, b)
    BY <2>6, <2>7 DEF Records
  <2> QED BY <2>3, <2>8
<1> QED BY <1>1, <1>2

\* A first start begins with nothing of wifidog, and goes on command by command.
LEMMA FirstStartAt ==
    /\ FirstStart[0] = Bare
    /\ \A n \in 1 .. 53 : FirstStart[n] = Exec(FirstStart[n - 1], FwInit[n])
<1>1. Len(FwInit) = 53
  BY InitAt
<1> DEFINE Is(g) == g = [n \in 0 .. 53 |-> IF n = 0 THEN Bare ELSE Exec(g[n - 1], FwInit[n])]
<1>2. \E g : Is(g)
  BY RecordExists DEF Records
<1>3. FirstStart = CHOOSE g : Is(g)
  BY <1>1 DEF FirstStart
<1>4. Is(FirstStart)
  <2> HIDE DEF Is
  <2> QED BY <1>2, <1>3
<1>5. \A n \in 0 .. 53 :
        FirstStart[n] = IF n = 0 THEN Bare ELSE Exec(FirstStart[n - 1], FwInit[n])
  BY <1>4
<1> QED BY <1>5


-------------------------------------------------------------------------------
(***************************************************************************)
(* What fw_destroy() has done.                                             *)
(***************************************************************************)
\* A jump that is deleted stays deleted, a chain that is flushed stays empty
\* and one that is deleted stays away, where chains and rules only disappear
\* or are other threads'.
LEMMA EffectKept ==
    ASSUME NEW f, NEW g, NEW d \in SUBSET Own, NEW m, DestroyCommand(m),
           BuiltIn \subseteq DOMAIN g, DOMAIN g \subseteq DOMAIN f,
           \A x \in DOMAIN g :
                ToSet(g[x]) \subseteq
                    ToSet(f[x]) \cup IF x \in d THEN {"client", "server"} ELSE {},
           EffectOn(f, m, d)
    PROVE  EffectOn(g, m, d)
<1>1. Own \cap BuiltIn = {} /\ Input \in BuiltIn
  BY ChainFacts
<1>2. m.op \in {"mention", "D"} => m.r \notin ToSet(g[Where(m)])
  <2>1. SUFFICES ASSUME m.op \in {"mention", "D"} PROVE m.r \notin ToSet(g[Where(m)])
    OBVIOUS
  <2>2. Where(m) \in BuiltIn
    BY <1>1, <2>1 DEF DestroyCommand
  <2> QED BY <1>1, <2>1, <2>2 DEF EffectOn
<1>3. m.op = "F" /\ Where(m) \in DOMAIN g =>
        ToSet(g[Where(m)]) \subseteq IF Where(m) \in d THEN {"client", "server"} ELSE {}
  BY DEF EffectOn
<1>4. m.op = "X" /\ Where(m) \in DOMAIN g => Where(m) \in d
  BY DEF EffectOn
<1> QED BY <1>2, <1>3, <1>4 DEF EffectOn

\* What the commands before have done lets a command do its part.
LEMMA EffectDone ==
    ASSUME NEW f, Sound(f), NEW d \in SUBSET Own, NEW j \in 1 .. 41,
           \A i \in 1 .. 41 : i < j => EffectOn(f, FwDestroy[i], d),
           ~Again(f, FwDestroy[j])
    PROVE  EffectOn(Exec(f, FwDestroy[j]), FwDestroy[j], d)
<1> DEFINE m == FwDestroy[j]
           k == Where(m)
<1>1. /\ DestroyCommand(m)
      /\ m.op = "X" => \/ m.t = "mangle" /\ j \in 8 .. 10
                       \/ m.t = "nat" /\ j \in 18 .. 23
                       \/ m.t = "filter" /\ j \in 34 .. 41
  BY DestroyCommands
<1>2. /\ f \in [DOMAIN f -> Seq(Targets)] /\ DOMAIN f \subseteq Chain
      /\ k = <<m.t, m.c>> /\ k[1] = m.t /\ k[2] = m.c
  BY DEF Sound, Typed, Where
<1>3. ~Again(f, m)
  OBVIOUS
<1> SUFFICES EffectOn(Exec(f, m), m, d)
  OBVIOUS
<1> HIDE DEF m
<1>4. m.op \in {"mention", "D", "F", "X"}
  BY <1>1 DEF DestroyCommand
<1>5. CASE m.op \in {"mention", "D"}
  BY <1>1, <1>3, <1>5, JumpGone DEF EffectOn
<1>6. CASE m.op = "F"
  <2>1. ToSet(<<>>) = {}
    BY DEF ToSet
  <2> HIDE DEF k
  <2>2. k \in DOMAIN Exec(f, m) => Exec(f, m)[k] = <<>>
    BY <1>6, ExecF DEF k, RewrittenOf
  <2> QED BY <1>6, <2>1, <2>2 DEF EffectOn, k
<1>7. CASE m.op = "X"
  <2>1. SUFFICES ASSUME k \in DOMAIN Exec(f, m), k \notin d PROVE FALSE
    BY <1>7 DEF EffectOn
  <2>2. k \in Own /\ m.c \in Names
    <3>1. k \in Own
      BY <1>1, <1>7 DEF DestroyCommand
    <3> QED BY <1>2, <3>1, ChainFacts
  <2>3. k \in DOMAIN f /\ (f[k] # <<>> \/ Mentioned(f, m.t, m.c))
    BY <1>7, <2>1, ExecX DEF Restrict, k
  <2>4. ASSUME NEW x \in DOMAIN f, x[1] = m.t, x \in Own
        PROVE  ToSet(f[x]) \subseteq IF x \in d THEN {"client", "server"} ELSE {}
    <3>1. PICK i \in 1 .. 41 : i < j /\ FwDestroy[i] = Command("F", x[1], x[2], "all")
      <4>1. x[1] = "mangle" => \E i \in 5 .. 7 : FwDestroy[i] = Command("F", x[1], x[2], "all")
        BY ONLY <2>4, ChainAt
      <4>2. x[1] = "nat" => \E i \in 12 .. 17 : FwDestroy[i] = Command("F", x[1], x[2], "all")
        BY ONLY <2>4, ChainAt
      <4>3. x[1] = "filter" =>
              \E i \in 26 .. 33 : FwDestroy[i] = Command("F", x[1], x[2], "all")
        BY ONLY <2>4, ChainAt
      <4> QED BY ONLY <1>1, <1>7, <2>4, <4>1, <4>2, <4>3
    <3>2. EffectOn(f, FwDestroy[i], d)
      BY <3>1
    <3>3. x = <<x[1], x[2]>>
      BY <2>4, ChainFacts
    <3>4. FwDestroy[i].op = "F" /\ Where(FwDestroy[i]) = x
      BY <3>1, <3>3 DEF Command, Where
    <3> QED BY <3>2, <3>4 DEF EffectOn
  <2>5. f[k] = <<>>
    <3>1. f[k] \in Seq(Targets) /\ ToSet(f[k]) = {}
      BY <1>2, <2>1, <2>2, <2>3, <2>4
    <3>2. ASSUME NEW s \in Seq(Targets), ToSet(s) = {} PROVE s = <<>>
      BY <3>2, Elements
    <3> QED BY <3>1, <3>2
  <2>6. PICK x \in DOMAIN f : x[1] = m.t /\ m.c \in ToSet(f[x])
    BY <2>3, <2>5 DEF Mentioned
  <2>7. CASE x \in Own
    <3>1. m.c \in {"client", "server"}
      BY <2>4, <2>6, <2>7
    <3> QED BY <2>2, <3>1, TargetFacts
  <2>8. CASE x \in BuiltIn
    <3>1. m.c \in Jumps(x)
      BY <2>6, <2>8 DEF Sound, Usual
    <3>2. PICK i \in 1 .. 41 : /\ FwDestroy[i].op \in {"mention", "D"}
                               /\ Where(FwDestroy[i]) = x /\ FwDestroy[i].r = m.c
                               /\ \/ x[1] = "mangle" /\ i < 5
                                  \/ x[1] = "nat" /\ i < 12
                                  \/ x[1] = "filter" /\ i < 26
      BY ONLY <2>8, <3>1, JumpAt
    <3>3. i < j
      BY ONLY <1>1, <1>7, <2>6, <3>2
    <3>4. EffectOn(f, FwDestroy[i], d)
      BY <3>3
    <3> QED BY <2>6, <3>2, <3>4 DEF EffectOn
  <2> QED BY <1>2, <2>7, <2>8, ChainFacts
<1> QED BY <1>4, <1>5, <1>6, <1>7

\* All of fw_destroy() leaves the built-in chains empty, and only chains that
\* other threads write to, with nothing but their rules.
LEMMA DestroyDone ==
    ASSUME NEW f, Sound(f), NEW d \in SUBSET Own,
           \A i \in 1 .. 41 : EffectOn(f, FwDestroy[i], d)
    PROVE  /\ \A k \in BuiltIn : f[k] = <<>>
           /\ DOMAIN f \ BuiltIn \subseteq d
           /\ \A k \in d \cap DOMAIN f : ToSet(f[k]) \subseteq {"client", "server"}
<1>1. /\ f \in [DOMAIN f -> Seq(Targets)] /\ DOMAIN f \subseteq Chain
      /\ BuiltIn \subseteq DOMAIN f
  BY DEF Sound, Typed
<1>2. ASSUME NEW k \in BuiltIn PROVE f[k] = <<>>
  <2>1. ASSUME NEW r \in ToSet(f[k]) PROVE FALSE
    <3>1. r \in Jumps(k)
      BY DEF Sound, Usual
    <3>2. PICK i \in 1 .. 41 : /\ FwDestroy[i].op \in {"mention", "D"}
                               /\ Where(FwDestroy[i]) = k /\ FwDestroy[i].r = r
      BY <3>1, JumpAt
    <3> QED BY <3>2 DEF EffectOn
  <2>2. f[k] \in Seq(Targets)
    BY <1>1
  <2> QED BY <2>1, <2>2, Elements
<1>3. ASSUME NEW k \in DOMAIN f, k \in Own
      PROVE  k \in d /\ ToSet(f[k]) \subseteq {"client", "server"}
  <2>1. k = <<k[1], k[2]>>
    BY <1>3, ChainFacts
  <2>2. PICK i \in 1 .. 41 : FwDestroy[i] = Command("X", k[1], k[2], "all")
    <3>1. \/ \E i \in 8 .. 10 : FwDestroy[i] = Command("X", k[1], k[2], "all")
          \/ \E i \in 18 .. 23 : FwDestroy[i] = Command("X", k[1], k[2], "all")
          \/ \E i \in 34 .. 41 : FwDestroy[i] = Command("X", k[1], k[2], "all")
      BY ONLY <1>3, ChainAt
    <3> QED BY ONLY <3>1
  <2>3. PICK j \in 1 .. 41 : FwDestroy[j] = Command("F", k[1], k[2], "all")
    <3>1. \/ \E n \in 5 .. 7 : FwDestroy[n] = Command("F", k[1], k[2], "all")
          \/ \E n \in 12 .. 17 : FwDestroy[n] = Command("F", k[1], k[2], "all")
          \/ \E n \in 26 .. 33 : FwDestroy[n] = Command("F", k[1], k[2], "all")
      BY ONLY <1>3, ChainAt
    <3> QED BY ONLY <3>1
  <2>4. FwDestroy[i].op = "X" /\ Where(FwDestroy[i]) = k
    BY <2>1, <2>2 DEF Command, Where
  <2>5. FwDestroy[j].op = "F" /\ Where(FwDestroy[j]) = k
    BY <2>1, <2>3 DEF Command, Where
  <2>6. EffectOn(f, FwDestroy[i], d) /\ EffectOn(f, FwDestroy[j], d)
    OBVIOUS
  <2>7. k \in d
    BY <2>4, <2>6 DEF EffectOn
  <2> QED BY <2>5, <2>6, <2>7 DEF EffectOn
<1> QED BY <1>1, <1>2, <1>3, ChainFacts

\* Where no other thread is about, that is nothing of wifidog.
LEMMA NothingLeft ==
    ASSUME NEW f, Sound(f), \A i \in 1 .. 41 : EffectOn(f, FwDestroy[i], {})
    PROVE  f = Bare
<1>1. (\A k \in BuiltIn : f[k] = <<>>) /\ DOMAIN f \ BuiltIn \subseteq {}
  <2>1. PICK d \in SUBSET Own : d = {}
    OBVIOUS
  <2>2. \A i \in 1 .. 41 : EffectOn(f, FwDestroy[i], d)
    BY <2>1
  <2>3. (\A k \in BuiltIn : f[k] = <<>>) /\ DOMAIN f \ BuiltIn \subseteq d
    BY <2>2, DestroyDone
  <2> QED BY <2>1, <2>3
<1>2. f = [k \in DOMAIN f |-> f[k]] /\ BuiltIn \subseteq DOMAIN f
  BY DEF Sound, Typed
<1> QED BY <1>1, <1>2 DEF Bare


-------------------------------------------------------------------------------
(***************************************************************************)
(* The invariant is inductive.                                             *)
(***************************************************************************)
\* Where the main thread is, with the command that is next.
LEMMA MainFacts ==
    /\ Off.at = "off" /\ Serves.at = "serve" /\ Hangs.at = "hang"
    /\ \A p, k : At(p, k).at = p /\ At(p, k).k = k
    /\ \A p, k : [At(p, k) EXCEPT !.k = @ + 1] = At(p, k + 1)
BY DEF Off, Serves, Hangs, At

\* A thread's command is one, and the queues hold nothing else.
LEMMA QueueFacts ==
    ASSUME NEW q \in Seq(ThreadCommands), q # Nothing
    PROVE  ThreadCommand(Head(q)) /\ Tail(q) \in Seq(ThreadCommands)
<1>1. Head(q) \in ThreadCommands /\ Tail(q) \in Seq(ThreadCommands)
  BY DEF Nothing
<1> QED BY <1>1 DEF ThreadCommands

\* Between a start's end and the process's end, nothing is left of a start.
LEMMA ThreadsFacts ==
    ASSUME TogetherOK, MainOK, list # Nothing \/ conf # Nothing \/ Threads
    PROVE  /\ ~early /\ stray = Nothing
           /\ main.at \in {"serve", "hang", "stop"}
BY MainFacts DEF TogetherOK, MainOK, Threads

\* Init
LEMMA CInvInit == Init => CInv
<1> SUFFICES ASSUME Init PROVE CInv
  OBVIOUS
<1> USE DEF Init
<1>1. Sound(fw)
  <2>1. /\ DOMAIN Bare = BuiltIn /\ \A k \in BuiltIn : Bare[k] = <<>>
        /\ Bare = [k \in DOMAIN Bare |-> Bare[k]]
    BY DEF Bare
  <2>2. ToSet(<<>>) = {} /\ <<>> \in Seq(Targets)
    BY EmptySeq DEF ToSet
  <2>3. Typed(Bare)
    BY <2>1, <2>2, ChainFacts DEF Typed
  <2>4. Usual(Bare) /\ DhcpOnce(Bare) /\ Closed(Bare)
    BY <2>1, <2>2, ChainFacts DEF Usual, DhcpOnce, Closed
  <2> QED BY <2>3, <2>4 DEF Sound
<1>2. MainOK /\ CountsOK /\ StrayOK
  BY ChainsAssumption DEF MainOK, CountsOK, StrayOK
<1>3. QueuesOK
  BY EmptySeq DEF QueuesOK, Nothing
<1>4. TogetherOK
  BY DEF TogetherOK
<1>5. EffectsOK /\ DhcpOK /\ BuiltOK /\ EmptyOK /\ ServesWhole
  BY MainFacts DEF EffectsOK, Destroying, DhcpOK, BuiltOK, EmptyOK, ServesWhole
<1> QED BY <1>1, <1>2, <1>3, <1>4, <1>5 DEF CInv

\* The end of the process, whatever its cause.
LEMMA CInvEnds ==
    ASSUME CInv, Ends, CountsOK'
    PROVE  CInv'
<1> USE DEF Ends
<1>1. Sound(fw')
  BY ExecSound DEF CInv, StrayOK
<1>2. MainOK' /\ StrayOK'
  BY DEF MainOK, StrayOK
<1>3. QueuesOK'
  BY EmptySeq DEF QueuesOK, Nothing
<1>4. TogetherOK'
  BY DEF TogetherOK
<1>5. EffectsOK' /\ DhcpOK' /\ BuiltOK' /\ EmptyOK' /\ ServesWhole'
  BY MainFacts DEF EffectsOK, Destroying, DhcpOK, BuiltOK, EmptyOK, ServesWhole
<1> QED BY <1>1, <1>2, <1>3, <1>4, <1>5 DEF CInv

\* Before its first command, a start or a stop has done nothing.
LEMMA FirstCommand ==
    ASSUME NEW p \in {"start", "stop"}, main' = At(p, 1)
    PROVE  EffectsOK' /\ DhcpOK' /\ BuiltOK' /\ EmptyOK' /\ ServesWhole'
<1>1. main'.k = 1 /\ Len(FwDestroy) = 41
  BY MainFacts, DestroyAt
<1>2. EffectsOK'
  BY ONLY <1>1 DEF EffectsOK
<1>3. DhcpOK'
  BY ONLY <1>1 DEF DhcpOK
<1>4. BuiltOK'
  BY ONLY <1>1 DEF BuiltOK
<1>5. EmptyOK'
  BY ONLY <1>1 DEF EmptyOK
<1>6. ServesWhole'
  BY MainFacts DEF ServesWhole
<1> QED BY <1>2, <1>3, <1>4, <1>5, <1>6

\* Start
LEMMA CInvStart == CInv /\ Start => CInv'
<1> SUFFICES ASSUME CInv, Start PROVE CInv'
  OBVIOUS
<1> USE DEF Start, threads, counts
<1>1. Sound(fw)' /\ CountsOK' /\ StrayOK' /\ QueuesOK'
  BY DEF CInv, CountsOK, StrayOK, QueuesOK
<1>2. MainOK'
  BY DestroyAt, InitAt DEF MainOK
<1>3. TogetherOK'
  BY MainFacts DEF CInv, TogetherOK
<1>4. EffectsOK' /\ DhcpOK' /\ BuiltOK' /\ EmptyOK' /\ ServesWhole'
  BY FirstCommand
<1> QED BY <1>1, <1>2, <1>3, <1>4 DEF CInv

\* StrayStep
LEMMA CInvStrayStep == CInv /\ StrayStep => CInv'
<1> SUFFICES ASSUME CInv, StrayStep PROVE CInv'
  OBVIOUS
<1> USE DEF StrayStep, counts
<1>1. Sound(fw')
  BY ExecSound DEF CInv, StrayOK
<1>2. CountsOK' /\ StrayOK' /\ QueuesOK' /\ MainOK'
  BY DEF CInv, CountsOK, StrayOK, QueuesOK, MainOK
<1>3. early /\ main.at = "stop"
  BY DEF CInv, TogetherOK
<1>4. TogetherOK'
  BY DEF CInv, TogetherOK
<1>5. EffectsOK' /\ DhcpOK' /\ BuiltOK' /\ EmptyOK' /\ ServesWhole'
  BY <1>3, MainFacts DEF EffectsOK, Destroying, DhcpOK, BuiltOK, EmptyOK, ServesWhole
<1> QED BY <1>1, <1>2, <1>4, <1>5 DEF CInv

\* NoInterface, Exit, SecondSignal and Crash
LEMMA CInvDeath == CInv /\ (NoInterface \/ Exit \/ SecondSignal \/ Crash) => CInv'
<1> SUFFICES ASSUME CInv, NoInterface \/ Exit \/ SecondSignal \/ Crash PROVE CInv'
  OBVIOUS
<1>1. CountsOK'
  BY ChainsAssumption
     DEF NoInterface, Exit, SecondSignal, Crash, Fault, counts, CInv, CountsOK
<1>2. CASE Ends
  BY <1>1, <1>2, CInvEnds
<1>3. CASE SecondSignal /\ ~early
  <2> USE <1>3 DEF SecondSignal, threads
  <2>1. Sound(fw)' /\ StrayOK' /\ QueuesOK' /\ MainOK'
    BY DEF CInv, StrayOK, QueuesOK, MainOK
  <2>2. TogetherOK'
    BY MainFacts DEF CInv, TogetherOK
  <2>3. EffectsOK' /\ DhcpOK' /\ BuiltOK' /\ EmptyOK' /\ ServesWhole'
    BY MainFacts DEF EffectsOK, Destroying, DhcpOK, BuiltOK, EmptyOK, ServesWhole
  <2> QED BY <1>1, <2>1, <2>2, <2>3 DEF CInv
<1> QED BY <1>2, <1>3 DEF NoInterface, Exit, SecondSignal, Crash


\* What the main thread executes next, in a stop and in a start.
LEMMA NextAt ==
    /\ \A k \in 1 .. 41 : main = At("stop", k) => Next1 = FwDestroy[k]
    /\ \A k \in 1 .. 41 : main = At("start", k) => Next1 = FwDestroy[k]
    /\ \A k \in 42 .. 94 : main = At("start", k) => Next1 = FwInit[k - 41]
    /\ \A k \in 1 .. 42 : main = At("stop", k) => Busy /\ (Done <=> k = 42)
    /\ \A k \in 1 .. 95 : main = At("start", k) => Busy /\ (Done <=> k = 95)
<1>1. ASSUME NEW p \in {"stop", "start"}, NEW k, main = At(p, k)
      PROVE  Next1 = Program[p][k] /\ Busy /\ (Done <=> k > Len(Program[p]))
  <2>1. main.at = p /\ main.k = k
    BY <1>1, MainFacts
  <2>2. Busy
    BY <2>1, ProgramAt DEF Busy
  <2> QED BY <2>1, <2>2 DEF Next1, Done
<1>2. \A k \in 1 .. 41 : Program["stop"][k] = FwDestroy[k]
  BY ProgramAt
<1>3. \A k \in 1 .. 41 : main = At("stop", k) => Next1 = FwDestroy[k]
  BY <1>1, <1>2
<1>4. \A k \in 1 .. 41 : main = At("start", k) => Next1 = FwDestroy[k]
  BY <1>1, ProgramAt
<1>5. \A k \in 42 .. 94 : main = At("start", k) => Next1 = FwInit[k - 41]
  BY <1>1, ProgramAt
<1>6. ASSUME NEW k \in 1 .. 42, main = At("stop", k)
      PROVE  Busy /\ (Done <=> k = 42)
  <2>1. Busy /\ (Done <=> k > 41)
    <3>1. Busy /\ (Done <=> k > Len(Program["stop"]))
      BY <1>1, <1>6
    <3>2. Len(Program["stop"]) = 41
      BY ProgramAt
    <3> QED BY <3>1, <3>2
  <2>2. k > 41 <=> k = 42
    OBVIOUS
  <2> QED BY <2>1, <2>2
<1>7. ASSUME NEW k \in 1 .. 95, main = At("start", k)
      PROVE  Busy /\ (Done <=> k = 95)
  <2>1. Busy /\ (Done <=> k > 94)
    BY <1>1, <1>7, ProgramAt
  <2>2. k > 94 <=> k = 95
    OBVIOUS
  <2> QED BY <2>1, <2>2
<1> QED BY <1>3, <1>4, <1>5, <1>6, <1>7

\* And where it is, if it is in one.
LEMMA BusyAt ==
    ASSUME MainOK, Busy
    PROVE  \/ main.at = "start" /\ \E k \in 1 .. 95 : main = At("start", k)
           \/ main.at = "stop" /\ \E k \in 1 .. 42 : main = At("stop", k)
<1>1. Len(FwDestroy) = 41 /\ Len(FwInit) = 53
  BY DestroyAt, InitAt
<1>2. main \notin {Off, Serves, Hangs}
  BY MainFacts, ProgramAt DEF Busy
<1>3. \A p, k : main = At(p, k) => main.at = p
  BY MainFacts
<1> QED BY <1>1, <1>2, <1>3 DEF MainOK

\* At the end of a start, the chains are those of a first one.
LEMMA AtDone ==
    ASSUME MainOK, BuiltOK, EmptyOK, main.at = "start", Done
    PROVE  /\ fw = FirstStart[Len(FwInit)]
           /\ \A k \in DOMAIN fw \cap Dynamic : fw[k] = <<>>
<1>1. Len(FwDestroy) = 41 /\ Len(FwInit) = 53
  BY DestroyAt, InitAt
<1>2. PICK k \in 1 .. 95 : main = At("start", k)
  BY BusyAt DEF Done
<1>3. k = 95
  BY <1>2, NextAt
<1>4. main.k = 95
  BY <1>2, <1>3, MainFacts
<1> QED BY <1>1, <1>4 DEF BuiltOK, EmptyOK

\* Serve
LEMMA CInvServe == CInv /\ Serve => CInv'
<1> SUFFICES ASSUME CInv, Serve PROVE CInv'
  OBVIOUS
<1> USE DEF Serve, threads, counts
<1>1. Sound(fw)' /\ CountsOK' /\ StrayOK' /\ QueuesOK' /\ MainOK'
  BY DEF CInv, CountsOK, StrayOK, QueuesOK, MainOK
<1>2. TogetherOK'
  BY MainFacts DEF CInv, TogetherOK
<1>3. EffectsOK' /\ DhcpOK' /\ BuiltOK' /\ EmptyOK'
  BY MainFacts DEF EffectsOK, Destroying, DhcpOK, BuiltOK, EmptyOK
<1>4. ServesWhole'
  <2>1. fw = FirstStart[Len(FwInit)] /\ \A k \in DOMAIN fw \cap Dynamic : fw[k] = <<>>
    BY AtDone DEF CInv
  <2>2. ToSet(<<>>) = {}
    BY DEF ToSet
  <2> QED BY <2>1, <2>2 DEF ServesWhole
<1> QED BY <1>1, <1>2, <1>3, <1>4 DEF CInv

\* Signal
LEMMA CInvSignal == CInv /\ Signal => CInv'
<1> SUFFICES ASSUME CInv, Signal PROVE CInv'
  OBVIOUS
<1> USE DEF threads, counts
<1>1. Sound(fw)' /\ QueuesOK' /\ main' = At("stop", 1)
  BY DEF CInv, QueuesOK, Signal
<1>2. MainOK' /\ CountsOK'
  <2>1. 1 \in 1 .. Len(FwDestroy) + 1
    BY DestroyAt
  <2>2. MainOK'
    BY <1>1, <2>1 DEF MainOK
  <2>3. CountsOK'
    BY ChainsAssumption DEF Signal, CInv, CountsOK, Fault
  <2> QED BY <2>2, <2>3
<1>3. TogetherOK'
  <2>1. main'.at = "stop"
    BY <1>1, MainFacts
  <2>2. CASE main = Serves /\ UNCHANGED threads
    BY <2>1, <2>2, MainFacts DEF CInv, TogetherOK
  <2>3. CASE main.at = "start" /\ early' = TRUE /\ UNCHANGED <<list, conf>>
    BY <2>1, <2>3 DEF CInv, TogetherOK
  <2> QED BY <2>2, <2>3 DEF Signal
<1>4. EffectsOK' /\ DhcpOK' /\ BuiltOK' /\ EmptyOK' /\ ServesWhole'
  BY <1>1, FirstCommand
<1>5. StrayOK'
  <2>1. CASE main = Serves \/ stray' = Nothing
    <3>1. main # Serves \/ stray' = stray
      BY MainFacts DEF Signal
    <3>2. main = Serves => stray = Nothing
      BY MainFacts DEF CInv, TogetherOK
    <3> QED BY <2>1, <3>1, <3>2 DEF StrayOK
  <2>2. CASE ~(main = Serves \/ stray' = Nothing)
    <3>1. main.at = "start" /\ ~Done /\ stray' \in LeftOver /\ fw' = fw
      BY <2>2 DEF Signal
    <3>2. PICK k \in 1 .. 94 : main = At("start", k)
      <4>1. Busy
        BY <3>1, ProgramAt DEF Busy
      <4>2. PICK k \in 1 .. 95 : main = At("start", k)
        BY <3>1, <4>1, BusyAt, MainFacts DEF CInv
      <4>3. k # 95
        BY <3>1, <4>2, NextAt
      <4> QED BY <4>2, <4>3
    <3> DEFINE m == Next1
    <3>3. /\ InitCommand(m) \/ DestroyCommand(m)
          /\ m.op = "mention" => DestroyCommand(m)
          /\ DhcpIsNew(fw, m)
      <4>1. CASE k \in 1 .. 41
        <5>1. m = FwDestroy[k]
          BY <3>2, <4>1, NextAt
        <5> HIDE DEF m
        <5>2. DestroyCommand(m)
          BY <4>1, <5>1, DestroyCommands
        <5> QED BY <5>2 DEF DestroyCommand, DhcpIsNew
      <4>2. CASE k \in 42 .. 94
        <5>1. m = FwInit[k - 41] /\ k - 41 \in 1 .. 53
          BY <3>2, <4>2, NextAt
        <5> HIDE DEF m
        <5>2. InitCommand(m) /\ (Where(m) = Input => k - 41 = 7)
          BY <5>1, InitAt
        <5>3. k - 41 = 7 => fw[Input] = <<>>
          <6>1. main.at = "start" /\ main.k = k
            BY <3>2, MainFacts
          <6> QED BY <6>1 DEF CInv, DhcpOK
        <5>4. m.op # "mention"
          BY <5>2 DEF InitCommand
        <5> QED BY <5>2, <5>3, <5>4 DEF DhcpIsNew
      <4> QED BY <4>1, <4>2
    <3>4. CASE m.op = "mention"
      <4>1. PICK i \in DOMAIN fw[<<m.t, m.c>>] : stray' = <<Command("nth", m.t, m.c, i)>>
        BY <3>1, <3>4 DEF LeftOver
      <4> HIDE DEF m
      <4>2. <<m.t, m.c>> \in BuiltIn
        BY <3>3, <3>4 DEF DestroyCommand, Where
      <4>3. i \in Nat
        <5>1. fw[<<m.t, m.c>>] \in Seq(Targets)
          BY <4>2 DEF CInv, Sound, Typed
        <5> QED BY <5>1
      <4> DEFINE l == Command("nth", m.t, m.c, i)
      <4>4. l.op = "nth" /\ Where(l) = <<m.t, m.c>> /\ l.r = i
        BY DEF Command, Where
      <4>5. stray' = <<l>>
        BY <4>1
      <4> HIDE DEF l
      <4>6. DeleteByNumber(l) /\ DhcpIsNew(fw', l)
        BY <4>2, <4>3, <4>4 DEF DeleteByNumber, DhcpIsNew
      <4> QED BY <4>5, <4>6 DEF StrayOK
    <3>5. CASE m.op # "mention"
      <4>1. stray' = <<m>>
        BY <3>1, <3>5 DEF LeftOver
      <4> HIDE DEF m
      <4> QED BY <3>1, <3>3, <4>1 DEF StrayOK
    <3> QED BY <3>4, <3>5
  <2> QED BY <2>1, <2>2
<1> QED BY <1>1, <1>2, <1>3, <1>4, <1>5 DEF CInv

\* Allow, Deny and SetServers
LEMMA CInvCall == CInv /\ (Allow \/ Deny \/ SetServers) => CInv'
<1> SUFFICES ASSUME CInv, Allow \/ Deny \/ SetServers PROVE CInv'
  OBVIOUS
<1>1. /\ fw' = fw /\ main' = main /\ early' = early /\ stray' = stray /\ Threads
      /\ Call
  BY DEF Allow, Deny, SetServers
<1>2. Sound(fw)' /\ MainOK' /\ StrayOK' /\ CountsOK'
  BY <1>1, ChainsAssumption DEF CInv, MainOK, StrayOK, CountsOK, Call
<1>3. TogetherOK'
  BY <1>1, ThreadsFacts DEF CInv, TogetherOK
<1>4. EffectsOK' /\ DhcpOK' /\ BuiltOK' /\ EmptyOK' /\ ServesWhole'
  BY <1>1 DEF CInv, EffectsOK, Destroying, Effect, Later, DhcpOK, BuiltOK, EmptyOK, ServesWhole
<1>5. QueuesOK'
  <2>1. ASSUME NEW op \in {"A", "D", "F"}, NEW t, NEW c, <<t, c>> \in Dynamic,
               NEW r \in {"client", "server", "all"}, op # "F" => r # "all"
        PROVE  Command(op, t, c, r) \in ThreadCommands
    <3> DEFINE m == Command(op, t, c, r)
    <3>1. m.op = op /\ Where(m) = <<t, c>> /\ m.r = r
      BY DEF Command, Where
    <3>2. t \in {"mangle", "nat", "filter"} /\ c \in Names
      <4>1. <<t, c>> \in Own /\ <<t, c>> \in Chain
        BY <2>1, ChainFacts
      <4>2. <<t, c>>[2] \in Names
        BY <4>1, ChainFacts
      <4> QED BY <2>1, <4>2 DEF Dynamic
    <3>3. m \in [op : {"A", "D", "F"}, t : {"mangle", "nat", "filter"}, c : Names,
                 r : {"client", "server", "all"}]
      BY <3>2 DEF Command
    <3> HIDE DEF m
    <3>4. m \in ThreadCommands
      BY <2>1, <3>1, <3>3 DEF ThreadCommands, ThreadCommand
    <3> QED BY <3>4 DEF m
  <2>2. /\ <<"mangle", "Outgoing">> \in Dynamic /\ <<"mangle", "Incoming">> \in Dynamic
        /\ <<"nat", "AuthServers">> \in Dynamic /\ <<"filter", "AuthServers">> \in Dynamic
    BY DEF Dynamic
  <2>3. ASSUME NEW m1 \in ThreadCommands, NEW m2 \in ThreadCommands
        PROVE  /\ <<m1, m2>> \in Seq(ThreadCommands)
               /\ \A m3, m4 \in ThreadCommands : <<m1, m2, m3, m4>> \in Seq(ThreadCommands)
    OBVIOUS
  <2>4. CASE Allow
    <3>1. <<Command("A", "mangle", "Outgoing", "client"),
            Command("A", "mangle", "Incoming", "client")>> \in Seq(ThreadCommands)
      BY <2>1, <2>2, <2>3
    <3> QED BY <2>4, <3>1 DEF Allow, CInv, QueuesOK
  <2>5. CASE Deny
    <3>1. <<Command("D", "mangle", "Outgoing", "client"),
            Command("D", "mangle", "Incoming", "client")>> \in Seq(ThreadCommands)
      BY <2>1, <2>2, <2>3
    <3> QED BY <2>5, <3>1 DEF Deny, CInv, QueuesOK
  <2>6. CASE SetServers
    <3>1. <<Command("F", "filter", "AuthServers", "all"),
            Command("F", "nat", "AuthServers", "all"),
            Command("A", "filter", "AuthServers", "server"),
            Command("A", "nat", "AuthServers", "server")>> \in Seq(ThreadCommands)
      BY <2>1, <2>2, <2>3
    <3> QED BY <2>6, <3>1 DEF SetServers, CInv, QueuesOK
  <2> QED BY <2>4, <2>5, <2>6
<1> QED BY <1>2, <1>3, <1>4, <1>5 DEF CInv

\* ListStep and ConfStep
LEMMA CInvThread == CInv /\ (ListStep \/ ConfStep) => CInv'
<1> SUFFICES ASSUME CInv, ListStep \/ ConfStep PROVE CInv'
  OBVIOUS
<1>1. PICK m : ThreadCommand(m) /\ fw' = Exec(fw, m)
  BY QueueFacts DEF ListStep, ConfStep, CInv, QueuesOK
<1>2. /\ main' = main /\ early' = early /\ stray' = stray /\ UNCHANGED counts
      /\ list # Nothing \/ conf # Nothing
  BY DEF ListStep, ConfStep
<1>3. ~early /\ stray = Nothing /\ main.at \in {"serve", "hang", "stop"}
  BY <1>2, ThreadsFacts DEF CInv
<1>4. Sound(fw) /\ Sound(fw')
  <2>1. DhcpIsNew(fw, m)
    BY <1>1, ChainFacts DEF DhcpIsNew, ThreadCommand
  <2> QED BY <1>1, <2>1, ExecSound DEF CInv
<1>5. MainOK' /\ CountsOK' /\ StrayOK'
  BY <1>2, <1>3 DEF CInv, MainOK, CountsOK, StrayOK, counts
<1>6. QueuesOK'
  BY QueueFacts DEF ListStep, ConfStep, CInv, QueuesOK
<1>7. TogetherOK'
  BY <1>2, <1>3 DEF CInv, TogetherOK
<1>8. DhcpOK' /\ BuiltOK' /\ EmptyOK'
  BY <1>2, <1>3 DEF DhcpOK, BuiltOK, EmptyOK
<1>9. EffectsOK'
  <2>1. SUFFICES ASSUME main.at = "stop", NEW j \in 1 .. Len(FwDestroy), j < main.k
                 PROVE  EffectOn(fw', FwDestroy[j], Dynamic)
    BY <1>2, <1>3 DEF EffectsOK, Destroying, Effect, Later
  <2>2. EffectOn(fw, FwDestroy[j], Dynamic)
    BY <1>3, <2>1 DEF CInv, EffectsOK, Destroying, Effect, Later
  <2>3. DestroyCommand(FwDestroy[j])
    BY DestroyAt, DestroyCommands
  <2>4. Dynamic \in SUBSET Own /\ BuiltIn \subseteq DOMAIN fw'
    BY <1>4, ChainFacts DEF Sound, Typed
  <2>5. /\ DOMAIN fw' = DOMAIN fw
        /\ \A x \in DOMAIN fw :
                ToSet(fw'[x]) \subseteq
                    ToSet(fw[x]) \cup IF x \in Dynamic THEN {"client", "server"} ELSE {}
    BY <1>1, <1>4, ExecOfThread
  <2> QED BY <2>2, <2>3, <2>4, <2>5, EffectKept
<1>10. ServesWhole'
  <2>1. /\ DOMAIN fw' = DOMAIN fw
        /\ \A x \in DOMAIN fw \ Dynamic : fw'[x] = fw[x]
        /\ \A x \in DOMAIN fw \cap Dynamic :
                ToSet(fw'[x]) \subseteq ToSet(fw[x]) \cup {"client", "server"}
    BY <1>1, <1>4, ExecOfThread
  <2> QED BY <1>2, <2>1 DEF CInv, ServesWhole
<1> QED BY <1>4, <1>5, <1>6, <1>7, <1>8, <1>9, <1>10 DEF CInv


\* A rule or a chain of fw_init() leaves the other chains alone, and the chains
\* of other threads empty.
LEMMA ExecElsewhere ==
    ASSUME NEW f, NEW m, InitCommand(m)
    PROVE  /\ \A x \in DOMAIN f : x # Where(m) => Exec(f, m)[x] = f[x]
           /\ DOMAIN Exec(f, m) \subseteq DOMAIN f \cup {Where(m)}
           /\ (\A x \in DOMAIN f \cap Dynamic : f[x] = <<>>) =>
                \A x \in DOMAIN Exec(f, m) \cap Dynamic : Exec(f, m)[x] = <<>>
<1> DEFINE k == Where(m)
<1>1. CASE m.op = "N"
  <2>1. Exec(f, m) = IF k \in DOMAIN f THEN f ELSE MadeOf(f, k)
    BY <1>1, ExecN
  <2> HIDE DEF k
  <2>2. /\ DOMAIN MadeOf(f, k) = DOMAIN f \cup {k} /\ MadeOf(f, k)[k] = <<>>
        /\ \A x \in DOMAIN f : x # k => MadeOf(f, k)[x] = f[x]
    BY DEF MadeOf
  <2>3. /\ \A x \in DOMAIN f : x # k => Exec(f, m)[x] = f[x]
        /\ DOMAIN Exec(f, m) \subseteq DOMAIN f \cup {k}
        /\ (\A x \in DOMAIN f \cap Dynamic : f[x] = <<>>) =>
                \A x \in DOMAIN Exec(f, m) \cap Dynamic : Exec(f, m)[x] = <<>>
    BY <2>1, <2>2
  <2> QED BY <2>3 DEF k
<1>2. CASE m.op \in {"A", "I"}
  <2> DEFINE s == IF m.op = "A" THEN Append(f[k], m.r) ELSE <<m.r>> \o f[k]
  <2>1. Exec(f, m) = IF Fits(f, m) THEN RewrittenOf(f, k, s) ELSE f
    BY <1>2, ExecAdd
  <2>2. k \notin Dynamic
    BY <1>2, ChainFacts DEF InitCommand
  <2> HIDE DEF k, s
  <2>3. /\ DOMAIN RewrittenOf(f, k, s) = DOMAIN f
        /\ \A x \in DOMAIN f : x # k => RewrittenOf(f, k, s)[x] = f[x]
    BY DEF RewrittenOf
  <2>4. /\ \A x \in DOMAIN f : x # k => Exec(f, m)[x] = f[x]
        /\ DOMAIN Exec(f, m) \subseteq DOMAIN f \cup {k}
        /\ (\A x \in DOMAIN f \cap Dynamic : f[x] = <<>>) =>
                \A x \in DOMAIN Exec(f, m) \cap Dynamic : Exec(f, m)[x] = <<>>
    BY <2>1, <2>2, <2>3
  <2> QED BY <2>4 DEF k
<1> QED BY <1>1, <1>2 DEF InitCommand

\* A command of fw_destroy(), in a stop or a start: what it leaves done.
LEMMA StepEffects ==
    ASSUME CInv, NEW k \in 1 .. 41, main.k = k, Destroying,
           NEW m, m = FwDestroy[k], fw' = Exec(fw, m), Sound(fw'),
           main'.at = main.at,
           main'.k = IF Again(fw, m) THEN k ELSE k + 1
    PROVE  \A j \in 1 .. 41 : j < main'.k => EffectOn(fw', FwDestroy[j], Later)
<1>1. Sound(fw) /\ \A j \in 1 .. 41 : j < k => EffectOn(fw, FwDestroy[j], Later)
  BY DestroyAt DEF CInv, EffectsOK, Effect
<1>2. Later \in SUBSET Own
  BY ChainFacts DEF Later
<1>3. DestroyCommand(m)
  BY DestroyCommands
<1> SUFFICES ASSUME NEW j \in 1 .. 41, j < main'.k PROVE EffectOn(fw', FwDestroy[j], Later)
  OBVIOUS
<1>4. CASE j < k
  <2>1. /\ DOMAIN fw' \subseteq DOMAIN fw
        /\ \A x \in DOMAIN fw' : ToSet(fw'[x]) \subseteq ToSet(fw[x])
    BY <1>1, <1>3, ExecShrinks
  <2>2. BuiltIn \subseteq DOMAIN fw'
    BY DEF Sound, Typed
  <2>3. EffectOn(fw, FwDestroy[j], Later) /\ DestroyCommand(FwDestroy[j])
    BY <1>1, <1>4, DestroyCommands
  <2> QED BY <1>2, <2>1, <2>2, <2>3, EffectKept
<1>5. CASE j >= k
  <2>1. j = k /\ ~Again(fw, m)
    BY <1>5
  <2>2. EffectOn(Exec(fw, FwDestroy[j]), FwDestroy[j], Later)
    <3>1. /\ ~Again(fw, FwDestroy[j])
          /\ \A i \in 1 .. 41 : i < j => EffectOn(fw, FwDestroy[i], Later)
      BY <1>1, <2>1
    <3> QED BY <1>1, <1>2, <3>1, EffectDone
  <2> QED BY <2>1, <2>2
<1> QED BY <1>4, <1>5

\* A step in fw_destroy()
LEMMA CInvDestroyStep ==
    ASSUME CInv, Step, NEW k \in 1 .. 41, NEW p \in {"start", "stop"}, main = At(p, k)
    PROVE  CInv'
<1> DEFINE m == Next1
<1>1. /\ m = FwDestroy[k]
      /\ fw' = Exec(fw, m)
      /\ main' = IF Again(fw, m) THEN main ELSE [main EXCEPT !.k = @ + 1]
      /\ early' = early /\ stray' = stray /\ list' = list /\ conf' = conf
      /\ faults' = faults /\ calls' = calls
  BY NextAt DEF Step, threads, counts
<1> HIDE DEF m
<1>2. main' = At(p, IF Again(fw, m) THEN k ELSE k + 1)
  BY <1>1, MainFacts
<1>3. /\ main.at = p /\ main.k = k /\ main'.at = p
      /\ main'.k = IF Again(fw, m) THEN k ELSE k + 1
  BY <1>2, MainFacts
<1>4. DestroyCommand(m) /\ Sound(fw)
  BY <1>1, DestroyCommands DEF CInv
<1>5. Sound(fw')
  <2>1. DhcpIsNew(fw, m)
    BY <1>4 DEF DestroyCommand, DhcpIsNew
  <2> QED BY <1>1, <1>4, <2>1, ExecSound
<1>6. fw[Input] = <<>> => fw'[Input] = <<>>
  <2>1. ToSet(<<>>) = {} /\ ToSet(<<"Outgoing">>) = {"Outgoing"}
    BY DEF ToSet
  <2>2. Input \in DOMAIN fw' /\ fw'[Input] \in {<<>>, <<"Outgoing">>}
    BY <1>5, ChainFacts DEF Sound, Typed, DhcpOnce
  <2>3. ToSet(fw'[Input]) \subseteq ToSet(fw[Input])
    BY <1>1, <1>4, <2>2, ExecShrinks
  <2> QED BY <2>1, <2>2, <2>3
<1>7. MainOK' /\ CountsOK' /\ QueuesOK'
  <2>1. main'.k \in 1 .. 42
    BY <1>3
  <2>2. main' = At(p, main'.k)
    BY <1>2, <1>3
  <2>3. Len(FwDestroy) = 41 /\ Len(FwInit) = 53
    BY DestroyAt, InitAt
  <2>4. MainOK'
    BY <2>1, <2>2, <2>3 DEF MainOK
  <2> QED BY <1>1, <2>4 DEF CInv, CountsOK, QueuesOK
<1>8. StrayOK'
  BY <1>1, <1>6 DEF CInv, StrayOK, DhcpIsNew
<1>9. TogetherOK'
  BY <1>1, <1>3 DEF CInv, TogetherOK
<1>10. Later' = Later
  BY <1>3 DEF Later
<1>11. ASSUME Destroying
       PROVE  \A j \in 1 .. 41 : j < main'.k => EffectOn(fw', FwDestroy[j], Later)
  BY <1>1, <1>3, <1>5, <1>11, StepEffects
<1>12. Destroying' => Destroying
  BY <1>1, <1>3, DestroyAt DEF Destroying
<1>13. EffectsOK'
  BY <1>10, <1>11, <1>12, DestroyAt DEF EffectsOK, Effect
<1>14. DhcpOK'
  <2>1. SUFFICES ASSUME p = "start", main'.k \in 5 .. 48 PROVE fw'[Input] = <<>>
    BY <1>3 DEF DhcpOK
  <2>2. CASE k \in 5 .. 48
    BY <1>3, <1>6, <2>1, <2>2 DEF CInv, DhcpOK
  <2>3. CASE k \notin 5 .. 48
    <3>1. k = 4
      BY <1>3, <2>1, <2>3
    <3>2. Destroying
      BY <1>3, <2>1, <3>1, DestroyAt DEF Destroying
    <3>3. EffectOn(fw', FwDestroy[4], Later)
      BY <1>11, <2>1, <3>2
    <3>4. FwDestroy[4].op = "D" /\ Where(FwDestroy[4]) = Input /\ FwDestroy[4].r = "Outgoing"
      BY DestroyAt DEF Command, Where, Input
    <3>5. "Outgoing" \notin ToSet(fw'[Input])
      BY <3>3, <3>4 DEF EffectOn
    <3>6. ToSet(<<"Outgoing">>) = {"Outgoing"}
      BY DEF ToSet
    <3> QED BY <1>5, <3>5, <3>6 DEF Sound, DhcpOnce
  <2> QED BY <2>2, <2>3
<1>15. BuiltOK'
  <2>1. Len(FwDestroy) = 41
    BY DestroyAt
  <2>2. SUFFICES ASSUME p = "start", main'.k > 41 PROVE fw' = FirstStart[main'.k - 41 - 1]
    BY <1>3, <2>1 DEF BuiltOK
  <2>3. main'.k = 42
    BY <1>3, <2>2
  <2>4. Destroying /\ Later = {}
    BY <1>3, <2>1, <2>2 DEF Destroying, Later
  <2>5. \A j \in 1 .. 41 : EffectOn(fw', FwDestroy[j], {})
    BY <1>11, <2>3, <2>4
  <2>6. fw' = Bare
    BY <1>5, <2>5, NothingLeft
  <2>7. main'.k - 41 - 1 = 0
    BY <2>3
  <2> QED BY <2>6, <2>7, FirstStartAt
<1>16. EmptyOK'
  <2>1. Len(FwDestroy) = 41
    BY DestroyAt
  <2>2. SUFFICES ASSUME p = "start", main'.k > 41
                 PROVE  \A x \in DOMAIN fw' \cap Dynamic : fw'[x] = <<>>
    BY <1>3, <2>1 DEF EmptyOK
  <2>3. main'.k = 42
    BY <1>3, <2>2
  <2>4. fw' = FirstStart[0]
    BY <1>3, <1>15, <2>1, <2>2, <2>3 DEF BuiltOK
  <2>5. DOMAIN fw' = BuiltIn
    BY <2>4, FirstStartAt DEF Bare
  <2> QED BY <2>5, ChainFacts
<1>17. ServesWhole'
  BY <1>2, MainFacts DEF ServesWhole
<1> QED BY <1>5, <1>7, <1>8, <1>9, <1>13, <1>14, <1>15, <1>16, <1>17 DEF CInv

\* A step in fw_init()
LEMMA CInvInitStep ==
    ASSUME CInv, Step, NEW k \in 42 .. 94, main = At("start", k)
    PROVE  CInv'
<1> DEFINE m == Next1
<1>1. /\ m = FwInit[k - 41] /\ k - 41 \in 1 .. 53
      /\ fw' = Exec(fw, m)
      /\ main' = IF Again(fw, m) THEN main ELSE [main EXCEPT !.k = @ + 1]
      /\ early' = early /\ stray' = stray /\ list' = list /\ conf' = conf
      /\ faults' = faults /\ calls' = calls
  BY NextAt DEF Step, threads, counts
<1> HIDE DEF m
<1>2. InitCommand(m) /\ (Where(m) = Input => k - 41 = 7)
  BY <1>1, InitAt
<1>3. ~Again(fw, m)
  BY <1>2 DEF Again, InitCommand
<1>4. main' = At("start", k + 1)
  BY <1>1, <1>3, MainFacts
<1>5. main.at = "start" /\ main.k = k /\ main'.at = "start" /\ main'.k = k + 1
  BY <1>4, MainFacts
<1>6. Len(FwDestroy) = 41 /\ Len(FwInit) = 53
  BY DestroyAt, InitAt
<1>7. DhcpIsNew(fw, m)
  BY <1>2, <1>5 DEF CInv, DhcpOK, DhcpIsNew
<1>8. Sound(fw')
  BY <1>1, <1>2, <1>7, ExecSound DEF CInv
<1>9. MainOK' /\ CountsOK' /\ QueuesOK'
  <2>1. k + 1 \in 1 .. 41 + 53 + 1
    OBVIOUS
  <2>2. MainOK'
    BY <1>4, <1>6, <2>1 DEF MainOK
  <2> QED BY <1>1, <2>2 DEF CInv, CountsOK, QueuesOK
<1>10. TogetherOK' /\ stray = Nothing
  BY <1>1, <1>5 DEF CInv, TogetherOK
<1>11. StrayOK'
  BY <1>1, <1>10 DEF StrayOK
<1>12. EffectsOK'
  <2>1. ~Destroying'
    BY <1>5, <1>6 DEF Destroying
  <2> QED BY <2>1 DEF EffectsOK
<1>13. DhcpOK'
  <2>1. SUFFICES ASSUME k + 1 \in 5 .. 48 PROVE fw'[Input] = <<>>
    BY <1>5 DEF DhcpOK
  <2>2. k \in 5 .. 48 /\ Where(m) # Input
    BY <1>2, <2>1
  <2>3. fw[Input] = <<>>
    BY <1>5, <2>2 DEF CInv, DhcpOK
  <2>4. Input \in DOMAIN fw
    BY ChainFacts DEF CInv, Sound, Typed
  <2> QED BY <1>1, <1>2, <2>2, <2>3, <2>4, ExecElsewhere
<1>14. BuiltOK'
  <2>1. fw = FirstStart[k - 41 - 1]
    BY <1>5, <1>6 DEF CInv, BuiltOK
  <2>2. FirstStart[k - 41] = Exec(FirstStart[k - 41 - 1], FwInit[k - 41])
    BY <1>1, FirstStartAt
  <2>3. (k + 1) - 41 - 1 = k - 41
    OBVIOUS
  <2> QED BY <1>1, <1>5, <1>6, <2>1, <2>2, <2>3 DEF BuiltOK
<1>15. EmptyOK'
  <2>1. \A x \in DOMAIN fw \cap Dynamic : fw[x] = <<>>
    BY <1>5, <1>6 DEF CInv, EmptyOK
  <2> QED BY <1>1, <1>2, <2>1, ExecElsewhere DEF EmptyOK
<1>16. ServesWhole'
  BY <1>4, MainFacts DEF ServesWhole
<1> QED BY <1>8, <1>9, <1>10, <1>11, <1>12, <1>13, <1>14, <1>15, <1>16 DEF CInv

\* Step
LEMMA CInvStep == CInv /\ Step => CInv'
<1> SUFFICES ASSUME CInv, Step PROVE CInv'
  OBVIOUS
<1>1. Busy /\ ~Done
  BY DEF Step
<1>2. CASE \E k \in 1 .. 95 : main = At("start", k)
  <2>1. PICK k \in 1 .. 95 : main = At("start", k)
    BY <1>2
  <2>2. k # 95
    BY <1>1, <2>1, NextAt
  <2>3. CASE k \in 1 .. 41
    BY <2>1, <2>3, CInvDestroyStep
  <2>4. CASE k \in 42 .. 94
    BY <2>1, <2>4, CInvInitStep
  <2> QED BY <2>2, <2>3, <2>4
<1>3. CASE \E k \in 1 .. 42 : main = At("stop", k)
  <2>1. PICK k \in 1 .. 42 : main = At("stop", k)
    BY <1>3
  <2>2. k # 42
    BY <1>1, <2>1, NextAt
  <2>3. k \in 1 .. 41
    BY <2>2
  <2> QED BY <2>1, <2>3, CInvDestroyStep
<1> QED BY <1>1, <1>2, <1>3, BusyAt DEF CInv


-------------------------------------------------------------------------------
(***************************************************************************)
(* What follows for the program.                                           *)
(***************************************************************************)
\* The chains and the main thread are in order, whatever is interrupted when.
THEOREM ChainsInv == Spec => []CInv
<1>1. CInv /\ [Next]_vars => CInv'
  <2> SUFFICES ASSUME CInv, [Next]_vars PROVE CInv'
    OBVIOUS
  <2>1. CASE Next
    BY <2>1, CInvStart, CInvStep, CInvServe, CInvSignal, CInvStrayStep, CInvDeath,
       CInvCall, CInvThread DEF Next
  <2>2. CASE UNCHANGED vars
    BY <2>2 DEF vars, CInv, MainOK, CountsOK, StrayOK, QueuesOK, TogetherOK, EffectsOK,
                Destroying, Effect, Later, DhcpOK, BuiltOK, EmptyOK, ServesWhole
  <2> QED BY <2>1, <2>2
<1> QED BY CInvInit, <1>1, PTL DEF Spec

\* The tables hold chains of wifidog with rules that have a known target, and
\* the main thread is at a command of a start or a stop.
THEOREM ChainsType == Spec => []ChTypeOK
<1>1. CInv => ChTypeOK
  <2> SUFFICES ASSUME CInv PROVE ChTypeOK
    OBVIOUS
  <2>1. /\ DOMAIN fw \subseteq Chain /\ BuiltIn \subseteq DOMAIN fw
        /\ \A k \in DOMAIN fw : fw[k] \in Seq(Targets)
    BY DEF CInv, Sound, Typed
  <2>2. \A k \in DOMAIN fw : ToSet(fw[k]) \subseteq Targets
    BY <2>1, Elements
  <2>3. main \in {Off, Serves, Hangs} \/ (Busy /\ main.k \in 1 .. Len(Program[main.at]) + 1)
    <3>1. Len(FwDestroy) = 41 /\ Len(FwInit) = 53
      BY DestroyAt, InitAt
    <3>2. ASSUME NEW k \in 1 .. 95, main = At("start", k)
          PROVE  Busy /\ main.k \in 1 .. Len(Program[main.at]) + 1
      <4>1. main.at = "start" /\ main.k = k
        BY <3>2, MainFacts
      <4> QED BY <4>1, ProgramAt DEF Busy
    <3>3. ASSUME NEW k \in 1 .. 42, main = At("stop", k)
          PROVE  Busy /\ main.k \in 1 .. Len(Program[main.at]) + 1
      <4>1. main.at = "stop" /\ main.k = k /\ Len(Program["stop"]) = 41
        BY <3>3, MainFacts, ProgramAt
      <4> QED BY <4>1, ProgramAt DEF Busy
    <3> QED BY <3>1, <3>2, <3>3 DEF CInv, MainOK
  <2> QED BY <2>1, <2>2, <2>3 DEF CInv, TogetherOK, CountsOK, ChTypeOK
<1> QED BY ChainsInv, <1>1, PTL

\* Whatever an earlier life has left, and whoever interrupted it where, a start
\* that ends ends with the chains of a first one.
THEOREM ChainsStart == Spec => []StartsClean
<1>1. CInv => StartsClean
  BY AtDone DEF CInv, StartsClean
<1> QED BY ChainsInv, <1>1, PTL

\* While the program serves, whatever its other threads execute and however many
\* lives there were before, the chains are those of a first start with nothing
\* but clients and servers added.
THEOREM ChainsServe == Spec => []ServesWhole
<1>1. CInv => ServesWhole
  BY DEF CInv
<1> QED BY ChainsInv, <1>1, PTL

\* A stop of a process that has served leaves no rule of wifidog in a built-in
\* chain, and of its chains only those that other threads write to, with
\* nothing but their rules.
THEOREM ChainsStop == Spec => []StopsClean
<1>1. CInv => StopsClean
  <2> SUFFICES ASSUME CInv, main.at = "stop", Done, ~early
               PROVE  /\ \A k \in BuiltIn : fw[k] = <<>>
                      /\ DOMAIN fw \ BuiltIn \subseteq Dynamic
                      /\ \A k \in Dynamic \cap DOMAIN fw :
                            ToSet(fw[k]) \subseteq {"client", "server"}
    BY DEF StopsClean
  <2>1. PICK k \in 1 .. 42 : main = At("stop", k)
    BY BusyAt DEF CInv, Done
  <2>2. k = 42
    BY <2>1, NextAt
  <2>3. main.k = 42
    BY <2>1, <2>2, MainFacts
  <2>4. \A i \in 1 .. 41 : EffectOn(fw, FwDestroy[i], Dynamic)
    BY <2>3, DestroyAt DEF CInv, EffectsOK, Destroying, Effect, Later
  <2>5. Sound(fw) /\ Dynamic \in SUBSET Own
    BY ChainFacts DEF CInv
  <2> QED BY <2>4, <2>5, DestroyDone
<1> QED BY ChainsInv, <1>1, PTL
===============================================================================
