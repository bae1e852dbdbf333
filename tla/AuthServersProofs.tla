---------------------------- MODULE AuthServersProofs ----------------------------
(***************************************************************************)
(* Proofs about AuthServers, for any number of servers and workers.        *)
(***************************************************************************)
EXTENDS AuthServers, LeastProofs

USE DEF NoServer

\* get_auth_server() returns a server of the list.
LEMMA GetAuthServerType == ASSUME TypeOK PROVE GetAuthServer \in Server
<1>1. CASE inuse = {}
  BY <1>1, AuthServersAssumption DEF GetAuthServer, Server
<1>2. CASE inuse # {}
  <2>1. inuse \in SUBSET Nat
    BY DEF TypeOK, Server
  <2>2. \E s \in inuse : \A r \in inuse : s <= r
    BY <1>2, <2>1, LeastExists
  <2> QED BY <1>2, <2>2 DEF GetAuthServer, TypeOK
<1> QED BY <1>1, <1>2

\* What is known of a thread's call, by its program counter.
LEMMA CallFacts ==
  ASSUME NEW c \in Call
  PROVE  /\ c.pc \in {"called", "trying"} =>
                /\ c.host \in Host /\ c.level \in Server \cup {NoServer}
                /\ c = [pc |-> c.pc, host |-> c.host, level |-> c.level]
         /\ c.pc = "result" =>
                c.host \in Host /\ c.server \in Server \cup {NoServer}
         /\ c.pc = "talking" => c.host \in Host /\ c.server \in Server
         /\ Rest.pc = "rest" /\ Asleep.pc = "asleep"
  BY DEF Call, Rest, Asleep

LEMMA MakesCall ==
  ASSUME NEW h \in Host
  PROVE  /\ \A l \in Server \cup {NoServer}, k \in {"called", "trying"} :
                [pc |-> k, host |-> h, level |-> l] \in Call
         /\ \A s \in Server \cup {NoServer} :
                [pc |-> "result", host |-> h, server |-> s] \in Call
         /\ \A s \in Server : [pc |-> "talking", host |-> h, server |-> s] \in Call
         /\ Rest \in Call /\ Asleep \in Call
  BY DEF Call

\* Times that were marked stay in their range.
LEMMA MarksType ==
  ASSUME TypeOK,
         \/ MarkOnline \/ MarkAuthOnline \/ MarkAuthOffline \/ MarkOffline
         \/ UNCHANGED online
  PROVE  /\ age' \in 0 .. Limit /\ authAge' \in 0 .. Limit
         /\ lag' \in 0 .. Limit /\ authLag' \in 0 .. Limit
  BY AuthServersAssumption DEF TypeOK, Limit, MarkOnline, MarkAuthOnline,
     MarkAuthOffline, MarkOffline, online

-------------------------------------------------------------------------------
(***************************************************************************)
(* The types.                                                              *)
(***************************************************************************)
LEMMA RequestType == ASSUME TypeOK, NEW w \in Worker, Request(w) PROVE TypeOK'
<1>1. GetAuthServer - 1 \in Server \cup {NoServer}
  BY GetAuthServerType, AuthServersAssumption DEF Server
<1>2. [pc |-> "called", host |-> "auth", level |-> GetAuthServer - 1] \in Call
  BY <1>1, MakesCall DEF Host
<1> QED BY <1>2 DEF Request, TypeOK, servers, online, Thread

LEMMA WakeType == ASSUME TypeOK, Wake PROVE TypeOK'
<1>1. [pc |-> "called", host |-> "auth", level |-> NoServer] \in Call
  BY MakesCall DEF Host
<1> QED BY <1>1 DEF Wake, TypeOK, servers, online, Thread

LEMMA LockType == ASSUME TypeOK, NEW t \in Thread, Lock(t) PROVE TypeOK'
<1>1. call[t] \in Call /\ call[t].pc = "called"
  BY DEF TypeOK, Lock
<1>2. [call[t] EXCEPT !.pc = "trying"] \in Call
  BY <1>1, CallFacts, MakesCall
<1>3. call' \in [Thread -> Call]
  BY <1>2 DEF Lock, TypeOK
<1> QED BY <1>3 DEF Lock, TypeOK, servers, online

LEMMA ReturnsType ==
  ASSUME TypeOK, NEW t \in Thread, NEW s \in Server \cup {NoServer},
         call[t].pc = "trying", Returns(t, s)
  PROVE  call' \in [Thread -> Call] /\ holder' \in Thread \cup {NoThread}
<1>1. call[t].host \in Host
  BY CallFacts DEF TypeOK
<1> QED BY <1>1, MakesCall DEF Returns, TypeOK

LEMMA GiveUpType == ASSUME TypeOK, NEW t \in Thread, GiveUp(t) PROVE TypeOK'
<1>1. call' \in [Thread -> Call] /\ holder' \in Thread \cup {NoThread}
  BY ReturnsType DEF GiveUp
<1> QED BY <1>1 DEF GiveUp, TypeOK, servers, online

\* Trying a server leaves the right kind of address in last_ip.
LEMMA ResolvedFacts ==
  ASSUME TypeOK, NEW h \in Host, NEW s \in Server, NEW o \in Outcome
  PROVE  /\ Resolved(h, s, o) \in [Server -> Host \cup {NoIp}]
         /\ \A r \in Server \ {s} : Resolved(h, s, o)[r] = lastIp[r]
  BY DEF Resolved, TypeOK, Outcome

LEMMA TryFacts ==
  ASSUME TypeOK, NEW t \in Thread, NEW o \in Outcome, Try(t, o)
  PROVE  LET s == call[t].level + 1
             last == Resolved(call[t].host, s, o)
         IN  /\ call[t].host \in Host /\ s \in Server
             /\ lastIp' = last
             /\ chain' = IF last[s] \in {NoIp, lastIp[s]} THEN chain
                         ELSE Whitelist(last)
BY CallFacts, AuthServersAssumption DEF Try, TypeOK, Server

LEMMA TryType == ASSUME TypeOK, NEW t \in Thread, NEW o \in Outcome, Try(t, o)
                 PROVE  TypeOK'
<1> DEFINE s == call[t].level + 1
           h == call[t].host
<1>1. call[t] \in Call /\ call[t].pc = "trying" /\ h \in Host /\ s \in Server
  BY TryFacts DEF TypeOK, Try
<1>2. lastIp' \in [Server -> Host \cup {NoIp}]
  BY <1>1, TryFacts, ResolvedFacts
<1>3. chain' \subseteq Host \X Server
  BY <1>1, <1>2, TryFacts DEF Whitelist, TypeOK
<1>4. inuse' \subseteq Server
  BY <1>1 DEF Try, TypeOK
<1>5. call' \in [Thread -> Call] /\ holder' \in Thread \cup {NoThread}
  <2>1. CASE o \in {"refused", "unresolved"}
    <3>1. [pc |-> "trying", host |-> h, level |-> s] \in Call
      BY <1>1, MakesCall
    <3>2. call[t] = [pc |-> "trying", host |-> h, level |-> call[t].level]
      BY <1>1, CallFacts
    <3>3. [call[t] EXCEPT !.level = s] = [pc |-> "trying", host |-> h, level |-> s]
      BY <3>2
    <3> QED BY <2>1, <3>1, <3>3 DEF Try, TypeOK
  <2>2. CASE o \notin {"refused", "unresolved"}
    <3>1. Returns(t, IF o = "connected" THEN s ELSE NoServer)
      BY <2>2 DEF Try
    <3> QED BY <1>1, <3>1, ReturnsType
  <2> QED BY <2>1, <2>2
<1>6. /\ age' \in 0 .. Limit /\ authAge' \in 0 .. Limit
      /\ lag' \in 0 .. Limit /\ authLag' \in 0 .. Limit
  BY MarksType DEF Try
<1>7. timer' \in Nat /\ pinged' \in BOOLEAN
  BY DEF Try, TypeOK
<1> QED BY <1>2, <1>3, <1>4, <1>5, <1>6, <1>7 DEF TypeOK

LEMMA AfterType == ASSUME NEW t PROVE After(t) \subseteq Call
<1>1. [pc |-> "called", host |-> "central", level |-> NoServer] \in Call
  BY MakesCall DEF Host
<1>2. Rest \in Call /\ Asleep \in Call
  BY DEF Call
<1> QED BY <1>1, <1>2 DEF After

LEMMA GoesOnType ==
  ASSUME TypeOK, NEW t \in Thread, GoesOn(t)
  PROVE  /\ call' \in [Thread -> Call] /\ timer' \in Nat
         /\ UNCHANGED <<inuse, lastIp, chain, holder>>
  BY AfterType DEF GoesOn, TypeOK, servers

LEMMA MarkType == ASSUME TypeOK, NEW t \in Thread, Mark(t) PROVE TypeOK'
<1>1. call[t] \in Call /\ call[t].pc = "result"
  BY DEF Mark, TypeOK
<1>2. /\ call' \in [Thread -> Call] /\ timer' \in Nat
      /\ UNCHANGED <<inuse, lastIp, chain, holder>>
  <2>1. CASE call[t].server = NoServer
    BY <2>1, GoesOnType DEF Mark
  <2>2. CASE call[t].server # NoServer
    <3>1. [pc |-> "talking", host |-> call[t].host, server |-> call[t].server]
            \in Call
      BY <1>1, <2>2, CallFacts, MakesCall
    <3> QED BY <2>2, <3>1 DEF Mark, TypeOK, servers
  <2> QED BY <2>1, <2>2
<1>3. /\ age' \in 0 .. Limit /\ authAge' \in 0 .. Limit
      /\ lag' \in 0 .. Limit /\ authLag' \in 0 .. Limit
  BY MarksType DEF Mark
<1>4. pinged' \in BOOLEAN
  BY DEF Mark, TypeOK
<1> QED BY <1>2, <1>3, <1>4 DEF TypeOK

LEMMA TalkedType == ASSUME TypeOK, NEW t \in Thread, Talked(t) PROVE TypeOK'
  BY GoesOnType DEF Talked, TypeOK, online

LEMMA TickType == ASSUME TypeOK, Tick PROVE TypeOK'
<1>1. age' \in 0 .. Limit /\ authAge' \in 0 .. Limit /\ timer' \in Nat
  BY AuthServersAssumption DEF Tick, Later, TypeOK, Limit
<1> QED BY <1>1 DEF Tick, TypeOK, servers

LEMMA TypeInit == ASSUME Init PROVE TypeOK
<1>1. [pc |-> "called", host |-> "auth", level |-> NoServer] \in Call /\ Rest \in Call
  BY MakesCall DEF Host
<1>2. Limit \in 0 .. Limit
  BY AuthServersAssumption DEF Limit
<1> QED BY <1>1, <1>2 DEF Init, TypeOK

LEMMA TypeStep == ASSUME TypeOK, [Next]_vars PROVE TypeOK'
<1>1. ASSUME NEW t \in Thread, Connect(t) PROVE TypeOK'
  BY <1>1, LockType, GiveUpType, TryType, MarkType, TalkedType DEF Connect
<1>2. CASE UNCHANGED vars
  BY <1>2 DEF vars, TypeOK
<1> QED BY <1>1, <1>2, RequestType, WakeType, TickType DEF Next

\* No thread is ever lost: wherever calls are cut off and whatever the threads
\* learn from one another, servers, addresses and times stay in their ranges.
THEOREM AuthTypeCorrect == Spec => []TypeOK
<1>1. Init => TypeOK
  BY TypeInit
<1>2. TypeOK /\ [Next]_vars => TypeOK'
  BY TypeStep
<1> QED BY <1>1, <1>2, PTL DEF Spec

-------------------------------------------------------------------------------
(***************************************************************************)
(* The whitelist.                                                          *)
(***************************************************************************)
LEMMA WhitelistStep ==
  ASSUME TypeOK, KnownAddressIsOpen, [Next]_vars PROVE KnownAddressIsOpen'
<1>1. CASE UNCHANGED <<lastIp, chain>>
  BY <1>1 DEF KnownAddressIsOpen
<1>2. ASSUME NEW t \in Thread, NEW o \in Outcome, Try(t, o)
      PROVE  KnownAddressIsOpen'
  <2> DEFINE s == call[t].level + 1
             last == Resolved(call[t].host, s, o)
  <2>1. /\ call[t].host \in Host /\ s \in Server
        /\ lastIp' = last
        /\ chain' = IF last[s] \in {NoIp, lastIp[s]} THEN chain ELSE Whitelist(last)
    BY <1>2, TryFacts
  <2>2. \A r \in Server \ {s} : last[r] = lastIp[r]
    BY <2>1, ResolvedFacts
  <2> HIDE DEF s, last
  <2>3. CASE last[s] \in {NoIp, lastIp[s]}
    BY <2>1, <2>2, <2>3 DEF KnownAddressIsOpen
  <2>4. CASE last[s] \notin {NoIp, lastIp[s]}
    BY <2>1, <2>4 DEF KnownAddressIsOpen, Whitelist
  <2> QED BY <2>3, <2>4
<1>3. [Next]_vars => \/ \E t \in Thread, o \in Outcome : Try(t, o)
                     \/ UNCHANGED <<lastIp, chain>>
  BY DEF Next, Request, Wake, Connect, Lock, GiveUp, Mark, GoesOn, Talked, Tick,
     vars, servers
<1> QED BY <1>1, <1>2, <1>3

\* fw_iptables.c: the chains are rewritten whenever an address is new, and only
\* then: none that the program knows ever drops out of them.
THEOREM KnownStaysOpen == Spec => []KnownAddressIsOpen
<1>1. Init => KnownAddressIsOpen
  BY DEF Init, KnownAddressIsOpen
<1>2. TypeOK /\ KnownAddressIsOpen /\ [Next]_vars => KnownAddressIsOpen'
  BY WhitelistStep
<1> QED BY <1>1, <1>2, AuthTypeCorrect, PTL DEF Spec

-------------------------------------------------------------------------------
(***************************************************************************)
(* Staying online.                                                         *)
(***************************************************************************)

\* The ping thread has marked the time since it woke up.
HasMarked == call[Pinger].pc = "talking" \/ call[Pinger].host = "central"

\* How old the last mark of a ping thread that succeeded is at most: it marks
\* at every wake, and is awake for Busy at most.
Oldest ==
    IF call[Pinger] = Asleep THEN Busy + timer
    ELSE IF HasMarked THEN timer
    ELSE Busy + CheckInterval + timer

OnTime ==
    /\ timer <= IF call[Pinger] = Asleep THEN CheckInterval ELSE Busy
    /\ age <= authAge
    /\ pinged => authAge <= Oldest

\* Then no failure that is recorded now is Limit after the last mark.
LEMMA MarksAreYoung ==
  ASSUME 2 * Busy < CheckInterval, TypeOK, OnTime, pinged = TRUE
  PROVE  authAge < Limit /\ age < Limit
<1>1. authAge <= Busy + CheckInterval + Busy
  BY AuthServersAssumption DEF TypeOK, OnTime, Oldest
<1> QED BY <1>1, AuthServersAssumption DEF TypeOK, OnTime, Limit

\* A step that leaves the ping thread in its phase, and does not make the marks
\* older.
LEMMA SamePhase ==
  ASSUME TypeOK, OnTime,
         call'[Pinger] = Asleep <=> call[Pinger] = Asleep,
         call[Pinger] # Asleep => (HasMarked' <=> HasMarked),
         UNCHANGED <<timer, pinged>>,
         \/ MarkOnline \/ MarkAuthOnline \/ MarkAuthOffline \/ MarkOffline
         \/ UNCHANGED online
  PROVE  OnTime'
<1>1. /\ age \in Nat /\ authAge \in Nat /\ timer \in Nat
      /\ age' <= authAge' /\ authAge' <= authAge
      /\ age' \in Nat /\ authAge' \in Nat
  BY AuthServersAssumption DEF TypeOK, OnTime, MarkOnline, MarkAuthOnline,
     MarkAuthOffline, MarkOffline, online, Limit
<1>2. Oldest' = Oldest /\ Oldest \in Nat
  BY <1>1, AuthServersAssumption DEF Oldest
<1> QED BY <1>1, <1>2 DEF OnTime

\* Workers do nothing to the ping thread.
LEMMA WorkerOnTime ==
  ASSUME TypeOK, OnTime, NEW w \in Worker, Request(w) \/ Connect(w)
  PROVE  OnTime'
<1>1. w # Pinger /\ w \in Thread /\ Pinger \in Thread
  BY AuthServersAssumption DEF Thread
<1>2. call'[Pinger] = call[Pinger]
  BY <1>1 DEF TypeOK, Request, Connect, Lock, GiveUp, Returns, Try, Mark, Talked,
     GoesOn
<1>3. timer' = timer
  <2>1. Asleep \notin After(w)
    BY <1>1 DEF After, Rest, Asleep
  <2> QED BY <2>1 DEF Request, Connect, Lock, GiveUp, Try, Mark, Talked, GoesOn
<1>4. pinged' = pinged
  BY <1>1 DEF Request, Connect, Lock, GiveUp, Try, Mark, Talked
<1>5. \/ MarkOnline \/ MarkAuthOnline \/ MarkAuthOffline \/ MarkOffline
      \/ UNCHANGED online
  BY DEF Request, Connect, Lock, GiveUp, Try, Mark, Talked
<1> QED BY <1>2, <1>3, <1>4, <1>5, SamePhase DEF HasMarked

\* Until a result is there, the ping thread is where it was.
LEMMA PingerTries ==
  ASSUME TypeOK, OnTime,
         \/ Lock(Pinger) \/ GiveUp(Pinger)
         \/ \E o \in Outcome : Try(Pinger, o)
  PROVE  OnTime'
<1>1. Pinger \in Thread /\ call[Pinger] \in Call
  BY DEF Thread, TypeOK
<1>2. call[Pinger].pc \in {"called", "trying"}
  BY DEF Lock, GiveUp, Try
<1>3. /\ call'[Pinger].pc \in {"called", "trying", "result"}
      /\ call'[Pinger].host = call[Pinger].host
  <2>1. \E h, l : call[Pinger] = [pc |-> call[Pinger].pc, host |-> h, level |-> l]
    BY <1>1, <1>2, CallFacts
  <2> QED BY <1>1, <2>1 DEF Lock, GiveUp, Try, Returns, TypeOK
<1>4. call[Pinger] # Asleep /\ call'[Pinger] # Asleep
  BY <1>2, <1>3 DEF Asleep
<1>5. HasMarked' <=> HasMarked
  BY <1>2, <1>3 DEF HasMarked
<1>6. UNCHANGED <<timer, pinged>>
  BY DEF Lock, GiveUp, Try
<1>7. \/ MarkOnline \/ MarkAuthOnline \/ MarkAuthOffline \/ MarkOffline
      \/ UNCHANGED online
  BY DEF Lock, GiveUp, Try
<1> QED BY <1>4, <1>5, <1>6, <1>7, SamePhase

LEMMA WakeOnTime == ASSUME TypeOK, OnTime, Wake PROVE OnTime'
<1>1. /\ call'[Pinger] = [pc |-> "called", host |-> "auth", level |-> NoServer]
      /\ timer = CheckInterval /\ timer' = 0 /\ call[Pinger] = Asleep
      /\ UNCHANGED <<age, authAge, pinged>>
  BY DEF Wake, TypeOK, Thread, online
<1>2. call'[Pinger] # Asleep /\ ~HasMarked'
  BY <1>1 DEF Asleep, HasMarked
<1>3. Oldest' = Busy + CheckInterval /\ Oldest = Busy + CheckInterval
  BY <1>1, <1>2, AuthServersAssumption DEF Oldest
<1> QED BY <1>1, <1>2, <1>3, AuthServersAssumption DEF OnTime

LEMMA TickOnTime == ASSUME TypeOK, OnTime, Tick PROVE OnTime'
<1>1. call' = call /\ pinged' = pinged /\ timer \in Nat /\ timer' = timer + 1
  BY DEF Tick, TypeOK
<1>2. timer' <= IF call[Pinger] = Asleep THEN CheckInterval ELSE Busy
  BY <1>1, AuthServersAssumption DEF Tick
<1>3. /\ age' <= authAge' /\ authAge' <= authAge + 1
      /\ age' \in Nat /\ authAge' \in Nat /\ authAge \in Nat
  BY AuthServersAssumption DEF Tick, Later, TypeOK, OnTime, Limit
<1>4. Oldest' = Oldest + 1 /\ Oldest \in Nat
  BY <1>1, AuthServersAssumption DEF Oldest, HasMarked
<1> QED BY <1>1, <1>2, <1>3, <1>4 DEF OnTime

\* The ping thread goes on to its counters, or to sleep: after a mark, or
\* without a success to remember.
LEMMA PingerGoesOn ==
  ASSUME TypeOK, OnTime, GoesOn(Pinger), call[Pinger] # Asleep,
         age' <= authAge', authAge' \in Nat, age' \in Nat,
         pinged' => authAge' <= timer
  PROVE  OnTime'
<1>1. timer \in Nat /\ timer <= Busy
  BY DEF TypeOK, OnTime
<1>2. CASE call'[Pinger] = Asleep
  <2>1. timer' = 0
    BY <1>2 DEF GoesOn, TypeOK, Thread
  <2>2. Oldest' = Busy + 0
    BY <1>2, <2>1 DEF Oldest
  <2> QED BY <1>1, <1>2, <2>1, <2>2, AuthServersAssumption DEF OnTime
<1>3. CASE call'[Pinger] # Asleep
  <2>1. timer' = timer /\ call'[Pinger].host = "central"
    BY <1>3 DEF GoesOn, After, TypeOK, Thread
  <2>2. Oldest' = timer'
    BY <1>3, <2>1 DEF Oldest, HasMarked
  <2> QED BY <1>1, <1>3, <2>1, <2>2 DEF OnTime
<1> QED BY <1>2, <1>3

LEMMA PingerMarks == ASSUME TypeOK, OnTime, Mark(Pinger) PROVE OnTime'
<1>1. call[Pinger] # Asleep /\ timer \in Nat /\ timer <= Busy
  BY DEF Mark, Asleep, TypeOK, OnTime
<1>2. CASE call[Pinger].server = NoServer
  <2>1. pinged' = FALSE
    BY <1>2 DEF Mark
  <2>2. age' = age /\ authAge' = authAge /\ age \in Nat /\ authAge \in Nat
    BY <1>2, AuthServersAssumption DEF Mark, MarkAuthOffline, TypeOK, Limit
  <2> QED BY <1>1, <1>2, <2>1, <2>2, PingerGoesOn DEF Mark, OnTime
<1>3. CASE call[Pinger].server # NoServer
  <2>1. call'[Pinger].pc = "talking" /\ timer' = timer /\ age' = 0 /\ authAge' = 0
    BY <1>3 DEF Mark, MarkAuthOnline, TypeOK, Thread
  <2>2. call'[Pinger] # Asleep /\ Oldest' = timer
    BY <2>1 DEF Oldest, HasMarked, Asleep
  <2> QED BY <1>1, <2>1, <2>2 DEF OnTime
<1> QED BY <1>2, <1>3

LEMMA PingerTalked == ASSUME TypeOK, OnTime, Talked(Pinger) PROVE OnTime'
<1>1. call[Pinger] # Asleep /\ HasMarked
  BY DEF Talked, Asleep, HasMarked
<1>2. /\ age' = age /\ authAge' = authAge /\ pinged' = pinged
      /\ age \in Nat /\ authAge \in Nat
  BY AuthServersAssumption DEF Talked, online, TypeOK, Limit
<1>3. pinged => authAge <= timer
  BY <1>1 DEF OnTime, Oldest
<1> QED BY <1>1, <1>2, <1>3, PingerGoesOn DEF Talked, OnTime

LEMMA OnTimeStep == ASSUME TypeOK, OnTime, [Next]_vars PROVE OnTime'
<1>1. ASSUME NEW t \in Thread, Connect(t) PROVE OnTime'
  <2>1. CASE t \in Worker
    BY <1>1, <2>1, WorkerOnTime
  <2>2. CASE t = Pinger
    BY <1>1, <2>2, PingerTries, PingerMarks, PingerTalked DEF Connect
  <2> QED BY <2>1, <2>2 DEF Thread
<1>2. CASE UNCHANGED vars
  BY <1>2 DEF vars, OnTime, Oldest, HasMarked
<1> QED BY <1>1, <1>2, WorkerOnTime, WakeOnTime, TickOnTime DEF Next

LEMMA OnTimeInit == ASSUME Init PROVE OnTime
<1>1. call[Pinger] # Asleep /\ timer = 0 /\ age = authAge /\ age \in Nat
  BY AuthServersAssumption DEF Init, Thread, Asleep, Limit
<1> QED BY <1>1, AuthServersAssumption DEF OnTime, Init

LEMMA AlwaysOnTime == Spec => []OnTime
<1>1. Init => OnTime
  BY OnTimeInit
<1>2. TypeOK /\ OnTime /\ [Next]_vars => OnTime'
  BY OnTimeStep
<1> QED BY <1>1, <1>2, AuthTypeCorrect, PTL DEF Spec

\* What a step can make of the two differences is online, unless the ping
\* thread has failed.
LEMMA StaysOnlineStep ==
  ASSUME 2 * Busy < CheckInterval, TypeOK, OnTime, [Next]_vars,
         IsAuthOnline, pinged' = TRUE
  PROVE  IsAuthOnline'
<1>1. lag \in Nat /\ authLag \in Nat /\ lag < Limit /\ authLag < Limit /\ 0 < Limit
  BY AuthServersAssumption DEF TypeOK, IsAuthOnline, IsOnline, Limit
<1>2. CASE MarkOnline \/ MarkAuthOnline \/ UNCHANGED <<lag, authLag>>
  BY <1>1, <1>2 DEF MarkOnline, MarkAuthOnline, IsAuthOnline, IsOnline, Limit
<1>3. CASE (MarkAuthOffline \/ MarkOffline) /\ pinged = TRUE
  BY <1>1, <1>3, MarksAreYoung DEF MarkAuthOffline, MarkOffline, IsAuthOnline,
     IsOnline, Limit
<1>4. \/ MarkOnline \/ MarkAuthOnline \/ UNCHANGED <<lag, authLag>>
      \/ (MarkAuthOffline \/ MarkOffline) /\ pinged = TRUE
  <2>1. ASSUME NEW t \in Thread, Connect(t)
        PROVE  \/ MarkOnline \/ MarkAuthOnline \/ UNCHANGED <<lag, authLag>>
               \/ (MarkAuthOffline \/ MarkOffline) /\ pinged = TRUE
    <3>1. CASE Lock(t) \/ GiveUp(t) \/ Talked(t)
      BY <3>1 DEF Lock, GiveUp, Talked, online
    <3>2. CASE \E o \in Outcome : Try(t, o)
      BY <3>2 DEF Try
    <3>3. CASE Mark(t)
      BY <3>3 DEF Mark
    <3> QED BY <2>1, <3>1, <3>2, <3>3 DEF Connect
  <2>2. CASE (\E w \in Worker : Request(w)) \/ Wake \/ Tick \/ UNCHANGED vars
    BY <2>2 DEF Request, Wake, Tick, vars, online
  <2> QED BY <2>1, <2>2 DEF Next
<1> QED BY <1>2, <1>3, <1>4

\* util.c: if the ping thread is awake for less than half of CheckInterval, the
\* portal goes offline only when a call of the ping thread has failed, however
\* many servers there are and whatever workers learn, and when.
THEOREM OnlineWhilePinged ==
  ASSUME 2 * Busy < CheckInterval
  PROVE  Spec => StaysOnline
<1>1. TypeOK /\ OnTime /\ [Next]_vars
      => [IsAuthOnline /\ ~IsAuthOnline' => ~pinged']_vars
  <2> SUFFICES ASSUME TypeOK, OnTime, [Next]_vars, IsAuthOnline, ~IsAuthOnline'
               PROVE  ~pinged'
    OBVIOUS
  <2>1. pinged' \in BOOLEAN
    BY TypeStep DEF TypeOK
  <2> QED BY <2>1, StaysOnlineStep
<1> QED BY <1>1, AuthTypeCorrect, AlwaysOnTime, PTL DEF Spec, StaysOnline
===============================================================================
