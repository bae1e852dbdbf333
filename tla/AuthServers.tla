------------------------------ MODULE AuthServers ------------------------------
(***************************************************************************)
(* Finding an auth server (centralserver.c, conf.c), the whitelist that    *)
(* lets clients reach it (fw_iptables.c), and the guess whether it is      *)
(* online (util.c).                                                        *)
(*                                                                         *)
(* Workers connect when a client logs in or out, starting at the server    *)
(* they believe is in use; the ping thread wakes up every CheckInterval,   *)
(* connects to say hello, then again to deliver the traffic counters, both *)
(* times starting at the head of the list.  The config mutex is held over  *)
(* all the attempts of one call, but get_auth_server() reads without it.   *)
(***************************************************************************)
EXTENDS Naturals

CONSTANTS
    NumServers,     \* length of the AuthServer list of wifidog.conf
    Reliable,       \* servers that never refuse the ping thread
    Worker,         \* threads with a login or logout under way (bound)
    Pinger,         \* the ping thread
    CheckInterval,  \* CheckInterval of wifidog.conf, in ticks
    Busy            \* ticks the ping thread is awake at most

Server == 1 .. NumServers
Thread == Worker \cup {Pinger}

ASSUME AuthServersAssumption ==
    /\ NumServers \in Nat \ {0}
    /\ Reliable \subseteq Server
    /\ Pinger \notin Worker
    /\ CheckInterval \in Nat \ {0}
    /\ Busy \in Nat

VARIABLES
    inuse,    \* the servers with inuse = 1
    lastIp,   \* lastIp[s]: whose address last_ip holds
    chain,    \* the addresses in the AuthServers chains
    holder,   \* the thread that holds config_mutex
    call,     \* where a thread is in a connect call
    age,      \* time since last_online_time, up to Limit
    authAge,  \* time since last_auth_online_time, up to Limit
    lag,      \* last_offline_time - last_online_time, up to Limit
    authLag,  \* the same of the last_auth_ times
    timer,    \* time since the ping thread went to sleep or woke up
    pinged    \* history: the last connect call of the ping thread succeeded

vars == <<inuse, lastIp, chain, holder, call, age, authAge, lag, authLag, timer,
          pinged>>

NoServer == 0
NoThread == "nobody"

\* The host a connection is for: authserv_hostname or central_server.  A host
\* has one address, and no two hosts share one: <<"auth", 2>> is the address
\* of the second server's authserv_hostname.
Host == {"auth", "central"}
NoIp == "null"

\* What trying one server can come to; the last two are the gateway's own
\* troubles: no name resolves, not even the popular ones, or no descriptor.
Outcome == {"connected", "refused", "unresolved", "offline", "nosocket"}
Local == {"offline", "nosocket"}

\* A thread: "called" waits for the mutex, to start behind server level;
\* "trying" holds it and is past server level; "result" has released it;
\* "talking" sends its request to server s and waits for the reply.
Rest == [pc |-> "rest"]
Asleep == [pc |-> "asleep"]
Call ==
    {Rest, Asleep}
    \cup [pc: {"called"}, host: Host, level: Server \cup {NoServer}]
    \cup [pc: {"trying"}, host: Host, level: Server \cup {NoServer}]
    \cup [pc: {"result"}, host: Host, server: Server \cup {NoServer}]
    \cup [pc: {"talking"}, host: Host, server: Server]

\* Mutant: one interval is long enough.
OneInterval == CheckInterval

\* checkinterval * 2.
Limit == 2 * CheckInterval

TypeOK ==
    /\ inuse \subseteq Server
    /\ lastIp \in [Server -> Host \cup {NoIp}]
    /\ chain \subseteq Host \X Server
    /\ holder \in Thread \cup {NoThread}
    /\ call \in [Thread -> Call]
    /\ age \in 0 .. Limit
    /\ authAge \in 0 .. Limit
    /\ lag \in 0 .. Limit
    /\ authLag \in 0 .. Limit
    /\ timer \in Nat
    /\ pinged \in BOOLEAN

-------------------------------------------------------------------------------
\* Mutant: no server when none is in use.
InUseOrNone ==
    IF inuse = {} THEN NoServer
    ELSE CHOOSE s \in inuse : \A r \in inuse : s <= r

\* get_auth_server(): the first server in use, or the head of the list.
GetAuthServer ==
    IF inuse = {} THEN 1
    ELSE CHOOSE s \in inuse : \A r \in inuse : s <= r

\* Mutant: only the servers in use are whitelisted again.
WhitelistInUse(last) ==
    {<<last[s], s>> : s \in {r \in inuse : last[r] # NoIp}}

\* What iptables_fw_set_authservers() adds to the cleared chains.
Whitelist(last) == {<<last[s], s>> : s \in {r \in Server : last[r] # NoIp}}

\* is_online() and is_auth_online(): a time that was never set counts as long
\* ago, and Limit stands for everything from there on.
IsOnline     == lag < Limit
IsAuthOnline == IsOnline /\ authLag < Limit

\* mark_online(): a time that is set now is not before any other.
MarkOnline == age' = 0 /\ lag' = 0 /\ UNCHANGED <<authAge, authLag>>

\* Mutant: the time of the last failure is set instead.
MarkAuthLate == authLag' = authAge /\ age' = 0 /\ lag' = 0 /\ UNCHANGED authAge

\* mark_auth_online() calls mark_online().
MarkAuthOnline == age' = 0 /\ lag' = 0 /\ authAge' = 0 /\ authLag' = 0

\* mark_auth_offline().
MarkAuthOffline == authLag' = authAge /\ UNCHANGED <<age, authAge, lag>>

\* mark_offline() calls mark_auth_offline().
MarkOffline == lag' = age /\ authLag' = authAge /\ UNCHANGED <<age, authAge>>

online == <<age, authAge, lag, authLag>>
servers == <<inuse, lastIp, chain>>

-------------------------------------------------------------------------------
\* auth_server_request() by a worker, and in_connect_auth_server() up to the
\* mutex: level counts the servers before the one that is in use.
Request(w) ==
    /\ call[w] = Rest
    /\ call' = [call EXCEPT ![w] =
           [pc |-> "called", host |-> "auth", level |-> GetAuthServer - 1]]
    /\ UNCHANGED <<servers, holder, online, timer, pinged>>

\* thread_ping() wakes up and calls ping(): connect_auth_server().
Wake ==
    /\ call[Pinger] = Asleep
    /\ timer = CheckInterval
    /\ timer' = 0
    /\ call' = [call EXCEPT ![Pinger] =
           [pc |-> "called", host |-> "auth", level |-> NoServer]]
    /\ UNCHANGED <<servers, holder, online, pinged>>

\* LOCK_CONFIG().
Lock(t) ==
    /\ call[t].pc = "called"
    /\ holder = NoThread
    /\ holder' = t
    /\ call' = [call EXCEPT ![t].pc = "trying"]
    /\ UNCHANGED <<servers, online, timer, pinged>>

\* The return of _connect_auth_server() and UNLOCK_CONFIG().
Returns(t, s) ==
    /\ holder' = NoThread
    /\ call' = [call EXCEPT ![t] =
           [pc |-> "result", host |-> call[t].host, server |-> s]]

\* _connect_auth_server() beyond the end of the list.
GiveUp(t) ==
    /\ call[t].pc = "trying" /\ call[t].level = NumServers
    /\ Returns(t, NoServer)
    /\ UNCHANGED <<servers, online, timer, pinged>>

\* What can come of thread t trying server s.
Outcomes(t, s) ==
    IF t = Pinger /\ s \in Reliable THEN {"connected"} \cup Local ELSE Outcome

\* The address that trying server s of host h leaves in last_ip.
Resolved(h, s, o) ==
    CASE o = "offline"    -> lastIp
      [] o = "unresolved" -> [lastIp EXCEPT ![s] = NoIp]
      [] OTHER            -> [lastIp EXCEPT ![s] = h]

\* One level of _connect_auth_server().  wd_gethostbyname() calls mark_online()
\* as soon as any name resolves.
Try(t, o) ==
    LET s == call[t].level + 1
        h == call[t].host
        last == Resolved(h, s, o)
    IN  /\ call[t].pc = "trying" /\ call[t].level < NumServers
        /\ o \in Outcomes(t, s)
        /\ lastIp' = last
        /\ chain' = IF last[s] \in {NoIp, lastIp[s]} THEN chain
                    ELSE Whitelist(last)
        /\ inuse' = CASE o = "connected" -> inuse \cup {s}
                      [] o \in {"refused", "unresolved"} -> inuse \ {s}
                      [] OTHER -> inuse
        /\ IF o \in {"refused", "unresolved"}
           THEN /\ call' = [call EXCEPT ![t].level = s]
                /\ UNCHANGED holder
           ELSE Returns(t, IF o = "connected" THEN s ELSE NoServer)
        /\ IF o = "offline" THEN MarkOffline ELSE MarkOnline
        /\ UNCHANGED <<timer, pinged>>

\* What a thread does next when its exchange is over, or came to nothing: a
\* ping is followed by the counters, unless the client list is empty.
After(t) ==
    IF t # Pinger THEN {Rest}
    ELSE IF call[t].host = "central" THEN {Asleep}
    ELSE {Asleep, [pc |-> "called", host |-> "central", level |-> NoServer]}

GoesOn(t) ==
    /\ \E c \in After(t) :
        /\ call' = [call EXCEPT ![t] = c]
        /\ timer' = IF c = Asleep THEN 0 ELSE timer
    /\ UNCHANGED <<servers, holder>>

\* The caller of _connect_auth_server() records what it learned.
Mark(t) ==
    /\ call[t].pc = "result"
    /\ pinged' = IF t = Pinger THEN call[t].server # NoServer ELSE pinged
    /\ IF call[t].server = NoServer
       THEN MarkAuthOffline /\ GoesOn(t)
       ELSE /\ MarkAuthOnline
            /\ call' = [call EXCEPT ![t] =
                   [pc |-> "talking", host |-> call[t].host,
                    server |-> call[t].server]]
            /\ UNCHANGED <<servers, holder, timer>>

\* The reply has come, or an error, or the 30 seconds of select() are over.
Talked(t) ==
    /\ call[t].pc = "talking"
    /\ GoesOn(t)
    /\ UNCHANGED <<online, pinged>>

Later(k) == IF k < Limit THEN k + 1 ELSE k

\* Time passes.  The ping thread wakes up in time, and is done in time.
Tick ==
    /\ timer < IF call[Pinger] = Asleep THEN CheckInterval ELSE Busy
    /\ timer' = timer + 1
    /\ age' = Later(age)
    /\ authAge' = Later(authAge)
    /\ UNCHANGED <<servers, holder, call, lag, authLag, pinged>>

Init ==
    /\ inuse = {}
    /\ lastIp = [s \in Server |-> NoIp]
    /\ chain = {}
    /\ holder = NoThread
    /\ call = [t \in Thread |->
           IF t = Pinger
           THEN [pc |-> "called", host |-> "auth", level |-> NoServer]
           ELSE Rest]
    /\ age = Limit /\ authAge = Limit /\ lag = Limit /\ authLag = Limit
    /\ timer = 0
    /\ pinged = FALSE

Connect(t) ==
    \/ Lock(t) \/ GiveUp(t)
    \/ \E o \in Outcome : Try(t, o)
    \/ Mark(t) \/ Talked(t)

Next ==
    \/ \E w \in Worker : Request(w)
    \/ Wake
    \/ \E t \in Thread : Connect(t)
    \/ Tick

Spec == Init /\ [][Next]_vars

\* Calls return, the mutex is given to the ping thread sooner or later, time
\* goes on, and the gateway's own troubles do not hit every attempt for ever.
Fairness ==
    /\ \A t \in Thread : WF_vars(Connect(t))
    /\ SF_vars(Lock(Pinger))
    /\ \A s \in Server :
           SF_vars(/\ call[Pinger].pc = "trying" /\ call[Pinger].level = s - 1
                   /\ \E o \in Outcome \ Local : Try(Pinger, o))
    /\ WF_vars(Wake)
    /\ WF_vars(Tick)

FairSpec == Spec /\ Fairness
-------------------------------------------------------------------------------
\* The firewall is told of every address the program learns: whatever last_ip
\* holds, clients can reach it.
KnownAddressIsOpen ==
    \A s \in Server : lastIp[s] # NoIp => <<lastIp[s], s>> \in chain

\* Failing logins and late results of other threads do not make
\* http_callback_404() tell clients that the auth server is down: only a call
\* of the ping thread that failed can lead to that.
StaysOnline == [][IsAuthOnline /\ ~IsAuthOnline' => ~pinged']_vars

\* Whatever happened before, and whatever the workers' calls come to, a server
\* that answers the ping thread is found.
Recovers == Reliable # {} => []<>IsAuthOnline
===============================================================================
