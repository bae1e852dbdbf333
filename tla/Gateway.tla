-------------------------------- MODULE Gateway --------------------------------
(***************************************************************************)
(* The threads of wifidog that share the client list and the firewall:     *)
(*   - one worker per HTTP request (http.c, auth.c, centralserver.c),      *)
(*   - the fw_counter thread (auth.c, firewall.c, fw_iptables.c),          *)
(*   - the wdctl handlers (wdctl_thread.c),                                *)
(*   - main_loop(), SIGTERM and whatever kills the process (gateway.c).    *)
(*                                                                         *)
(* client_list_mutex makes each locked section one step.  What the code    *)
(* does between UNLOCK_CLIENT_LIST() and the next LOCK_CLIENT_LIST() -     *)
(* a request to the auth server, the reading of iptables' output - is a    *)
(* step, or several, of its own.                                           *)
(***************************************************************************)
EXTENDS FwRules

CONSTANTS
    Mac,        \* hardware addresses
    Token,      \* authentication tokens
    Worker,     \* httpd threads and wdctl handlers alive at a time (bound)
    Rate,       \* bandwidths a reply or wifidog.conf can give; 0: no limit
    MaxNodes,   \* client nodes one process allocates (bound)
    MaxCopies,  \* copies of one Outgoing rule (bound)
    StatusLost  \* execute() may return a status that is not the command's

ASSUME GatewayAssumption ==
    /\ Rate \subseteq Nat
    /\ 0 \in Rate
    /\ MaxNodes \in Nat
    /\ MaxCopies \in Nat
    /\ StatusLost \in BOOLEAN

VARIABLES
    up,      \* the process is past fw_init() and has not exited
    list,    \* the client list
    last,    \* the node allocated last
    fw,      \* the rules in the kernel: they outlive the process
    work,    \* work[w]: where worker w is, and its local variables
    sync     \* where the fw_counter thread is, and its local variables

vars == <<up, list, last, fw, work, sync>>

(***************************************************************************)
(* Data.                                                                   *)
(***************************************************************************)
Node == 1 .. MaxNodes

\* t_client.  expired: last_updated + checkinterval * clienttimeout <= now.
\* The two bandwidths are one number: setclientbw.sh gives up if either is 0.
Client == [ip: Ip, mac: Mac, token: Token, state: Mark, rate: Rate,
           expired: BOOLEAN]

\* Answers of the auth server by what authenticate_client() does with them:
\* OTHER is AUTH_ERROR (no connection, a timeout, no code in the reply),
\* AUTH_VALIDATION_FAILED, AUTH_LOCKED and any unknown code.
Answer == {"ALLOWED", "DENIED", "VALIDATION", "OTHER"}

\* A worker's state: "auth" has left http_callback_auth()'s locked section,
\* "login" and "logout" wait for the auth server, "reply" has its answer.
\* "by" is the device that sent the request, http_callback_auth()'s own mac;
\* mac and token are those of the client authenticate_client() has looked up
\* at "node", the pointer it does not use again: both only for the properties.
Idle == [pc |-> "idle"]
Job ==
    {Idle}
    \cup [pc: {"auth"}, ip: Ip, by: Mac]
    \cup [pc: {"login"}, ip: Ip, by: Mac, node: Node, mac: Mac, token: Token]
    \cup [pc: {"reply"}, ip: Ip, by: Mac, node: Node, mac: Mac, token: Token,
          code: Answer \ {"OTHER"}]
    \cup [pc: {"logout"}, ip: Ip]

\* The fw_counter thread: "out" and "in" go through the listing of a chain,
\* "window" has unlocked the list with the copies ip and mac of a client and
\* the pointer next (the code's p2), "logout" waits for the auth server.
Asleep == [pc |-> "sleep"]
Sync ==
    {Asleep}
    \cup [pc: {"out", "in"}, todo: SUBSET Ip]
    \cup [pc: {"window"}, ip: Ip, mac: Mac, next: Node \cup {NoNode}]
    \cup [pc: {"logout"}, ip: Ip, next: Node \cup {NoNode}]

TypeOK ==
    /\ up \in BOOLEAN
    /\ DOMAIN list \subseteq Node
    /\ \A n \in DOMAIN list : list[n] \in Client
    /\ last \in Node \cup {NoNode}
    /\ fw \in Firewall
    /\ work \in [Worker -> Job]
    /\ sync \in Sync

-------------------------------------------------------------------------------
(***************************************************************************)
(* What execute() can report of grep: its exit status, or anything when    *)
(* sigchld_handler() has reaped the child before waitpid(pid, &status, 0)  *)
(* does, which leaves status uninitialised.                                *)
(***************************************************************************)
GrepStatus(f, i) == IF StatusLost THEN BOOLEAN ELSE {HasRule(f, i)}

\* fw_allow(), with the number of copies of a rule bounded.
Allows(l, i, m) ==
    \E found \in GrepStatus(fw, i) :
        /\ found \/ fw.out[i][m] < MaxCopies
        /\ fw' = Allow(fw, l, i, m, found)

SetState(l, n, s) == [l EXCEPT ![n].state = s]

\* What a reply leaves in the list when auth_server_request() returns: with
\* "Auth: 1" - be it to a login or to a logout - the first client that has the
\* address by then gets the bandwidth r, the server's or wifidog.conf's.
Replied(l, i, a, r) ==
    LET c == FindByIp(l, i)
    IN  IF a = "ALLOWED" /\ c # NoNode THEN [l EXCEPT ![c].rate = r] ELSE l

-------------------------------------------------------------------------------
(***************************************************************************)
(* HTTP workers.                                                           *)
(***************************************************************************)

\* The node client_list_append() creates: calloc'ed but for what is copied.
NewClient(i, m, t) == [ip |-> i, mac |-> m, token |-> t, state |-> None,
                       rate |-> 0, expired |-> FALSE]

\* A request for /wifidog/auth with a token, from address i, which the ARP
\* table gives to m; logout is the flag of that name.
\* The locked section of http_callback_auth() when the device is not listed.
Register(w, i, m, t, logout) ==
    /\ up /\ work[w] = Idle
    /\ Find(list, i, m) = NoNode
    /\ last < MaxNodes
    /\ last' = last + 1
    /\ list' = AppendNode(list, last + 1, NewClient(i, m, t))
    /\ work' = [work EXCEPT ![w] =
           IF logout THEN Idle ELSE [pc |-> "auth", ip |-> i, by |-> m]]
    /\ UNCHANGED <<up, fw, sync>>

\* The same section when it is listed and does not log out.
ComeBack(w, i, m) ==
    /\ up /\ work[w] = Idle
    /\ Find(list, i, m) # NoNode
    /\ work' = [work EXCEPT ![w] = [pc |-> "auth", ip |-> i, by |-> m]]
    /\ UNCHANGED <<up, list, last, fw, sync>>

\* The same section up to its inner unlock when it is listed and logs out.
LogOut(w, i, m) ==
    LET c == Find(list, i, m)
    IN  /\ up /\ work[w] = Idle
        /\ c # NoNode
        /\ fw' = Deny(fw, i, list[c].state)
        /\ list' = DeleteNode(list, c)
        /\ work' = [work EXCEPT ![w] = [pc |-> "logout", ip |-> i]]
        /\ UNCHANGED <<up, last, sync>>

\* The server has answered the logout, or has not: the caller does not look.
LogOutDone(w, a, r) ==
    /\ up /\ work[w].pc = "logout"
    /\ list' = Replied(list, work[w].ip, a, r)
    /\ work' = [work EXCEPT ![w] = Idle]
    /\ UNCHANGED <<up, last, fw, sync>>

\* authenticate_client() up to its first unlock: it looks a client up by the
\* address alone, which may be another device than the one that sent the
\* request, and copies what the request to the server needs.
StartLogin(w) ==
    LET i == work[w].ip
        c == FindByIp(list, i)
    IN  /\ up /\ work[w].pc = "auth"
        /\ work' = [work EXCEPT ![w] =
               IF c = NoNode THEN Idle
               ELSE [pc |-> "login", ip |-> i, by |-> work[w].by, node |-> c,
                     mac |-> list[c].mac, token |-> list[c].token]]
        /\ UNCHANGED <<up, list, last, fw, sync>>

\* The worker has the server's answer.  With OTHER it is done: what it still
\* locks the list for only chooses the page it sends.
WithAnswer(j, a) ==
    IF a = "OTHER" THEN Idle
    ELSE [pc |-> "reply", ip |-> j.ip, by |-> j.by, node |-> j.node,
          mac |-> j.mac, token |-> j.token, code |-> a]

\* Mutant: the firewall is opened before the client is looked up again.
LoginOpensAtOnce(w, a, r) ==
    /\ up /\ work[w].pc = "login"
    /\ IF a = "ALLOWED" THEN Allows(list, work[w].ip, Known) ELSE UNCHANGED fw
    /\ work' = [work EXCEPT ![w] = WithAnswer(work[w], a)]
    /\ UNCHANGED <<up, list, last, sync>>

\* auth_server_request(LOGIN) returns.
LoginAnswered(w, a, r) ==
    /\ up /\ work[w].pc = "login"
    /\ list' = Replied(list, work[w].ip, a, r)
    /\ work' = [work EXCEPT ![w] = WithAnswer(work[w], a)]
    /\ UNCHANGED <<up, last, fw, sync>>

\* Mutant: the client is found again by its address alone.
AnsweredByIp(w) == FindByIp(list, work[w].ip)

\* The client the answer is for, found again because one "can't trust the
\* client to still exist after n seconds have passed".
Answered(w) == Find(list, work[w].ip, work[w].mac)

\* authenticate_client() after its second lock, by the answer.
FinishLogin(w) ==
    LET c == Answered(w)
        i == work[w].ip
    IN  /\ up /\ work[w].pc = "reply"
        /\ \/ /\ c # NoNode /\ work[w].code = "ALLOWED"
              /\ list' = SetState(list, c, Known)
              /\ Allows(list', i, Known)
           \/ /\ c # NoNode /\ work[w].code = "VALIDATION"
              /\ list' = SetState(list, c, Probation)
              /\ Allows(list', i, Probation)
           \/ /\ c # NoNode /\ work[w].code = "DENIED"
              /\ fw' = Deny(fw, i, Known)
              /\ UNCHANGED list
           \/ c = NoNode /\ UNCHANGED <<list, fw>>
        /\ work' = [work EXCEPT ![w] = Idle]
        /\ UNCHANGED <<up, last, sync>>

-------------------------------------------------------------------------------
(***************************************************************************)
(* The fw_counter thread: fw_sync_with_authserver() once per checkinterval.*)
(***************************************************************************)

\* iptables_fw_counters_update(): popen() of a chain's listing.
ReadOutgoing ==
    /\ up /\ sync = Asleep
    /\ sync' = [pc |-> "out", todo |-> {i \in Ip : HasRule(fw, i)}]
    /\ UNCHANGED <<up, list, last, fw, work>>

ReadIncoming ==
    /\ up /\ sync.pc = "out" /\ sync.todo = {}
    /\ sync' = [pc |-> "in", todo |-> {i \in Ip : fw.in[i] > 0}]
    /\ UNCHANGED <<up, list, last, fw, work>>

\* popen() of the second listing fails: the whole pass is given up.
ReadFails ==
    /\ up /\ sync.pc = "out" /\ sync.todo = {}
    /\ sync' = Asleep
    /\ UNCHANGED <<up, list, last, fw, work>>

\* One line of either listing, under the lock.  The first client with the
\* address takes the counter; if an Outgoing counter has grown the client is
\* alive (busy).  An address nobody has loses its rules in both chains.
CountLine(i, busy) ==
    LET c == FindByIp(list, i)
    IN  /\ up /\ sync.pc \in {"out", "in"} /\ i \in sync.todo
        /\ busy => sync.pc = "out" /\ c # NoNode
        /\ list' = IF busy THEN [list EXCEPT ![c].expired = FALSE] ELSE list
        /\ fw' = IF c = NoNode THEN DestroyMention(fw, i) ELSE fw
        /\ sync' = [sync EXCEPT !.todo = @ \ {i}]
        /\ UNCHANGED <<up, last, work>>

\* Mutant: the loop follows ->next twice.
VisitSkips(l, p) ==
    IF p = NoNode THEN Asleep
    ELSE [pc |-> "window", ip |-> l[p].ip, mac |-> l[p].mac,
          next |-> NextOf(l, NextOf(l, p))]

\* The top of the loop at node p, up to the unlock: p2 = p1->next and copies.
VisitOf(l, p) ==
    IF p = NoNode THEN Asleep
    ELSE [pc |-> "window", ip |-> l[p].ip, mac |-> l[p].mac,
          next |-> NextOf(l, p)]

\* p1 = p2, with the list locked.  p2 was read before the lock was given up:
\* if its node has been freed since, the loop reads freed memory.  Then it
\* goes on anywhere in the list, ends, or the process dies (Crash).
GoOn(l, p) ==
    \E q \in IF p \in DOMAIN l \cup {NoNode} THEN {p}
             ELSE DOMAIN l \cup {NoNode} :
        sync' = VisitOf(l, q)

StartWalk ==
    /\ up /\ sync.pc = "in" /\ sync.todo = {}
    /\ GoOn(list, NextOf(list, NoNode))
    /\ UNCHANGED <<up, list, last, fw, work>>

\* The client of the window, if "client_list_find(ip, mac)" still finds it.
Visited == Find(list, sync.ip, sync.mac)

\* "Node %s was freed while being re-validated!"
VisitGone ==
    /\ up /\ sync.pc = "window"
    /\ Visited = NoNode
    /\ GoOn(list, sync.next)
    /\ UNCHANGED <<up, list, last, fw, work>>

\* "Inactive for more than %ld seconds, removing client".
VisitExpired ==
    /\ up /\ sync.pc = "window"
    /\ Visited # NoNode
    /\ list[Visited].expired
    /\ fw' = Deny(fw, sync.ip, list[Visited].state)
    /\ list' = DeleteNode(list, Visited)
    /\ sync' = [pc |-> "logout", ip |-> sync.ip, next |-> sync.next]
    /\ UNCHANGED <<up, last, work>>

\* The switch over authresponse.authcode, which is always AUTH_ALLOWED: the
\* request to the server is commented out.
VisitAlive ==
    /\ up /\ sync.pc = "window"
    /\ Visited # NoNode
    /\ ~list[Visited].expired
    /\ IF list[Visited].state = Known THEN UNCHANGED <<list, fw>>
       ELSE /\ list' = SetState(list, Visited, Known)
            /\ Allows(list', sync.ip, Known)
    /\ GoOn(list', sync.next)
    /\ UNCHANGED <<up, last, work>>

\* auth_server_request(LOGOUT) has returned and the list is locked again.
SyncLogOutDone(a, r) ==
    /\ up /\ sync.pc = "logout"
    /\ list' = Replied(list, sync.ip, a, r)
    /\ GoOn(list', sync.next)
    /\ UNCHANGED <<up, last, fw, work>>

SyncStep ==
    \/ ReadOutgoing \/ ReadIncoming \/ ReadFails
    \/ \E i \in Ip, busy \in BOOLEAN : CountLine(i, busy)
    \/ StartWalk \/ VisitGone \/ VisitExpired \/ VisitAlive
    \/ \E a \in Answer, r \in Rate : SyncLogOutDone(a, r)

-------------------------------------------------------------------------------
(***************************************************************************)
(* wdctl, the clock, and the life of the process.                          *)
(***************************************************************************)

\* The node wdctl_reset() picks for its argument: a token, an address or a
\* hardware address, in this order.
ResetTarget(a) ==
    IF FindByToken(list, a) # NoNode THEN FindByToken(list, a)
    ELSE IF FindByIp(list, a) # NoNode THEN FindByIp(list, a)
    ELSE FindByMac(list, a)

\* wdctl_reset() up to the unlock, by a wdctl handler; then it tells the server.
Reset(w, a) ==
    LET c == ResetTarget(a)
    IN  /\ up /\ work[w] = Idle /\ c # NoNode
        /\ fw' = Deny(fw, list[c].ip, list[c].state)
        /\ list' = DeleteNode(list, c)
        /\ work' = [work EXCEPT ![w] = [pc |-> "logout", ip |-> list[c].ip]]
        /\ UNCHANGED <<up, last, sync>>

\* clienttimeout check intervals go by without new traffic from a client.
Expire(n) ==
    /\ up /\ n \in DOMAIN list /\ ~list[n].expired
    /\ list' = [list EXCEPT ![n].expired = TRUE]
    /\ UNCHANGED <<up, last, fw, work, sync>>

NoList == [n \in {} |-> n]

\* What the end of the process takes with it.
Exit ==
    /\ up /\ up' = FALSE
    /\ list' = NoList
    /\ last' = 0
    /\ work' = [w \in Worker |-> Idle]
    /\ sync' = Asleep

\* termination_handler(): fw_destroy() and exit().
Terminate == Exit /\ fw' = NoRules

\* A fault or a kill -9: the rules stay in the kernel.
Crash == Exit /\ UNCHANGED fw

\* main_loop(): "Reset the firewall (if WiFiDog crashed)", then fw_init().
Start ==
    /\ ~up /\ up' = TRUE
    /\ fw' = NoRules
    /\ UNCHANGED <<list, last, work, sync>>

Init ==
    /\ up = FALSE
    /\ list = NoList
    /\ last = 0
    /\ fw = NoRules
    /\ work = [w \in Worker |-> Idle]
    /\ sync = Asleep

Login(w) ==
    \/ \E i \in Ip, m \in Mac :
        \/ ComeBack(w, i, m) \/ LogOut(w, i, m)
        \/ \E t \in Token, logout \in BOOLEAN : Register(w, i, m, t, logout)
    \/ StartLogin(w)
    \/ \E a \in Answer, r \in Rate : LoginAnswered(w, a, r) \/ LogOutDone(w, a, r)
    \/ FinishLogin(w)

Next ==
    \/ \E w \in Worker : Login(w)
    \/ \E w \in Worker, a \in Token \cup Ip \cup Mac : Reset(w, a)
    \/ SyncStep
    \/ \E n \in Node : Expire(n)
    \/ Terminate \/ Crash \/ Start

Spec == Init /\ [][Next]_vars

\* The fw_counter thread runs once per checkinterval and the lock is given to
\* whoever waits for it; popen() does not fail for ever; something starts the
\* program again (check_dog.sh).
Fairness == WF_vars(SyncStep) /\ SF_vars(ReadIncoming) /\ WF_vars(Start)

FairSpec == Spec /\ Fairness
-------------------------------------------------------------------------------
(***************************************************************************)
(* Safety.                                                                 *)
(***************************************************************************)

\* http_callback_auth() appends only what client_list_find() does not find,
\* in the same locked section: a device never has two nodes, however many
\* requests it has in flight.
OneSessionPerDevice ==
    \A m, n \in DOMAIN list :
        list[m].ip = list[n].ip /\ list[m].mac = list[n].mac => m = n

\* iptables_fw_access() looks at the Outgoing chain alone before it appends
\* to both chains, and deletes from each whatever the other has: still, no
\* chain ever holds two rules of an address, and an Incoming rule is never
\* left without an Outgoing one.
RulesAreUnique ==
    \A i \in Ip :
        /\ \A m, n \in Mark : fw.out[i][m] > 0 /\ fw.out[i][n] > 0 => m = n
        /\ \A m \in Mark : fw.out[i][m] <= 1
        /\ fw.in[i] <= 1
        /\ fw.in[i] > 0 => HasRule(fw, i)

\* A traffic class does not outlive the sessions of its address: it would
\* throttle, or exempt, whoever gets the address next.
ClassHasClient == up => \A i \in fw.shaped : FindByIp(list, i) # NoNode

\* The session the server was asked about, or its device's next one.
IsAnswered(j, n) ==
    \/ n = j.node
    \/ /\ j.node \notin DOMAIN list /\ j.node < n
       /\ list[n].ip = j.ip /\ list[n].mac = j.mac

\* The device that sent the request has no session before n.
IsElder(j, n) ==
    \A k \in DOMAIN list : list[k].ip = j.ip /\ list[k].mac = j.by => n <= k

\* authenticate_client() looks up by address alone whom it asks the server
\* about.  Whatever the list has become when the answer is there, the answer
\* decides about the very session that was asked about while that one lasts,
\* and after it only about a later one of the same device; and it decides
\* about another device than the one that sent the request only if the sender
\* has come to the address after it.
AnswerFitsSession ==
    [][\A n \in DOMAIN list \cap DOMAIN list' :
        list'[n].state # list[n].state =>
            \/ sync.pc = "window" /\ Visited = n /\ list'[n].state = Known
            \/ \E w \in Worker :
                /\ work[w].pc = "reply" /\ work'[w] = Idle
                /\ IsAnswered(work[w], n) /\ IsElder(work[w], work[w].node)]_vars

\* Rules appear only for addresses that have a client: an address that was
\* logged out, reset or timed out during a request gets no rule when the
\* request comes back.
NoRuleForTheDeparted ==
    [][\A i \in Ip : HasRule(fw, i)' /\ ~HasRule(fw, i) =>
            FindByIp(list, i)' # NoNode]_vars

(***************************************************************************)
(* What is promised, and how the list and the chains keep it.              *)
(***************************************************************************)
Absent == 9

\* The state of a device's node in a list, if it has one.
SessionIn(l, d) ==
    LET c == Find(l, d[1], d[2])
    IN  IF c = NoNode THEN Absent ELSE l[c].state

Promise == INSTANCE Admission WITH
    New     <- None,
    Granted <- {Probation, Known},
    session <- [d \in Ip \X Mac |-> SessionIn(list, d)],
    open    <- {i \in Ip : HasRule(fw, i)}

\* Every step of the gateway - the locked sections of the workers, the walk,
\* wdctl and the end of the process - is one step of Admission or none.
KeepsPromise == Promise!Spec

(***************************************************************************)
(* Liveness.                                                               *)
(***************************************************************************)
Orphaned(i) ==
    /\ HasRule(fw, i) \/ fw.in[i] > 0
    /\ FindByIp(list, i) = NoNode

\* Rules of an address without a client - a deny with the wrong mark leaves
\* them, and so does a crash - go away: iptables_fw_counters_update() or the
\* next start removes them, or the address gets a client again.
OrphansGo == \A i \in Ip : Orphaned(i) ~> ~Orphaned(i)

Overdue(n) == n \in DOMAIN list /\ list[n].expired

\* Every client that stays inactive is found by the walk and removed, though
\* the walk gives up the lock at every node.
IdleClientsLeave == \A n \in Node : Overdue(n) ~> ~Overdue(n)

(***************************************************************************)
(* What the source says and the code does not do.                          *)
(***************************************************************************)

\* auth.c: "Got DENIED from central server ... - deleting from firewall".
DeniedIsOut ==
    [][\A w \in Worker, i \in Ip :
        /\ work[w].pc = "reply" /\ work[w].code = "DENIED" /\ work[w].ip = i
        /\ work'[w] = Idle /\ up' /\ Answered(w) # NoNode
        => ~HasRule(fw', i)]_vars
===============================================================================
