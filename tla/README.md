# Formal model of the hdwifi gateway

The repository is a feed of OpenWrt packages for a Wi-Fi access point with a
captive portal. Most of it is packaging of, or patches to, third-party programs
(nginx, rp-pppoe, xl2tpd, redsocks2, opendpi, libhttpd). The program's own core
is **wifidog-yunwifi**, the captive-portal daemon: it decides which device gets
through the firewall. This directory holds TLA+ modules of that core, TLC
configurations that model-check them on small instances, and theorems that
TLAPS checks for every instance.

Paths below are relative to `src/yunwifi/wifidog-yunwifi/source/src/` unless
they start with `src/`.

## 1. Inventory

| Part | State | Operations | Talks to |
|---|---|---|---|
| Client list (`client_list.c`) | linked list of `t_client`, `client_list_mutex` | find by ip / mac / token / ip+mac, append, delete | every thread |
| Client rules (`fw_iptables.c`, `setclientbw.sh`, `delclientbw.sh`, `setifbroot.sh`) | rules of the Outgoing and Incoming chains in the mangle table, tc classes | allow, deny, destroy, destroy_mention, set_authservers, counters | list; shells out through `execute()` |
| Workers (`httpd_thread.c`, `http.c`, `auth.c`) | local variables of a request; one thread per request | register, log in, log out | list, rules, auth server |
| fw_counter thread (`auth.c`, `firewall.c`) | the `p1`/`p2` pointers of its walk | read both chains, count, sweep, time out, let through | list, rules, auth server |
| wdctl (`wdctl_thread.c`, `wdctl.c`) | a handler thread per connection | status, stop, reset, restart | list, rules, auth server, process |
| Auth server search (`centralserver.c`, `conf.c`) | `inuse`, `last_ip`, `config_mutex`, the AuthServers chains | connect to the auth or the central host of a server | workers, ping thread |
| Reachability (`util.c`) | `last_online_time`, `last_offline_time` and their `auth` twins | mark_online/offline, mark_auth_online/offline, is_online, is_auth_online | workers, ping thread, 404 page |
| Ping thread (`ping_thread.c`) | its cycle | ping, deliver counters | server search |
| Process (`gateway.c`) | child processes, signals | start, SIGTERM, SIGCHLD, hand-over on restart | everything |
| Command execution (`util.c` `execute()`) | a child's exit status | fork, exec, waitpid | `sigchld_handler()` |
| Configuration, command line, log, allocation (`conf.c`, `commandline.c`, `debug.c`, `safe.c`) | settings | parse once, print | - |
| udphd (`src/yunwifi/udp/src/client.c`) | a pinging parent and a receiving child, `/tmp/udphd-status` | ping, answer, remote command | server in the cloud, shell |
| check_dog.sh (`src/yunwifi/yunwifi-root/files/usr/sbin/`) | one loop of five minutes | start or restart wifidog, restart udphd | `pidof`, wdctl, the status file |
| get_wifidog_conf.sh (same place) | device id, lock file, configuration | fetch the id and the configuration, restart wifidog | servers, wdctl, shell |

What is hard about it:

- **Unlocked windows.** `authenticate_client()` and `fw_sync_with_authserver()`
  release the list while they wait for the auth server and find their client
  again afterwards; everything another thread does in between - log the client
  out, time it out, let another device take its address - lies in that window.
- **Two copies of one truth.** Who is let through is kept in the list and, by
  shell commands, in two chains of the kernel and a set of tc classes. Each is
  updated by different code, with different tests for "is it there already".
- **Crashes.** The rules outlive the process, the list does not.
- **Many starters, no lock.** Boot scripts, hotplug, the watchdog, remote commands
  and `wdctl restart` all start wifidog; only the port decides who serves, and
  whoever starts begins with tearing down the chains of whoever serves.
- **A hundred commands.** A start runs about 95 iptables commands and a stop
  about 40, each a shell of its own; a crash or a signal may come between any
  two, and other threads issue commands meanwhile.
- **Guesses from times.** Whether the auth server can be reached is derived
  from the order and distance of four times that several threads write.
- **One search, many callers.** The server list is searched recursively under
  a mutex, from a start that was computed before the mutex was taken.

What makes each part correct:

- list: one node per device (address and hardware address);
- rules: at most one rule per chain and address, in both chains or in none,
  with the outgoing one always there if the incoming one is; no tc class
  without a client; nothing left for ever;
- logins: an answer decides about the session it was asked for, or a later one
  of that device; whoever left during the request is not let through by it;
- fw_counter: idle clients go, active ones stay, leftovers are swept;
- chains: whatever was left, a start ends with the chains of a first start; a
  stop leaves nothing that packets meet;
- counters: a session is charged for its own bytes, silence ends it, traffic
  keeps it;
- processes: the chains belong to the process that serves, a wifidog that is
  gone comes back unless something known holds it up, and so does a udphd that no
  longer hears its server;
- server search: what the program knows of a server's address is reachable for
  the clients, and a server that answers is found;
- reachability: the portal does not claim to be offline because of late
  failures of single requests.

`PROJECT.json` lists the hazards one by one, with their lines, and for each the
properties that cover it, or why none does yet.

## 2. Modules

```
ClientList --- FwRules --- Gateway --- GatewayRestart     (TLC, TLAPS)
                              |             |
                          Admission     Handover          (abstract, by INSTANCE)

Processes ---+
             +--- Watchdog                                (TLC, TLAPS)
Udphd -------+

AuthServers    Counters    Chains                         (TLC, TLAPS)

LeastProofs --- GatewayProofs --- GatewayRefines --- RestartProofs
           \--- AuthServersProofs      CountersProofs
           \--- ChainsProofs           WatchdogProofs
```

`MC...` modules hold the instances for TLC. The modules of the second and
third group share no variables with the first: what they have in common is
stated in each (the port and the chains as a whole in Processes, one command at
a time in Chains, one device's rule in FwRules and Counters).

**ClientList** (`client_list.c`). The list is a function from node numbers to
fields. Nodes are numbered in the order of allocation and
`client_list_append()` links at the tail, so list order is number order: the
first match of a search is the least matching node, `->next` the next larger
one, NULL is `NoNode`. A freed node is a number outside the DOMAIN.

**FwRules** (`fw_iptables.c`, the bandwidth scripts). Rules are *counted*,
because `iptables -A` appends a second copy and `-D` deletes one: `out[i][m]`
the Outgoing rules of address `i` with mark `m`, `in[i]` the Incoming rules,
`shaped` the addresses with a tc class. `Allow` and `Deny` are
`iptables_fw_access()`: the first looks for *any* rule of the address and leaves
it alone, the second deletes only the rule with the given mark.
`DestroyMention` is `iptables_fw_destroy_mention()`: it removes every line that
*contains* the address's text, so 192.168.1.1 takes 192.168.1.10 with it
(constant `Mentions`).

**Gateway** composes the threads over the list and the rules:

| Action | Code |
|---|---|
| `Register`, `ComeBack`, `LogOut`, `LogOutDone` | `http_callback_auth()`, cut at its unlocks |
| `StartLogin`, `LoginAnswered`, `FinishLogin` | `authenticate_client()`: before, during and after the request |
| `ReadOutgoing`, `ReadIncoming`, `ReadFails`, `CountLine` | `iptables_fw_counters_update()`: `popen()` of a chain, then line by line |
| `StartWalk`, `VisitGone`, `VisitExpired`, `VisitAlive`, `SyncLogOutDone` | the loop of `fw_sync_with_authserver()`, one visit per node, with the window before it |
| `Reset` | `wdctl_reset()` |
| `Expire` | `clienttimeout` check intervals without traffic |
| `Terminate`, `Crash`, `Start` | `termination_handler()`, the end of the process, `main_loop()` |

A request is sent by one device (`by`, from the ARP table in
`http_callback_auth()`), but `StartLogin` asks the server about the first client of
the *address* (`auth.c:107`): it copies that client's hardware address and token.
With two devices on one address the two can differ, because the list is unlocked
between `http.c` and `auth.c` and because the first client wins anyway. The
answers that only choose a page (`OTHER`) end a request in `LoginAnswered`: what
follows locks the list and changes nothing.

A locked section is one step, because `client_list_mutex` makes it one towards
all other threads of the list; whatever happens after an unlock is a step of
its own. `Replied` is the bandwidth `auth_server_request()` writes when a reply
says `Auth: 1`, to a login or to a logout, to the first client that has the
address by then.

The login request of the walk is commented out in the source and its result
hard-wired to AUTH_ALLOWED (`firewall.c:257`): `VisitAlive` therefore lets every
client through that has registered, whatever the server said. That is what the
code does, and the abstract specification allows it.

**Admission** is the abstract specification: sessions of devices and open
addresses, without list, marks, locks or threads. An address is opened only for
a device with a session in that step; one device's step leaves all other
sessions alone; a granted session ends but does not become new again.
`Gateway!Promise` instantiates it with the refinement mapping (session: the
state of the device's node; open: the addresses with an Outgoing rule).

**GatewayRestart** (`wdctl_thread.c`, `gateway.c`, `firewall.c`) adds
`wdctl restart` to Gateway. The variable `heir` is the program the gateway forks
and executes: it has
been started (`Forked`), it has read a client list and waits for its parent's
end (`Fed`), or it is in the loop of `fw_init()` that restores the rules
(`Loading`, with the node it is at).

| Action | Code |
|---|---|
| `Fork`, `HeirDies` | `wdctl_restart()` up to its `accept()`; the child's end, or a failed `execvp()` |
| `Send` | the list is written in one locked section, `get_clients_from_parent()` reads it |
| `SendCut` | the parent ends while it sends: the child has read the complete lines |
| `NoParent` | the parent has ended before: nothing to connect to |
| `Load` | the parent is dead; `fw_destroy()` and `iptables_fw_init()` |
| `Restore` | the loop of `fw_init()` at one client: `fw_allow()` with the state it has |
| `Inherit` | `fw_init()` is done, the threads start |
| `Serve` | any step of Gateway, except a fresh start by `check_dog.sh` while `pidof` finds the child |

After `Send` the parent goes on: every step of Gateway is possible until its
SIGINT is handled (`Terminate`), and it may crash instead. The heir may die
anywhere, too; between two clients of the loop it leaves the rules it has
restored so far, or, if a signal ended it, none. A client with state 0 is
allowed like any other, which leaves a rule that lets nobody through.

**Handover** is what a restart promises on top of Admission: the sessions
that come back are those of one moment, in the states of that moment (or some
of them, if the parent dies while it writes them down), and no address is
opened without a granted session among them. Addresses are opened one by one
(`Reopen`) before the sessions are back (`Resume`). A granted device's address
may stay closed; section 6 shows when.

**AuthServers** (`centralserver.c`, `conf.c`, `util.c`, `ping_thread.c`, the
whitelist chains of `fw_iptables.c`). `Try` is one level of the recursion
`_connect_auth_server()` with all its outcomes: connected, refused (or timed
out), the host does not resolve (marked bad, last_ip dropped), nothing resolves
(offline, gives up at once), no socket. `Lock`, `GiveUp`, `Mark`, `Talked` are
the call around it; `Request` a worker's start, at the server it saw in use
without the mutex; `Wake`, `After` and `GoesOn` the ping thread's cycle of ping
and counters. Times are kept as the differences the code looks at, cut off at
`2 * CheckInterval`: `age` (now - last_online_time), `lag` (offline - online)
and their twins `authAge` and `authLag`. Every name that resolves marks the
gateway online (`wd_gethostbyname()`), every connection the auth server.

**Counters** (`fw_iptables.c`, `firewall.c`, `auth.c`). One device: the byte
counter of its Outgoing rule in the kernel, and `outgoing`, `outgoing_history`
and the age of `last_updated` in its node. `List` is the `popen()` of the
chain, `CountLine` the work on the device's line some time later - the rule may
have been deleted and made again, the client may have left, or come back. The
unsigned difference `outgoing - outgoing_history` wraps at `Word`. `Restart`
stands for a whole `wdctl restart`: `outgoing` comes back as
`outgoing_history`, the new process makes a rule that counts from 0. `sent`,
`charge`, `fresh` and `heard` are history variables: they record traffic and
influence nothing. `charge` is what the session in the list may be charged for: it
starts with `LeftOver`, the bytes that a rule an earlier session left behind
or a line already read had counted, and grows with what is sent while the session
lasts.

**Processes** (`gateway.c`, `wdctl_thread.c`, `safe.c`): the wifidog processes of
a device, any number of them. `Restart` is the handler of `wdctl restart` up to
its `accept()`, `Download` the heir's read of a list - from whichever process
listens on the internal socket by then - with the SIGINT that follows,
`ParentIsDead` the heir's wait, `Bind` `httpdCreate()` with the `fw_destroy()`
that follows, or the exit when the port is taken. The process then is in "route":
`get_ext_iface()` tries for ever to find a default route when the configuration
names no external interface (`conf.h:34`; `get_wifidog_conf.sh:98` sees to a route
only for local configurations). `SetUp`, the rest of `fw_init()` and the
threads, therefore is a step that the environment may or may not allow.
`Terminate` and `Exit` are the two halves of `termination_handler()`, and
`SecondSignal` is what another signal makes of it: `pthread_exit()` ends the main
thread with the handler, and the process stays with the port, its `thread_wdctl`
and nobody who serves ("hung") until somebody kills it. `Die` is a fault at any
point.

**Udphd** (`udp/src/client.c`, `udphd.init`): the parent that pings, the child
that receives, and the status file, which is truncated before it is written.
`Command` blocks the receiver in `do_cmd()` until nobody holds the pipe.

**Watchdog** composes Processes and Udphd with the scripts. `DogStep` is a lap
of `check_dog.sh`; `Called` starts a run of `get_wifidog_conf.sh`, `ScriptStep`
is what it does by itself, `ScriptGets` what it does with an answer of a server;
`ScriptDies` and `ProcessFails` are faults and second signals, `HungIsKilled` the
end of a process that has hung.

| Action | Code |
|---|---|
| `DogLooks`, `DogStarts`, `DogRestarts`, `DogJudges` | `pidof`, "No dog !start it", the daily `wdctl restart`, the age of the status file |
| `GetStr`, `Touch`, `GotStr`, `Confirmed` | the device id under the lock file |
| `GotConf`, `Same`, `Last`, `Apply`, `StartAnew`, `GotPages` | fetch the configuration; same as before, or `wdctl restart`, or a start |
| `Speaks`, `Answer`, `StatusStep`, `UdphdStep` | udphd |

**Chains** (`fw_iptables.c`, `gateway.c`): every command of
`iptables_fw_init()` and `iptables_fw_destroy()` as a step. `FwInit` and
`FwDestroy` are sequences of commands, `Exec` is iptables: a chain is deleted
only when it is empty and not mentioned, a rule is added only to a chain that is
there and with a target that is there. `Signal` in the middle of a start runs
`termination_handler()` *inside* the interrupted command, which may still be
executed afterwards (`stray`); `SecondSignal` ends the main thread with
`pthread_exit()` while the others go on; `Crash` comes at any command; `Allow`,
`Deny` and `SetServers` are other threads' commands in between. The other
modules take a start and a stop for one step; Chains shows that, as far as
the chains are concerned, they may.

Definitions named "Mutant" in a comment are not used by the specifications.
They are plausible mistakes in the definition that follows them; replacing that
definition by them must break a property, which shows that the property does
look at the code (`PROJECT.json`, "mutants").

## 3. Runs

| Run | Question | Bounds |
|---|---|---|
| `gw_safety` | do list, rules, classes and late answers stay consistent? | 1 address, 2 hardware addresses, 1 token, 2 workers, 3 nodes, rates 0 and 1, 2 copies of a rule |
| `gw_live` | is every step a step of Admission or none; are leftovers swept and idle clients removed? | 2 addresses (prefix), 1 hardware address, 1 worker, 2 nodes, `FairSpec`, no symmetry |
| `rs_safety` | does a restart bring back what there was at one moment, with consistent chains? | 1 address, 2 hardware addresses, 1 worker, 2 nodes, 1 copy of a rule |
| `auth` | does the whitelist follow what is learned, does the gateway stay online whatever fails late, is the server that answers found? | 2 servers, the last one reliable for the ping thread, 1 worker, CheckInterval 3, awake 1, `FairSpec`, no symmetry |
| `cnt` | is a session charged for its own bytes, does silence end it? | Timeout 3, bursts of 1 or 2, 6 bytes, 2 restarts, words of 16, `FairSpec` |
| `wd` | who owns the chains, do wifidog and udphd come back, or what holds them up? | 2 processes, 1 script at a time, 1 fault or second signal, `FairWSpec` |
| `chains` | what does an interrupted start or stop leave, and the next start make of it? | 2 faults, 3 calls of other threads |
| `v_denied`, `v_status`, `v_allowed`, `v_active`, `v_users` | what the source says and the code does not do (section 6) | as above; `v_active`: Timeout 2, 5 bytes, no restart; `v_users`: no fault |

Why the bounds are enough to be interesting. Two devices on *one* address are
what lookups by address alone can confuse; two workers let two requests of one
device, or of two devices, overlap; three nodes let a device leave and come
back as a new node while a request for the old one is out. Two addresses in a
prefix relation are what the text search of `iptables_fw_destroy_mention()` can
confuse. `MaxCopies = 2` lets a second copy of a rule appear, so that its
absence says something. Two auth servers suffice to start behind the first.
Two clients of one address make the order of `Restore`'s loop matter.
`MaxNodes` counts allocations of one process life: a crash resets it, an heir
starts behind the last node of its list, so runs of any number of restarts are
covered. `Worker` bounds the requests alive
at a time (the code has no bound). In Counters, a timeout of 3 check intervals
lets a counter that restarts be caught up with or not, 6 bytes in bursts of 1
and 2 let the new counter stay below, meet and pass the old one, and a second
restart makes a history of a history. In Watchdog, 2 processes are an heir and
its parent, or an heir and a rival; what a third does to the chains is left to the
proof, which covers any number, and what it does to liveness is not checked: a
second restart that takes the socket of the first needs three. The scripts
interact through the processes and the lock file, which a fault leaves behind for
the next run; the race of two runs for the lock needs a second script at a time
and is not checked either.
In Chains, 2 faults let a start fail that cleans up after a failure, and 3
calls let both other threads write, one of them twice.

Safety of the gateway:

- `OneSessionPerDevice`: no device ever has two nodes, whatever requests
  overlap.
- `RulesAreUnique`: no chain has two rules of an address, no Incoming rule
  lacks its Outgoing one, although a deny deletes from each chain what the
  other may not have, and an allow looks at one chain only.
- `ClassHasClient`: a tc class exists only for an address with a client.
- `AnswerFitsSession`: a login's answer decides about the very session the server
  was asked about while that one lasts, and after it only about a later one of the
  same device, whatever the list has become. It is another device's than that of
  the request's sender only if the sender came to the address after it. The sender
  is in the model, so the property is not about whom the code takes for it: two
  devices on one address do get each other's answers (section 6), but only so.
- `NoRuleForTheDeparted`: a rule appears only for an address with a client.
- `KeepsPromise`: the refinement of Admission. TLC checks it with one hardware
  address, the proof (section 4) for every instance.

Restarts: `KeepsHandover` (the refinement of Handover), `RulesStayUnique` (the
chains of `RulesAreUnique` survive a restart with several clients on one
address).

Liveness of the gateway: `OrphansGo` (rules of an address without a client
disappear, or the address gets a client) and `IdleClientsLeave` (an inactive
client becomes active or is removed, although the walk unlocks the list at
every node).

Auth servers: `KnownAddressIsOpen` (whatever last_ip holds is in the whitelist
chains), `StaysOnline` (the gateway goes from online to offline only after the
ping thread's own last call failed), `Recovers` (if some server answers, the
gateway is online again and again).

Counters: `NeverOvercounted` (what is reported of a session was let out for its
address while it lasted, or had been counted by a rule or a line that was left
over when it began; late lines, rules that are made again and restarts add
nothing to that). Without `LeftOver` TLC finds it violated in a few steps: a line
is read, the client logs out, another registers, the line is counted for it.
`SilentLeaves` (a device that has fallen silent leaves the list, whatever its
counters look like).

Processes: `ChainsAreOwned` (a process that serves has done the last
`fw_init()`: no start, restart or death of another one has touched the chains
since). It holds because `httpdCreate()` comes before `fw_destroy()`; the
mutant that swaps them breaks it. `GatewayComesBack` (a wifidog serves again and
again, or from some time on something always holds it up: the watchdog is dead, a
script that it takes for a wifidog waits for a server, a process waits for a
default route, or one has hung), `TravelsAgain` (udphd hears its server again and
again, whichever of its two processes ended or hung, unless the watchdog is dead
or a wifidog hangs, whose answer the watchdog's `wdctl` may wait for). `HeldUp`
is part of the property, not of the fairness: TLC has shown each of its four
cases to be needed.

Chains: `StartsClean` (a start ends with exactly the chains, rules and order of
a first start), `StopsClean` (a stop that was not interrupted leaves the
built-in chains without a rule of wifidog, and nothing behind but the
chains that another thread wrote to meanwhile), `ServesWhole` (while the program
serves, the chains are those of a first start, with nothing but clients and
servers added, each in chains of their own). The last is what Gateway, AuthServers
and Processes take for granted, `fw_init()` being one step there.

### Fairness

`Gateway`: weak fairness of the fw_counter thread's steps (it is a loop with a
timed wait, and the list mutex is given to whoever waits for it); strong
fairness of `ReadIncoming`, because `popen()` may fail now and then but not for
ever; weak fairness of `Start`, because `check_dog.sh` starts the program when
it finds none. Nothing is assumed of workers, wdctl, clients, the auth server's
answers, the clock, or crashes.

`AuthServers`: weak fairness of each thread's connect call (every call in it
has a timeout), of waking up and of the clock; strong fairness of the ping
thread's `Lock`, since workers may be served first but not for ever; for each
server, strong fairness of the ping thread's attempts that come to something
other than the gateway's own trouble (no name resolves, no descriptor): such
trouble does not strike at every attempt. Nothing is assumed of servers outside
`Reliable`, and workers need not make requests.

`Counters`: weak fairness of the fw_counter thread's pass; nothing of clients.

`Watchdog`: weak fairness of every step a process or a script takes by itself
(they are scheduled), except of `SetUp`, which needs an external interface; strong
fairness of the watchdog's lap, because a start
needs a free slot of the `MaxProcs` the model has; neither is assumed of a call of
`wdctl` while a process has hung; strong fairness of `Speaks`
(udphd draws its port at random and finds a free one now and then) and of
`Answer` (pings are answered now and then while they can be). Nothing is assumed
of the servers that the scripts ask, of the routing table, nor of commands,
stops and faults. With all `MaxProcs` there and the port taken, one more start
changes nothing: that process would find the port taken and exit.

`GatewayRestart` and `Chains` are checked for safety alone.

### Assumptions of the models

- GatewayRestart has one `wdctl restart` at a time. A second one removes the
  first one's socket; that is in Processes.
- Nobody signals a process that does not serve yet, except in the loop of
  `fw_init()`: no script of the package does, and `wdctl stop` asks the one that
  serves. The handler of an heir that still waits would flush its parent's chains.
- A list is sent and read as one step, which the list mutex makes it for the
  other threads.
- At least one auth server is configured (`config_validate()` insists on it).
- Addresses belong to one /24 network. Then grep's suffix match on an address
  and the tc class number (which the script derives from the last octet) tell
  addresses apart. On a larger network they would not.
- A start and a stop are one step in Gateway and a few in Processes; Chains takes
  them apart. In Processes the port and the `fw_destroy()` after it are one step:
  nobody else who has not the port touches the chains.
- `Gateway` has no second signal and its `Start` is fair: it is about a process
  that gets to serve. What may keep it from that is in Processes.
- The handler of a hung process may lose any thread to further signals; the model
  lets `wdctl` fail to answer, and keeps the others.
- Byte counters are reduced to "has grown since the last time" in Gateway;
  Counters has them. The incoming counter has the same shape there and does not
  touch `last_updated`; it is left out.
- A pass of fw_counter ends before the next is due (Counters).
- A command of a process that has died is over before the next start's first
  (Chains). Other programs' rules in the built-in chains are left out; a stray
  `iptables -D chain number` could hit one of them.
- `iptables`, `tc` and the shell do what they are told; a command's exit status
  reaches the program unless `StatusLost`.
- `GoOn` follows a freed `->next` to any node, to the end, or nowhere (the
  process crashes): the outcomes of reading freed memory that the list can
  tell apart.
- `Busy` bounds the time the ping thread is awake, with
  `2 * Busy < CheckInterval`: between two successes of the ping thread lie a
  sleep and at most two wakes. `StaysOnline` depends on it - with CheckInterval
  2 and Busy 1 TLC finds it violated. Connects of 5 seconds and replies of up to
  30 can exceed it with short check intervals or several hanging servers.

## 4. Proofs

TLAPS checks these theorems for every choice of the constants (any number of
devices, tokens, workers, nodes, processes, servers, any word size, any
`Mentions`); TLC found the same formulas true first on the instances above.

| Module | Theorem | States | Assumes |
|---|---|---|---|
| GatewayProofs | `TypeCorrect` | `Spec => []TypeOK` | - |
| | `OneSession` | `Spec => []OneSessionPerDevice` | - |
| | `OneRulePerAddress` | `Spec => []RulesAreUnique` | `StatusLost = FALSE` |
| | `ClassesFollowClients` | `Spec => []ClassHasClient` | - |
| | `DepartedStayOut` | `Spec => NoRuleForTheDeparted` | - |
| | `AnswersFitSessions` | `Spec => AnswerFitsSession` | - |
| GatewayRefines | `GatewayKeepsPromise` | `Spec => KeepsPromise` | `StatusLost = FALSE` |
| AuthServersProofs | `AuthTypeCorrect` | `Spec => []TypeOK` | - |
| | `KnownStaysOpen` | `Spec => []KnownAddressIsOpen` | - |
| | `OnlineWhilePinged` | `Spec => StaysOnline` | `2 * Busy < CheckInterval` |
| CountersProofs | `CountersTypeCorrect` | `Spec => []CTypeOK` | - |
| | `CountsOnce` | `Spec => []NeverOvercounted` | - |
| RestartProofs | `RestartTypes` | `RSpec => []RTypeOK` | - |
| | `RestoredRulesAreUnique` | `RSpec => []RulesStayUnique` | `StatusLost = FALSE` |
| | `OneSessionOverRestarts` | `RSpec => []OneSessionPerDevice` | - |
| | `RestartKeepsHandover` | `RSpec => KeepsHandover` | - |
| WatchdogProofs | `DeviceTypeCorrect` | `WSpec => []WTypeOK` | - |
| | `ServerOwnsChains` | `WSpec => []ChainsAreOwned` | - |
| ChainsProofs | `ChainsType` | `Spec => []ChTypeOK` | - |
| | `ChainsStart` | `Spec => []StartsClean` | - |
| | `ChainsServe` | `Spec => []ServesWhole` | - |
| | `ChainsStop` | `Spec => []StopsClean` | - |

`v_status` shows that the assumption of `OneRulePerAddress` and
`RestoredRulesAreUnique` is needed; with
CheckInterval 2 and Busy 1 TLC finds `StaysOnline` violated. The other theorems of
RestartProofs, `KeepsHandover` among them, hold whatever `execute()` reports; the
runs use true statuses but for `v_status`. The
assumptions on constants (`GatewayAssumption`, `CountersAssumption` ...) are
evaluated by TLC in every run.

The argument. The first lemmas of `GatewayProofs` say what the searches return: a set of
natural numbers that is not empty has a least element (from the well-ordering
lemma), so a search returns a node that matches, or `NoNode` when none does.
`TypeCorrect` then is an induction over the actions. The same lemma (in
`LeastProofs`) gives the first server of `get_auth_server()`'s search in
AuthServers, and the last node of the list an heir takes over.

`Next` has many actions, but few *kinds* of effect on list and rules. Lemma
`StepKinds` shows that every step is one of seven: it keeps devices, states
and rules (`Keeping`), appends a new client for a device that is not listed
(`Appending`), sets a state and allows (`Allowing`), denies and perhaps deletes
(`Denying`), sweeps an address without clients (`Sweeping`), ends or starts the
process (`Ending`, `Starting`). The safety theorems are each one case analysis
over these kinds instead of one over all actions.

What the inductions rest on:

- `OneSessionPerDevice` is inductive once the types are known: the append is in
  the same locked section as the search, and the search is complete.
- `RulesAreUnique` is inductive, too, but only because of its last part.
  `Allow` looks at the Outgoing chain alone and then appends to both; that an
  address without an Outgoing rule has no Incoming one is what keeps the second
  chain free of copies. `Deny` preserves that part since an Outgoing rule with
  another mark stays, and the Incoming one goes in any case.
- `ClassHasClient` needs `Fresh`: the number of the next node is larger than any
  in the list, so an append takes no client away from its address.
- `NoRuleForTheDeparted` speaks of single steps; given the types, only
  `Allowing` adds a rule, for an address of a node that it keeps.
- `KeepsPromise` uses `OneSession`, `Fresh` and `Down` (a process that is not up
  has no clients). Under the mapping each kind of step is one action of
  Admission or none: `Appending` is Open, `Allowing` Grant, `Denying` Refuse or
  Close, `Sweeping` Sweep, `Ending` and `Starting` Stop. Without one node per
  device a session would have two states, and the deletion of one node would
  not end it.
- `AnswerFitsSession` speaks of steps, too: of the few that change a state, the
  walk's visit finds the node it set out for, and a login's end finds its node by
  both addresses. That this is the session that was asked about, or a later one of
  its device, needs `Asking`: while a request is out, the node it was asked for
  keeps its addresses as long as it is there, and no node of the address is older
  than it. It is kept because nodes are numbered in the order of allocation and
  are not used again in the life of a process (`Fresh`); that the device has one
  node at a time (`OneSession`) makes the one that the answer finds the one asked
  about.
- The steps of a restart are few, and its proofs reuse those of Gateway: a step
  of the gateway itself is one of the six moves of `SessionSteps` (nothing, a
  device arrives, is admitted or turned away, an address is cleaned up, all
  ends). `SessionInv` adds what the heir brings: no device is in its list twice,
  and there is no gateway while it restores. `KeepsHandover` also needs
  `RestoredIsGranted`, the invariant of the loop of `fw_init()`: what has been
  opened so far belongs to clients the list has as granted. It holds because the
  loop starts from empty chains and `fw_allow()` with state 0 opens nothing.
- `KnownAddressIsOpen`: `Try` is the only step that writes last_ip or the chains;
  it changes one server's last_ip, and rewrites the chains from all of them
  whenever that address is new. `StaysOnline` needs
  `OnTime`: while the ping thread's last call was a success, the last mark is no
  older than a sleep and what it has been awake since (`Oldest`), which is less
  than the limit of two intervals; a worker's failure in between is then too
  early to count as offline.
- `NeverOvercounted` is not inductive: a line of a listing may be older than the
  node. `Backed` says that every counter around - the rule's, the copy in a line,
  and 0 - together with the node's history is at most the session's `charge`; at
  its beginning this is what `LeftOver` is the maximum of. A restart
  moves bytes from outgoing to history and starts the rule at 0; a line that was
  read before belongs to a pass that the restart has ended.
- The four theorems of ChainsProofs follow from one invariant, `CInv`, about
  programs of 41 and 53 commands, with any number of faults and of other
  threads' calls in between. See below.
- `ChainsAreOwned` needs `OnePort`: at most one process has bound the port. Only
  a bound process touches the chains, so when `Bind`, `SetUp`, `Terminate` or
  `SecondSignal` happens no other process can be serving.

`StartsClean` and `StopsClean` speak of the end of a program; `CInv` says what is
true at each of its commands. Its parts, in the order the proof needs them:

- The tables are sound whatever has been executed (`Sound`): the chains and
  rules are wifidog's, a rule's target is a chain that is there, and the jump
  rules stand in the chains that `fw_init()` puts them into. The last is why
  the commands of `fw_destroy()` can name all places where a chain is mentioned.
- During a `fw_destroy()`, what its commands have done stays done (`EffectsOK`).
  Each command has an effect: a mention is gone, a chain is empty, a chain is
  not there. `EffectDone` shows that the command has it when it is executed,
  because those it depends on come earlier in the program - a chain is deleted
  only after it was flushed and after all its mentions are gone - and
  `EffectKept` that nothing executed later undoes it. Other threads undo some:
  they append to the chains in `Dynamic` as long as these exist. Hence what
  `StopsClean` leaves out.
- `iptables -D` deletes one of several equal rules, and the DHCP rule of the
  mangle table is deleted once. `DhcpOK` says that there never is more than one:
  no `fw_init()` begins before the whole of a `fw_destroy()`.
- During a `fw_init()` the tables are, command by command, those of a first start
  (`BuiltOK`). This is inductive only because the `fw_destroy()` before it has left
  nothing (`NothingLeft`), and no thread of the process exists yet.

The programs are sequences, so the proof is about positions in them: `DestroyAt`
and `InitAt` give the command at each position once and for all, and the lemmas
after them use only that. `FirstStart` is a recursive function; that it satisfies
its own equation is proved from the least number for which it would not.

Only model-checked: liveness, which is out of the prover's reach (`OrphansGo`,
`IdleClientsLeave`, `Recovers`, `SilentLeaves`, `GatewayComesBack`,
`TravelsAgain`). Every invariant and action property of a passing run, and both
refinements, are theorems.

## 5. Plan

Done: the core (ClientList, FwRules, Gateway, Admission), restarts
(GatewayRestart, Handover, Processes), AuthServers, Counters, Udphd, Watchdog,
Chains, and the theorems above. Left, in this order:

1. **Incoming counters and the report of ping_thread** in Counters.
2. **Chains as a refinement**: an abstract specification in which a start, a stop
   and a client's rule are one step each, implemented by Chains.

## 6. Where the code differs from what it says

Each has a run that TLC must find violated.

- `DeniedIsOut` (`v_denied`, `auth.c:158`): a device in validation that is then
  denied keeps its rule, because the deny names the mark of a known client.
- `RulesAreUnique` with `StatusLost` (`v_status`, `util.c:123`): when
  `sigchld_handler()` reaps first, the exit status of grep is uninitialised and
  a second copy of a rule is appended.
- `AllowedIsLetThrough` (`v_allowed`, `firewall.c:177`): a client that has only
  registered comes back from `wdctl restart` with a rule of mark 0; when the
  server allows it later, that rule is found and no other is added.
- `ActiveStays` (`v_active`, `fw_iptables.c:618`): after a denial and a new grant
  the rule counts from 0 and the node from the old count; until the counter has
  caught up the client looks idle and is removed "for inactivity".
- `UsersAreKept` (`v_users`, `gateway.c:408`): a wifidog that a script starts while
  the heir of a restart waits for its parent binds the port first; the heir
  exits with the sessions that `wdctl restart` promises to keep.

Seen while modelling, in the models but without a run of their own:

- `firewall.c:240`: the walk's next pointer survives the release of the mutex,
  its node may not (`GoOn`).
- `src/yunwifi/yunwifi-root/files/usr/sbin/check_dog.sh:22`: as long as
  `/tmp/udphd-status` is missing or empty, `$(($dognow - $udphdstatus))` is an
  arithmetic syntax error that ends the watchdog - 60 seconds after boot already
  when the server is out of reach, or when it reads the file just truncated.
  Nobody starts it again. `GatewayComesBack` and `TravelsAgain` are stated for a
  live watchdog for that reason.
- `auth.c:107`: a login is asked and answered for the first client of the sender's
  address. With a second device there, its own session stays as it was while the
  first one's is granted or denied by a request it did not send
  (`AnswerFitsSession` says how far that goes).
- `fw_iptables.c:616`: a line of the listing is counted for whoever has the address
  by then, and a rule that a denial with another mark left keeps its counter: a
  new session starts with the old one's bytes (`LeftOver`).
- `util.c:325`: without a default route and an `ExternalInterface` a started wifidog
  waits for ever with the port bound; `pidof` finds it and nothing else is
  started (`HeldUp`).
- `gateway.c:283`: a second, different signal during `fw_destroy()` interrupts
  the handler in the main thread, which then calls `pthread_exit()`: the
  shutdown stops halfway, the port stays taken, `pidof` finds the process and the
  watchdog does nothing (`SecondSignal` in Chains and Processes). The comment
  expects another *thread* there.
- `centralserver.c:69`: a request that begins behind the server in use gives up
  without trying the ones before, against the comment at `:313`.
- `centralserver.c:402`: delivering the counters to the central host replaces the
  login host's address in last_ip, and with it in the whitelist.
- `wdctl_thread.c:352`: the heir shuts the connection of `wdctl restart`, which
  therefore does not report what became of it.

## 7. Not modelled

Of the packages' own code: the configuration parser, command line, logging and
allocation wrappers (run once, sequential); the text of requests, pages and
redirections; `whitelist.sh`, hdwifi's access to flash, myddns and qos-emong
(one-shot scripts without concurrency); the copies of udphd's answers, which go
out unacknowledged and change nothing.

The rest of the repository is not the program. Of its 113,000 implementation
lines about 7,000 are the project's own; the others are several vendored copies
of the Lua interpreter and its compiled scripts (ghca), rp-pppoe with its relay
and server (ghca_catch, of which the project's part is a small patch), libhttpd, xl2tpd, redsocks2, opendpi, nginx and kernel patches.
Modelling a Lua compiler or a PPPoE relay would say nothing about this gateway,
so the share of all lines that the modules stand for stays small: it is about
2,700, most of the code that has state, threads or a protocol.

## 8. Running

```
tlc -workers 2 -config GatewaySafety.cfg MCGateway     # and so on, see PROJECT.json
for m in LeastProofs GatewayProofs GatewayRefines RestartProofs AuthServersProofs \
         CountersProofs WatchdogProofs ChainsProofs; do tlapm $m.tla; done
```
