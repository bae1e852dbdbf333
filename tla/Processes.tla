------------------------------- MODULE Processes -------------------------------
(***************************************************************************)
(* The wifidog processes of one device (gateway.c, wdctl_thread.c, safe.c):*)
(* who holds the web server's port, who has set up the chains, and who     *)
(* waits for whom.  What is inside a process is Gateway's; what is in the  *)
(* list it hands over is GatewayRestart's.  Here there may be any number   *)
(* of restarts at a time, and starts beside them.                          *)
(***************************************************************************)
EXTENDS Naturals

CONSTANT MaxProcs   \* wifidog processes at a time (bound)

ASSUME ProcessesAssumption == MaxProcs \in Nat \ {0}

Proc == 1 .. MaxProcs

\* No process: for a parent that has died, and for chains nobody has set up.
NoProc == 0

VARIABLES
    proc,     \* proc[p]: where process p is
    chains,   \* the process whose fw_init() was the last thing done to them
    sock      \* the process with a handler in accept() on the internal socket

pvars == <<proc, chains, sock>>

(***************************************************************************)
(* "heir" has been executed by a handler of its parent, "wait" has done    *)
(* with the list and waits for the parent's death, "boot" has not called   *)
(* httpdCreate() yet, "route" is in get_ext_iface(), "serve" serves,       *)
(* "doomed" still serves and has a SIGINT pending, "dying" has flushed the *)
(* chains, "hung" is a process without its main thread.  fed: it has been  *)
(* given a list and has not got the port yet.                              *)
(***************************************************************************)
Pc == {"gone", "heir", "wait", "boot", "route", "serve", "doomed", "dying",
       "hung"}

Process == [pc: Pc, parent: Proc \cup {NoProc}, fed: BOOLEAN]

Gone       == [pc |-> "gone", parent |-> NoProc, fed |-> FALSE]
Fresh      == [pc |-> "boot", parent |-> NoProc, fed |-> FALSE]
HeirOf(p)  == [pc |-> "heir", parent |-> p,      fed |-> FALSE]

PTypeOK ==
    /\ proc \in [Proc -> Process]
    /\ chains \in Proc \cup {NoProc}
    /\ sock \in Proc \cup {NoProc}

\* What "pidof wifidog" lists, and who holds the port and the wdctl socket.
Alive     == {p \in Proc : proc[p] # Gone}
Bound     == {p \in Proc : proc[p].pc \in {"route", "serve", "doomed", "dying",
                                          "hung"}}
Listening == {p \in Proc : proc[p].pc \in {"serve", "doomed", "dying", "hung"}}
Serving   == {p \in Proc : proc[p].pc \in {"serve", "doomed"}}

\* The process fork() makes.
Free(p) == p \notin Alive /\ \A q \in Proc \ Alive : p <= q

-------------------------------------------------------------------------------
\* A shell runs "wifidog": it reads its configuration and forks.  Beside
\* MaxProcs processes one more only finds the port taken and exits (bound).
Start ==
    \/ \E p \in Proc :
           /\ Free(p)
           /\ proc' = [proc EXCEPT ![p] = Fresh]
           /\ UNCHANGED <<chains, sock>>
    \/ Alive = Proc /\ Bound # {} /\ UNCHANGED pvars

\* "wdctl restart" finds a listening thread_wdctl: wdctl_restart() up to
\* accept().  It unlinks whatever an earlier request has left of the internal
\* socket.  The heir shuts the caller's connection, which ends wdctl.
Restart ==
    \E p \in Listening, h \in Proc :
        /\ Free(h)
        /\ proc' = [proc EXCEPT ![h] = HeirOf(p)]
        /\ sock' = p
        /\ UNCHANGED chains

\* "wifidog probably not started": wdctl exits with 1.
Refused == Listening = {}

\* wdctl_stop(), or a signal from outside.
Stop(p) ==
    /\ proc[p].pc = "serve"
    /\ proc' = [proc EXCEPT ![p].pc = "doomed"]
    /\ UNCHANGED <<chains, sock>>

\* get_clients_from_parent(): the handler behind the internal socket sends its
\* list and then SIGINT to its process - which need not be the one this heir
\* comes from.  Without one the heir goes on with no clients.
Download(h) ==
    /\ proc[h].pc = "heir"
    /\ IF sock = NoProc
       THEN proc' = [proc EXCEPT ![h].pc = "wait"]
       ELSE proc' = [proc EXCEPT
                ![h].pc = "wait",
                ![h].fed = TRUE,
                ![sock].pc = IF @ = "serve" THEN "doomed" ELSE @]
    /\ sock' = NoProc
    /\ UNCHANGED chains

\* "Parent PID %d seems to be dead. Continuing loading."
ParentIsDead(h) ==
    /\ proc[h].pc = "wait" /\ proc[h].parent = NoProc
    /\ proc' = [proc EXCEPT ![h].pc = "boot"]
    /\ UNCHANGED <<chains, sock>>

\* Mutant: the firewall is reset before the port is asked for.
BindLate(p) ==
    /\ proc[p].pc = "boot"
    /\ proc' = [proc EXCEPT ![p] =
           IF Bound = {} THEN [@ EXCEPT !.pc = "route", !.fed = FALSE] ELSE Gone]
    /\ chains' = NoProc
    /\ UNCHANGED sock

\* httpdCreate() binds the port, or the process exits.  "Reset the firewall (if
\* WiFiDog crashed)" follows: fw_destroy().
Bind(p) ==
    /\ proc[p].pc = "boot"
    /\ IF Bound = {}
       THEN /\ proc' = [proc EXCEPT ![p].pc = "route", ![p].fed = FALSE]
            /\ chains' = NoProc
       ELSE /\ proc' = [proc EXCEPT ![p] = Gone]
            /\ UNCHANGED chains
    /\ UNCHANGED sock

\* fw_init() and the three threads, once there is an external interface: one
\* that the configuration names, or that of a default route.  Without either
\* get_ext_iface() tries again every second, for ever.
SetUp(p) ==
    /\ proc[p].pc = "route"
    /\ proc' = [proc EXCEPT ![p].pc = "serve"]
    /\ chains' = p
    /\ UNCHANGED sock

\* termination_handler() up to the end of fw_destroy().
Terminate(p) ==
    /\ proc[p].pc = "doomed"
    /\ proc' = [proc EXCEPT ![p].pc = "dying"]
    /\ chains' = NoProc
    /\ UNCHANGED sock

\* Another signal than the one whose handler runs: "Another thread already
\* began global termination handler", and pthread_exit() ends the main thread
\* with the handler that it had interrupted.  The other threads stay.
SecondSignal(p) ==
    /\ proc[p].pc \in {"doomed", "dying"}
    /\ proc' = [proc EXCEPT ![p].pc = "hung"]
    /\ chains' = NoProc
    /\ UNCHANGED sock

\* The process is gone: its port is free, its socket refuses, and those who
\* wait for its death see it.
Ends(p) ==
    /\ proc' = [q \in Proc |->
           IF q = p THEN Gone
           ELSE IF proc[q].parent = p THEN [proc[q] EXCEPT !.parent = NoProc]
           ELSE proc[q]]
    /\ sock' = IF sock = p THEN NoProc ELSE sock
    /\ UNCHANGED chains

Exit(p) == proc[p].pc = "dying" /\ Ends(p)

\* A failed exec or fw_init(), a fault, SIGKILL.
Die(p) == p \in Alive /\ Ends(p)

PInit ==
    /\ proc = [p \in Proc |-> Gone]
    /\ chains = NoProc
    /\ sock = NoProc

\* The steps of process p that its code takes by itself.
Own(p) ==
    \/ Download(p) \/ ParentIsDead(p) \/ Bind(p) \/ Terminate(p) \/ Exit(p)

-------------------------------------------------------------------------------
\* gateway.c: "Reset the firewall (if WiFiDog crashed)": starting, restarting
\* and dying processes never take the chains from the one that serves.
ChainsAreOwned == \A p \in Serving : chains = p

===============================================================================
