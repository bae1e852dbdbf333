--------------------------------- MODULE Udphd ---------------------------------
(***************************************************************************)
(* udphd (udp/src/client.c, udp/files/udphd.init): a process that pings the*)
(* server in the cloud every 30 seconds and its child, which receives.  A  *)
(* short packet is the answer to a ping: its time goes to the status file. *)
(* A long one is a command, which is run in the receiver.                  *)
(***************************************************************************)

VARIABLES
    pinger,    \* the parent: "off", in init() ("init"), or in its loop ("on")
    receiver,  \* the child: "off", in recvfrom() ("on"), between fopen() and
               \* fclose() of the status file ("write"), or in do_cmd() ("cmd")
    status     \* /tmp/udphd-status: "none" when missing or empty, "old" when
               \* its time is 300 seconds ago or more, or "fresh"

uvars == <<pinger, receiver, status>>

UTypeOK ==
    /\ pinger \in {"off", "init", "on"}
    /\ receiver \in {"off", "on", "write", "cmd"}
    /\ status \in {"none", "old", "fresh"}

-------------------------------------------------------------------------------
\* /etc/init.d/udphd start, or restart: killall and start.
StartUdphd == pinger' = "init" /\ receiver' = "off" /\ UNCHANGED status

\* init() has read a device id, the port is bound, the child forked.
UdphdUp ==
    /\ pinger = "init"
    /\ pinger' = "on" /\ receiver' = "on"
    /\ UNCHANGED status

\* The random port is taken: "bind error".
BindFails ==
    /\ pinger = "init"
    /\ pinger' = "off"
    /\ UNCHANGED <<receiver, status>>

\* sendto() fails: the parent ends, the child does not hear of it.
PingFails ==
    /\ pinger = "on"
    /\ pinger' = "off"
    /\ UNCHANGED <<receiver, status>>

\* The answer to a ping: update_status_file() truncates the file,
Pong ==
    /\ pinger = "on" /\ receiver = "on"
    /\ receiver' = "write"
    /\ status' = "none"
    /\ UNCHANGED pinger

\* and writes the uptime.
WriteStatus ==
    /\ receiver = "write"
    /\ receiver' = "on"
    /\ status' = "fresh"
    /\ UNCHANGED pinger

\* A command: do_cmd() reads until nobody holds the pipe any more.
Command ==
    /\ pinger = "on" /\ receiver = "on"
    /\ receiver' = "cmd"
    /\ UNCHANGED <<pinger, status>>

CommandEnds ==
    /\ receiver = "cmd"
    /\ receiver' = "on"
    /\ UNCHANGED <<pinger, status>>

\* An empty packet or an error: "sock has closed".
ReceiverEnds ==
    /\ receiver = "on"
    /\ receiver' = "off"
    /\ UNCHANGED <<pinger, status>>

\* 300 seconds without an answer.
Age ==
    /\ status = "fresh"
    /\ status' = "old"
    /\ UNCHANGED <<pinger, receiver>>

\* After boot: /tmp is empty, and udphd.init has started the daemon.
UInit == pinger = "init" /\ receiver = "off" /\ status = "none"

===============================================================================
