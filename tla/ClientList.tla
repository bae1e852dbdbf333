------------------------------ MODULE ClientList ------------------------------
(***************************************************************************)
(* The linked list of connected clients (client_list.c).                   *)
(*                                                                         *)
(* A list is a function: its DOMAIN is the set of nodes that are linked    *)
(* in, its values are their fields.  Nodes are numbered in the order they  *)
(* are allocated.  client_list_append() always links a new node at the     *)
(* tail, so the order of the list is the order of the numbers: "the first  *)
(* node that matches" is the least one, ->next is the next larger one and  *)
(* NoNode plays NULL.                                                      *)
(***************************************************************************)
EXTENDS Naturals

\* NULL, for a pointer to a t_client.
NoNode == 0

\* The first node of a set in list order, or NoNode.
FirstOf(S) == IF S = {} THEN NoNode ELSE CHOOSE n \in S : \A m \in S : n <= m

\* client_list_find_by_ip(), _by_mac(), _by_token(): the first match wins.
FindByIp(l, i)    == FirstOf({n \in DOMAIN l : l[n].ip = i})
FindByMac(l, m)   == FirstOf({n \in DOMAIN l : l[n].mac = m})
FindByToken(l, t) == FirstOf({n \in DOMAIN l : l[n].token = t})

\* Mutant: the search stops at the first node with the address.
FindAtFirstIp(l, i, m) ==
    LET c == FindByIp(l, i)
    IN  IF c # NoNode /\ l[c].mac = m THEN c ELSE NoNode

\* client_list_find(): by address and hardware address.
Find(l, i, m) == FirstOf({n \in DOMAIN l : l[n].ip = i /\ l[n].mac = m})

\* ptr->next, and client_get_first_client() as the successor of NoNode.
NextOf(l, n) == FirstOf({m \in DOMAIN l : m > n})

\* client_list_append(): node n is the one just allocated.
AppendNode(l, n, c) == [m \in DOMAIN l \cup {n} |-> IF m = n THEN c ELSE l[m]]

\* Mutant: unlinking a node loses the nodes behind it.
DeleteFrom(l, n) == [m \in {k \in DOMAIN l : k < n} |-> l[m]]

\* client_list_delete(): unlink the node and free it; the others are kept.
DeleteNode(l, n) == [m \in DOMAIN l \ {n} |-> l[m]]

===============================================================================
