---------------------------- MODULE GroupMemory ----------------------------
(***************************************************************************)
(* What replication promises about the content of the nodes' databases,    *)
(* with tasks, queues, messages and timestamps left out: a node's copy of  *)
(* an item changes by a local API call, by taking over a version some API  *)
(* call wrote into a group this node accepts, or by dropping an item that  *)
(* some API call deleted.  Which version is taken over, and when, is open. *)
(***************************************************************************)
EXTENDS Integers, Sequences

CONSTANTS Node, Item, Group, NoGroup,
          Readers       \* Readers[n]: the groups n takes from other nodes

VARIABLES
    written,    \* the API writes, in order
    deleted,    \* the items some API call has deleted
    memory      \* memory[n][i]: the version n holds of i, 0 for none

memVars == <<written, deleted, memory>>

MemInit ==
    /\ written = <<>>
    /\ deleted = {}
    /\ memory = [n \in Node |-> [i \in Item |-> 0]]

WriteItem(n, i, g) ==
    /\ written' = Append(written, [id |-> i, group |-> g, author |-> n])
    /\ memory' = [memory EXCEPT ![n][i] = Len(written) + 1]
    /\ UNCHANGED deleted

DeleteItem(n, i) ==
    /\ memory[n][i] # 0
    /\ memory' = [memory EXCEPT ![n][i] = 0]
    /\ deleted' = deleted \cup {i}
    /\ UNCHANGED written

Adopt(n, i, b) ==
    /\ written[b].id = i
    /\ written[b].group \in Readers[n]
    /\ memory' = [memory EXCEPT ![n][i] = b]
    /\ UNCHANGED <<written, deleted>>

Forget(n, i) ==
    /\ i \in deleted
    /\ memory' = [memory EXCEPT ![n][i] = 0]
    /\ UNCHANGED <<written, deleted>>

MemNext ==
    \E n \in Node, i \in Item :
        \/ \E g \in Group \cup {NoGroup} : WriteItem(n, i, g)
        \/ DeleteItem(n, i)
        \/ \E b \in 1 .. Len(written) : Adopt(n, i, b)
        \/ Forget(n, i)

MemSpec == MemInit /\ [][MemNext]_memVars
=============================================================================
