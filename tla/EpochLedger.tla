---------------------------- MODULE EpochLedger ----------------------------
(* What the owner record of a cell promises its replication prefixes: every *)
(* epoch is granted to one node, at most once, in increasing order, and is  *)
(* opened for writing at most once, by the node it was granted to.          *)
EXTENDS Naturals

CONSTANTS
    Node,      \* the nodes that claim the cell
    NoNode,    \* nobody
    MaxEpoch   \* the last epoch

Epoch == 1 .. MaxEpoch

VARIABLES
    grant,    \* the current grant: [node, epoch], node = NoNode when released
    grantee,  \* grantee[e] is the node epoch e was granted to, or NoNode
    opened    \* opened[e] is the set of nodes that opened epoch e

ledger == <<grant, grantee, opened>>

LedgerInit ==
    /\ grant = [node |-> NoNode, epoch |-> 0]
    /\ grantee = [e \in Epoch |-> NoNode]
    /\ opened = [e \in Epoch |-> {}]

\* The next epoch is granted, whoever held the last one.
Grant(n) ==
    /\ grant.epoch < MaxEpoch
    /\ grant' = [node |-> n, epoch |-> grant.epoch + 1]
    /\ grantee[grant.epoch + 1] = NoNode
    /\ grantee' = [grantee EXCEPT ![grant.epoch + 1] = n]
    /\ UNCHANGED opened

\* The current grant is given back; its epoch is never granted again.
GiveBack ==
    /\ grant.node # NoNode
    /\ grant' = [grant EXCEPT !.node = NoNode]
    /\ UNCHANGED <<grantee, opened>>

\* A node opens an epoch it was granted, which nobody opened before.
OpenEpoch(n, e) ==
    /\ grantee[e] = n
    /\ opened[e] = {}
    /\ opened' = [opened EXCEPT ![e] = {n}]
    /\ UNCHANGED <<grant, grantee>>

LedgerNext ==
    \/ \E n \in Node : Grant(n)
    \/ GiveBack
    \/ \E n \in Node, e \in Epoch : OpenEpoch(n, e)

LedgerSpec == LedgerInit /\ [][LedgerNext]_ledger

============================================================================
