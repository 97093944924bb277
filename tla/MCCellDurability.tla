------------------------- MODULE MCCellDurability --------------------------
(* Instances of CellDurability for TLC. *)
EXTENDS CellDurability, TLC

Symmetry == Permutations(Node) \cup Permutations(Write)

\* The state without what no later step and no property checked here can tell
\* apart: the history variables of CellOwnership, rows the bucket already
\* holds, uploads of ended activations that bring nothing new, snapshots no
\* later claim can reuse, and whether a recovered log was ever open.
LivePuts == {p \in puts : \/ p.epoch \in {handle[p.node], kept[p.node]}
                          \/ p.epoch \notin objects
                          \/ ~(p.image \subseteq prefix[p.epoch])}
LiveSnap(n) == IF /\ claim[n].guard.epoch # snap[n].epoch
                  /\ \/ snap[n].epoch = MaxEpoch
                     \/ snap[n].epoch + 1 < own.epoch
                     \/ /\ snap[n].epoch + 1 = own.epoch
                        /\ own.node \notin {n, NoNode}
               THEN NoSnap ELSE snap[n]
LiveLog(n) == IF proc[n] = "down" /\ log[n] = "sealed" THEN "none" ELSE log[n]
Observed ==
    <<own, late, proc, lease, kept, draining, phase, epoch, claim, cas, cause,
      rel, handoff, attempts, db, handle, [n \in Node |-> LiveSnap(n)], tail,
      prefix, objects, LivePuts, proved, [n \in Node |-> LiveLog(n)],
      [n \in Node |-> [e \in Epoch |-> rows[n][e] \ prefix[e]]], issued, acked>>

============================================================================
