--------------------------- MODULE CellOwnership ---------------------------
(* Ownership of one cell by the nodes of a fleet: the record               *)
(* cells/<cell>/own.json, the conditional writes that claim and release it *)
(* and the phase machine of crates/logic that decides when to issue them.  *)
(*                                                                         *)
(* One cell is modelled because the record, the claim and the phase of one *)
(* cell share nothing with those of another except node authority.  The    *)
(* etag of the record is its content: epochs only grow, so a content never *)
(* returns, and this is the weakest token an object store offers.  An      *)
(* owner read is one step with the handler of its answer, at the instant   *)
(* the store serves it: the handler is local, and what can go stale        *)
(* between the read and the claim is covered by the claim being a step of  *)
(* its own.  Waiting for an activation permit or for a residency slot is   *)
(* a delay of the next step.                                               *)
EXTENDS Naturals, FiniteSets

CONSTANTS
    Node,           \* the nodes of the fleet
    NoNode,         \* the owner of a released record
    MaxEpoch,       \* the last writer epoch (u64::MAX in the code)
    MaxReconciles,  \* MAX_ACQUIRE_RECONCILES
    MaxRecoveries,  \* Config.owner_log_recovery_attempts
    Behaviours      \* the optional behaviours of the deployment, below

ASSUME NoNodeAssumption == NoNode \notin Node
ASSUME BoundAssumption == /\ MaxEpoch \in Nat \ {0}
                          /\ MaxReconciles \in Nat
                          /\ MaxRecoveries \in Nat \ {0}
\* "skew": a peer may judge a lease expired that is not.  "ambiguity": the
\* answer of a conditional write may be lost.  "drain": nodes drain.  "shed":
\* nodes shed and balance cells.  "reload": a node may exit and resume its
\* open databases.  "swap": runtimes move between isolate generations at one
\* epoch.  "bounded_stop": an eviction stop may be given up.
\* "start_failure": a runtime may fail to start.  "failed_proof": a
\* durability proof may time out.  "local_cells": a starting node finds the
\* cell on its disk.  "parked": requests wait behind a balancing move.
ASSUME BehaviourAssumption ==
    Behaviours \subseteq {"skew", "ambiguity", "drain", "shed", "reload",
                         "swap", "bounded_stop", "start_failure",
                         "failed_proof", "local_cells", "parked"}

VARIABLES
    own,       \* the owner record in the bucket
    granted,   \* history: granted[e] is the node the record named at epoch e
    writers,   \* history: writers[e] is the set of nodes that restored at e
    late,      \* conditional writes whose caller gave up, still in flight
    proc,      \* "up": authoritative; "down"; "reloading": lease write pending
    lease,     \* whether the lease record of the node is unexpired
    kept,      \* epoch of the live database a clean reload left on disk, or 0
    draining,  \* State.draining
    phase,     \* Cell.phase
    epoch,     \* the epoch inside the phase, 0 for phases that carry none
    claim,     \* the record a claim is made on, and its reconcile count
    cas,       \* the claim's write: "idle", "sent", "applied", "rejected"
    cause,     \* StopCause of an eviction or a stop
    rel,       \* the release's write: epoch released, and state as in cas
    handoff,   \* Cell.handoff
    attempts   \* Cell.owner_log_recovery_attempts

storeVars == <<own, granted, late>>
nodeVars == <<proc, lease, kept, draining>>
cellVars == <<phase, epoch, claim, cas, cause, rel, handoff, attempts>>
vars == <<own, granted, writers, late, proc, lease, kept, draining,
          phase, epoch, claim, cas, cause, rel, handoff, attempts>>

Epoch == 1 .. MaxEpoch
Record == [node : Node \cup {NoNode}, epoch : 0 .. MaxEpoch]
\* An absent record: CasGuard::Absent, and the epoch before the first.
Absent == [node |-> NoNode, epoch |-> 0]
Owned(n, e) == [node |-> n, epoch |-> e]
Released(e) == [node |-> NoNode, epoch |-> e]
Claim == [guard : Record, reconciles : 0 .. MaxReconciles]
NoClaim == [guard |-> Absent, reconciles |-> 0]
Release == [epoch : 0 .. MaxEpoch,
            state : {"idle", "sent", "applied", "rejected"}]
NoRelease == [epoch |-> 0, state |-> "idle"]
ConditionalWrite == [guard : Record, rec : Record]

Phase == {"Inactive", "Confirming", "ReadingOwner", "ReadingNodeLease",
          "RecoveringOwnerLog", "WaitingOwnerLogRecovery", "Acquiring",
          "ReconcilingAcquire", "Restoring", "Starting", "Publishing",
          "Resident", "EnsuringDurability", "Cleaning", "Dormant",
          "Adopting", "Remote", "Fenced"}
StopCause == {"None", "Cleanup", "Evict", "Rebalance", "Reset", "Swap"}

\* Mutant: a successor of a released record reuses its epoch.
NextWriterEpochReused(rec) ==
    IF rec.node = NoNode /\ rec.epoch # 0 THEN rec.epoch ELSE rec.epoch + 1
\* next_writer_epoch: every acquisition advances the epoch of the record it
\* replaces; exhaustion fails closed where this is used.
NextWriterEpoch(rec) == rec.epoch + 1
ClaimEpoch(n) == NextWriterEpoch(claim[n].guard)
Fresh(n) == claim[n].guard = Absent
TookOver(n) == claim[n].guard.node # n /\ ~Fresh(n)
HandsOff(n) == draining[n] \/ handoff[n]
\* A node runs guest code for the cell and answers requests.
Serving(n) == proc[n] = "up" /\ phase[n] \in {"Resident", "EnsuringDurability"}

----------------------------------------------------------------------------
Init ==
    /\ own = Absent
    /\ granted = [e \in Epoch |-> NoNode]
    /\ writers = [e \in Epoch |-> {}]
    /\ late = {}
    /\ proc = [n \in Node |-> "up"]
    /\ lease = [n \in Node |-> TRUE]
    /\ kept = [n \in Node |-> 0]
    /\ draining = [n \in Node |-> FALSE]
    /\ phase = [n \in Node |-> "Inactive"]
    /\ epoch = [n \in Node |-> 0]
    /\ claim = [n \in Node |-> NoClaim]
    /\ cas = [n \in Node |-> "idle"]
    /\ cause = [n \in Node |-> "None"]
    /\ rel = [n \in Node |-> NoRelease]
    /\ handoff = [n \in Node |-> FALSE]
    /\ attempts = [n \in Node |-> 0]

\* The object store applies a conditional write whose guard is the record it
\* holds.  Writes guarded by a content that can never return are forgotten.
Install(rec, pending) ==
    /\ own' = rec
    /\ granted' = IF rec.node = NoNode THEN granted
                  ELSE [granted EXCEPT ![rec.epoch] = rec.node]
    /\ late' = {w \in pending : w.guard \in {rec, Released(rec.epoch)}}

\* Writes a node has sent and that the store has not served yet.
SentClaim(n) == IF cas[n] = "sent"
                THEN {[guard |-> claim[n].guard, rec |-> Owned(n, ClaimEpoch(n))]}
                ELSE {}
SentRelease(n) == IF rel[n].state = "sent"
                  THEN {[guard |-> Owned(n, rel[n].epoch),
                         rec |-> Released(rel[n].epoch)]}
                  ELSE {}

\* A write whose caller timed out or died reaches the store after all.
LandLate(w) ==
    /\ w \in late
    /\ own = w.guard
    /\ Install(w.rec, late \ {w})
    /\ UNCHANGED <<writers, nodeVars, cellVars>>

----------------------------------------------------------------------------
(* Resolution: who owns the cell, and may this node claim it.              *)

SetPhase(n, p) == phase' = [phase EXCEPT ![n] = p]
SetClaim(n, c) == claim' = [claim EXCEPT ![n] = c]

\* A request, an alarm or a wake hint starts a cold route; a hint does so even
\* for a cell that a balancing move is handing off.  A wake never resumes the
\* epoch it slept at.
Wake(n) ==
    /\ proc[n] = "up"
    /\ \/ phase[n] = "Inactive" /\ ~draining[n]
       \/ phase[n] = "Remote"
       \/ phase[n] = "Dormant" /\ ~draining[n]
    /\ SetPhase(n, "ReadingOwner")
    /\ epoch' = [epoch EXCEPT ![n] = 0]
    /\ UNCHANGED <<storeVars, writers, nodeVars, claim, cas, cause, rel,
                   handoff, attempts>>

\* Mutant: the exhaustion of the epochs is not checked.
BeginClaimUnchecked(n, rec, reconciles) ==
    IF draining[n] /\ rec.node # n
    THEN /\ SetPhase(n, "Inactive")
         /\ SetClaim(n, NoClaim)
         /\ UNCHANGED cas
    ELSE /\ SetPhase(n, "Acquiring")
         /\ SetClaim(n, [guard |-> rec, reconciles |-> reconciles])
         /\ cas' = [cas EXCEPT ![n] = "sent"]
\* begin_activation of a claim on rec: refused while draining unless the
\* record already names this node, and when the epochs are exhausted.
BeginClaim(n, rec, reconciles) ==
    IF rec.epoch = MaxEpoch \/ (draining[n] /\ rec.node # n)
    THEN /\ SetPhase(n, "Inactive")
         /\ SetClaim(n, NoClaim)
         /\ UNCHANGED cas
    ELSE /\ SetPhase(n, "Acquiring")
         /\ SetClaim(n, [guard |-> rec, reconciles |-> reconciles])
         /\ cas' = [cas EXCEPT ![n] = "sent"]

\* The claim holds: the cell restores at its epoch, or, when only a handoff
\* wanted the ownership, rests dormant there.
Acquired(n) ==
    /\ epoch' = [epoch EXCEPT ![n] = ClaimEpoch(n)]
    /\ \/ /\ SetPhase(n, "Restoring")
          /\ writers' = [writers EXCEPT ![ClaimEpoch(n)] = @ \cup {n}]
          /\ UNCHANGED claim
       \/ /\ SetPhase(n, "Dormant")
          /\ SetClaim(n, NoClaim)
          /\ UNCHANGED writers

\* owner_read, confirming: the first read of a cell found on this node's disk.
\* A request that comes first makes it the read of an ordinary wake, which is
\* a Restart that found nothing followed by Wake.
OwnerReadConfirming(n) ==
    /\ proc[n] = "up"
    /\ phase[n] = "Confirming"
    /\ IF own.node = n
       THEN SetPhase(n, "Dormant") /\ epoch' = [epoch EXCEPT ![n] = own.epoch]
       ELSE SetPhase(n, "Inactive") /\ UNCHANGED epoch
    /\ UNCHANGED <<storeVars, writers, nodeVars, claim, cas, cause, rel,
                   handoff, attempts>>

\* Mutant: a record that names this node, at any epoch, confirms the claim.
OwnerReadAppliedAnyEpoch(n) ==
    /\ proc[n] = "up"
    /\ phase[n] = "ReconcilingAcquire"
    /\ own.node = n
    /\ Acquired(n)
    /\ UNCHANGED <<storeVars, nodeVars, cas, cause, rel, handoff, attempts>>
\* owner_read: the ambiguous claim applied after all.
OwnerReadApplied(n) ==
    /\ proc[n] = "up"
    /\ phase[n] = "ReconcilingAcquire"
    /\ own = Owned(n, ClaimEpoch(n))
    /\ Acquired(n)
    /\ UNCHANGED <<storeVars, nodeVars, cas, cause, rel, handoff, attempts>>

\* owner_read: absent, released, or this node's own record.  A reconcile is
\* one attempt continuing, so its count survives the round trip.
OwnerReadClaimable(n) ==
    /\ proc[n] = "up"
    /\ phase[n] \in {"ReadingOwner", "ReconcilingAcquire"}
    /\ own.node \in {n, NoNode}
    /\ phase[n] = "ReconcilingAcquire" => own # Owned(n, ClaimEpoch(n))
    /\ BeginClaim(n, own, claim[n].reconciles)
    /\ UNCHANGED <<storeVars, writers, nodeVars, epoch, cause, rel, handoff,
                   attempts>>

\* place_unowned of a node with no room: a peer's load sample shows some, so
\* the request is routed there.
PlacedOnPeer(n) ==
    /\ proc[n] = "up"
    /\ phase[n] \in {"ReadingOwner", "ReconcilingAcquire"}
    /\ own.node = NoNode
    /\ ~draining[n]
    /\ SetPhase(n, "Remote")
    /\ SetClaim(n, NoClaim)
    /\ UNCHANGED <<storeVars, writers, nodeVars, epoch, cas, cause, rel,
                   handoff, attempts>>

\* invalidate_remote: a send to the cached route failed.
InvalidateRemote(n) ==
    /\ proc[n] = "up"
    /\ phase[n] = "Remote"
    /\ SetPhase(n, "Inactive")
    /\ UNCHANGED <<storeVars, writers, nodeVars, epoch, claim, cas, cause, rel,
                   handoff, attempts>>

\* owner_read: another node's record; its lease decides.
OwnerReadForeign(n) ==
    /\ proc[n] = "up"
    /\ phase[n] \in {"ReadingOwner", "ReconcilingAcquire"}
    /\ own.node \notin {n, NoNode}
    /\ SetPhase(n, "ReadingNodeLease")
    /\ SetClaim(n, [guard |-> own, reconciles |-> 0])
    /\ UNCHANGED <<storeVars, writers, nodeVars, epoch, cas, cause, rel,
                   handoff, attempts>>

\* The owner read or the lease read failed, timed out, or found a live owner
\* of another peer protocol.
ResolveFailed(n) ==
    /\ proc[n] = "up"
    /\ phase[n] \in {"Confirming", "ReadingOwner", "ReconcilingAcquire",
                     "ReadingNodeLease"}
    /\ SetPhase(n, "Inactive")
    /\ SetClaim(n, NoClaim)
    /\ UNCHANGED <<storeVars, writers, nodeVars, epoch, cas, cause, rel,
                   handoff, attempts>>

\* apply_node_lease_result, live: route there.  A crashed owner stays live
\* to its peers until its lease runs out.
NodeLeaseLive(n) ==
    /\ proc[n] = "up"
    /\ phase[n] = "ReadingNodeLease"
    /\ lease[claim[n].guard.node]
    /\ SetPhase(n, "Remote")
    /\ SetClaim(n, NoClaim)
    /\ UNCHANGED <<storeVars, writers, nodeVars, epoch, cas, cause, rel,
                   handoff, attempts>>

\* Mutant: a lease read that finds a record is taken for an expired lease.
JudgedDeadAlways(n) == claim[n].guard.node # n
\* The reader judges the owner's lease expired.  With skewed clocks the
\* judgement can be wrong.
JudgedDead(n) == "skew" \in Behaviours \/ ~lease[claim[n].guard.node]

\* apply_node_lease_result, dead, no log or a sealed one: claim at once.
NodeLeaseDead(n) ==
    /\ proc[n] = "up"
    /\ phase[n] = "ReadingNodeLease"
    /\ JudgedDead(n)
    /\ BeginClaim(n, claim[n].guard, 0)
    /\ UNCHANGED <<storeVars, writers, nodeVars, epoch, cause, rel, handoff,
                   attempts>>

\* apply_node_lease_result, dead, log not sealed: the takeover interlock.
NodeLeaseUnrecovered(n) ==
    /\ proc[n] = "up"
    /\ phase[n] = "ReadingNodeLease"
    /\ JudgedDead(n)
    /\ IF draining[n]
       THEN SetPhase(n, "Inactive") /\ SetClaim(n, NoClaim)
       ELSE SetPhase(n, "RecoveringOwnerLog") /\ UNCHANGED claim
    /\ UNCHANGED <<storeVars, writers, nodeVars, epoch, cas, cause, rel,
                   handoff, attempts>>

\* node_log_recovered, Ok: the deferred claim proceeds on the same record.
NodeLogRecovered(n) ==
    /\ proc[n] = "up"
    /\ phase[n] = "RecoveringOwnerLog"
    /\ BeginClaim(n, claim[n].guard, 0)
    /\ attempts' = [attempts EXCEPT ![n] =
                       IF claim[n].guard.epoch = MaxEpoch THEN @ ELSE 0]
    /\ UNCHANGED <<storeVars, writers, nodeVars, epoch, cause, rel, handoff>>

\* Mutant: a failed recovery is not counted.
NodeLogRecoveryFailedUncounted(n) ==
    /\ proc[n] = "up"
    /\ phase[n] = "RecoveringOwnerLog"
    /\ SetClaim(n, NoClaim)
    /\ SetPhase(n, "WaitingOwnerLogRecovery")
    /\ UNCHANGED <<storeVars, writers, nodeVars, epoch, cas, cause, rel,
                   handoff, attempts>>
\* node_log_recovered, Err: back off, or give up after MaxRecoveries.
NodeLogRecoveryFailed(n) ==
    /\ proc[n] = "up"
    /\ phase[n] = "RecoveringOwnerLog"
    /\ SetClaim(n, NoClaim)
    /\ IF attempts[n] + 1 >= MaxRecoveries
       THEN /\ SetPhase(n, "Inactive")
            /\ attempts' = [attempts EXCEPT ![n] = 0]
       ELSE /\ SetPhase(n, "WaitingOwnerLogRecovery")
            /\ attempts' = [attempts EXCEPT ![n] = @ + 1]
    /\ UNCHANGED <<storeVars, writers, nodeVars, epoch, cas, cause, rel,
                   handoff>>

\* retry_owner_log_recovery: from the top, or nothing wants the cell any more.
RetryOwnerLogRecovery(n) ==
    /\ proc[n] = "up"
    /\ phase[n] = "WaitingOwnerLogRecovery"
    /\ \/ SetPhase(n, "ReadingOwner") /\ UNCHANGED attempts
       \/ SetPhase(n, "Inactive") /\ attempts' = [attempts EXCEPT ![n] = 0]
    /\ UNCHANGED <<storeVars, writers, nodeVars, epoch, claim, cas, cause, rel,
                   handoff>>

----------------------------------------------------------------------------
(* The claim's conditional write.                                          *)

\* The store serves the write.
LandClaim(n) ==
    /\ proc[n] = "up"
    /\ cas[n] = "sent"
    /\ IF own = claim[n].guard
       THEN /\ Install(Owned(n, ClaimEpoch(n)), late)
            /\ cas' = [cas EXCEPT ![n] = "applied"]
       ELSE /\ cas' = [cas EXCEPT ![n] = "rejected"]
            /\ UNCHANGED storeVars
    /\ UNCHANGED <<writers, nodeVars, phase, epoch, claim, cause, rel, handoff,
                   attempts>>

\* owner_cas_completed, Applied.
OwnerCasApplied(n) ==
    /\ proc[n] = "up"
    /\ phase[n] = "Acquiring"
    /\ cas[n] = "applied"
    /\ Acquired(n)
    /\ cas' = [cas EXCEPT ![n] = "idle"]
    /\ UNCHANGED <<storeVars, nodeVars, cause, rel, handoff, attempts>>

\* owner_cas_completed, Rejected: resolve again.
OwnerCasRejected(n) ==
    /\ proc[n] = "up"
    /\ phase[n] = "Acquiring"
    /\ cas[n] = "rejected"
    /\ SetPhase(n, "ReadingOwner")
    /\ SetClaim(n, NoClaim)
    /\ cas' = [cas EXCEPT ![n] = "idle"]
    /\ UNCHANGED <<storeVars, writers, nodeVars, epoch, cause, rel, handoff,
                   attempts>>

\* owner_cas_completed, Ambiguous (a store error or the operation deadline,
\* whether or not the write applied): read back, a bounded number of times.
OwnerCasAmbiguous(n) ==
    /\ "ambiguity" \in Behaviours
    /\ proc[n] = "up"
    /\ phase[n] = "Acquiring"
    /\ late' = late \cup SentClaim(n)
    /\ cas' = [cas EXCEPT ![n] = "idle"]
    /\ IF claim[n].reconciles < MaxReconciles
       THEN /\ SetPhase(n, "ReconcilingAcquire")
            /\ SetClaim(n, [claim[n] EXCEPT !.reconciles = @ + 1])
       ELSE SetPhase(n, "Inactive") /\ SetClaim(n, NoClaim)
    /\ UNCHANGED <<own, granted, writers, nodeVars, epoch, cause, rel, handoff,
                   attempts>>

\* owner_cas_completed, Definite: the store refused the request unserved.
OwnerCasFailed(n) ==
    /\ proc[n] = "up"
    /\ phase[n] = "Acquiring"
    /\ cas[n] = "sent"
    /\ SetPhase(n, "Inactive")
    /\ SetClaim(n, NoClaim)
    /\ cas' = [cas EXCEPT ![n] = "idle"]
    /\ UNCHANGED <<storeVars, writers, nodeVars, epoch, cause, rel, handoff,
                   attempts>>

----------------------------------------------------------------------------
(* Activation, eviction and stops.                                         *)

\* restore_completed.
RestoreCompleted(n) ==
    /\ proc[n] = "up"
    /\ phase[n] = "Restoring"
    /\ SetPhase(n, "Starting")
    /\ SetClaim(n, NoClaim)
    /\ kept' = [kept EXCEPT ![n] = 0]
    /\ UNCHANGED <<storeVars, writers, proc, lease, draining, epoch, cas,
                   cause, rel, handoff, attempts>>

RestoreFailed(n) ==
    /\ proc[n] = "up"
    /\ phase[n] = "Restoring"
    /\ SetPhase(n, "Dormant")
    /\ SetClaim(n, NoClaim)
    /\ kept' = [kept EXCEPT ![n] = 0]
    /\ UNCHANGED <<storeVars, writers, proc, lease, draining, epoch, cas,
                   cause, rel, handoff, attempts>>

\* A step that moves only the phase and the stop cause of the cell.
Move(n, p, c) ==
    /\ SetPhase(n, p)
    /\ cause' = [cause EXCEPT ![n] = c]
    /\ UNCHANGED <<storeVars, writers, nodeVars, epoch, claim, cas, rel,
                   handoff, attempts>>

\* runtime_started.
RuntimeStarted(n) ==
    /\ proc[n] = "up" /\ phase[n] = "Starting"
    /\ Move(n, "Publishing", "None")

\* runtime_started, Err: dormant, and no StopRuntime is issued.
RuntimeStartFailed(n) ==
    /\ "start_failure" \in Behaviours
    /\ proc[n] = "up" /\ phase[n] = "Starting"
    /\ Move(n, "Dormant", "None")

\* published.
Published(n) ==
    /\ proc[n] = "up" /\ phase[n] = "Publishing"
    /\ Move(n, "Resident", "None")

PublishFailed(n) ==
    /\ proc[n] = "up" /\ phase[n] = "Publishing"
    /\ Move(n, "Cleaning", "Cleanup")

\* begin_eviction, keeping the record ("Evict") or shedding it ("Rebalance").
BeginEviction(n, c) ==
    /\ proc[n] = "up" /\ phase[n] = "Resident"
    /\ c = "Rebalance" => "shed" \in Behaviours \/ draining[n]
    /\ Move(n, "EnsuringDurability", c)

\* durability_checked, Ok.
DurabilityChecked(n) ==
    /\ proc[n] = "up" /\ phase[n] = "EnsuringDurability"
    /\ Move(n, "Cleaning", cause[n])

\* durability_checked, Err, or a request that rescues the cell.
EvictionCancelled(n) ==
    /\ proc[n] = "up" /\ phase[n] = "EnsuringDurability"
    /\ Move(n, "Resident", "None")

\* reset_cell: a proof failed, or its ownership read named another writer.
ResetCell(n) ==
    /\ "failed_proof" \in Behaviours \/ own # Owned(n, epoch[n])
    /\ proc[n] = "up" /\ phase[n] = "Resident"
    /\ Move(n, "Cleaning", "Reset")

\* pump_swap at a safe point.
BeginSwap(n) ==
    /\ "swap" \in Behaviours
    /\ proc[n] = "up" /\ phase[n] = "Resident"
    /\ ~draining[n] /\ rel[n].state = "idle"
    /\ Move(n, "Cleaning", "Swap")

\* runtime_stopped of a cleanup, a kept eviction, a reset, a swap.  A stop
\* that demand waits behind turns straight to a cold route.
RuntimeStopped(n) ==
    /\ proc[n] = "up"
    /\ phase[n] = "Cleaning"
    /\ \/ cause[n] \in {"Cleanup", "Evict"} /\ SetPhase(n, "Dormant")
          /\ UNCHANGED epoch
       \/ cause[n] = "Reset" /\ SetPhase(n, "Inactive")
          /\ epoch' = [epoch EXCEPT ![n] = 0]
       \/ /\ cause[n] \in {"Evict", "Rebalance"}
          /\ ~(draining[n] /\ cause[n] = "Rebalance")
          /\ SetPhase(n, "ReadingOwner")
          /\ epoch' = [epoch EXCEPT ![n] = 0]
       \/ cause[n] = "Swap" /\ draining[n] /\ SetPhase(n, "Dormant")
          /\ UNCHANGED epoch
       \/ cause[n] = "Swap" /\ ~draining[n] /\ SetPhase(n, "Starting")
          /\ UNCHANGED epoch
    /\ cause' = [cause EXCEPT ![n] = "None"]
    /\ UNCHANGED <<storeVars, writers, nodeVars, claim, cas, rel, handoff,
                   attempts>>

\* runtime_stopped of a shedding eviction nobody waits behind: the record is
\* released.  The new release replaces the one the cell may still track.
RuntimeStoppedShed(n) ==
    /\ proc[n] = "up"
    /\ phase[n] = "Cleaning"
    /\ cause[n] = "Rebalance"
    /\ SetPhase(n, "Dormant")
    /\ cause' = [cause EXCEPT ![n] = "None"]
    /\ rel' = [rel EXCEPT ![n] = [epoch |-> epoch[n], state |-> "sent"]]
    /\ late' = late \cup SentRelease(n)
    /\ UNCHANGED <<own, granted, writers, nodeVars, epoch, claim, cas, handoff,
                   attempts>>

\* runtime_stop_failed: a bounded or abandoned eviction stop restarts the
\* runtime on the open database, at the same epoch.  The code bounds only the
\* stops it issues before a drain; here a stop issued during one may fail too.
RuntimeStopFailed(n) ==
    /\ "bounded_stop" \in Behaviours
    /\ proc[n] = "up"
    /\ phase[n] = "Cleaning"
    /\ cause[n] \in {"Evict", "Rebalance"}
    /\ SetPhase(n, "Starting")
    /\ cause' = [cause EXCEPT ![n] = "None"]
    /\ handoff' = [handoff EXCEPT ![n] = FALSE]
    /\ UNCHANGED <<storeVars, writers, nodeVars, epoch, claim, cas, rel,
                   attempts>>

----------------------------------------------------------------------------
(* Giving the record away.                                                 *)

\* release_all.
ReleaseAll(n) ==
    /\ "drain" \in Behaviours
    /\ proc[n] = "up"
    /\ ~draining[n]
    /\ draining' = [draining EXCEPT ![n] = TRUE]
    /\ UNCHANGED <<storeVars, writers, proc, lease, kept, cellVars>>

\* release_dormant, by the drain pump or by a balancing move.
ReleaseDormant(n) ==
    /\ draining[n] \/ "shed" \in Behaviours
    /\ proc[n] = "up"
    /\ phase[n] = "Dormant"
    /\ rel[n].state = "idle"
    /\ rel' = [rel EXCEPT ![n] = [epoch |-> epoch[n], state |-> "sent"]]
    /\ handoff' = [handoff EXCEPT ![n] = ~draining[n]]
    /\ UNCHANGED <<storeVars, writers, nodeVars, phase, epoch, claim, cas,
                   cause, attempts>>

\* The store serves the release: guarded by this node at this epoch.
LandRelease(n) ==
    /\ proc[n] = "up"
    /\ rel[n].state = "sent"
    /\ IF own = Owned(n, rel[n].epoch)
       THEN /\ Install(Released(rel[n].epoch), late)
            /\ rel' = [rel EXCEPT ![n].state = "applied"]
       ELSE /\ rel' = [rel EXCEPT ![n].state = "rejected"]
            /\ UNCHANGED storeVars
    /\ UNCHANGED <<writers, nodeVars, phase, epoch, claim, cas, cause, handoff,
                   attempts>>

\* owner_released, a definite answer.  Settled, a dormant cell is offered to
\* a successor when it hands off, and forgotten otherwise.
OwnerReleased(n) ==
    /\ proc[n] = "up"
    /\ rel[n].state \in {"applied", "rejected"}
    /\ LET settled == rel[n].state = "applied" \/ HandsOff(n)
           dormant == phase[n] = "Dormant"
       IN  /\ phase' = [phase EXCEPT ![n] =
                          IF ~(settled /\ dormant) THEN @
                          ELSE IF HandsOff(n) THEN "Adopting" ELSE "Inactive"]
           /\ epoch' = [epoch EXCEPT ![n] =
                          IF settled /\ dormant /\ ~HandsOff(n) THEN 0 ELSE @]
           /\ handoff' = [handoff EXCEPT ![n] =
                            @ /\ settled /\ HandsOff(n) /\ dormant]
    /\ rel' = [rel EXCEPT ![n] = NoRelease]
    /\ UNCHANGED <<storeVars, writers, nodeVars, claim, cas, cause, attempts>>

\* owner_released, Err: a store error or the deadline, though the write may
\* have applied or may still apply.
ReleaseFailed(n) ==
    /\ "ambiguity" \in Behaviours
    /\ proc[n] = "up"
    /\ rel[n].state # "idle"
    /\ late' = late \cup SentRelease(n)
    /\ rel' = [rel EXCEPT ![n] = NoRelease]
    /\ handoff' = [handoff EXCEPT ![n] = FALSE]
    /\ UNCHANGED <<own, granted, writers, nodeVars, phase, epoch, claim, cas,
                   cause, attempts>>

\* owner_released of a balancing move that does not reach adoption while
\* requests wait: a cold route, whatever phase the cell is in.  That is a
\* dormant cell whose release failed, or one that a hint woke meanwhile; a
\* resident cell keeps requests waiting only on a draining node.
ReleasedUnderDemand(n) ==
    /\ "parked" \in Behaviours
    /\ proc[n] = "up"
    /\ handoff[n]
    /\ rel[n].state # "idle"
    /\ \/ "ambiguity" \in Behaviours
       \/ phase[n] # "Dormant" /\ rel[n].state # "sent"
    /\ phase[n] \notin {"Inactive", "Remote"}
    /\ phase[n] \in {"Resident", "EnsuringDurability"} => draining[n]
    /\ SetPhase(n, "ReadingOwner")
    /\ SetClaim(n, NoClaim)
    /\ epoch' = [epoch EXCEPT ![n] = 0]
    /\ cas' = [cas EXCEPT ![n] = "idle"]
    /\ cause' = [cause EXCEPT ![n] = "None"]
    /\ rel' = [rel EXCEPT ![n] = NoRelease]
    /\ handoff' = [handoff EXCEPT ![n] = FALSE]
    /\ late' = late \cup SentClaim(n) \cup SentRelease(n)
    /\ UNCHANGED <<own, granted, writers, nodeVars, attempts>>

\* successor_adopted: the successor answered with a later epoch, or the
\* handoff failed and the cell is unowned; requests that wait behind a
\* balancing move resolve it again.
SuccessorAdopted(n) ==
    /\ proc[n] = "up"
    /\ phase[n] = "Adopting"
    /\ \/ /\ own.node # n /\ own.epoch > epoch[n]
          /\ SetPhase(n, "Remote")
       \/ SetPhase(n, "Inactive")
       \/ handoff[n] /\ "parked" \in Behaviours /\ SetPhase(n, "ReadingOwner")
    /\ epoch' = [epoch EXCEPT ![n] = 0]
    /\ handoff' = [handoff EXCEPT ![n] = FALSE]
    /\ UNCHANGED <<storeVars, writers, nodeVars, claim, cas, cause, rel,
                   attempts>>

----------------------------------------------------------------------------
(* Node authority.                                                         *)

\* Everything the process knew of the cell is gone; its writes are not.
Forget(n, p) ==
    /\ SetPhase(n, p)
    /\ SetClaim(n, NoClaim)
    /\ epoch' = [epoch EXCEPT ![n] = 0]
    /\ cas' = [cas EXCEPT ![n] = "idle"]
    /\ cause' = [cause EXCEPT ![n] = "None"]
    /\ rel' = [rel EXCEPT ![n] = NoRelease]
    /\ handoff' = [handoff EXCEPT ![n] = FALSE]
    /\ attempts' = [attempts EXCEPT ![n] = 0]
    /\ draining' = [draining EXCEPT ![n] = FALSE]
    /\ late' = late \cup SentClaim(n) \cup SentRelease(n)

\* fence: the node lost its authority, or the process died.
Fence(n) ==
    /\ proc[n] = "up"
    /\ proc' = [proc EXCEPT ![n] = "down"]
    /\ kept' = [kept EXCEPT ![n] = 0]
    /\ Forget(n, "Fenced")
    /\ UNCHANGED <<own, granted, writers, lease>>

\* Time passes the expiry of a lease that nobody renews.  That a node serves
\* only inside its own lease is taken from node_authoritative here.
LeaseExpires(n) ==
    /\ proc[n] # "up"
    /\ lease[n]
    /\ lease' = [lease EXCEPT ![n] = FALSE]
    /\ UNCHANGED <<storeVars, writers, proc, kept, draining, cellVars>>

\* A process start that acquires the lease afresh.  It reads the owner record
\* of the cells it finds on disk before it knows them again.
Restart(n) ==
    /\ proc[n] = "down"
    /\ proc' = [proc EXCEPT ![n] = "up"]
    /\ lease' = [lease EXCEPT ![n] = TRUE]
    /\ kept' = [kept EXCEPT ![n] = 0]
    /\ \/ SetPhase(n, "Inactive")
       \/ "local_cells" \in Behaviours /\ SetPhase(n, "Confirming")
    /\ UNCHANGED <<storeVars, writers, draining, epoch, claim, cas, cause, rel, handoff,
                   attempts>>

\* begin_preserve and the exit that follows: a resident database stays on
\* disk, live, for the next process of this node.
Preserve(n) ==
    /\ "reload" \in Behaviours
    /\ proc[n] = "up"
    /\ proc' = [proc EXCEPT ![n] = "down"]
    /\ kept' = [kept EXCEPT ![n] = IF phase[n] = "Resident" THEN epoch[n] ELSE 0]
    /\ Forget(n, "Fenced")
    /\ UNCHANGED <<own, granted, writers, lease>>

\* read_self_node_lease of the next process: the lease of the process that
\* preserved is still unexpired, so resume_local is set.
ReloadLeaseRead(n) ==
    /\ proc[n] = "down"
    /\ kept[n] # 0
    /\ lease[n]
    /\ proc' = [proc EXCEPT ![n] = "reloading"]
    /\ UNCHANGED <<storeVars, writers, lease, kept, draining, cellVars>>

\* complete_node_lease_write with resume_local, then local_cells_read: the
\* cell restores at the epoch it closed at, with no read of the owner record.
\* A list of local cells that cannot be read or does not fit is a Restart.
ReloadLeaseHeld(n) ==
    /\ proc[n] = "reloading"
    /\ proc' = [proc EXCEPT ![n] = "up"]
    /\ lease' = [lease EXCEPT ![n] = TRUE]
    /\ SetPhase(n, "Restoring")
    /\ epoch' = [epoch EXCEPT ![n] = kept[n]]
    /\ UNCHANGED <<storeVars, writers, kept, draining, claim, cas, cause, rel,
                   handoff, attempts>>

----------------------------------------------------------------------------
Resolve(n) ==
    \/ Wake(n) \/ OwnerReadConfirming(n) \/ OwnerReadApplied(n)
    \/ OwnerReadClaimable(n) \/ PlacedOnPeer(n) \/ OwnerReadForeign(n)
    \/ ResolveFailed(n) \/ InvalidateRemote(n)
    \/ NodeLeaseLive(n) \/ NodeLeaseDead(n) \/ NodeLeaseUnrecovered(n)
    \/ NodeLogRecovered(n) \/ NodeLogRecoveryFailed(n)
    \/ RetryOwnerLogRecovery(n)
Acquire(n) ==
    \/ LandClaim(n) \/ OwnerCasApplied(n) \/ OwnerCasRejected(n)
    \/ OwnerCasAmbiguous(n) \/ OwnerCasFailed(n)
Activate(n) ==
    \/ RestoreCompleted(n) \/ RestoreFailed(n) \/ RuntimeStarted(n)
    \/ RuntimeStartFailed(n) \/ Published(n) \/ PublishFailed(n)
Stop(n) ==
    \/ \E c \in {"Evict", "Rebalance"} : BeginEviction(n, c)
    \/ DurabilityChecked(n) \/ EvictionCancelled(n) \/ ResetCell(n)
    \/ BeginSwap(n) \/ RuntimeStopped(n) \/ RuntimeStoppedShed(n)
    \/ RuntimeStopFailed(n)
GiveAway(n) ==
    \/ ReleaseAll(n) \/ ReleaseDormant(n) \/ LandRelease(n)
    \/ OwnerReleased(n) \/ ReleaseFailed(n) \/ ReleasedUnderDemand(n)
    \/ SuccessorAdopted(n)
Authority(n) ==
    \/ Fence(n) \/ LeaseExpires(n) \/ Restart(n) \/ Preserve(n)
    \/ ReloadLeaseRead(n) \/ ReloadLeaseHeld(n)

Next ==
    \/ \E w \in late : LandLate(w)
    \/ \E n \in Node : \/ Resolve(n) \/ Acquire(n) \/ Activate(n)
                       \/ Stop(n) \/ GiveAway(n) \/ Authority(n)

Spec == Init /\ [][Next]_vars

\* Every effect of a cold route answers: the actor completes it, or the
\* deadline arm_operation_deadlines gave it does.
RouteStep(n) == Resolve(n) \/ Acquire(n) \/ Activate(n)
LiveSpec == Spec /\ \A n \in Node : WF_vars(RouteStep(n))

----------------------------------------------------------------------------
\* TypeOK: every epoch, claim and counter of the phase machine stays within
\* its bounds; in particular next_writer_epoch, whose exhaustion must be
\* checked before the claim, never passes MaxEpoch.
TypeOK ==
    /\ own \in Record
    /\ granted \in [Epoch -> Node \cup {NoNode}]
    /\ writers \in [Epoch -> SUBSET Node]
    /\ late \in SUBSET ConditionalWrite
    /\ proc \in [Node -> {"up", "down", "reloading"}]
    /\ lease \in [Node -> BOOLEAN]
    /\ kept \in [Node -> 0 .. MaxEpoch]
    /\ draining \in [Node -> BOOLEAN]
    /\ phase \in [Node -> Phase]
    /\ epoch \in [Node -> 0 .. MaxEpoch]
    /\ claim \in [Node -> Claim]
    /\ cas \in [Node -> {"idle", "sent", "applied", "rejected"}]
    /\ cause \in [Node -> StopCause]
    /\ rel \in [Node -> Release]
    /\ handoff \in [Node -> BOOLEAN]
    /\ attempts \in [Node -> 0 .. MaxRecoveries]

\* OneWriterPerEpoch: no two nodes ever restore the cell at the same epoch,
\* whatever clocks, late writes, ambiguous answers, crashes and clean reloads
\* do (docs/guarantees.md: "an epoch never has two writers").
OneWriterPerEpoch == \A e \in Epoch : Cardinality(writers[e]) <= 1

\* ImplementsLedger: seen through the record and the restores, the protocol
\* is the ledger of EpochLedger.  Every write the store applies, late and
\* duplicated ones included, grants the next epoch once or gives one back, and
\* an activation opens an epoch that was granted to it and that nobody opened
\* before.  Only a clean reload, which continues the database it closed,
\* restores at an epoch already open, and opens none.
Ledger == INSTANCE EpochLedger WITH grant <- own, grantee <- granted, opened <- writers
ImplementsLedger == Ledger!LedgerSpec

\* SoleServer: when clocks agree and no clean reload happens, a serving node
\* is the one the record names, at the epoch the record holds; so at most one
\* node serves (docs/guarantees.md: "Exactly one node serves a cell at a time").
SoleServer ==
    \A n \in Node : Serving(n) => own = Owned(n, epoch[n])

\* HandoffInPipeline: a balancing move is under way only on a dormant cell
\* whose release is in flight, or on one being adopted, as State::validate
\* asserts (lib.rs: "handoff cell is outside the pipeline").
HandoffInPipeline ==
    \A n \in Node : proc[n] = "up" /\ handoff[n] =>
        \/ phase[n] = "Dormant" /\ rel[n].state # "idle"
        \/ phase[n] = "Adopting"

\* EveryRouteSettles: a cold route that has started ends, in a serving cell, a
\* resting one, a route to another node or a failed request.  It fails when
\* answers stay ambiguous: a takeover whose read back finds the dead owner's
\* record again restarts the reconcile count.
Routing == {"Confirming", "ReadingOwner", "ReadingNodeLease",
            "RecoveringOwnerLog", "WaitingOwnerLogRecovery", "Acquiring",
            "ReconcilingAcquire", "Restoring", "Starting", "Publishing"}
EveryRouteSettles ==
    \A n \in Node : phase[n] \in Routing ~> phase[n] \notin Routing

\* ColdRouteSettles: log recoveries that keep failing, rejected claims and
\* ambiguous answers do not keep a cold route going for ever; the one that
\* never ends reads back the record of another owner again and again.
TakeoverReadBack(n) == phase[n] = "ReconcilingAcquire" /\ own.node \notin {n, NoNode}
ColdRouteSettles ==
    \A n \in Node : phase[n] \in Routing ~> phase[n] \notin Routing \/ TakeoverReadBack(n)

============================================================================
