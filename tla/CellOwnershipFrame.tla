------------------------ MODULE CellOwnershipFrame -------------------------
(* What a step of one node of CellOwnership leaves alone: the record but   *)
(* for its own writes, the epochs but its own claim, and the other nodes.  *)
EXTENDS CellOwnershipInvariant

----------------------------------------------------------------------------
(* What a step of one node leaves alone.                                   *)

\* The record changes only by a write the node has in flight, a write it
\* stops waiting for stays in flight, it opens only the epoch of its claim,
\* and it does not touch what another node knows.
NodeFrame(n) ==
    /\ \/ UNCHANGED <<own, granted>>
       \/ /\ cas[n] = "sent" /\ own = claim[n].guard
          /\ Install(Owned(n, ClaimEpoch(n)), late)
       \/ /\ rel[n].state = "sent" /\ own = Owned(n, rel[n].epoch)
          /\ Install(Released(rel[n].epoch), late)
    /\ late' \subseteq late \cup SentClaim(n) \cup SentRelease(n)
    /\ \/ UNCHANGED writers
       \/ /\ OwnerReadApplied(n) \/ OwnerCasApplied(n)
          /\ UNCHANGED <<own, granted>>
          /\ writers' = [writers EXCEPT ![ClaimEpoch(n)] = @ \cup {n}]
    /\ \A m \in Node \ {n} :
          /\ phase'[m] = phase[m] /\ epoch'[m] = epoch[m]
          /\ claim'[m] = claim[m] /\ cas'[m] = cas[m] /\ rel'[m] = rel[m]
          /\ proc'[m] = proc[m] /\ lease'[m] = lease[m] /\ kept'[m] = kept[m]

LEMMA ResolveFrame ==
    ASSUME TypeOK, NEW n \in Node, Resolve(n)
    PROVE  NodeFrame(n)
<1>1. CASE Wake(n)
    BY <1>1
        DEF Wake, NodeFrame, TypeOK, storeVars, nodeVars, SetPhase, SetClaim
<1>2. CASE OwnerReadConfirming(n)
    BY <1>2
        DEF OwnerReadConfirming, NodeFrame, TypeOK, storeVars, nodeVars,
            SetPhase, SetClaim
<1>3. CASE OwnerReadApplied(n)
    BY <1>3
        DEF OwnerReadApplied, NodeFrame, TypeOK, Acquired, storeVars,
            nodeVars, SetPhase, SetClaim
<1>4. CASE OwnerReadClaimable(n)
    BY <1>4
        DEF OwnerReadClaimable, NodeFrame, TypeOK, BeginClaim, storeVars,
            nodeVars, SetPhase, SetClaim
<1>5. CASE OwnerReadForeign(n)
    BY <1>5
        DEF OwnerReadForeign, NodeFrame, TypeOK, storeVars, nodeVars,
            SetPhase, SetClaim
<1>6. CASE ResolveFailed(n)
    BY <1>6
        DEF ResolveFailed, NodeFrame, TypeOK, storeVars, nodeVars, SetPhase,
            SetClaim
<1>7. CASE NodeLeaseLive(n)
    BY <1>7
        DEF NodeLeaseLive, NodeFrame, TypeOK, storeVars, nodeVars, SetPhase,
            SetClaim
<1>8. CASE NodeLeaseDead(n)
    BY <1>8
        DEF NodeLeaseDead, NodeFrame, TypeOK, BeginClaim, storeVars, nodeVars,
            SetPhase, SetClaim
<1>9. CASE NodeLeaseUnrecovered(n)
    BY <1>9
        DEF NodeLeaseUnrecovered, NodeFrame, TypeOK, storeVars, nodeVars,
            SetPhase, SetClaim
<1>10. CASE NodeLogRecovered(n)
    BY <1>10
        DEF NodeLogRecovered, NodeFrame, TypeOK, BeginClaim, storeVars,
            nodeVars, SetPhase, SetClaim
<1>11. CASE NodeLogRecoveryFailed(n)
    BY <1>11
        DEF NodeLogRecoveryFailed, NodeFrame, TypeOK, storeVars, nodeVars,
            SetPhase, SetClaim
<1>12. CASE RetryOwnerLogRecovery(n)
    BY <1>12
        DEF RetryOwnerLogRecovery, NodeFrame, TypeOK, storeVars, nodeVars,
            SetPhase, SetClaim
<1>13. CASE PlacedOnPeer(n)
    BY <1>13
        DEF PlacedOnPeer, NodeFrame, TypeOK, storeVars, nodeVars, SetPhase,
            SetClaim
<1>14. CASE InvalidateRemote(n)
    BY <1>14
        DEF InvalidateRemote, NodeFrame, TypeOK, storeVars, nodeVars, SetPhase
<1> QED
    BY <1>1, <1>2, <1>3, <1>4, <1>5, <1>6, <1>7, <1>8, <1>9, <1>10, <1>11,
       <1>12, <1>13, <1>14 DEF Resolve

LEMMA AcquireFrame ==
    ASSUME TypeOK, NEW n \in Node, Acquire(n)
    PROVE  NodeFrame(n)
<1>1. CASE LandClaim(n)
    BY <1>1
        DEF LandClaim, NodeFrame, TypeOK, Install, storeVars, nodeVars,
            SetPhase, SetClaim
<1>2. CASE OwnerCasApplied(n)
    BY <1>2
        DEF OwnerCasApplied, NodeFrame, TypeOK, Acquired, storeVars, nodeVars,
            SetPhase, SetClaim
<1>3. CASE OwnerCasRejected(n)
    BY <1>3
        DEF OwnerCasRejected, NodeFrame, TypeOK, storeVars, nodeVars,
            SetPhase, SetClaim
<1>4. CASE OwnerCasAmbiguous(n)
    BY <1>4
        DEF OwnerCasAmbiguous, NodeFrame, TypeOK, storeVars, nodeVars,
            SetPhase, SetClaim
<1>5. CASE OwnerCasFailed(n)
    BY <1>5
        DEF OwnerCasFailed, NodeFrame, TypeOK, storeVars, nodeVars, SetPhase,
            SetClaim
<1> QED
    BY <1>1, <1>2, <1>3, <1>4, <1>5 DEF Acquire

LEMMA ActivateFrame ==
    ASSUME TypeOK, NEW n \in Node, Activate(n)
    PROVE  NodeFrame(n)
<1>1. CASE RestoreCompleted(n)
    BY <1>1
        DEF RestoreCompleted, NodeFrame, TypeOK, storeVars, nodeVars,
            SetPhase, SetClaim
<1>2. CASE RestoreFailed(n)
    BY <1>2
        DEF RestoreFailed, NodeFrame, TypeOK, storeVars, nodeVars, SetPhase,
            SetClaim
<1>3. CASE RuntimeStarted(n)
    BY <1>3
        DEF RuntimeStarted, NodeFrame, TypeOK, Move, storeVars, nodeVars,
            SetPhase, SetClaim
<1>4. CASE RuntimeStartFailed(n)
    BY <1>4
        DEF RuntimeStartFailed, NodeFrame, TypeOK, Move, storeVars, nodeVars,
            SetPhase, SetClaim
<1>5. CASE Published(n)
    BY <1>5
        DEF Published, NodeFrame, TypeOK, Move, storeVars, nodeVars, SetPhase,
            SetClaim
<1>6. CASE PublishFailed(n)
    BY <1>6
        DEF PublishFailed, NodeFrame, TypeOK, Move, storeVars, nodeVars,
            SetPhase, SetClaim
<1> QED
    BY <1>1, <1>2, <1>3, <1>4, <1>5, <1>6 DEF Activate

LEMMA StopFrame ==
    ASSUME TypeOK, NEW n \in Node, Stop(n)
    PROVE  NodeFrame(n)
<1>1. CASE \E c \in {"Evict", "Rebalance"} : BeginEviction(n, c)
    BY <1>1
        DEF BeginEviction, NodeFrame, TypeOK, Move, storeVars, nodeVars,
            SetPhase, SetClaim
<1>2. CASE DurabilityChecked(n)
    BY <1>2
        DEF DurabilityChecked, NodeFrame, TypeOK, Move, storeVars, nodeVars,
            SetPhase, SetClaim
<1>3. CASE EvictionCancelled(n)
    BY <1>3
        DEF EvictionCancelled, NodeFrame, TypeOK, Move, storeVars, nodeVars,
            SetPhase, SetClaim
<1>4. CASE ResetCell(n)
    BY <1>4
        DEF ResetCell, NodeFrame, TypeOK, Move, storeVars, nodeVars, SetPhase,
            SetClaim
<1>5. CASE BeginSwap(n)
    BY <1>5
        DEF BeginSwap, NodeFrame, TypeOK, Move, storeVars, nodeVars, SetPhase,
            SetClaim
<1>6. CASE RuntimeStopped(n)
    BY <1>6
        DEF RuntimeStopped, NodeFrame, TypeOK, storeVars, nodeVars, SetPhase,
            SetClaim
<1>7. CASE RuntimeStoppedShed(n)
    BY <1>7
        DEF RuntimeStoppedShed, NodeFrame, TypeOK, storeVars, nodeVars,
            SetPhase, SetClaim
<1>8. CASE RuntimeStopFailed(n)
    BY <1>8
        DEF RuntimeStopFailed, NodeFrame, TypeOK, storeVars, nodeVars,
            SetPhase, SetClaim
<1> QED
    BY <1>1, <1>2, <1>3, <1>4, <1>5, <1>6, <1>7, <1>8 DEF Stop

LEMMA GiveAwayFrame ==
    ASSUME TypeOK, NEW n \in Node, GiveAway(n)
    PROVE  NodeFrame(n)
<1>1. CASE ReleaseAll(n)
    BY <1>1
        DEF ReleaseAll, NodeFrame, TypeOK, cellVars, storeVars, nodeVars,
            SetPhase, SetClaim
<1>2. CASE ReleaseDormant(n)
    BY <1>2
        DEF ReleaseDormant, NodeFrame, TypeOK, storeVars, nodeVars, SetPhase,
            SetClaim
<1>3. CASE LandRelease(n)
    BY <1>3
        DEF LandRelease, NodeFrame, TypeOK, Install, storeVars, nodeVars,
            SetPhase, SetClaim
<1>4. CASE OwnerReleased(n)
    BY <1>4
        DEF OwnerReleased, NodeFrame, TypeOK, storeVars, nodeVars, SetPhase,
            SetClaim
<1>5. CASE ReleaseFailed(n)
    BY <1>5
        DEF ReleaseFailed, NodeFrame, TypeOK, storeVars, nodeVars, SetPhase,
            SetClaim
<1>6. CASE SuccessorAdopted(n)
    BY <1>6
        DEF SuccessorAdopted, NodeFrame, TypeOK, storeVars, nodeVars,
            SetPhase, SetClaim
<1>7. CASE ReleasedUnderDemand(n)
    BY <1>7
        DEF ReleasedUnderDemand, NodeFrame, TypeOK, nodeVars, SetPhase,
            SetClaim
<1> QED
    BY <1>1, <1>2, <1>3, <1>4, <1>5, <1>6, <1>7 DEF GiveAway

LEMMA AuthorityFrame ==
    ASSUME TypeOK, NEW n \in Node, Authority(n)
    PROVE  NodeFrame(n)
<1>1. CASE Fence(n)
    BY <1>1
        DEF Fence, NodeFrame, TypeOK, Forget, storeVars, nodeVars, SetPhase,
            SetClaim
<1>2. CASE LeaseExpires(n)
    BY <1>2
        DEF LeaseExpires, NodeFrame, TypeOK, cellVars, storeVars, nodeVars,
            SetPhase, SetClaim
<1>3. CASE Restart(n)
    BY <1>3
        DEF Restart, NodeFrame, TypeOK, storeVars, nodeVars, SetPhase,
            SetClaim
<1>4. CASE Preserve(n)
    BY <1>4
        DEF Preserve, NodeFrame, TypeOK, Forget, storeVars, nodeVars,
            SetPhase, SetClaim
<1>5. CASE ReloadLeaseRead(n)
    BY <1>5
        DEF ReloadLeaseRead, NodeFrame, TypeOK, cellVars, storeVars, nodeVars,
            SetPhase, SetClaim
<1>6. CASE ReloadLeaseHeld(n)
    BY <1>6
        DEF ReloadLeaseHeld, NodeFrame, TypeOK, storeVars, nodeVars, SetPhase,
            SetClaim
<1> QED
    BY <1>1, <1>2, <1>3, <1>4, <1>5, <1>6 DEF Authority

Step(n) == \/ Resolve(n) \/ Acquire(n) \/ Activate(n)
           \/ Stop(n) \/ GiveAway(n) \/ Authority(n)

LEMMA StepFrame ==
    ASSUME TypeOK, NEW n \in Node, Step(n)
    PROVE  NodeFrame(n)
    BY ResolveFrame, AcquireFrame, ActivateFrame, StopFrame, GiveAwayFrame,
       AuthorityFrame DEF Step

\* Only a node that is up takes a step that is not about its authority, and
\* such a step leaves its authority alone.
LEMMA UpSteps ==
    ASSUME NEW n \in Node, Resolve(n) \/ Acquire(n) \/ Activate(n) \/ Stop(n) \/ GiveAway(n)
    PROVE  proc[n] = "up" /\ UNCHANGED <<proc, lease>>
<1>1. CASE Resolve(n)
    <2>1. CASE \/ Wake(n) \/ OwnerReadConfirming(n) \/ OwnerReadApplied(n)
               \/ OwnerReadClaimable(n) \/ PlacedOnPeer(n)
               \/ OwnerReadForeign(n) \/ ResolveFailed(n) \/ InvalidateRemote(n)
        BY <2>1, Zenon
        DEF Wake, OwnerReadConfirming, OwnerReadApplied, OwnerReadClaimable,
            PlacedOnPeer, OwnerReadForeign, ResolveFailed, InvalidateRemote, nodeVars
    <2>2. CASE \/ NodeLeaseLive(n) \/ NodeLeaseDead(n) \/ NodeLeaseUnrecovered(n)
               \/ NodeLogRecovered(n) \/ NodeLogRecoveryFailed(n)
               \/ RetryOwnerLogRecovery(n)
        BY <2>2
        DEF NodeLeaseLive, NodeLeaseDead, NodeLeaseUnrecovered, NodeLogRecovered,
            NodeLogRecoveryFailed, RetryOwnerLogRecovery, nodeVars
    <2> QED
        BY <1>1, <2>1, <2>2 DEF Resolve
<1>2. CASE Acquire(n)
    BY <1>2
        DEF Acquire, LandClaim, OwnerCasApplied, OwnerCasRejected,
            OwnerCasAmbiguous, OwnerCasFailed, nodeVars
<1>3. CASE Activate(n)
    BY <1>3
        DEF Activate, RestoreCompleted, RestoreFailed, RuntimeStarted,
            RuntimeStartFailed, Published, PublishFailed, Move, nodeVars
<1>4. CASE Stop(n)
    BY <1>4, Zenon
        DEF Stop, BeginEviction, DurabilityChecked, EvictionCancelled,
            ResetCell, BeginSwap, RuntimeStopped, RuntimeStoppedShed,
            RuntimeStopFailed, Move, nodeVars
<1>5. CASE GiveAway(n)
    BY <1>5
        DEF GiveAway, ReleaseAll, ReleaseDormant, LandRelease, OwnerReleased,
            ReleaseFailed, ReleasedUnderDemand, SuccessorAdopted, nodeVars
<1> QED
    BY <1>1, <1>2, <1>3, <1>4, <1>5

============================================================================
