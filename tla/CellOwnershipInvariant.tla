---------------------- MODULE CellOwnershipInvariant -----------------------
(* The inductive invariant of CellOwnership behind its theorems, and the   *)
(* part of its proof that is about types: one step per action.             *)
EXTENDS CellOwnership, TLAPS

----------------------------------------------------------------------------
(* The inductive invariant behind the ledger.                              *)

\* A conditional write of the protocol grants the next epoch to a node, or
\* gives back the one a node holds.
WellFormed(w) ==
    \/ w.rec.node \in Node /\ w.rec.epoch = w.guard.epoch + 1
    \/ w.guard.node \in Node /\ w.rec = Released(w.guard.epoch)

\* Epochs past the record's are not granted yet; the record's own epoch is
\* granted to the node it names.
RecordGranted ==
    /\ \A e \in Epoch : e > own.epoch => granted[e] = NoNode
    /\ own.node \in Node => own.epoch # 0 /\ granted[own.epoch] = own.node

\* Only the node an epoch was granted to has restored at it.
WritersGranted ==
    \A e \in Epoch : \A n \in writers[e] : granted[e] = n

LateWellFormed == \A w \in late : WellFormed(w)

ClaimPhase == {"ReadingNodeLease", "RecoveringOwnerLog", "Acquiring",
               "ReconcilingAcquire"}

\* A claim is on a record at least as new as any the node restored under, and
\* its epoch exists; an applied claim was granted.
ClaimSound(n) ==
    /\ phase[n] \in {"Acquiring", "ReconcilingAcquire"}
         => claim[n].guard.epoch < MaxEpoch
    /\ cas[n] # "idle" => phase[n] = "Acquiring"
    /\ cas[n] = "applied" => granted[ClaimEpoch(n)] = n
    /\ phase[n] \in ClaimPhase
         => \A e \in Epoch : e > claim[n].guard.epoch => n \notin writers[e]
ClaimsSound == \A n \in Node : ClaimSound(n)

\* A process that is not up knows nothing of the cell.
DownFenced == \A n \in Node : proc[n] # "up" => phase[n] = "Fenced"

IInv == /\ TypeOK
        /\ DownFenced
        /\ RecordGranted
        /\ WritersGranted
        /\ LateWellFormed
        /\ ClaimsSound

----------------------------------------------------------------------------
(* What a write the store applies does to the record and the grants.       *)

\* A well-formed write keeps the record's type and leaves the grants made so
\* far alone.
LEMMA InstallSound ==
    ASSUME IInv, NEW rec \in Record, NEW pending \in SUBSET ConditionalWrite,
           WellFormed([guard |-> own, rec |-> rec]),
           Install(rec, pending)
    PROVE  /\ own' \in Record
           /\ granted' \in [Epoch -> Node \cup {NoNode}]
           /\ late' \subseteq pending
           /\ RecordGranted'
           /\ \A e \in Epoch : granted[e] # NoNode => granted'[e] = granted[e]
<1> DEFINE step == [guard |-> own, rec |-> rec]
<1>1. own \in Record /\ granted \in [Epoch -> Node \cup {NoNode}]
    BY DEF IInv, TypeOK
<1>2. own' = rec /\ late' \subseteq pending
    BY DEF Install
<1>3. CASE rec.node \in Node /\ rec.epoch = own.epoch + 1
    <2>1. rec.node # NoNode
        BY <1>3, NoNodeAssumption
    <2>2. granted' = [granted EXCEPT ![rec.epoch] = rec.node]
        BY <2>1 DEF Install
    <2>3. rec.epoch \in Epoch /\ own.epoch \in Nat
        BY <1>1, <1>3, BoundAssumption DEF Record, Epoch
    <2>4. granted[rec.epoch] = NoNode
        BY <2>3, <1>3 DEF IInv, RecordGranted, Epoch
    <2>5. RecordGranted'
        BY <1>1, <1>2, <1>3, <2>2, <2>3, <2>4 DEF IInv, RecordGranted, Epoch
    <2> QED
        BY <1>1, <1>2, <1>3, <2>2, <2>3, <2>4, <2>5
<1>4. CASE own.node \in Node /\ rec = Released(own.epoch)
    <2>1. granted' = granted
        BY <1>4 DEF Install, Released
    <2>2. RecordGranted'
        BY <1>1, <1>2, <1>4, <2>1, NoNodeAssumption DEF IInv, RecordGranted, Released
    <2> QED
        BY <1>1, <1>2, <1>4, <2>1, <2>2
<1> QED
    BY <1>3, <1>4 DEF WellFormed

----------------------------------------------------------------------------
(* Type correctness, one step per action.                                  *)

LEMMA Constants ==
    /\ NoClaim \in Claim
    /\ NoRelease \in Release
    /\ Absent \in Record
    /\ 0 \in 0 .. MaxEpoch
    /\ 0 \in 0 .. MaxRecoveries
    BY BoundAssumption DEF NoClaim, Claim, NoRelease, Release, Absent, Record

\* begin_activation keeps the types, whatever record it claims on.
LEMMA BeginClaimType ==
    ASSUME TypeOK, NEW n \in Node, NEW rec \in Record,
           NEW reconciles \in 0 .. MaxReconciles,
           BeginClaim(n, rec, reconciles)
    PROVE  /\ phase' \in [Node -> Phase]
           /\ claim' \in [Node -> Claim]
           /\ cas' \in [Node -> {"idle", "sent", "applied", "rejected"}]
<1>1. [guard |-> rec, reconciles |-> reconciles] \in Claim
    BY DEF Claim
<1> QED
    BY <1>1, Constants DEF TypeOK, BeginClaim, SetPhase, SetClaim, Phase

\* A claim that holds keeps the types, and adds at most its own node to the
\* writers of its own epoch.
LEMMA AcquiredType ==
    ASSUME TypeOK, NEW n \in Node, claim[n].guard.epoch < MaxEpoch, Acquired(n)
    PROVE  /\ phase' \in [Node -> Phase]
           /\ epoch' \in [Node -> 0 .. MaxEpoch]
           /\ claim' \in [Node -> Claim]
           /\ writers' \in [Epoch -> SUBSET Node]
<1>1. claim[n].guard.epoch \in 0 .. MaxEpoch
    BY DEF TypeOK, Claim, Record
<1>2. ClaimEpoch(n) \in 0 .. MaxEpoch
    BY <1>1, BoundAssumption DEF ClaimEpoch, NextWriterEpoch
<1> QED
    BY <1>2, Constants DEF TypeOK, Acquired, SetPhase, SetClaim, Phase

\* What a node has in flight are well-formed conditional writes.
LEMMA SentType ==
    ASSUME TypeOK, NEW n \in Node,
           cas[n] = "sent" => claim[n].guard.epoch < MaxEpoch
    PROVE  /\ SentClaim(n) \cup SentRelease(n) \subseteq ConditionalWrite
           /\ \A w \in SentClaim(n) \cup SentRelease(n) : WellFormed(w)
<1>1. claim[n].guard \in Record /\ rel[n].epoch \in 0 .. MaxEpoch
    BY DEF TypeOK, Claim, Release
<1>2. ASSUME NEW w \in SentClaim(n)
      PROVE  w \in ConditionalWrite /\ WellFormed(w)
    <2>1. w = [guard |-> claim[n].guard, rec |-> Owned(n, ClaimEpoch(n))]
          /\ cas[n] = "sent"
        BY DEF SentClaim
    <2>2. Owned(n, ClaimEpoch(n)) \in Record
        BY <1>1, <2>1, BoundAssumption DEF Owned, ClaimEpoch, NextWriterEpoch, Record
    <2> QED
        BY <1>1, <2>1, <2>2
        DEF ConditionalWrite, WellFormed, Owned, ClaimEpoch, NextWriterEpoch
<1>3. ASSUME NEW w \in SentRelease(n)
      PROVE  w \in ConditionalWrite /\ WellFormed(w)
    BY <1>1 DEF SentRelease, ConditionalWrite, WellFormed, Owned, Released, Record
<1> QED
    BY <1>2, <1>3

\* Resolution keeps the types.
LEMMA ResolveType ==
    ASSUME IInv, NEW n \in Node, Resolve(n)
    PROVE  TypeOK'
<1>0. TypeOK /\ ClaimSound(n)
    BY DEF IInv, ClaimsSound
<1>1. CASE Wake(n)
    BY <1>1, <1>0, Constants
        DEF Wake, TypeOK, storeVars, nodeVars, SetPhase, SetClaim, Phase
<1>2. CASE OwnerReadConfirming(n)
    BY <1>2, <1>0, Constants
        DEF OwnerReadConfirming, TypeOK, storeVars, nodeVars, SetPhase,
            SetClaim, Phase, Record
<1>3. CASE OwnerReadApplied(n)
    <2>1. claim[n].guard.epoch < MaxEpoch
        BY <1>3, <1>0 DEF ClaimSound, OwnerReadApplied
    <2> QED
        BY <1>3, <1>0, <2>1, AcquiredType
        DEF OwnerReadApplied, TypeOK, storeVars, nodeVars
<1>4. CASE OwnerReadClaimable(n)
    <2>1. own \in Record /\ claim[n].reconciles \in 0 .. MaxReconciles
        BY <1>0 DEF TypeOK, Claim
    <2> QED
        BY <1>4, <1>0, <2>1, BeginClaimType
        DEF OwnerReadClaimable, TypeOK, storeVars, nodeVars
<1>5. CASE OwnerReadForeign(n)
    BY <1>5, <1>0, BoundAssumption
        DEF OwnerReadForeign, TypeOK, storeVars, nodeVars, SetPhase,
            SetClaim, Phase, Claim
<1>6. CASE ResolveFailed(n)
    BY <1>6, <1>0, Constants
        DEF ResolveFailed, TypeOK, storeVars, nodeVars, SetPhase, SetClaim,
            Phase
<1>7. CASE NodeLeaseLive(n)
    BY <1>7, <1>0, Constants
        DEF NodeLeaseLive, TypeOK, storeVars, nodeVars, SetPhase, SetClaim,
            Phase
<1>8. CASE NodeLeaseDead(n)
    <2>1. claim[n].guard \in Record /\ 0 \in 0 .. MaxReconciles
        BY <1>0, BoundAssumption DEF TypeOK, Claim
    <2> QED
        BY <1>8, <1>0, <2>1, BeginClaimType
        DEF NodeLeaseDead, TypeOK, storeVars, nodeVars
<1>9. CASE NodeLeaseUnrecovered(n)
    BY <1>9, <1>0, Constants
        DEF NodeLeaseUnrecovered, TypeOK, storeVars, nodeVars, SetPhase,
            SetClaim, Phase
<1>10. CASE NodeLogRecovered(n)
    <2>1. claim[n].guard \in Record /\ 0 \in 0 .. MaxReconciles
        BY <1>0, BoundAssumption DEF TypeOK, Claim
    <2> QED
        BY <1>10, <1>0, <2>1, BeginClaimType, Constants
        DEF NodeLogRecovered, TypeOK, storeVars, nodeVars
<1>11. CASE NodeLogRecoveryFailed(n)
    BY <1>11, <1>0, Constants, BoundAssumption
        DEF NodeLogRecoveryFailed, TypeOK, storeVars, nodeVars, SetPhase,
            SetClaim, Phase
<1>12. CASE RetryOwnerLogRecovery(n)
    BY <1>12, <1>0, Constants
        DEF RetryOwnerLogRecovery, TypeOK, storeVars, nodeVars, SetPhase,
            SetClaim, Phase
<1>13. CASE PlacedOnPeer(n)
    BY <1>13, <1>0, Constants
        DEF PlacedOnPeer, TypeOK, storeVars, nodeVars, SetPhase, SetClaim,
            Phase
<1>14. CASE InvalidateRemote(n)
    BY <1>14, <1>0, Constants
        DEF InvalidateRemote, TypeOK, storeVars, nodeVars, SetPhase, Phase
<1> QED
    BY <1>1, <1>2, <1>3, <1>4, <1>5, <1>6, <1>7, <1>8, <1>9, <1>10, <1>11,
       <1>12, <1>13, <1>14 DEF Resolve

\* Activation keeps the types.
LEMMA ActivateType ==
    ASSUME IInv, NEW n \in Node, Activate(n)
    PROVE  TypeOK'
<1>0. TypeOK /\ ClaimSound(n)
    BY DEF IInv, ClaimsSound
<1>1. CASE RestoreCompleted(n)
    BY <1>1, <1>0, Constants
        DEF RestoreCompleted, TypeOK, storeVars, nodeVars, SetPhase,
            SetClaim, Phase
<1>2. CASE RestoreFailed(n)
    BY <1>2, <1>0, Constants
        DEF RestoreFailed, TypeOK, storeVars, nodeVars, SetPhase, SetClaim,
            Phase
<1>3. CASE RuntimeStarted(n)
    BY <1>3, <1>0, Constants
        DEF RuntimeStarted, TypeOK, storeVars, nodeVars, SetPhase, SetClaim,
            Phase, StopCause, Move
<1>4. CASE RuntimeStartFailed(n)
    BY <1>4, <1>0, Constants
        DEF RuntimeStartFailed, TypeOK, storeVars, nodeVars, SetPhase,
            SetClaim, Phase, StopCause, Move
<1>5. CASE Published(n)
    BY <1>5, <1>0, Constants
        DEF Published, TypeOK, storeVars, nodeVars, SetPhase, SetClaim,
            Phase, StopCause, Move
<1>6. CASE PublishFailed(n)
    BY <1>6, <1>0, Constants
        DEF PublishFailed, TypeOK, storeVars, nodeVars, SetPhase, SetClaim,
            Phase, StopCause, Move
<1> QED
    BY <1>1, <1>2, <1>3, <1>4, <1>5, <1>6 DEF Activate

\* The claim a node has in flight, and the release, as writes to the store.
LEMMA LandedSound ==
    ASSUME IInv, NEW n \in Node
    PROVE  /\ cas[n] = "sent" =>
                /\ Owned(n, ClaimEpoch(n)) \in Record
                /\ WellFormed([guard |-> claim[n].guard,
                               rec |-> Owned(n, ClaimEpoch(n))])
           /\ rel[n].state = "sent" =>
                /\ Released(rel[n].epoch) \in Record
                /\ WellFormed([guard |-> Owned(n, rel[n].epoch),
                               rec |-> Released(rel[n].epoch)])
           /\ SentClaim(n) \cup SentRelease(n) \subseteq ConditionalWrite
           /\ \A w \in SentClaim(n) \cup SentRelease(n) : WellFormed(w)
<1>1. TypeOK /\ (cas[n] = "sent" => claim[n].guard.epoch < MaxEpoch)
    BY DEF IInv, ClaimsSound, ClaimSound
<1> QED
    BY <1>1, SentType DEF SentClaim, SentRelease, ConditionalWrite

\* The claim's write and its answers keep the types.
LEMMA AcquireType ==
    ASSUME IInv, NEW n \in Node, Acquire(n)
    PROVE  TypeOK'
<1>0. TypeOK /\ ClaimSound(n)
    BY DEF IInv, ClaimsSound
<1>1. CASE LandClaim(n)
    <2>1. CASE own = claim[n].guard
        <3>1. own' \in Record /\ granted' \in [Epoch -> Node \cup {NoNode}]
              /\ late' \subseteq late
            BY <1>1, <1>0, <2>1, LandedSound, InstallSound, Zenon DEF LandClaim, TypeOK
        <3> QED
            BY <1>1, <1>0, <2>1, <3>1 DEF LandClaim, TypeOK, nodeVars
    <2>2. CASE own # claim[n].guard
        BY <1>1, <1>0, <2>2 DEF LandClaim, TypeOK, storeVars, nodeVars
    <2> QED
        BY <2>1, <2>2
<1>2. CASE OwnerCasApplied(n)
    <2>1. claim[n].guard.epoch < MaxEpoch
        BY <1>2, <1>0 DEF ClaimSound, OwnerCasApplied
    <2> QED
        BY <1>2, <1>0, <2>1, AcquiredType
        DEF OwnerCasApplied, TypeOK, storeVars, nodeVars
<1>3. CASE OwnerCasRejected(n)
    BY <1>3, <1>0, Constants
        DEF OwnerCasRejected, TypeOK, storeVars, nodeVars, SetPhase,
            SetClaim, Phase
<1>4. CASE OwnerCasAmbiguous(n)
    <2>1. late' \subseteq ConditionalWrite
        BY <1>4, <1>0, LandedSound, Zenon DEF OwnerCasAmbiguous, TypeOK
    <2>2. claim' \in [Node -> Claim]
        <3>1. claim[n] \in Claim
            BY <1>0 DEF TypeOK
        <3>2. claim[n].reconciles < MaxReconciles
                => [claim[n] EXCEPT !.reconciles = @ + 1] \in Claim
            BY <3>1, BoundAssumption DEF Claim
        <3> QED
            BY <1>4, <1>0, <3>2, Constants DEF OwnerCasAmbiguous, TypeOK, SetClaim
    <2> QED
        BY <1>4, <1>0, <2>1, <2>2
        DEF OwnerCasAmbiguous, TypeOK, SetPhase, Phase, nodeVars
<1>5. CASE OwnerCasFailed(n)
    BY <1>5, <1>0, Constants
        DEF OwnerCasFailed, TypeOK, storeVars, nodeVars, SetPhase, SetClaim,
            Phase
<1> QED
    BY <1>1, <1>2, <1>3, <1>4, <1>5 DEF Acquire

\* Evictions and stops keep the types.
LEMMA StopType ==
    ASSUME IInv, NEW n \in Node, Stop(n)
    PROVE  TypeOK'
<1>0. TypeOK /\ ClaimSound(n)
    BY DEF IInv, ClaimsSound
<1>1. CASE \E c \in {"Evict", "Rebalance"} : BeginEviction(n, c)
    BY <1>1, <1>0 DEF BeginEviction, Move, TypeOK, storeVars, nodeVars, SetPhase,
                    Phase, StopCause
<1>2. CASE DurabilityChecked(n)
    BY <1>2, <1>0, Constants
        DEF DurabilityChecked, TypeOK, storeVars, nodeVars, SetPhase,
            SetClaim, Phase, StopCause, Move
<1>3. CASE EvictionCancelled(n)
    BY <1>3, <1>0, Constants
        DEF EvictionCancelled, TypeOK, storeVars, nodeVars, SetPhase,
            SetClaim, Phase, StopCause, Move
<1>4. CASE ResetCell(n)
    BY <1>4, <1>0, Constants
        DEF ResetCell, TypeOK, storeVars, nodeVars, SetPhase, SetClaim,
            Phase, StopCause, Move
<1>5. CASE BeginSwap(n)
    BY <1>5, <1>0, Constants
        DEF BeginSwap, TypeOK, storeVars, nodeVars, SetPhase, SetClaim,
            Phase, StopCause, Move
<1>6. CASE RuntimeStopped(n)
    BY <1>6, <1>0, Constants
        DEF RuntimeStopped, TypeOK, storeVars, nodeVars, SetPhase, SetClaim,
            Phase, StopCause
<1>7. CASE RuntimeStoppedShed(n)
    <2>1. late' \subseteq ConditionalWrite
        BY <1>7, <1>0, LandedSound, Zenon DEF RuntimeStoppedShed, TypeOK
    <2>2. rel' \in [Node -> Release]
        BY <1>7, <1>0 DEF RuntimeStoppedShed, TypeOK, Release
    <2> QED
        BY <1>7, <1>0, <2>1, <2>2
        DEF RuntimeStoppedShed, TypeOK, SetPhase, Phase, StopCause, nodeVars
<1>8. CASE RuntimeStopFailed(n)
    BY <1>8, <1>0, Constants
        DEF RuntimeStopFailed, TypeOK, storeVars, nodeVars, SetPhase,
            SetClaim, Phase, StopCause
<1> QED
    BY <1>1, <1>2, <1>3, <1>4, <1>5, <1>6, <1>7, <1>8 DEF Stop

\* Releases and handoffs keep the types.
LEMMA GiveAwayType ==
    ASSUME IInv, NEW n \in Node, GiveAway(n)
    PROVE  TypeOK'
<1>0. TypeOK /\ ClaimSound(n)
    BY DEF IInv, ClaimsSound
<1>1. CASE ReleaseAll(n)
    BY <1>1, <1>0, Constants
        DEF ReleaseAll, TypeOK, storeVars, nodeVars, SetPhase, SetClaim,
            cellVars
<1>2. CASE ReleaseDormant(n)
    BY <1>2, <1>0, Constants
        DEF ReleaseDormant, TypeOK, storeVars, nodeVars, SetPhase, SetClaim,
            Release
<1>3. CASE LandRelease(n)
    <2>1. rel' \in [Node -> Release]
        <3>1. rel[n] \in Release
            BY <1>0 DEF TypeOK
        <3>2. \A x \in {"applied", "rejected"} : [rel[n] EXCEPT !.state = x] \in Release
            BY <3>1 DEF Release
        <3>3. \E x \in {"applied", "rejected"} :
                 rel' = [rel EXCEPT ![n] = [rel[n] EXCEPT !.state = x]]
            BY <1>3 DEF LandRelease
        <3> QED
            BY <1>0, <3>2, <3>3 DEF TypeOK
    <2>2. CASE own = Owned(n, rel[n].epoch)
        <3>1. own' \in Record /\ granted' \in [Epoch -> Node \cup {NoNode}]
              /\ late' \subseteq late
            BY <1>3, <1>0, <2>2, LandedSound, InstallSound, Zenon DEF LandRelease, TypeOK
        <3> QED
            BY <1>3, <1>0, <2>1, <2>2, <3>1 DEF LandRelease, TypeOK, nodeVars
    <2>3. CASE own # Owned(n, rel[n].epoch)
        BY <1>3, <1>0, <2>1, <2>3 DEF LandRelease, TypeOK, storeVars, nodeVars
    <2> QED
        BY <2>2, <2>3
<1>4. CASE OwnerReleased(n)
    BY <1>4, <1>0, Constants
        DEF OwnerReleased, TypeOK, storeVars, nodeVars, SetPhase, SetClaim,
            Phase, HandsOff
<1>5. CASE ReleaseFailed(n)
    <2>1. late' \subseteq ConditionalWrite
        BY <1>5, <1>0, LandedSound, Zenon DEF ReleaseFailed, TypeOK
    <2> QED
        BY <1>5, <1>0, <2>1, Constants DEF ReleaseFailed, TypeOK, nodeVars
<1>6. CASE SuccessorAdopted(n)
    BY <1>6, <1>0, Constants
        DEF SuccessorAdopted, TypeOK, storeVars, nodeVars, SetPhase,
            SetClaim, Phase
<1>7. CASE ReleasedUnderDemand(n)
    <2>1. late' \subseteq ConditionalWrite
        BY <1>7, <1>0, LandedSound, Zenon DEF ReleasedUnderDemand, TypeOK
    <2> QED
        BY <1>7, <1>0, <2>1, Constants
        DEF ReleasedUnderDemand, TypeOK, SetPhase, SetClaim, Phase, StopCause,
            nodeVars
<1> QED
    BY <1>1, <1>2, <1>3, <1>4, <1>5, <1>6, <1>7 DEF GiveAway

\* Losing and regaining authority keeps the types.
LEMMA AuthorityType ==
    ASSUME IInv, NEW n \in Node, Authority(n)
    PROVE  TypeOK'
<1>0. TypeOK /\ ClaimSound(n)
    BY DEF IInv, ClaimsSound
<1>1. CASE Fence(n)
    <2>1. late' \subseteq ConditionalWrite
        BY <1>1, <1>0, LandedSound, Zenon DEF Fence, Forget, TypeOK
    <2> QED
        BY <1>1, <1>0, <2>1, Constants
        DEF Fence, Forget, TypeOK, SetPhase, SetClaim, Phase, StopCause
<1>2. CASE LeaseExpires(n)
    BY <1>2, <1>0, Constants
        DEF LeaseExpires, TypeOK, storeVars, nodeVars, SetPhase, SetClaim,
            cellVars
<1>3. CASE Restart(n)
    BY <1>3, <1>0, Constants
        DEF Restart, TypeOK, storeVars, nodeVars, SetPhase, SetClaim, Phase
<1>4. CASE Preserve(n)
    <2>1. late' \subseteq ConditionalWrite
        BY <1>4, <1>0, LandedSound, Zenon DEF Preserve, Forget, TypeOK
    <2> QED
        BY <1>4, <1>0, <2>1, Constants
        DEF Preserve, Forget, TypeOK, SetPhase, SetClaim, Phase, StopCause
<1>5. CASE ReloadLeaseRead(n)
    BY <1>5, <1>0, Constants
        DEF ReloadLeaseRead, TypeOK, storeVars, nodeVars, SetPhase, SetClaim,
            cellVars
<1>6. CASE ReloadLeaseHeld(n)
    BY <1>6, <1>0, Constants
        DEF ReloadLeaseHeld, TypeOK, storeVars, nodeVars, SetPhase, SetClaim,
            Phase
<1> QED
    BY <1>1, <1>2, <1>3, <1>4, <1>5, <1>6 DEF Authority

\* A late write keeps the types.
LEMMA LandLateType ==
    ASSUME IInv, NEW w \in late, LandLate(w)
    PROVE  TypeOK'
<1>1. w \in ConditionalWrite /\ WellFormed(w) /\ TypeOK /\ own = w.guard
    BY DEF IInv, TypeOK, LateWellFormed, LandLate
<1>2. w.rec \in Record /\ WellFormed([guard |-> own, rec |-> w.rec])
    BY <1>1 DEF ConditionalWrite, WellFormed
<1>3. own' \in Record /\ granted' \in [Epoch -> Node \cup {NoNode}]
      /\ late' \subseteq late \ {w}
    BY <1>1, <1>2, InstallSound DEF LandLate, TypeOK
<1> QED
    BY <1>1, <1>3 DEF LandLate, TypeOK, nodeVars, cellVars

\* Every step keeps the types.
LEMMA NextType ==
    ASSUME IInv, [Next]_vars
    PROVE  TypeOK'
<1>1. CASE UNCHANGED vars
    BY <1>1 DEF IInv, TypeOK, vars
<1>2. CASE Next
    BY <1>2, LandLateType, ResolveType, AcquireType, ActivateType, StopType,
       GiveAwayType, AuthorityType DEF Next
<1> QED
    BY <1>1, <1>2

============================================================================
