------------------------ MODULE CellOwnershipClaims ------------------------
(* A step of a node keeps the grants, the openings and the claims in       *)
(* progress sound: the conjuncts that need one step per action.            *)
EXTENDS CellOwnershipFrame

\* A step of a node keeps the record granted and every grant made before.
LEMMA StepGrants ==
    ASSUME IInv, NEW n \in Node, NodeFrame(n)
    PROVE  /\ RecordGranted'
           /\ \A e \in Epoch : granted[e] # NoNode => granted'[e] = granted[e]
<1>1. CASE UNCHANGED <<own, granted>>
    BY <1>1 DEF IInv, RecordGranted
<1>2. CASE /\ cas[n] = "sent" /\ own = claim[n].guard
           /\ Install(Owned(n, ClaimEpoch(n)), late)
    BY <1>2, LandedSound, InstallSound, Zenon DEF IInv, TypeOK
<1>3. CASE /\ rel[n].state = "sent" /\ own = Owned(n, rel[n].epoch)
           /\ Install(Released(rel[n].epoch), late)
    BY <1>3, LandedSound, InstallSound, Zenon DEF IInv, TypeOK
<1> QED
    BY <1>1, <1>2, <1>3 DEF NodeFrame

\* The epoch of a claim in progress exists.
LEMMA ClaimEpochExists ==
    ASSUME TypeOK, NEW n \in Node, ClaimSound(n),
           phase[n] \in {"Acquiring", "ReconcilingAcquire"}
    PROVE  ClaimEpoch(n) \in Epoch
<1>1. claim[n].guard.epoch \in Nat
    BY BoundAssumption DEF TypeOK, Claim, Record
<1>2. claim[n].guard.epoch < MaxEpoch
    BY DEF ClaimSound
<1> QED
    BY <1>1, <1>2, BoundAssumption DEF ClaimEpoch, NextWriterEpoch, Epoch

\* A claim that is found to hold was granted, and its epoch is not open yet.
LEMMA AcquiredSound ==
    ASSUME IInv, NEW n \in Node, OwnerReadApplied(n) \/ OwnerCasApplied(n)
    PROVE  /\ ClaimEpoch(n) \in Epoch
           /\ granted[ClaimEpoch(n)] = n
           /\ writers[ClaimEpoch(n)] = {}
<1>1. TypeOK /\ ClaimSound(n)
    BY DEF IInv, ClaimsSound
<1>2. ClaimEpoch(n) \in Epoch /\ claim[n].guard.epoch \in Nat
    BY <1>1, ClaimEpochExists
    DEF OwnerReadApplied, OwnerCasApplied, TypeOK, Claim, Record
<1>3. granted[ClaimEpoch(n)] = n
    <2>1. CASE OwnerReadApplied(n)
        BY <2>1 DEF OwnerReadApplied, IInv, RecordGranted, Owned
    <2>2. CASE OwnerCasApplied(n)
        BY <2>2, <1>1 DEF OwnerCasApplied, ClaimSound
    <2> QED
        BY <2>1, <2>2
<1>4. n \notin writers[ClaimEpoch(n)]
    BY <1>1, <1>2 DEF ClaimSound, ClaimPhase, OwnerReadApplied, OwnerCasApplied,
                      ClaimEpoch, NextWriterEpoch
<1>5. writers[ClaimEpoch(n)] = {}
    BY <1>2, <1>3, <1>4 DEF IInv, WritersGranted
<1> QED
    BY <1>2, <1>3, <1>5

\* A step of a node opens only an epoch granted to it.
LEMMA StepWriters ==
    ASSUME IInv, NEW n \in Node, NodeFrame(n)
    PROVE  WritersGranted'
<1>1. \A e \in Epoch : \A m \in writers[e] : granted[e] = m /\ m \in Node
    BY DEF IInv, TypeOK, WritersGranted
<1>2. \A e \in Epoch : granted[e] # NoNode => granted'[e] = granted[e]
    BY StepGrants
<1>3. CASE UNCHANGED writers
    BY <1>1, <1>2, <1>3, NoNodeAssumption DEF WritersGranted
<1>4. CASE /\ OwnerReadApplied(n) \/ OwnerCasApplied(n)
           /\ UNCHANGED <<own, granted>>
           /\ writers' = [writers EXCEPT ![ClaimEpoch(n)] = @ \cup {n}]
    <2>1. writers' \in [Epoch -> SUBSET Node] /\ ClaimEpoch(n) \in Epoch
          /\ granted[ClaimEpoch(n)] = n /\ writers \in [Epoch -> SUBSET Node]
        BY <1>4, AcquiredSound DEF IInv, TypeOK
    <2> QED
        BY <1>1, <1>4, <2>1 DEF WritersGranted
<1> QED
    BY <1>3, <1>4 DEF NodeFrame

LEMMA StepLate ==
    ASSUME IInv, NEW n \in Node, NodeFrame(n)
    PROVE  LateWellFormed'
<1>1. late' \subseteq late \cup SentClaim(n) \cup SentRelease(n)
    BY DEF NodeFrame
<1>2. \A w \in SentClaim(n) \cup SentRelease(n) : WellFormed(w)
    BY LandedSound, Zenon
<1>3. \A w \in late' : WellFormed(w)
    BY <1>1, <1>2 DEF IInv, LateWellFormed
<1> QED
    BY <1>3 DEF LateWellFormed, WellFormed, Released

\* The claims of the other nodes are as sound as before.
LEMMA StepOtherClaims ==
    ASSUME IInv, NEW n \in Node, NodeFrame(n), NEW m \in Node \ {n}
    PROVE  ClaimSound(m)'
<1>1. ClaimSound(m) /\ TypeOK
    BY DEF IInv, ClaimsSound
<1>2. \A e \in Epoch : granted[e] # NoNode => granted'[e] = granted[e]
    BY StepGrants
<1>3. \A e \in Epoch : m \in writers'[e] => m \in writers[e]
    <2>1. writers \in [Epoch -> SUBSET Node]
        BY <1>1 DEF TypeOK
    <2>2. \/ UNCHANGED writers
          \/ writers' = [writers EXCEPT ![ClaimEpoch(n)] = @ \cup {n}]
        BY DEF NodeFrame
    <2> QED
        BY <2>1, <2>2
<1>4. cas[m] = "applied" => ClaimEpoch(m) \in Epoch
    BY <1>1, ClaimEpochExists DEF ClaimSound
<1>5. phase'[m] = phase[m] /\ claim'[m] = claim[m] /\ cas'[m] = cas[m]
    BY DEF NodeFrame
<1>6. ClaimEpoch(m)' = ClaimEpoch(m)
    BY <1>5 DEF ClaimEpoch, NextWriterEpoch
<1> QED
    BY <1>1, <1>2, <1>3, <1>4, <1>5, <1>6, NoNodeAssumption DEF ClaimSound

\* A node that is claiming nothing is sound.
LEMMA RestingClaim ==
    ASSUME NEW n \in Node, phase'[n] \notin ClaimPhase, cas'[n] = "idle"
    PROVE  ClaimSound(n)'
    BY DEF ClaimSound, ClaimPhase

\* A node whose claim does not move stays sound.
LEMMA KeptClaim ==
    ASSUME IInv, NEW n \in Node, NodeFrame(n), UNCHANGED writers,
           phase'[n] = phase[n], claim'[n] = claim[n], cas'[n] = cas[n]
    PROVE  ClaimSound(n)'
<1>1. ClaimSound(n) /\ TypeOK
    BY DEF IInv, ClaimsSound
<1>2. \A e \in Epoch : granted[e] # NoNode => granted'[e] = granted[e]
    BY StepGrants
<1>3. cas[n] = "applied" => ClaimEpoch(n) \in Epoch
    BY <1>1, ClaimEpochExists DEF ClaimSound
<1>4. ClaimEpoch(n)' = ClaimEpoch(n)
    BY DEF ClaimEpoch, NextWriterEpoch
<1> QED
    BY <1>1, <1>2, <1>3, <1>4, NoNodeAssumption DEF ClaimSound

\* begin_activation on a record the node restored nothing after is sound.
LEMMA BegunClaim ==
    ASSUME TypeOK, NEW n \in Node, NEW rec \in Record, NEW reconciles,
           BeginClaim(n, rec, reconciles), UNCHANGED writers, cas[n] = "idle",
           \A e \in Epoch : e > rec.epoch => n \notin writers[e]
    PROVE  ClaimSound(n)'
<1>1. CASE rec.epoch = MaxEpoch \/ (draining[n] /\ rec.node # n)
    <2>1. phase'[n] = "Inactive" /\ cas'[n] = "idle"
        BY <1>1 DEF BeginClaim, SetPhase, TypeOK
    <2> QED
        BY <2>1, RestingClaim DEF ClaimPhase
<1>2. CASE ~(rec.epoch = MaxEpoch \/ (draining[n] /\ rec.node # n))
    <2>1. phase'[n] = "Acquiring" /\ cas'[n] = "sent" /\ claim'[n].guard = rec
        BY <1>2 DEF BeginClaim, SetPhase, SetClaim, TypeOK
    <2>2. rec.epoch < MaxEpoch
        BY <1>2, BoundAssumption DEF Record
    <2> QED
        BY <2>1, <2>2 DEF ClaimSound
<1> QED
    BY <1>1, <1>2

\* Nobody has restored at an epoch past the record's.
LEMMA NothingPastRecord ==
    ASSUME IInv
    PROVE  \A e \in Epoch : e > own.epoch => writers[e] = {}
    BY NoNodeAssumption DEF IInv, TypeOK, RecordGranted, WritersGranted

\* The claim of the node that steps stays sound.
LEMMA ResolveClaim ==
    ASSUME IInv, NEW n \in Node, Resolve(n)
    PROVE  ClaimSound(n)'
<1>0. TypeOK /\ ClaimSound(n) /\ NodeFrame(n)
    BY ResolveFrame DEF IInv, ClaimsSound
<1>1. CASE Wake(n)
    <2>1. phase'[n] \notin ClaimPhase /\ cas'[n] = "idle"
        BY <1>1, <1>0
        DEF Wake, TypeOK, ClaimSound, ClaimPhase, SetPhase
    <2> QED
        BY <2>1, RestingClaim
<1>2. CASE OwnerReadConfirming(n)
    <2>1. phase'[n] \notin ClaimPhase /\ cas'[n] = "idle"
        BY <1>2, <1>0
        DEF OwnerReadConfirming, TypeOK, ClaimSound, ClaimPhase, SetPhase
    <2> QED
        BY <2>1, RestingClaim
<1>3. CASE OwnerReadApplied(n)
    <2>1. phase'[n] \notin ClaimPhase /\ cas'[n] = "idle"
        BY <1>3, <1>0
        DEF OwnerReadApplied, TypeOK, ClaimSound, ClaimPhase, Acquired,
            SetPhase
    <2> QED
        BY <2>1, RestingClaim
<1>4. CASE OwnerReadClaimable(n)
    <2>1. own \in Record /\ cas[n] = "idle" /\ UNCHANGED writers
        BY <1>4, <1>0 DEF OwnerReadClaimable, TypeOK, ClaimSound
    <2> QED
        BY <1>4, <1>0, <2>1, NothingPastRecord, BegunClaim DEF OwnerReadClaimable
<1>5. CASE OwnerReadForeign(n)
    <2>1. /\ phase'[n] = "ReadingNodeLease" /\ claim'[n].guard = own
          /\ cas'[n] = "idle" /\ UNCHANGED writers
        BY <1>5, <1>0
        DEF OwnerReadForeign, TypeOK, ClaimSound, SetPhase, SetClaim
    <2> QED
        BY <2>1, NothingPastRecord DEF ClaimSound
<1>6. CASE ResolveFailed(n)
    <2>1. phase'[n] \notin ClaimPhase /\ cas'[n] = "idle"
        BY <1>6, <1>0
        DEF ResolveFailed, TypeOK, ClaimSound, ClaimPhase, SetPhase
    <2> QED
        BY <2>1, RestingClaim
<1>7. CASE NodeLeaseLive(n)
    <2>1. phase'[n] \notin ClaimPhase /\ cas'[n] = "idle"
        BY <1>7, <1>0
        DEF NodeLeaseLive, TypeOK, ClaimSound, ClaimPhase, SetPhase
    <2> QED
        BY <2>1, RestingClaim
<1>8. CASE NodeLeaseDead(n)
    <2>1. claim[n].guard \in Record /\ cas[n] = "idle" /\ UNCHANGED writers
        BY <1>8, <1>0 DEF NodeLeaseDead, TypeOK, Claim, ClaimSound
    <2>2. \A e \in Epoch : e > claim[n].guard.epoch => n \notin writers[e]
        BY <1>8, <1>0 DEF NodeLeaseDead, ClaimSound, ClaimPhase
    <2> QED
        BY <1>8, <1>0, <2>1, <2>2, BegunClaim DEF NodeLeaseDead
<1>9. CASE NodeLeaseUnrecovered(n)
    <2>1. cas'[n] = "idle" /\ UNCHANGED writers
        BY <1>9, <1>0 DEF NodeLeaseUnrecovered, ClaimSound
    <2>2. CASE draining[n]
        <3>1. phase'[n] = "Inactive"
            BY <1>9, <1>0, <2>2 DEF NodeLeaseUnrecovered, TypeOK, SetPhase
        <3> QED
            BY <2>1, <3>1, RestingClaim DEF ClaimPhase
    <2>3. CASE ~draining[n]
        <3>1. phase'[n] = "RecoveringOwnerLog" /\ UNCHANGED claim
            BY <1>9, <1>0, <2>3 DEF NodeLeaseUnrecovered, TypeOK, SetPhase
        <3> QED
            BY <1>9, <1>0, <2>1, <3>1
            DEF NodeLeaseUnrecovered, ClaimSound, ClaimPhase
    <2> QED
        BY <2>2, <2>3
<1>10. CASE NodeLogRecovered(n)
    <2>1. claim[n].guard \in Record /\ cas[n] = "idle" /\ UNCHANGED writers
        BY <1>10, <1>0 DEF NodeLogRecovered, TypeOK, Claim, ClaimSound
    <2>2. \A e \in Epoch : e > claim[n].guard.epoch => n \notin writers[e]
        BY <1>10, <1>0 DEF NodeLogRecovered, ClaimSound, ClaimPhase
    <2> QED
        BY <1>10, <1>0, <2>1, <2>2, BegunClaim DEF NodeLogRecovered
<1>11. CASE NodeLogRecoveryFailed(n)
    <2>1. phase'[n] \notin ClaimPhase /\ cas'[n] = "idle"
        BY <1>11, <1>0
        DEF NodeLogRecoveryFailed, TypeOK, ClaimSound, ClaimPhase, SetPhase
    <2> QED
        BY <2>1, RestingClaim
<1>12. CASE RetryOwnerLogRecovery(n)
    <2>1. phase'[n] \notin ClaimPhase /\ cas'[n] = "idle"
        BY <1>12, <1>0
        DEF RetryOwnerLogRecovery, TypeOK, ClaimSound, ClaimPhase, SetPhase
    <2> QED
        BY <2>1, RestingClaim
<1>13. CASE PlacedOnPeer(n)
    <2>1. phase'[n] \notin ClaimPhase /\ cas'[n] = "idle"
        BY <1>13, <1>0
        DEF PlacedOnPeer, TypeOK, ClaimSound, ClaimPhase, SetPhase
    <2> QED
        BY <2>1, RestingClaim
<1>14. CASE InvalidateRemote(n)
    <2>1. phase'[n] \notin ClaimPhase /\ cas'[n] = "idle"
        BY <1>14, <1>0
        DEF InvalidateRemote, TypeOK, ClaimSound, ClaimPhase, SetPhase
    <2> QED
        BY <2>1, RestingClaim
<1> QED
    BY <1>1, <1>2, <1>3, <1>4, <1>5, <1>6, <1>7, <1>8, <1>9, <1>10, <1>11,
       <1>12, <1>13, <1>14 DEF Resolve

LEMMA AcquireClaim ==
    ASSUME IInv, NEW n \in Node, Acquire(n)
    PROVE  ClaimSound(n)'
<1>0. TypeOK /\ ClaimSound(n) /\ NodeFrame(n)
    BY AcquireFrame DEF IInv, ClaimsSound
<1>1. CASE LandClaim(n)
    <2>1. UNCHANGED <<writers, phase, claim>> /\ ClaimEpoch(n)' = ClaimEpoch(n)
          /\ phase[n] = "Acquiring"
        BY <1>1, <1>0 DEF LandClaim, ClaimEpoch, NextWriterEpoch, ClaimSound
    <2>2. CASE own = claim[n].guard
        <3>1. ClaimEpoch(n) \in Epoch
            BY <1>0, <2>1, ClaimEpochExists
        <3>2. granted'[ClaimEpoch(n)] = n
            BY <1>1, <1>0, <2>2, <3>1, NoNodeAssumption
            DEF LandClaim, Install, Owned, TypeOK
        <3> QED
            BY <1>1, <1>0, <2>1, <3>2 DEF ClaimSound, ClaimPhase
    <2>3. CASE own # claim[n].guard
        <3>1. cas'[n] = "rejected"
            BY <1>1, <1>0, <2>3 DEF LandClaim, TypeOK
        <3> QED
            BY <1>0, <2>1, <3>1 DEF ClaimSound, ClaimPhase
    <2> QED
        BY <2>2, <2>3
<1>2. CASE OwnerCasApplied(n)
    <2>1. phase'[n] \notin ClaimPhase /\ cas'[n] = "idle"
        BY <1>2, <1>0
        DEF OwnerCasApplied, TypeOK, ClaimSound, ClaimPhase, Acquired,
            SetPhase
    <2> QED
        BY <2>1, RestingClaim
<1>3. CASE OwnerCasRejected(n)
    <2>1. phase'[n] \notin ClaimPhase /\ cas'[n] = "idle"
        BY <1>3, <1>0
        DEF OwnerCasRejected, TypeOK, ClaimSound, ClaimPhase, SetPhase
    <2> QED
        BY <2>1, RestingClaim
<1>4. CASE OwnerCasAmbiguous(n)
    <2>1. cas'[n] = "idle" /\ UNCHANGED writers /\ phase[n] = "Acquiring"
        BY <1>4, <1>0 DEF OwnerCasAmbiguous, TypeOK
    <2>2. CASE claim[n].reconciles < MaxReconciles
        <3>1. phase'[n] = "ReconcilingAcquire" /\ claim'[n].guard = claim[n].guard
            BY <1>4, <1>0, <2>2
            DEF OwnerCasAmbiguous, TypeOK, Claim, SetPhase, SetClaim
        <3> QED
            BY <1>0, <2>1, <3>1 DEF ClaimSound, ClaimPhase
    <2>3. CASE ~(claim[n].reconciles < MaxReconciles)
        <3>1. phase'[n] = "Inactive"
            BY <1>4, <1>0, <2>3 DEF OwnerCasAmbiguous, TypeOK, SetPhase
        <3> QED
            BY <2>1, <3>1, RestingClaim DEF ClaimPhase
    <2> QED
        BY <2>2, <2>3
<1>5. CASE OwnerCasFailed(n)
    <2>1. phase'[n] \notin ClaimPhase /\ cas'[n] = "idle"
        BY <1>5, <1>0
        DEF OwnerCasFailed, TypeOK, ClaimSound, ClaimPhase, SetPhase
    <2> QED
        BY <2>1, RestingClaim
<1> QED
    BY <1>1, <1>2, <1>3, <1>4, <1>5 DEF Acquire

LEMMA ActivateClaim ==
    ASSUME IInv, NEW n \in Node, Activate(n)
    PROVE  ClaimSound(n)'
<1>0. TypeOK /\ ClaimSound(n) /\ NodeFrame(n)
    BY ActivateFrame DEF IInv, ClaimsSound
<1>1. CASE RestoreCompleted(n)
    <2>1. phase'[n] \notin ClaimPhase /\ cas'[n] = "idle"
        BY <1>1, <1>0
        DEF RestoreCompleted, TypeOK, ClaimSound, ClaimPhase, SetPhase
    <2> QED
        BY <2>1, RestingClaim
<1>2. CASE RestoreFailed(n)
    <2>1. phase'[n] \notin ClaimPhase /\ cas'[n] = "idle"
        BY <1>2, <1>0
        DEF RestoreFailed, TypeOK, ClaimSound, ClaimPhase, SetPhase
    <2> QED
        BY <2>1, RestingClaim
<1>3. CASE RuntimeStarted(n)
    <2>1. phase'[n] \notin ClaimPhase /\ cas'[n] = "idle"
        BY <1>3, <1>0
        DEF RuntimeStarted, TypeOK, ClaimSound, ClaimPhase, Move, SetPhase
    <2> QED
        BY <2>1, RestingClaim
<1>4. CASE RuntimeStartFailed(n)
    <2>1. phase'[n] \notin ClaimPhase /\ cas'[n] = "idle"
        BY <1>4, <1>0
        DEF RuntimeStartFailed, TypeOK, ClaimSound, ClaimPhase, Move, SetPhase
    <2> QED
        BY <2>1, RestingClaim
<1>5. CASE Published(n)
    <2>1. phase'[n] \notin ClaimPhase /\ cas'[n] = "idle"
        BY <1>5, <1>0
        DEF Published, TypeOK, ClaimSound, ClaimPhase, Move, SetPhase
    <2> QED
        BY <2>1, RestingClaim
<1>6. CASE PublishFailed(n)
    <2>1. phase'[n] \notin ClaimPhase /\ cas'[n] = "idle"
        BY <1>6, <1>0
        DEF PublishFailed, TypeOK, ClaimSound, ClaimPhase, Move, SetPhase
    <2> QED
        BY <2>1, RestingClaim
<1> QED
    BY <1>1, <1>2, <1>3, <1>4, <1>5, <1>6 DEF Activate

LEMMA StopClaim ==
    ASSUME IInv, NEW n \in Node, Stop(n)
    PROVE  ClaimSound(n)'
<1>0. TypeOK /\ ClaimSound(n) /\ NodeFrame(n)
    BY StopFrame DEF IInv, ClaimsSound
<1>1. CASE \E c \in {"Evict", "Rebalance"} : BeginEviction(n, c)
    <2>1. phase'[n] \notin ClaimPhase /\ cas'[n] = "idle"
        BY <1>1, <1>0
        DEF BeginEviction, TypeOK, ClaimSound, ClaimPhase, Move, SetPhase
    <2> QED
        BY <2>1, RestingClaim
<1>2. CASE DurabilityChecked(n)
    <2>1. phase'[n] \notin ClaimPhase /\ cas'[n] = "idle"
        BY <1>2, <1>0
        DEF DurabilityChecked, TypeOK, ClaimSound, ClaimPhase, Move, SetPhase
    <2> QED
        BY <2>1, RestingClaim
<1>3. CASE EvictionCancelled(n)
    <2>1. phase'[n] \notin ClaimPhase /\ cas'[n] = "idle"
        BY <1>3, <1>0
        DEF EvictionCancelled, TypeOK, ClaimSound, ClaimPhase, Move, SetPhase
    <2> QED
        BY <2>1, RestingClaim
<1>4. CASE ResetCell(n)
    <2>1. phase'[n] \notin ClaimPhase /\ cas'[n] = "idle"
        BY <1>4, <1>0
        DEF ResetCell, TypeOK, ClaimSound, ClaimPhase, Move, SetPhase
    <2> QED
        BY <2>1, RestingClaim
<1>5. CASE BeginSwap(n)
    <2>1. phase'[n] \notin ClaimPhase /\ cas'[n] = "idle"
        BY <1>5, <1>0
        DEF BeginSwap, TypeOK, ClaimSound, ClaimPhase, Move, SetPhase
    <2> QED
        BY <2>1, RestingClaim
<1>6. CASE RuntimeStopped(n)
    <2>1. phase'[n] \notin ClaimPhase /\ cas'[n] = "idle"
        BY <1>6, <1>0
        DEF RuntimeStopped, TypeOK, ClaimSound, ClaimPhase, SetPhase
    <2> QED
        BY <2>1, RestingClaim
<1>7. CASE RuntimeStoppedShed(n)
    <2>1. phase'[n] \notin ClaimPhase /\ cas'[n] = "idle"
        BY <1>7, <1>0
        DEF RuntimeStoppedShed, TypeOK, ClaimSound, ClaimPhase, SetPhase
    <2> QED
        BY <2>1, RestingClaim
<1>8. CASE RuntimeStopFailed(n)
    <2>1. phase'[n] \notin ClaimPhase /\ cas'[n] = "idle"
        BY <1>8, <1>0
        DEF RuntimeStopFailed, TypeOK, ClaimSound, ClaimPhase, SetPhase
    <2> QED
        BY <2>1, RestingClaim
<1> QED
    BY <1>1, <1>2, <1>3, <1>4, <1>5, <1>6, <1>7, <1>8 DEF Stop

LEMMA GiveAwayClaim ==
    ASSUME IInv, NEW n \in Node, GiveAway(n)
    PROVE  ClaimSound(n)'
<1>0. TypeOK /\ ClaimSound(n) /\ NodeFrame(n)
    BY GiveAwayFrame DEF IInv, ClaimsSound
<1>1. CASE ReleaseAll(n)
    <2>1. UNCHANGED <<writers, phase, claim, cas>>
        BY <1>1
        DEF ReleaseAll, cellVars
    <2> QED
        BY <1>0, <2>1, KeptClaim
<1>2. CASE ReleaseDormant(n)
    <2>1. UNCHANGED <<writers, phase, claim, cas>>
        BY <1>2
        DEF ReleaseDormant
    <2> QED
        BY <1>0, <2>1, KeptClaim
<1>3. CASE LandRelease(n)
    <2>1. UNCHANGED <<writers, phase, claim, cas>>
        BY <1>3
        DEF LandRelease
    <2> QED
        BY <1>0, <2>1, KeptClaim
<1>4. CASE OwnerReleased(n)
    <2>1. UNCHANGED <<writers, claim, cas>>
        BY <1>4 DEF OwnerReleased
    <2>2. CASE phase[n] = "Dormant"
        <3>1. phase'[n] \notin ClaimPhase /\ cas'[n] = "idle"
            BY <1>4, <1>0, <2>1, <2>2 DEF OwnerReleased, TypeOK, ClaimSound, ClaimPhase
        <3> QED
            BY <3>1, RestingClaim
    <2>3. CASE phase[n] # "Dormant"
        <3>1. phase'[n] = phase[n]
            BY <1>4, <1>0, <2>3 DEF OwnerReleased, TypeOK
        <3> QED
            BY <1>0, <2>1, <3>1, KeptClaim
    <2> QED
        BY <2>2, <2>3
<1>5. CASE ReleaseFailed(n)
    <2>1. UNCHANGED <<writers, phase, claim, cas>>
        BY <1>5
        DEF ReleaseFailed
    <2> QED
        BY <1>0, <2>1, KeptClaim
<1>6. CASE SuccessorAdopted(n)
    <2>1. phase'[n] \notin ClaimPhase /\ cas'[n] = "idle"
        BY <1>6, <1>0
        DEF SuccessorAdopted, TypeOK, ClaimSound, ClaimPhase, SetPhase
    <2> QED
        BY <2>1, RestingClaim
<1>7. CASE ReleasedUnderDemand(n)
    <2>1. phase'[n] \notin ClaimPhase /\ cas'[n] = "idle"
        BY <1>7, <1>0
        DEF ReleasedUnderDemand, TypeOK, ClaimPhase, SetPhase
    <2> QED
        BY <2>1, RestingClaim
<1> QED
    BY <1>1, <1>2, <1>3, <1>4, <1>5, <1>6, <1>7 DEF GiveAway

LEMMA AuthorityClaim ==
    ASSUME IInv, NEW n \in Node, Authority(n)
    PROVE  ClaimSound(n)'
<1>0. /\ TypeOK /\ ClaimSound(n) /\ NodeFrame(n)
      /\ proc[n] # "up" => phase[n] = "Fenced" /\ cas[n] = "idle"
    BY AuthorityFrame DEF IInv, ClaimsSound, ClaimSound, DownFenced
<1>1. CASE Fence(n)
    <2>1. phase'[n] \notin ClaimPhase /\ cas'[n] = "idle"
        BY <1>1, <1>0 DEF Fence, Forget, TypeOK, ClaimPhase, SetPhase
    <2> QED
        BY <2>1, RestingClaim
<1>2. CASE LeaseExpires(n)
    <2>1. UNCHANGED <<writers, phase, claim, cas>>
        BY <1>2 DEF LeaseExpires, cellVars
    <2> QED
        BY <1>0, <2>1, KeptClaim
<1>3. CASE Restart(n)
    <2>1. phase'[n] \notin ClaimPhase /\ cas'[n] = "idle"
        BY <1>3, <1>0 DEF Restart, TypeOK, ClaimPhase, SetPhase
    <2> QED
        BY <2>1, RestingClaim
<1>4. CASE Preserve(n)
    <2>1. phase'[n] \notin ClaimPhase /\ cas'[n] = "idle"
        BY <1>4, <1>0 DEF Preserve, Forget, TypeOK, ClaimPhase, SetPhase
    <2> QED
        BY <2>1, RestingClaim
<1>5. CASE ReloadLeaseRead(n)
    <2>1. UNCHANGED <<writers, phase, claim, cas>>
        BY <1>5 DEF ReloadLeaseRead, cellVars
    <2> QED
        BY <1>0, <2>1, KeptClaim
<1>6. CASE ReloadLeaseHeld(n)
    <2>1. phase'[n] \notin ClaimPhase /\ cas'[n] = "idle"
        BY <1>6, <1>0 DEF ReloadLeaseHeld, TypeOK, ClaimPhase, SetPhase
    <2> QED
        BY <2>1, RestingClaim
<1> QED
    BY <1>1, <1>2, <1>3, <1>4, <1>5, <1>6 DEF Authority

============================================================================
