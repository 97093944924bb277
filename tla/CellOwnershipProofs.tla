------------------------ MODULE CellOwnershipProofs ------------------------
(* The theorems about CellOwnership, for every set of nodes, every bound   *)
(* and every set of behaviours: its type invariant, and that it implements *)
(* EpochLedger, so that no epoch has two writers.                          *)
EXTENDS CellOwnershipClaims, FiniteSetTheorems

----------------------------------------------------------------------------
(* The invariant is inductive.                                             *)

LEMMA StepDownFenced ==
    ASSUME IInv, NEW n \in Node, Step(n)
    PROVE  DownFenced'
<1>1. TypeOK /\ DownFenced /\ NodeFrame(n)
    BY StepFrame DEF IInv
<1>2. CASE Resolve(n) \/ Acquire(n) \/ Activate(n) \/ Stop(n) \/ GiveAway(n)
    BY <1>1, <1>2, UpSteps DEF DownFenced, NodeFrame
<1>3. CASE Fence(n) \/ Preserve(n)
    BY <1>1, <1>3 DEF DownFenced, NodeFrame, TypeOK, Fence, Preserve, Forget, SetPhase
<1>4. CASE LeaseExpires(n) \/ ReloadLeaseRead(n)
    BY <1>1, <1>4
    DEF DownFenced, NodeFrame, TypeOK, LeaseExpires, ReloadLeaseRead, cellVars
<1>5. CASE Restart(n) \/ ReloadLeaseHeld(n)
    BY <1>1, <1>5 DEF DownFenced, NodeFrame, TypeOK, Restart, ReloadLeaseHeld
<1> QED
    BY <1>2, <1>3, <1>4, <1>5 DEF Step, Authority

\* A node's step keeps the invariant.
LEMMA StepIInv ==
    ASSUME IInv, NEW n \in Node, Step(n)
    PROVE  IInv'
<1>1. NodeFrame(n)
    BY StepFrame DEF IInv
<1>2. TypeOK'
    BY NextType DEF Next, Step
<1>3. RecordGranted' /\ WritersGranted' /\ LateWellFormed' /\ DownFenced'
    BY <1>1, StepGrants, StepWriters, StepLate, StepDownFenced
<1>4. ClaimSound(n)'
    BY ResolveClaim, AcquireClaim, ActivateClaim, StopClaim, GiveAwayClaim,
       AuthorityClaim DEF Step
<1>5. ClaimsSound'
    BY <1>1, <1>4, StepOtherClaims DEF ClaimsSound
<1> QED
    BY <1>2, <1>3, <1>5 DEF IInv

\* So does a late write, which touches nothing but the record.
LEMMA LandLateIInv ==
    ASSUME IInv, NEW w \in late, LandLate(w)
    PROVE  IInv'
<1>1. TypeOK'
    BY LandLateType
<1>2. /\ w.rec \in Record /\ w.guard \in Record /\ w = [guard |-> own, rec |-> w.rec]
      /\ late \ {w} \in SUBSET ConditionalWrite
    BY DEF LandLate, IInv, TypeOK, ConditionalWrite
<1>3. WellFormed([guard |-> own, rec |-> w.rec])
    BY <1>2 DEF IInv, LateWellFormed
<1>4. /\ RecordGranted' /\ late' \subseteq late \ {w}
      /\ \A e \in Epoch : granted[e] # NoNode => granted'[e] = granted[e]
    BY <1>2, <1>3, InstallSound DEF LandLate
<1>5. UNCHANGED <<writers, nodeVars, cellVars>>
    BY DEF LandLate
<1>6. WritersGranted'
    BY <1>4, <1>5, NoNodeAssumption DEF IInv, TypeOK, WritersGranted
<1>7. LateWellFormed'
    BY <1>4 DEF IInv, LateWellFormed
<1>8. DownFenced'
    BY <1>5 DEF IInv, DownFenced, nodeVars, cellVars
<1>9. ASSUME NEW n \in Node
      PROVE  ClaimSound(n)'
    <2>1. ClaimSound(n) /\ TypeOK
        BY DEF IInv, ClaimsSound
    <2>2. cas[n] = "applied" => ClaimEpoch(n) \in Epoch
        BY <2>1, ClaimEpochExists DEF ClaimSound
    <2>3. UNCHANGED <<phase, claim, cas, writers>> /\ ClaimEpoch(n)' = ClaimEpoch(n)
        BY <1>5 DEF cellVars, ClaimEpoch, NextWriterEpoch
    <2> QED
        BY <1>4, <2>1, <2>2, <2>3, NoNodeAssumption DEF ClaimSound
<1>10. ClaimsSound'
    BY <1>9 DEF ClaimsSound
<1> QED
    BY <1>1, <1>4, <1>6, <1>7, <1>8, <1>10 DEF IInv

LEMMA InitIInv == Init => IInv
<1> SUFFICES ASSUME Init PROVE IInv
    OBVIOUS
<1>1. TypeOK
    BY Constants, BoundAssumption
    DEF Init, TypeOK, Phase, StopCause
<1>2. RecordGranted /\ WritersGranted /\ LateWellFormed /\ DownFenced
    BY NoNodeAssumption
    DEF Init, RecordGranted, WritersGranted, LateWellFormed, DownFenced, Absent
<1>3. ClaimsSound
    BY DEF Init, ClaimsSound, ClaimSound, ClaimPhase
<1> QED
    BY <1>1, <1>2, <1>3 DEF IInv

LEMMA NextIInv == IInv /\ [Next]_vars => IInv'
<1> SUFFICES ASSUME IInv, [Next]_vars PROVE IInv'
    OBVIOUS
<1>1. CASE UNCHANGED vars
    BY <1>1
    DEF vars, IInv, TypeOK, DownFenced, RecordGranted, WritersGranted,
        LateWellFormed, ClaimsSound, ClaimSound, ClaimEpoch
<1>2. CASE Next
    BY <1>2, StepIInv, LandLateIInv DEF Next, Step
<1> QED
    BY <1>1, <1>2

----------------------------------------------------------------------------
(* The theorems.                                                           *)

\* Type correctness of the ownership protocol, for every fleet and every set
\* of behaviours; in particular no claim is ever past the last epoch.
THEOREM TypeCorrect == Spec => []TypeOK
<1>1. Spec => []IInv
    BY InitIInv, NextIInv, PTL DEF Spec
<1>2. IInv => TypeOK
    BY DEF IInv
<1> QED
    BY <1>1, <1>2, PTL

\* No epoch of the cell is ever restored by two nodes: the fencing epoch that
\* the conditional write of own.json hands out names one writer for ever,
\* whatever is late, lost, duplicated, skewed, crashed or reloaded.
THEOREM OneWriter == Spec => []OneWriterPerEpoch
<1>1. Spec => []IInv
    BY InitIInv, NextIInv, PTL DEF Spec
<1>2. IInv => OneWriterPerEpoch
    <2> SUFFICES ASSUME IInv, NEW e \in Epoch
                 PROVE  Cardinality(writers[e]) <= 1
        BY DEF OneWriterPerEpoch
    <2>1. writers[e] \subseteq {granted[e]}
        BY DEF IInv, WritersGranted
    <2>2. writers[e] = {} \/ writers[e] = {granted[e]}
        BY <2>1
    <2>3. Cardinality({}) = 0 /\ Cardinality({granted[e]}) = 1
        BY FS_EmptySet, FS_Singleton
    <2> QED
        BY <2>2, <2>3
<1> QED
    BY <1>1, <1>2, PTL

\* A well-formed write that the store applies is a Grant or a GiveBack.
LEMMA InstallRefines ==
    ASSUME IInv, NEW rec \in Record, NEW pending,
           WellFormed([guard |-> own, rec |-> rec]),
           Install(rec, pending), UNCHANGED writers
    PROVE  Ledger!LedgerNext
<1>1. own \in Record /\ granted \in [Epoch -> Node \cup {NoNode}]
    BY DEF IInv, TypeOK
<1>2. CASE rec.node \in Node /\ rec.epoch = own.epoch + 1
    <2>1. own.epoch \in Nat /\ own.epoch < MaxEpoch /\ own.epoch + 1 \in Epoch
        BY <1>1, <1>2, BoundAssumption DEF Record, Epoch
    <2>2. own' = [node |-> rec.node, epoch |-> own.epoch + 1]
        BY <1>2 DEF Install, Record
    <2>3. granted[own.epoch + 1] = NoNode
        BY <2>1 DEF IInv, RecordGranted
    <2>4. granted' = [granted EXCEPT ![own.epoch + 1] = rec.node]
        BY <1>2, NoNodeAssumption DEF Install
    <2>5. Ledger!Grant(rec.node)
        BY <2>1, <2>2, <2>3, <2>4 DEF Ledger!Grant
    <2> QED
        BY <1>2, <2>5 DEF Ledger!LedgerNext
<1>3. CASE own.node \in Node /\ rec = Released(own.epoch)
    <2>1. own' = [own EXCEPT !.node = NoNode]
        BY <1>1, <1>3 DEF Install, Record, Released
    <2>2. granted' = granted
        BY <1>3 DEF Install, Released
    <2>3. Ledger!GiveBack
        BY <1>3, <2>1, <2>2, NoNodeAssumption DEF Ledger!GiveBack
    <2> QED
        BY <2>3 DEF Ledger!LedgerNext
<1> QED
    BY <1>2, <1>3 DEF WellFormed

\* A step of a node is a step of the ledger or leaves it alone.
LEMMA StepRefines ==
    ASSUME IInv, NEW n \in Node, Step(n)
    PROVE  [Ledger!LedgerNext]_(Ledger!ledger)
<1>1. NodeFrame(n)
    BY StepFrame DEF IInv
<1>2. CASE UNCHANGED <<own, granted, writers>>
    BY <1>2 DEF Ledger!ledger
<1>3. CASE UNCHANGED writers /\ cas[n] = "sent" /\ own = claim[n].guard
           /\ Install(Owned(n, ClaimEpoch(n)), late)
    <2>1. Owned(n, ClaimEpoch(n)) \in Record
          /\ WellFormed([guard |-> own, rec |-> Owned(n, ClaimEpoch(n))])
        BY <1>3, LandedSound, Zenon
    <2>2. Ledger!LedgerNext
        BY <1>3, <2>1, InstallRefines
    <2> QED
        BY <2>2
<1>4. CASE UNCHANGED writers /\ rel[n].state = "sent" /\ own = Owned(n, rel[n].epoch)
           /\ Install(Released(rel[n].epoch), late)
    <2>1. Released(rel[n].epoch) \in Record
          /\ WellFormed([guard |-> own, rec |-> Released(rel[n].epoch)])
        BY <1>4, LandedSound, Zenon
    <2>2. Ledger!LedgerNext
        BY <1>4, <2>1, InstallRefines
    <2> QED
        BY <2>2
<1>5. CASE /\ OwnerReadApplied(n) \/ OwnerCasApplied(n)
           /\ UNCHANGED <<own, granted>>
           /\ writers' = [writers EXCEPT ![ClaimEpoch(n)] = @ \cup {n}]
    <2>1. ClaimEpoch(n) \in Epoch /\ granted[ClaimEpoch(n)] = n
          /\ writers[ClaimEpoch(n)] = {}
        BY <1>5, AcquiredSound
    <2>2. writers' = [writers EXCEPT ![ClaimEpoch(n)] = {n}]
        BY <1>5, <2>1 DEF IInv, TypeOK
    <2>3. Ledger!OpenEpoch(n, ClaimEpoch(n))
        BY <1>5, <2>1, <2>2 DEF Ledger!OpenEpoch
    <2> QED
        BY <2>1, <2>3 DEF Ledger!LedgerNext, Ledger!Epoch, Epoch
<1> QED
    BY <1>1, <1>2, <1>3, <1>4, <1>5 DEF NodeFrame

\* So is a write that lands after its caller gave up.
LEMMA LandLateRefines ==
    ASSUME IInv, NEW w \in late, LandLate(w)
    PROVE  Ledger!LedgerNext
<1>1. w.rec \in Record /\ w = [guard |-> own, rec |-> w.rec]
    BY DEF LandLate, IInv, TypeOK, ConditionalWrite
<1>2. WellFormed([guard |-> own, rec |-> w.rec])
    BY <1>1 DEF IInv, LateWellFormed
<1> QED
    BY <1>1, <1>2, InstallRefines DEF LandLate

\* The protocol of crates/logic implements the ledger: the record moves only
\* by granting the next epoch or giving one back, and an activation opens only
\* an epoch granted to its node that nobody opened before.
THEOREM LedgerImplemented == Spec => ImplementsLedger
<1>1. Spec => []IInv
    BY InitIInv, NextIInv, PTL DEF Spec
<1>2. Init => Ledger!LedgerInit
    BY DEF Init, Absent, Epoch, Ledger!LedgerInit, Ledger!Epoch
<1>3. IInv /\ [Next]_vars => [Ledger!LedgerNext]_(Ledger!ledger)
    <2> SUFFICES ASSUME IInv, [Next]_vars
                 PROVE  [Ledger!LedgerNext]_(Ledger!ledger)
        OBVIOUS
    <2>1. CASE UNCHANGED vars
        BY <2>1 DEF vars, Ledger!ledger
    <2>2. CASE Next
        BY <2>2, StepRefines, LandLateRefines DEF Next, Step
    <2> QED
        BY <2>1, <2>2
<1> QED
    BY <1>1, <1>2, <1>3, PTL DEF Spec, ImplementsLedger, Ledger!LedgerSpec

============================================================================
