SPECIFICATION BucketSpec
CONSTANTS
    r1 = r1
    r2 = r2
    LeaseScope <- LeaseScopes
    EpochScope <- EpochScopes
    AlarmScope <- AlarmScopes
    Recoverer = {r1, r2}
    Follower = {f}
    Nobody = Nobody
    Scope <- LogScopes
INVARIANTS
    LeaseTypeOK
    LapsedStaysLapsed
    SurvivesOneFault
    EpochTypeOK
    AckedRestorable
    PagedReadsKept
    AlarmWakeTypeOK
    AckedAlarmDiscoverable
    HibernatedAlarmDiscoverable
PROPERTIES
    EvidenceKept
    WakesSettle
    DeadLogSealed
CHECK_DEADLOCK FALSE
