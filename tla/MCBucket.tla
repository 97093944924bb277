------------------------------ MODULE MCBucket ------------------------------
(***************************************************************************)
(* Instances for TLC of the services that live in the bucket beside the    *)
(* owner records: NodeLease, EpochLineage, AlarmWake, and the recovery     *)
(* part of NodeLog. A behaviour picks one of them (focus) and explores it  *)
(* alone while the others stand still at an initial state, so that the     *)
(* states of the run are the sum of the four and each property speaks of   *)
(* its own service.                                                        *)
(***************************************************************************)
EXTENDS NodeLease, EpochLineage, AlarmWake, NodeLog

CONSTANTS r1, r2

VARIABLE focus   \* the service this behaviour explores

-----------------------------------------------------------------------------
(* The instances.                                                          *)

\* A prompt process with a production-like ratio of TTL to retry and one fault; a restart and
\* a change of the log; both with a late write; two faults.
LeaseOf(ttl, ticks, failures, changes, restarts, prompt) ==
    [ttl |-> ttl, clock |-> ticks, faults |-> failures, publishes |-> changes,
     restarts |-> restarts, prompt |-> prompt]
LeaseScopes == {LeaseOf(9, 20, 1, 0, 0, TRUE), LeaseOf(3, 4, 0, 1, 1, FALSE),
                LeaseOf(3, 2, 1, 1, 1, FALSE), LeaseOf(3, 5, 2, 0, 0, FALSE)}

\* Three owners in a row: paging; folding and handing off; fenced owners whose
\* uploads land late; collection of superseded epochs.
EpochScopes == {[epochs |-> 3, writes |-> 3, zombies |-> FALSE, does |-> {"page"}],
                [epochs |-> 3, writes |-> 3, zombies |-> FALSE, does |-> {"fold", "handoff"}],
                [epochs |-> 3, writes |-> 2, zombies |-> TRUE, does |-> {"page"}],
                [epochs |-> 3, writes |-> 2, zombies |-> FALSE, does |-> {"page", "gc"}]}

\* A first arm and a crash; a superseded owner that still runs; hibernation,
\* before and past the alarm; one fault of each kind around a firing; a replaced
\* arm; two owners that fire; a request that moves the alarm while it fires.
AlarmBase == [epochs |-> 2, installs |-> 1, faults |-> 1, kinds |-> {"crash"}, minutes |-> {1},
              armed |-> NoAlarm, horizon |-> 0, zombie |-> FALSE, evicts |-> FALSE]
Hibernating == [AlarmBase EXCEPT !.evicts = TRUE, !.armed = 1, !.minutes = {NoAlarm, 2},
                                 !.faults = 0]
AlarmScopes == {[AlarmBase EXCEPT !.horizon = 1],
                [AlarmBase EXCEPT !.zombie = TRUE, !.faults = 0, !.armed = 1,
                                  !.minutes = {NoAlarm, 2}],
                Hibernating, [Hibernating EXCEPT !.horizon = 1, !.installs = 0],
                [AlarmBase EXCEPT !.kinds = {"crash", "put", "delete", "maintain", "retry"},
                                  !.armed = 0, !.installs = 0],
                [AlarmBase EXCEPT !.kinds = {"crash", "put", "delete", "maintain"},
                                  !.armed = 1, !.minutes = {2}],
                [AlarmBase EXCEPT !.armed = 0, !.zombie = TRUE, !.faults = 0, !.installs = 0],
                [AlarmBase EXCEPT !.armed = 0, !.epochs = 1, !.faults = 0,
                                  !.minutes = {NoAlarm, 1}]}

\* Rival recoverers of a log with one follower.
LogScopes == {[tx |-> 1, epochs |-> 1, peers |-> {1}, flushes |-> 0, faults |-> 1,
               by |-> {r1, r2}, drains |-> FALSE, closes |-> FALSE, races |-> {}]}

-----------------------------------------------------------------------------
OneOf(S) == CHOOSE s \in S : TRUE

\* A service that stands still is under no fairness.
BucketInit ==
    /\ focus \in {"lease", "epoch", "alarm", "log"}
    /\ LeaseInit /\ (focus # "lease" => lscope = OneOf(LeaseScope))
    /\ EpochInit /\ (focus # "epoch" => escope = OneOf(EpochScope))
    /\ AlarmInit /\ (focus # "alarm" => wscope = Hibernating)
    /\ Init /\ (focus # "log" => scope = OneOf(Scope))

LeaseOnly == focus = "lease" /\ UNCHANGED <<focus, epochVars, alarmVars, vars>>
EpochOnly == focus = "epoch" /\ UNCHANGED <<focus, leaseVars, alarmVars, vars>>
AlarmOnly == focus = "alarm" /\ UNCHANGED <<focus, leaseVars, epochVars, vars>>
LogOnly == focus = "log" /\ UNCHANGED <<focus, leaseVars, epochVars, alarmVars>>

\* Every action of every service, but for those actions of the log (flush, close,
\* degrading, upload by cell, sweep) that no behaviour of this instance reaches;
\* MCNodeLog explores them.
BucketNext ==
    \/ LeaseOnly /\ StartNodeLease
    \/ LeaseOnly /\ SelfNodeLeaseRead
    \/ LeaseOnly /\ NodeLeaseCasCompleted
    \/ LeaseOnly /\ CasIsAmbiguous
    \/ LeaseOnly /\ LeaseIoFails
    \/ LeaseOnly /\ FenceFires
    \/ LeaseOnly /\ Served
    \/ LeaseOnly /\ PeerRecovers
    \/ LeaseOnly /\ Tick
    \/ LeaseOnly /\ Restarts
    \/ \E t \in node.renewals : LeaseOnly /\ RenewFires(t)
    \/ \E log \in {"open", "sealed"} : LeaseOnly /\ PublishLog(log)
    \/ \E w \in late : LeaseOnly /\ LateWriteLands(w)
    \/ EpochOnly /\ Claims
    \/ EpochOnly /\ ReusesLocal
    \/ \E e \in Epochs : EpochOnly /\ ListsEpochs(e)
    \/ \E e \in Epochs : EpochOnly /\ ListsEpoch(e)
    \/ \E e \in Epochs : EpochOnly /\ StartsEmpty(e)
    \/ \E e \in Epochs : EpochOnly /\ Clones(e)
    \/ \E e \in Epochs : EpochOnly /\ Pages(e)
    \/ \E e \in Epochs : EpochOnly /\ Hydrates(e)
    \/ \E e \in Epochs : EpochOnly /\ CellWrites(e)
    \/ \E e \in Epochs : EpochOnly /\ Syncs(e)
    \/ \E e \in Epochs : EpochOnly /\ Acks(e)
    \/ \E e \in Epochs : EpochOnly /\ Folds(e)
    \/ \E e \in Epochs : EpochOnly /\ Closes(e)
    \/ \E e \in Epochs : EpochOnly /\ Scans(e)
    \/ \E e \in Epochs : EpochOnly /\ ConfirmsOwner(e)
    \/ \E e \in Epochs : EpochOnly /\ RecordsRetired(e)
    \/ \E e \in Epochs : EpochOnly /\ DeletesEpoch(e)
    \/ \E w \in wire : EpochOnly /\ Lands(w)
    \/ AlarmOnly /\ RequestClaims
    \/ AlarmOnly /\ HintClaims
    \/ AlarmOnly /\ TimerClaims
    \/ AlarmOnly /\ MinutePasses
    \/ \E e \in WakeEpoch : AlarmOnly /\ Restores(e)
    \/ \E e \in WakeEpoch : AlarmOnly /\ UploadsRow(e)
    \/ \E e \in WakeEpoch : AlarmOnly /\ Crashes(e)
    \/ \E e \in WakeEpoch : AlarmOnly /\ FencesSession(e)
    \/ \E e \in WakeEpoch : AlarmOnly /\ FinishesActivity(e)
    \/ \E e \in WakeEpoch : AlarmOnly /\ ReadsOnly(e)
    \/ \E e \in WakeEpoch : AlarmOnly /\ CoreObserves(e)
    \/ \E e \in WakeEpoch : AlarmOnly /\ AlarmFires(e)
    \/ \E e \in WakeEpoch : AlarmOnly /\ HandlerCommits(e)
    \/ \E e \in WakeEpoch : AlarmOnly /\ AlarmSettled(e)
    \/ \E e \in WakeEpoch : AlarmOnly /\ AlarmRetries(e)
    \/ \E e \in WakeEpoch : AlarmOnly /\ BeginsEviction(e)
    \/ \E e \in WakeEpoch : AlarmOnly /\ Hibernates(e)
    \/ \E e \in WakeEpoch, at \in wscope.minutes : AlarmOnly /\ SetsAlarm(e, at)
    \/ \E e \in WakeEpoch : \E i \in 1 .. LastRow(e) : AlarmOnly /\ Acknowledges(e, i)
    \/ \E p \in puts : AlarmOnly /\ PutLands(p)
    \/ \E p \in puts : AlarmOnly /\ PutFails(p)
    \/ \E x \in dels : AlarmOnly /\ DeleteLands(x)
    \/ \E x \in dels : AlarmOnly /\ DeleteLost(x)
    \/ \E x \in entries : AlarmOnly /\ CollectorDeletes(x)
    \/ \E x \in entries : AlarmOnly /\ CollectorRefreshes(x)
    \/ \E t \in tasks : AlarmOnly /\ MaintainStarts(t)
    \/ \E t \in tasks : AlarmOnly /\ MaintainProves(t)
    \/ \E t \in tasks : AlarmOnly /\ MaintainRetires(t)
    \/ \E t \in tasks : AlarmOnly /\ MaintainFails(t)
    \/ LogOnly /\ Commit
    \/ LogOnly /\ LeaseWriteLands
    \/ LogOnly /\ LeaderGone
    \/ LogOnly /\ MaintainInstall
    \/ LogOnly /\ ShipRound
    \/ LogOnly /\ RoundFails
    \/ LogOnly /\ Activate
    \/ LogOnly /\ Activated
    \/ LogOnly /\ ApplyRound
    \/ LogOnly /\ ClaimAges
    \/ \E ens \in SUBSET Follower : LogOnly /\ (Cardinality(ens) \in scope.peers /\ Maintain(ens))
    \/ \E c \in net : LogOnly /\ AppendArrives(c)
    \/ \E c \in net : LogOnly /\ AppendFails(c)
    \/ \E m \in Follower : LogOnly /\ FragmentDamaged(m)
    \/ \E m \in Follower : LogOnly /\ DiskReplaced(m)
    \/ \E m \in Follower : LogOnly /\ FragmentGc(m)
    \/ \E r \in Recoverer : LogOnly /\ Recover(r)
    \/ \E r \in Recoverer : LogOnly /\ TailFails(r)
    \/ \E r \in Recoverer : LogOnly /\ RecovererFails(r)
    \/ \E r \in Recoverer, m \in Follower : LogOnly /\ MemberUnreachable(r, m)

\* AlarmFairness and the Fairness of NodeLog, each while its service is in focus.
BucketFairness ==
    /\ WF_alarmVars(focus = "alarm" /\ AlarmStep)
    /\ WF_vars(focus = "log" /\ ClaimAges)
    /\ \A r \in Recoverer : WF_vars(focus = "log" /\ life = "gone" /\ Recover(r))

BucketSpec ==
    /\ BucketInit /\ [][BucketNext]_<<focus, leaseVars, epochVars, alarmVars, vars>>
    /\ BucketFairness
=============================================================================
