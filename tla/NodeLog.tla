------------------------------- MODULE NodeLog -------------------------------
(* The node log of one session (crates/logic/log_tier.rs and               *)
(* crates/celld/node_log.rs): the leader ships the rows its cells commit   *)
(* to an ensemble of followers and acknowledges them once every member     *)
(* holds them, the bucket catches up in bundles and per-cell objects, and  *)
(* when the session dies a recoverer fences the record, reads one complete *)
(* follower and folds everything into the per-cell layout.                 *)
(*                                                                         *)
(* One cell stands for all of them: a row is its transaction id, and rows  *)
(* are committed in order.  The record is the log object folded into the   *)
(* leader's node lease.  The leader writes it only through a lease         *)
(* renewal, which a recoverer's compare-and-swap makes fail for good.      *)
EXTENDS Naturals, FiniteSets, FiniteSetsExt, Sequences, SequencesExt

CONSTANTS
    Follower,    \* the nodes that can serve as members of the ensemble
    Recoverer,   \* the nodes that can recover the session's log
    Nobody,      \* no claimant
    Scope        \* the bounds to explore; Init picks one of them

\* What a scope bounds: rows the cell commits, ensembles the session opens and
\* how many eligible peers maintenance finds for them, bundle flushes, faults of
\* disks, network and recoverers together, the nodes that recover; whether cells
\* reach drain points and whether the session closes gracefully; and which races
\* of a close with a bundle flush are explored: the close comes between a flush's
\* capture and its PUT ("capture"), or its bounded wait ends first ("outlast").
ASSUME LogAssumption ==
    /\ Nobody \notin Recoverer
    /\ Scope \subseteq [tx : Nat, epochs : Nat, peers : SUBSET Nat, flushes : Nat,
                        faults : Nat, by : SUBSET Recoverer, drains : BOOLEAN,
                        closes : BOOLEAN, races : SUBSET {"capture", "outlast"}]

VARIABLES
    scope,     \* the bounds of this behaviour
    rec,       \* the log record in the bucket
    fenced,    \* a recoverer has replaced the lease object: its token moved
    own,       \* the leader's own_log: the record its next renewal carries
    life,      \* the leader: "running", "quiescing" or "gone"
    trans,     \* the transition that holds the lifecycle guard
    ship,      \* the installed FleetShipper
    rounds,    \* the ship loop's rounds in flight, in submission order
    net,       \* copies of append requests: queued on a lane or posted
    ledger,    \* the ShipLedger: applied rounds the bucket may not cover yet
    tx,        \* the cell handle: committed, submitted, shipped, durable
    flush,     \* the bundle flush in flight
    fol,       \* each follower's fragment of this session
    bundles,   \* the bundle objects in the bucket
    percell,   \* rows in the per-cell layout
    stale,     \* the recovery claim's heartbeat is older than its TTL
    rv,        \* each recoverer's pass
    loss,      \* a loss object is in the bucket
    damaged,   \* followers that lost part of the fragment they held
    faults     \* faults so far

leaderVars == <<own, life, trans, ship, rounds, net, ledger, tx, flush>>
bucketVars == <<rec, fenced, bundles, percell, stale, loss>>
vars == <<scope, leaderVars, bucketVars, fol, rv, damaged, faults>>

NoRecord == [epoch |-> 0, ens |-> {}, complete |-> FALSE, state |-> "none",
             claim |-> Nobody, acks |-> FALSE]
NoTrans == [kind |-> "free", ens |-> {}]
NoShip == [epoch |-> 0, ens |-> {}, degraded |-> TRUE, activated |-> FALSE, seq |-> 0]
NoLedger == [epoch |-> 0, covered |-> 0, out |-> <<>>]
NoFlush == [stage |-> "none", epoch |-> 0, rows |-> {}, to |-> 0, id |-> 0]
NoFragment == [epoch |-> 0, base |-> 0, rows |-> <<>>, sealed |-> 0, suspect |-> 0]
NoRange == [epoch |-> 0, held |-> 0, base |-> 0, end |-> 0]
NoPass == [pc |-> "idle", rec |-> NoRecord, todo |-> {}, at |-> Nobody,
           range |-> NoRange, witness |-> FALSE, undecided |-> FALSE,
           got |-> {}, win |-> <<>>]

Init ==
    /\ scope \in Scope
    /\ rec = NoRecord /\ own = NoRecord
    /\ fenced = FALSE /\ stale = FALSE /\ loss = FALSE
    /\ life = "running" /\ trans = NoTrans /\ ship = NoShip
    /\ rounds = <<>> /\ net = {} /\ ledger = NoLedger
    /\ tx = [committed |-> 0, submitted |-> 0, shipped |-> 0, durable |-> 0]
    /\ flush = NoFlush /\ bundles = {} /\ percell = {}
    /\ fol = [m \in Follower |-> NoFragment]
    /\ rv = [r \in Recoverer |-> NoPass]
    /\ damaged = {} /\ faults = 0

Fault == faults < scope.faults /\ faults' = faults + 1

----------------------------------------------------------------------------
(* The leader: commits, the record's own transitions, the ship loop        *)

Alive == life # "gone"
Running == life = "running"

\* A cell commits a row.
Commit ==
    /\ Alive /\ tx.committed < scope.tx
    /\ tx' = [tx EXCEPT !.committed = @ + 1]
    /\ UNCHANGED <<scope, own, life, trans, ship, rounds, net, ledger, flush,
                   bucketVars, fol, rv, damaged, faults>>

\* A member's lane serves its rounds in submission order: a copy is posted
\* once every earlier round has the member's answer.
Waiting(c) == \E i \in 1 .. Len(rounds) : rounds[i].req = c.req /\ rounds[i].out[c.to] = "wait"
Posted(c) ==
    \A i \in 1 .. Len(rounds) :
        rounds[i].req.epoch = c.req.epoch /\ rounds[i].req.first < c.req.first
        => rounds[i].out[c.to] # "wait"

\* OwnLog.write: the desired record is published to the lease writer while
\* the transition guard is held; LeaseWriteLands or PublishTimesOut follows.
Publish(record, kind, ens) ==
    /\ own' = record
    /\ trans' = [kind |-> kind, ens |-> ens]

\* A renewal carries the leader's record to the bucket.  Its condition is
\* the token of the lease object, which a recoverer's write has moved.  The
\* request of a process that died meanwhile can still land.
LeaseWriteLands ==
    /\ own # rec
    /\ ~fenced
    /\ rec' = own
    /\ UNCHANGED <<scope, fenced, bundles, percell, stale, loss, leaderVars, fol, rv,
                   damaged, faults>>

\* The process crashes or the node fences itself.  What was posted can still
\* arrive; what only the process knew is gone.
LeaderGone ==
    /\ Alive
    /\ life' = "gone"
    /\ trans' = NoTrans /\ ship' = NoShip /\ rounds' = <<>> /\ ledger' = NoLedger
    /\ net' = {c \in net : Posted(c)}
    /\ tx' = [tx EXCEPT !.committed = Max({tx.shipped, tx.durable}),
                        !.submitted = tx.shipped]
    /\ flush' = IF flush.stage = "put" THEN flush ELSE NoFlush
    /\ UNCHANGED <<scope, own, bucketVars, fol, rv, damaged, faults>>

\* The 10 s wait ends first: the caller refuses, and the desired record
\* stays published, so a later renewal can still carry it.
PublishTimesOut ==
    /\ Alive /\ trans.kind # "free" /\ rec # own /\ Fault
    /\ trans' = NoTrans
    /\ IF trans.kind = "activate"
       THEN /\ ship' = [ship EXCEPT !.degraded = TRUE]
            /\ rounds' = <<>>
            /\ tx' = [tx EXCEPT !.submitted = tx.shipped]
       ELSE UNCHANGED <<ship, rounds, tx>>
    /\ UNCHANGED <<scope, own, life, net, ledger, flush, bucketVars, fol, rv, damaged>>

\* may_reconfigure: no round between capture and credit, and the bucket
\* covers every row the fleet acknowledged.
MutantMayReconfigure == tx.durable >= tx.shipped
MayReconfigure == rounds = <<>> /\ tx.durable >= tx.shipped

\* maintain, up to its first publication: the installed shipper is weaker
\* than the peers allow, or degraded, or absent.
Reopened(ens) == [NoRecord EXCEPT !.epoch = own.epoch + 1, !.ens = ens, !.state = "open"]
Maintain(ens) ==
    /\ Running /\ trans.kind = "free"
    /\ ship.degraded \/ Cardinality(ens) > Cardinality(ship.ens)
    /\ ship' = [ship EXCEPT !.degraded = TRUE]
    /\ \/ /\ ship.epoch # 0 /\ ~MayReconfigure
          /\ UNCHANGED <<own, trans>>
       \/ /\ ship.epoch # 0 /\ MayReconfigure
          /\ own.epoch = ship.epoch /\ ~own.complete
          /\ Publish([own EXCEPT !.complete = TRUE], "cover", ens)
       \/ /\ ship.epoch = 0 \/ (MayReconfigure /\ (own.epoch # ship.epoch \/ own.complete))
          /\ ens # {} /\ tx.durable >= tx.shipped /\ own.epoch < scope.epochs
          /\ Publish(Reopened(ens), "open", ens)
    /\ UNCHANGED <<scope, life, rounds, net, ledger, tx, flush, bucketVars, fol, rv,
                   damaged, faults>>

\* maintain, after bucket_complete is applied: the next epoch opens.
MaintainReopen ==
    /\ Alive /\ trans.kind = "cover" /\ rec = own
    /\ IF Running /\ trans.ens # {} /\ tx.durable >= tx.shipped /\ own.epoch < scope.epochs
       THEN Publish(Reopened(trans.ens), "open", trans.ens)
       ELSE trans' = NoTrans /\ UNCHANGED own
    /\ UNCHANGED <<scope, life, ship, rounds, net, ledger, tx, flush, bucketVars, fol,
                   rv, damaged, faults>>

\* maintain, after the open is applied: the successor shipper is installed.
MaintainInstall ==
    /\ Alive /\ trans.kind = "open" /\ rec = own
    /\ ship' = [NoShip EXCEPT !.epoch = own.epoch, !.ens = own.ens, !.degraded = FALSE]
    /\ trans' = NoTrans
    /\ UNCHANGED <<scope, own, life, rounds, net, ledger, tx, flush, bucketVars, fol,
                   rv, damaged, faults>>

\* A failed probe, a gray follower the policy evicts or a draining follower.
Degrade ==
    /\ Alive /\ ~ship.degraded
    /\ ship' = [ship EXCEPT !.degraded = TRUE]
    /\ UNCHANGED <<scope, own, life, trans, rounds, net, ledger, tx, flush, bucketVars,
                   fol, rv, damaged, faults>>

\* ShipLedger: rounds the bucket covers leave the ledger from the front.
Advance(l) ==
    LET n == Max({i \in 0 .. Len(l.out) : \A j \in 1 .. i : l.out[j].to <= tx.durable})
    IN IF n = 0 THEN l
       ELSE [l EXCEPT !.covered = l.out[n].last, !.out = SubSeq(@, n + 1, Len(@))]

\* One wake of the ship loop: capture the rows no round has taken, allocate
\* their sequence range and enqueue the append on every member's lane.
ShipRound ==
    /\ Alive /\ ~ship.degraded
    /\ tx.committed > tx.submitted /\ tx.committed > tx.durable
    /\ LET led == Advance(IF ledger.epoch = ship.epoch THEN ledger
                          ELSE [NoLedger EXCEPT !.epoch = ship.epoch])
           count == tx.committed - tx.submitted
           req == [epoch |-> ship.epoch, first |-> ship.seq + 1,
                   rows |-> [i \in 1 .. count |-> tx.submitted + i],
                   truncate |-> led.covered]
       IN /\ ledger' = led
          /\ net' = net \cup {[to |-> m, req |-> req] : m \in ship.ens}
          /\ rounds' = Append(rounds,
                 [req |-> req, to |-> tx.committed,
                  out |-> [m \in ship.ens |-> "wait"]])
          /\ ship' = [ship EXCEPT !.seq = @ + count]
    /\ tx' = [tx EXCEPT !.submitted = tx.committed]
    /\ UNCHANGED <<scope, own, life, trans, flush, bucketVars, fol, rv, damaged, faults>>

LastSeq(req) == req.first + Len(req.rows) - 1

\* The first round resolved: any member that did not confirm degrades the
\* shipper, and the later rounds are discarded uncredited.
DiscardRounds ==
    /\ rounds' = <<>>
    /\ tx' = [tx EXCEPT !.submitted = tx.shipped]
RoundFails ==
    /\ Alive /\ rounds # <<>>
    /\ LET out == Head(rounds).out IN
          /\ \A m \in DOMAIN out : out[m] # "wait"
          /\ \E m \in DOMAIN out : out[m] = "bad"
    /\ ship' = [ship EXCEPT !.degraded = TRUE]
    /\ DiscardRounds
    /\ UNCHANGED <<scope, own, life, trans, net, ledger, flush, bucketVars, fol, rv,
                   damaged, faults>>

\* The ship loop finds the shipper degraded and drops what is in flight.
RoundsOrphaned ==
    /\ Alive /\ rounds # <<>> /\ ship.degraded
    /\ DiscardRounds
    /\ trans' = IF trans.kind = "activate" THEN NoTrans ELSE trans
    /\ UNCHANGED <<scope, own, life, ship, net, ledger, flush, bucketVars, fol,
                   rv, damaged, faults>>

\* ack_fleet_allowed: every member confirmed the head round.
AllConfirmed ==
    /\ rounds # <<>>
    /\ \A m \in DOMAIN Head(rounds).out : Head(rounds).out[m] = "ok"

\* The activation fence: the epoch's first credit waits until the record
\* says that fleet acknowledgements may exist.
Activate ==
    /\ Alive /\ AllConfirmed /\ ~ship.activated /\ trans.kind = "free"
    /\ IF Running /\ own.epoch = ship.epoch /\ own.ens = ship.ens
          /\ own.state = "open" /\ ~own.complete
       THEN /\ Publish([own EXCEPT !.acks = TRUE], "activate", {})
            /\ UNCHANGED <<ship, rounds, tx>>
       ELSE /\ ship' = [ship EXCEPT !.degraded = TRUE]
            /\ DiscardRounds
            /\ UNCHANGED <<own, trans>>
    /\ UNCHANGED <<scope, life, net, ledger, flush, bucketVars, fol, rv, damaged, faults>>

Activated ==
    /\ Alive /\ trans.kind = "activate" /\ rec = own
    /\ ship' = [ship EXCEPT !.activated = TRUE]
    /\ trans' = NoTrans
    /\ UNCHANGED <<scope, own, life, rounds, net, ledger, tx, flush, bucketVars, fol,
                   rv, damaged, faults>>

\* apply_round: the head round is credited and its rows are acknowledged.
ApplyRound ==
    /\ Alive /\ AllConfirmed /\ ship.activated
    /\ LET head == Head(rounds) IN
          /\ ledger' = [ledger EXCEPT !.out = Append(@, [last |-> LastSeq(head.req), to |-> head.to])]
          /\ tx' = [tx EXCEPT !.shipped = head.to]
    /\ rounds' = Tail(rounds)
    /\ UNCHANGED <<scope, own, life, trans, ship, net, flush, bucketVars, fol, rv,
                   damaged, faults>>

----------------------------------------------------------------------------
(* The bucket tier: bundles, per-cell uploads, the graceful close          *)

\* bundle_loop: capture the rows above the durable watermark while the sink
\* is active (bundle_active).
FlushCapture ==
    /\ Running /\ ship.epoch # 0 /\ flush.stage = "none"
    /\ tx.committed > tx.durable /\ flush.id < scope.flushes
    /\ flush' = [flush EXCEPT !.stage = "captured", !.to = tx.committed,
                              !.rows = tx.durable + 1 .. tx.committed]
    /\ UNCHANGED <<scope, own, life, trans, ship, rounds, net, ledger, tx, bucketVars,
                   fol, rv, damaged, faults>>

\* put_bundle begins: flush_in_flight goes up, and the bundle takes the epoch of
\* the shipper installed now and the next sequence number.
FlushPut ==
    /\ Alive /\ flush.stage = "captured"
    /\ flush' = [flush EXCEPT !.stage = "put", !.epoch = ship.epoch, !.id = @ + 1]
    /\ UNCHANGED <<scope, own, life, trans, ship, rounds, net, ledger, tx, bucketVars,
                   fol, rv, damaged, faults>>

\* flush_in_flight: up for the PUT and the read after it, neither for the
\* capture before nor for the credit after.
MutantFlushInFlight == FALSE
FlushInFlight == flush.stage \in {"put", "landed"}

\* put_bundle: the unconditional PUT lands, for a process that is gone too.
FlushLands ==
    /\ flush.stage = "put"
    /\ bundles' = bundles \cup {[id |-> flush.id, rows |-> flush.rows]}
    /\ flush' = [flush EXCEPT !.stage = "landed"]
    /\ UNCHANGED <<scope, rec, fenced, percell, stale, loss, own, life, trans,
                   ship, rounds, net, ledger, tx, fol, rv, damaged, faults>>

\* put_bundle: the record is read after the PUT; only an open record at the
\* flusher's epoch lets the flush be credited.
BundleCreditAllowed == rec.state = "open" /\ rec.epoch = flush.epoch
FlushRead ==
    /\ Alive /\ flush.stage = "landed"
    /\ \/ /\ BundleCreditAllowed
          /\ flush' = [flush EXCEPT !.stage = "credit"]
          /\ UNCHANGED ship
       \/ /\ ~BundleCreditAllowed
          /\ flush' = [NoFlush EXCEPT !.id = flush.id]
          /\ ship' = IF ship.epoch = flush.epoch THEN [ship EXCEPT !.degraded = TRUE] ELSE ship
    /\ UNCHANGED <<scope, own, life, trans, rounds, net, ledger, tx, bucketVars, fol,
                   rv, damaged, faults>>
FlushCredit ==
    /\ Alive /\ flush.stage = "credit"
    /\ tx' = [tx EXCEPT !.durable = Max({@, flush.to})]
    /\ flush' = [NoFlush EXCEPT !.id = flush.id]
    /\ UNCHANGED <<scope, own, life, trans, ship, rounds, net, ledger, bucketVars, fol,
                   rv, damaged, faults>>

\* A drain point (sync, eviction, compaction) uploads per cell and credits
\* both watermarks.
PerCellUpload ==
    /\ scope.drains /\ Alive /\ percell # 1 .. tx.committed
    /\ percell' = percell \cup (1 .. tx.committed)
    /\ tx' = [tx EXCEPT !.durable = tx.committed]
    /\ UNCHANGED <<scope, rec, fenced, bundles, stale, loss, own, life, trans,
                   ship, rounds, net, ledger, flush, fol, rv, damaged, faults>>

\* The per-cell watermark: the highest transaction id the prefix holds.
Watermark == Max(percell \cup {0})

\* gc_bundles: a bundle whose rows the per-cell layout covers is deleted.
BundleDeletable(b) == b.rows \subseteq 1 .. Watermark
GcBundle ==
    /\ Alive
    /\ \E b \in bundles : BundleDeletable(b) /\ bundles' = bundles \ {b}
    /\ UNCHANGED <<scope, rec, fenced, percell, stale, loss, leaderVars, fol, rv,
                   damaged, faults>>

\* close_gracefully, up to its waits: the sink closes and the shipper stops.
CloseBegin ==
    /\ scope.closes /\ Running /\ trans.kind = "free" /\ ship.epoch # 0
    /\ "capture" \in scope.races \/ flush.stage # "captured"
    /\ life' = "quiescing"
    /\ ship' = [ship EXCEPT !.degraded = TRUE]
    /\ UNCHANGED <<scope, own, trans, rounds, net, ledger, tx, flush, bucketVars, fol,
                   rv, damaged, faults>>

\* close_gracefully waits for the flush, for three seconds.
FlushAwaited == "outlast" \in scope.races \/ ~FlushInFlight

\* close_gracefully: bucket coverage is published when nothing is in flight.
\* The wait for shipped rows to be tiered is bounded, and may end early.
CloseCover ==
    /\ life = "quiescing" /\ trans.kind = "free"
    /\ FlushAwaited
    /\ own.epoch = ship.epoch /\ own.state = "open" /\ ~own.complete /\ MayReconfigure
    /\ Publish([own EXCEPT !.complete = TRUE], "close", {})
    /\ UNCHANGED <<scope, life, ship, rounds, net, ledger, tx, flush, bucketVars, fol,
                   rv, damaged, faults>>

\* graceful_seal_allowed: open at the closing epoch, no round in flight, no
\* acknowledged tail and no bundle row outside the per-cell layout.
GracefulSealAllowed ==
    /\ own.state = "open" /\ own.epoch = ship.epoch /\ MayReconfigure
    /\ \A b \in bundles : b.rows \subseteq 1 .. Watermark
CloseSeal ==
    /\ life = "quiescing"
    /\ trans.kind = "free" \/ (trans.kind = "close" /\ rec = own)
    /\ FlushAwaited
    /\ GracefulSealAllowed
    /\ Publish([own EXCEPT !.state = "sealed", !.complete = @ /\ trans.kind # "close"],
               "seal", {})
    /\ UNCHANGED <<scope, life, ship, rounds, net, ledger, tx, flush, bucketVars, fol,
                   rv, damaged, faults>>

----------------------------------------------------------------------------
(* The followers                                                           *)

End(f) == Len(f.rows)

\* adopt: a new fragment starts only at sequence 1 of the epoch the record
\* opens with this member, and never at a sealed epoch.
Adoptable(m, q) ==
    /\ rec.epoch = q.epoch /\ rec.state = "open" /\ m \in rec.ens
    /\ fol[m].sealed < q.epoch /\ q.first = 1

\* append_batch: adopt if the epoch is new, accept what continues the
\* fragment above the seal mark, and truncate what the bucket covers, below
\* the first accepted row.
MutantFragmentCut(m, q) ==
    LET f == IF fol[m].epoch # q.epoch /\ Adoptable(m, q)
             THEN [NoFragment EXCEPT !.epoch = q.epoch, !.sealed = fol[m].sealed]
             ELSE fol[m]
        takes == f.epoch = q.epoch /\ q.epoch > f.sealed /\ q.first = End(f) + 1
        grown == IF takes THEN [f EXCEPT !.rows = @ \o q.rows] ELSE f
        cut == q.truncate
    IN IF f.epoch # q.epoch THEN f
       ELSE [grown EXCEPT !.base = Max({@, cut}),
                          !.suspect = IF End(grown) >= @ THEN 0 ELSE @]
FragmentAfter(m, q) ==
    LET f == IF fol[m].epoch # q.epoch /\ Adoptable(m, q)
             THEN [NoFragment EXCEPT !.epoch = q.epoch, !.sealed = fol[m].sealed]
             ELSE fol[m]
        takes == f.epoch = q.epoch /\ q.epoch > f.sealed /\ q.first = End(f) + 1
        grown == IF takes THEN [f EXCEPT !.rows = @ \o q.rows] ELSE f
        cut == Min({q.truncate, IF takes THEN q.first - 1 ELSE End(f)})
    IN IF f.epoch # q.epoch THEN f
       ELSE [grown EXCEPT !.base = Max({@, cut}),
                          !.suspect = IF End(grown) >= @ THEN 0 ELSE @]

Answer(c, verdict) ==
    rounds' = [i \in 1 .. Len(rounds) |->
        IF rounds[i].req = c.req /\ rounds[i].out[c.to] = "wait"
        THEN [rounds[i] EXCEPT !.out[c.to] = verdict] ELSE rounds[i]]

\* An append, or a hedged or delayed copy of it, reaches a follower, and its
\* answer reaches the lane.  append_confirms reads the fragment's epoch and
\* end, not whether this copy was the one that was accepted.
AppendArrives(c) ==
    /\ Posted(c)
    /\ LET f == FragmentAfter(c.to, c.req) IN
          /\ fol' = [fol EXCEPT ![c.to] = f]
          /\ Answer(c, IF f.epoch = c.req.epoch /\ End(f) >= LastSeq(c.req) THEN "ok" ELSE "bad")
    /\ UNCHANGED <<scope, own, life, trans, ship, net, ledger, tx, flush, bucketVars, rv,
                   damaged, faults>>

\* The append or its answer is lost, or the follower fails to commit it.
AppendFails(c) ==
    /\ Posted(c) /\ Waiting(c) /\ Fault
    /\ \/ fol' = [fol EXCEPT ![c.to] = FragmentAfter(c.to, c.req)]
       \/ UNCHANGED fol
    /\ Answer(c, "bad")
    /\ UNCHANGED <<scope, own, life, trans, ship, net, ledger, tx, flush, bucketVars, rv,
                   damaged>>

\* A follower restarts on damaged or replaced storage.  A copy posted to the
\* process that ended does not reach the next one; the lane posts a round
\* that still waits again.
RestartOn(m, f) ==
    /\ fol' = [fol EXCEPT ![m] = f]
    /\ net' = {c \in net : c.to = m => Waiting(c) \/ ~Posted(c)}
    /\ damaged' = damaged \cup {m}
    /\ Fault
    /\ UNCHANGED <<scope, own, life, trans, ship, rounds, ledger, tx, flush, bucketVars, rv>>

\* A batch file is torn by a crash or damaged later: the restarted follower
\* recovers the prefix that is still readable and remembers the range the
\* damaged file names until a retransmission covers it.
FragmentDamaged(m) ==
    \E k \in fol[m].base .. End(fol[m]) - 1 :
        RestartOn(m, [fol[m] EXCEPT !.rows = SubSeq(@, 1, k),
                                    !.suspect = Max({@, End(fol[m])})])

\* The follower returns on a replacement disk.
DiskReplaced(m) == fol[m] # NoFragment /\ RestartOn(m, NoFragment)

\* gc_fragments: the record moved past the fragment's epoch or sealed it.
FragmentClosed(f) == rec.epoch > f.epoch \/ (rec.epoch = f.epoch /\ rec.state = "sealed")
FragmentGc(m) ==
    /\ fol[m].epoch # 0 /\ FragmentClosed(fol[m])
    /\ fol' = [fol EXCEPT ![m].base = End(fol[m]),
                          ![m].sealed = Max({@, fol[m].epoch})]
    /\ fol' # fol
    /\ UNCHANGED <<scope, leaderVars, bucketVars, rv, damaged, faults>>

----------------------------------------------------------------------------
(* Recovery of a dead session's log                                        *)

\* A recoverer with no pass under way: between sweeps, or out of the fleet.
Away == {"idle", "left"}

\* recover_serial: take the claim on an open record, continue an own claim or
\* take over a stale one.  The published expiry must have passed, which it
\* can do at any time: the leader may be alive and late with its renewal.
MutantRecoverClaim(r) ==
    /\ rv[r].pc = "idle" /\ r \in scope.by
    /\ \/ rec.state = "open"
       \/ rec.state = "recovering" /\ rec.claim = r
    /\ rec' = [rec EXCEPT !.state = "recovering", !.claim = r]
    /\ fenced' = TRUE /\ stale' = FALSE
    /\ rv' = [rv EXCEPT ![r] = [NoPass EXCEPT !.pc = "members", !.rec = rec',
                                    !.todo = IF rec.complete THEN {} ELSE rec.ens]]
    /\ UNCHANGED <<scope, bundles, percell, loss, leaderVars, fol, damaged, faults>>
RecoverClaim(r) ==
    /\ rv[r].pc = "idle" /\ r \in scope.by
    /\ \/ rec.state = "open"
       \/ rec.state = "recovering" /\ (rec.claim = r \/ stale)
    /\ rec' = [rec EXCEPT !.state = "recovering", !.claim = r]
    /\ fenced' = TRUE /\ stale' = FALSE
    /\ rv' = [rv EXCEPT ![r] = [NoPass EXCEPT !.pc = "members", !.rec = rec',
                                    !.todo = IF rec.complete THEN {} ELSE rec.ens]]
    /\ UNCHANGED <<scope, bundles, percell, loss, leaderVars, fol, damaged, faults>>

\* Another node judged this claim stale and took it over; a heartbeat or the
\* final read finds out, and the pass stops.
RecoverStops(r) ==
    /\ rv[r].pc \notin Away /\ rec.claim # r
    /\ rv' = [rv EXCEPT ![r] = NoPass]
    /\ UNCHANGED <<scope, leaderVars, bucketVars, fol, damaged, faults>>

\* seal: the follower persists the seal mark, then reports its range; the
\* epoch is withheld when the retained rows are not all readable.
SealMember(r, m) ==
    /\ rv[r].pc = "members" /\ m \in rv[r].todo
    /\ fol' = [fol EXCEPT ![m].sealed = Max({@, rv[r].rec.epoch})]
    /\ rv' = [rv EXCEPT ![r].pc = "tail", ![r].at = m, ![r].todo = @ \ {m},
                 ![r].range = [epoch |-> IF fol[m].suspect = 0 THEN fol[m].epoch ELSE 0,
                               held |-> fol[m].epoch, base |-> fol[m].base,
                               end |-> End(fol[m])]]
    /\ UNCHANGED <<scope, leaderVars, bucketVars, damaged, faults>>

\* The member's address or its answer is unavailable: its fate is undecided.
MemberUnreachable(r, m) ==
    /\ rv[r].pc = "members" /\ m \in rv[r].todo /\ Fault
    /\ rv' = [rv EXCEPT ![r].undecided = TRUE, ![r].todo = @ \ {m}]
    /\ UNCHANGED <<scope, leaderVars, bucketVars, fol, damaged>>

\* tail: the second request carries the rows.  A complete witness answered
\* both requests with the same range and can read all of it.
RecordEpochHeld(p) == p.range.held = p.rec.epoch
SameRange(p, f) == f.epoch = p.range.held /\ f.base = p.range.base /\ End(f) = p.range.end
ReadTail(r) ==
    /\ rv[r].pc = "tail"
    /\ LET p == rv[r]  f == fol[p.at]
       IN rv' = [rv EXCEPT ![r].pc = "members", ![r].at = Nobody, ![r].range = NoRange,
              ![r].got = @ \cup {f.rows[i] : i \in f.base + 1 .. End(f)},
              ![r].witness = @ \/ /\ RecordEpochHeld(p) /\ SameRange(p, f)
                                  /\ p.range.epoch = p.rec.epoch /\ f.suspect = 0,
              ![r].undecided = @ \/ (RecordEpochHeld(p) /\ ~SameRange(p, f))]
    /\ UNCHANGED <<scope, leaderVars, bucketVars, fol, damaged, faults>>
TailFails(r) ==
    /\ rv[r].pc = "tail" /\ Fault
    /\ rv' = [rv EXCEPT ![r].pc = "members", ![r].at = Nobody, ![r].range = NoRange,
                        ![r].undecided = @ \/ RecordEpochHeld(rv[r])]
    /\ UNCHANGED <<scope, leaderVars, bucketVars, fol, damaged>>

\* The verdict over the members, before any bundle is read: acknowledged
\* rows without a complete witness are refused while a member is undecided
\* and declared lost otherwise.  Then the retained bundles are listed, of
\* every epoch, in flush order.
MutantVerdictRefuses(p) == FALSE
VerdictRefuses(p) == p.undecided
Unwitnessed(p) == ~p.witness /\ p.rec.acks /\ p.rec.ens # {} /\ ~p.rec.complete
MutantWindows == SetToSortSeq({b.id : b \in bundles}, LAMBDA a, b : a > b)
Windows == SetToSortSeq({b.id : b \in bundles}, LAMBDA a, b : a < b)
RecoverVerdict(r) ==
    /\ rv[r].pc = "members" /\ rv[r].todo = {}
    /\ IF Unwitnessed(rv[r]) /\ VerdictRefuses(rv[r])
       THEN rv' = [rv EXCEPT ![r] = NoPass] /\ UNCHANGED loss
       ELSE /\ rv' = [rv EXCEPT ![r].pc = "fold", ![r].win = Windows]
            /\ loss' = (loss \/ Unwitnessed(rv[r]))
    /\ UNCHANGED <<scope, leaderVars, rec, fenced, bundles, percell, stale, fol,
                   damaged, faults>>

\* One gather window: the bundle's rows, and with the last window the
\* followers' tails, are uploaded above the per-cell watermark.
TailWindow(p) == Len(p.win) <= 1
FoldWindow(r) ==
    /\ rv[r].pc = "fold"
    /\ LET p == rv[r]
           read == {b \in bundles : p.win # <<>> /\ b.id = Head(p.win)}
           rows == UNION {b.rows : b \in read} \cup (IF TailWindow(p) THEN p.got ELSE {})
       IN IF p.win # <<>> /\ read = {}
          THEN rv' = [rv EXCEPT ![r] = NoPass] /\ UNCHANGED percell
          ELSE /\ percell' = percell \cup {t \in rows : t > Watermark}
               /\ rv' = [rv EXCEPT ![r].win = IF @ = <<>> THEN @ ELSE Tail(@),
                                   ![r].pc = IF Len(p.win) <= 1 THEN "seal" ELSE "fold"]
    /\ UNCHANGED <<scope, leaderVars, rec, fenced, bundles, stale, loss, fol,
                   damaged, faults>>

\* The record seals only under this node's own claim.
RecoverSeal(r) ==
    /\ rv[r].pc = "seal" /\ rec.state = "recovering" /\ rec.claim = r
    /\ rec' = [rec EXCEPT !.state = "sealed", !.claim = Nobody]
    /\ rv' = [rv EXCEPT ![r] = NoPass]
    /\ UNCHANGED <<scope, leaderVars, fenced, bundles, percell, stale, loss, fol,
                   damaged, faults>>

\* A step of the pass fails and the next sweep retries, or the recoverer
\* leaves the fleet while another one stays.
RecovererFails(r) ==
    /\ rv[r].pc \notin Away /\ Fault
    /\ \/ rv' = [rv EXCEPT ![r] = NoPass]
       \/ /\ \E q \in scope.by \ {r} : rv[q].pc # "left"
          /\ rv' = [rv EXCEPT ![r] = [NoPass EXCEPT !.pc = "left"]]
    /\ UNCHANGED <<scope, leaderVars, bucketVars, fol, damaged>>

\* The claimant's heartbeat ages past the TTL: it is gone, or it stalls.
ClaimAges ==
    /\ rec.state = "recovering" /\ ~stale
    /\ stale' = TRUE
    /\ IF rv[rec.claim].pc \in Away THEN UNCHANGED faults ELSE Fault
    /\ UNCHANGED <<scope, leaderVars, rec, fenced, bundles, percell, loss, fol, rv,
                   damaged>>

\* gc_sealed_session: the bundles of a dead, sealed session are deleted.
SweepSealed ==
    /\ rec.state = "sealed" /\ bundles # {}
    /\ bundles' = {}
    /\ UNCHANGED <<scope, leaderVars, rec, fenced, percell, stale, loss, fol, rv,
                   damaged, faults>>

----------------------------------------------------------------------------
Recover(r) ==
    \/ RecoverClaim(r) \/ RecoverStops(r) \/ ReadTail(r) \/ RecoverVerdict(r)
    \/ FoldWindow(r) \/ RecoverSeal(r)
    \/ \E m \in Follower : SealMember(r, m)

Next ==
    \/ Commit \/ LeaseWriteLands \/ LeaderGone \/ PublishTimesOut
    \/ MaintainReopen \/ MaintainInstall \/ Degrade \/ ShipRound \/ RoundFails
    \/ RoundsOrphaned \/ Activate \/ Activated \/ ApplyRound
    \/ FlushCapture \/ FlushPut \/ FlushLands \/ FlushRead \/ FlushCredit
    \/ PerCellUpload \/ GcBundle \/ CloseBegin \/ CloseCover \/ CloseSeal
    \/ \E ens \in SUBSET Follower : Cardinality(ens) \in scope.peers /\ Maintain(ens)
    \/ \E c \in net : AppendArrives(c) \/ AppendFails(c)
    \/ \E m \in Follower : FragmentDamaged(m) \/ DiskReplaced(m) \/ FragmentGc(m)
    \/ \E r \in Recoverer : Recover(r) \/ TailFails(r) \/ RecovererFails(r)
    \/ \E r \in Recoverer, m \in Follower : MemberUnreachable(r, m)
    \/ ClaimAges \/ SweepSealed

Spec == Init /\ [][Next]_vars

\* Once the leader is gone its lease expires and stays expired, the sweeps of
\* the other nodes keep running, and the heartbeat of a claimant that is gone
\* ages.  Faults are bounded, so a member answers in the end.
Fairness ==
    /\ WF_vars(ClaimAges)
    /\ \A r \in Recoverer : WF_vars(life = "gone" /\ Recover(r))
LiveSpec == Spec /\ Fairness

----------------------------------------------------------------------------
(* Properties                                                              *)

Acked == 1 .. Max({tx.shipped, tx.durable})
Held(m) == IF fol[m].epoch = rec.epoch
           THEN {fol[m].rows[i] : i \in fol[m].base + 1 .. End(fol[m])} ELSE {}

\* Types; the cell handle's watermarks are ordered (a row is submitted after it
\* is committed and shipped after it is submitted), and no fragment's base,
\* moved by garbage collection, adoption and damage, passes its end.
LogTypeOK ==
    /\ rec.state \in {"none", "open", "recovering", "sealed"}
    /\ own.state \in {"none", "open", "sealed"}
    /\ life \in {"running", "quiescing", "gone"}
    /\ tx.shipped <= tx.submitted /\ tx.submitted <= tx.committed
    /\ tx.durable <= tx.committed
    /\ \A m \in Follower : fol[m].base <= End(fol[m])
    /\ percell \subseteq 1 .. scope.tx /\ loss \in BOOLEAN

\* Every acknowledged row can still be recovered, at every moment: it is in
\* the per-cell layout, or the record is not sealed yet and the row is in a
\* retained bundle or on every undamaged member of the ensemble the record
\* names, with the mark that makes recovery ask them; unless a loss was
\* declared.
AckedRecoverable ==
    \A t \in Acked :
        \/ t \in percell
        \/ /\ rec.state # "sealed"
           /\ \/ \E b \in bundles : t \in b.rows
              \/ /\ ~rec.complete /\ rec.acks
                 /\ \A m \in rec.ens : m \in damaged \/ t \in Held(m)
        \/ loss

\* A loss is declared only when no member of the ensemble kept its fragment
\* intact.
LossIsReal == loss => rec.ens \subseteq damaged

\* The per-cell layout has no hole below its watermark, which every reader of
\* it takes for coverage of all rows up to there.
PerCellContiguous == percell = 1 .. Watermark

\* The log of a session that ended is sealed in the end.
DeadLogSealed == (life = "gone" /\ rec.state # "none") ~> (rec.state = "sealed")

=============================================================================
