# celld: ownership and durability of a cell, specified

celld runs *cells* (single-writer actors with a SQLite database each) on a fleet
of nodes that share nothing but an object store and a few peer connections.
Everything it promises about a cell rests on one JSON object,
`cells/<cell>/own.json`, and on what its owners write under the prefixes
`e<epoch>/` of the bucket. `docs/guarantees.md` states the promise: "Exactly one
node serves a cell at a time", and "an acknowledged write is never lost". The
modules here specify the protocol that is meant to keep it, check it on small
instances with TLC, and prove the part that everything else rests on.

Paths below are relative to `src/`; `lib.rs` is `crates/logic/lib.rs`.

## The system, and what is modelled

| Part | State | Hard behaviour | Module |
| --- | --- | --- | --- |
| Owner record and phase machine (`lib.rs`, `celld/actor.rs`, `celld/ownership_store.rs`) | the record; per node and cell a phase, an epoch, a pending claim, a pending release | claims that race; answers that are lost; writes that land late; releases answered after the cell moved on | `CellOwnership` |
| What the record promises | the record, the grants and openings per epoch | an epoch granted or opened twice | `EpochLedger` |
| Replication, restore and acknowledgement across owners (`celld/ltx_repl.rs`) | open database, local snapshot, undrained tail, prefixes, uploads in flight | an upload of a dead process that lands later; rows that only followers hold | `CellDurability` |
| Node authority (`lib.rs` 949, 2393-2824, 3040-3123) | the lease record, the process's held lease and attempt, its timers, the clock | a renewal answered after the lease lapsed; an own write that lands late; a restart over a log to recover | `NodeLease` |
| Node log (`celld/node_log.rs`, `logic/log_tier.rs`) | the log record, ensemble, fragments, rounds, bundles, per-cell layout, recovery passes | appends against seals and reconfiguration; damaged members; rival recoverers | `NodeLog` |
| Epochs in the bucket (`ltx/src/client/epochs.rs`, `logic/epoch_gc.rs`) | objects per epoch, activations, collections | late uploads below a paged epoch; collection under a reader | `EpochLineage` |
| Admission (`lib.rs`) | phases, permits, slots, two wait queues, eviction permits | lost wakeups, leaked permits, everyone waiting on everyone | `Admission` |
| Output gate (`logic/output_gate.rs`) | barriers, riders, held outputs, export tickets | a proof that completes on a node that lost the cell; riders of a cancelled barrier | `OutputGate` |
| Alarms (`celld/wake.rs`, `logic/wake.rs`, `lib.rs`) | rows, entries, retirement record, maintenance tasks | late PUTs and DELETEs; hibernation on a stale report; orphans | `AlarmWake` |

How they fit: a request meets `Admission`, which activates a cold cell;
activation claims the record (`CellOwnership`) and restores it from the epochs
(`EpochLineage`); what the request wrote is held by `OutputGate` until the bucket
or the node's followers (`NodeLog`) have it. All of this a node may do only under
its lease (`NodeLease`). `CellDurability` is the composition of ownership with
the data: there, a fleet proof, a log recovery and a restore are one step each,
and the detailed modules show what those steps rest on. A cell that sleeps is
woken by a request or by its alarm (`AlarmWake`).

`PROJECT.json` lists every part of the repository, also those left out, with the
reason, and every hazard with the line where it bites.

### CellOwnership

One cell, any set of nodes. `own` is the record; the object store applies a
conditional write when `own` equals the write's guard (`LandClaim`,
`LandRelease`), and a write whose caller timed out or died stays in `late` and
may land at any later time (`LandLate`). The guard is the content of the record,
not an opaque etag: epochs only grow, so no content returns, and a real etag can
only reject more.

`phase`, `epoch`, `claim`, `cause`, `rel`, `handoff`, `attempts` and `draining`
are the fields of `Cell` and `State` of the same names. Each handler of `lib.rs`
is an action, or one action per arm of its `match`:

- `owner_read`: `OwnerReadConfirming`, `OwnerReadApplied`, `OwnerReadClaimable`,
  `OwnerReadForeign`, `PlacedOnPeer`, `ResolveFailed`;
- `apply_node_lease_result` and `node_log_recovered`: `NodeLeaseLive`,
  `NodeLeaseDead`, `NodeLeaseUnrecovered`, `NodeLogRecovered`,
  `NodeLogRecoveryFailed`, `RetryOwnerLogRecovery`;
- `owner_cas_completed`: `OwnerCasApplied`, `OwnerCasRejected`,
  `OwnerCasAmbiguous`, `OwnerCasFailed`;
- activation: `RestoreCompleted`, `RestoreFailed`, `RuntimeStarted`,
  `RuntimeStartFailed`, `Published`, `PublishFailed`;
- stops: `BeginEviction`, `DurabilityChecked`, `EvictionCancelled`, `ResetCell`,
  `BeginSwap`, `RuntimeStopped`, `RuntimeStoppedShed`, `RuntimeStopFailed`;
- giving away: `ReleaseAll`, `ReleaseDormant`, `OwnerReleased`, `ReleaseFailed`,
  `ReleasedUnderDemand`, `SuccessorAdopted`;
- authority: `Fence`, `LeaseExpires`, `Restart`, `Preserve`, `ReloadLeaseRead`,
  `ReloadLeaseHeld`.

The constant `Behaviours` switches optional behaviours on, so that a run can
isolate what it is about: wrong lease judgements (`skew`), lost answers
(`ambiguity`), `drain`, `shed`, `reload`, `swap`, `bounded_stop`,
`start_failure`, `failed_proof`, `local_cells` (a starting node finds the cell
on its disk) and `parked` (requests wait behind a balancing move).

`granted` and `writers` are history variables: who the record named at an epoch,
and who restored at it.

### CellDurability

Conjoins the data to every ownership action. A database image is the set of
writes in it. A prefix holds one image; an upload adds to it when it lands,
whoever sent it and however long ago. A write is acknowledged by
`VerifyOwnership` (bucket proof, then one read of the record) or by `FleetProof`
(followers of an open node log hold it, no read). A takeover asks for the dead
owner's log to be sealed first (`Unrecovered`), a restart for its own
predecessor's (`DRestart`, the boot order in `celld/main.rs`).

### EpochLedger

The abstract specification: every epoch is granted to one node, once, in order,
and opened at most once, by that node. `CellOwnership` instantiates it with its
own variables (`grant <- own`, `grantee <- granted`, `opened <- writers`) and has
the ledger's specification as the property `ImplementsLedger`.

### NodeLease

One node, its record in the bucket, and a clock that counts ticks. `node` is
`NodeAuthority` with the lease the process holds (`prior`), the record its
attempt wants (`desired`) and the instant that expiry was sampled (`anchor`).
The bucket serves an operation in a step of its own (`Served`), so an answer can
be lost after its write took effect (`CasIsAmbiguous`), and a write nobody waits
for may still land (`LateWriteLands`). A write names the tag of the record it
replaces, as the store's conditional put does. `SelfNodeLeaseRead` is
`read_self_node_lease` with its arms: the attempt's own record, the held one, an
earlier write of this process (`Adopts`), or somebody else's. `Tick` sets the
ghost flag `lapsed` when the published record expires under a process that holds
it; `revived` marks the one exception, an adoption after that.

### NodeLog

One session, one cell that stands for all of its cells, a set of followers and
one of recoverers. The leader writes the record only through its lease renewal
(`Publish`, `LeaseWriteLands`), which a recoverer's stamp makes fail for good.
Rows are committed, submitted in rounds, appended to each member in any order
and credited in order; `MayReconfigure` guards a new ensemble. The bucket gets
them in bundles and cell by cell. A bundle flush captures its rows
(`FlushCapture`), raises `flush_in_flight` and fixes its epoch (`FlushPut`), lands,
reads the record and is credited (`FlushCredit`); a graceful close waits only for
the flag (`FlushAwaited`). A recovery
pass claims, seals each member, judges (`RecoverVerdict`), folds bundles and the
tail in windows, and seals the record. Which peers form an ensemble is free.

### EpochLineage

An object covers the transactions `min..max` of its epoch and carries the writes
of its pages. An activation lists the epochs, then each epoch, in steps of their
own, and builds the chain as `EpochChain::build` does, comparing positions and
not contents. Superseded owners may go on uploading. A collection scans, confirms
its ownership, records the mark and deletes epoch by epoch.

### Admission

One node, several cells. One step is one event of the core, its pumps included
(`PumpCapacity`, `PumpActivations`); operators that pick an eviction victim return
the set of possible outcomes, because the ages that rank residents are left out.
The answers of the store are free: `OwnerRead`, `NodeLeaseRead` and
`OwnerCasCompleted` take any answer the code distinguishes.

### OutputGate

One cell on one node. A position counts the commits of one connection and starts
over with the runtime. `kept` is what every later owner would restore, so a write
may be revealed only if it is in `kept`. Export tickets ride barriers (`Rideable`)
or open their own, move when their host settles without a read (`AsRiders`,
`Reasked`), and are answered once.

Not every commit has an output that proves it. A request ends with a commit it
made after its answer (`waitUntil`), before a failure outside a turn, or before
it was cancelled (`RequestEnds`); the deadline of a firing re-arms the alarm while
its handler runs on (`AlarmExpires`); a dispatch that fails reports no position
(`AlarmFails`). The field `abandons` of a scope switches these on. They are on in
every scope of `serving` but the one with a swap, and on with a swap in
`swap_reveals`.

### AlarmWake

One cell over several epochs. Every change of the alarm row is an installation,
`[epoch, seq]`; an armed one has an entry in the bucket. `Maintain*` are the
steps of the maintenance task, with the proof of durability and the owner read
as separate steps; `Collector*` and `HintClaims` are the two scans. The core's
view (`core`) is updated from a mailbox (`CoreObserves`) and from the answer of
the handler that fired.

## Runs

The ownership and durability runs use two nodes, which produce every race
listed: an owner, or a former one, against one claimant. Races among more nodes
are covered for the ownership properties by the theorems, and not checked for the
others. Two epochs are the least that allow a takeover, three allow a late write
of the first owner to meet the second successor. Nodes are interchangeable, so
runs for safety use their symmetry; runs for liveness do not. The durability runs
also use a `VIEW` that drops history and data no later step can observe
(`MCCellDurability`).

The newer modules take their bounds from a *scope*, a record that `Init` picks
from a set and no step changes. One run explores several small scopes, each of
which has what one hazard needs, instead of one large product. `serving` and
`bucket` go one step further: they explore several modules, one at a time. The
variable `focus` names the module a behaviour explores; the others stand still
under no fairness. These modules share no variable, so the run has the sum of
their states, not the product, and shows nothing about interactions between them.

| Run | Checks | Behaviours | Result |
| --- | --- | --- | --- |
| `cell_ownership` | `TypeOK`, `OneWriterPerEpoch`, `ImplementsLedger` | all, 2 epochs; a claim whose answer was lost is given up, and may land late | holds |
| `cold_route` | `ColdRouteSettles`, `ImplementsLedger` | lost answers read back once, proofs and recoveries fail, local cells, 3 epochs | holds |
| `durability_bucket` | `DTypeOK`, `AckedNeverLost` | bucket proofs; skew, reload, failed starts; 3 epochs | holds |
| `fleet_recovery` | `AckedNeverLost` | fleet proofs; ambiguity, swap, bounded stops, failed proofs, local cells | holds |
| `fleet_release` | `SoleServer`, `AckedNeverLost`, `ReleasedIsComplete` | fleet proofs; shed | holds |
| `node_log` | `LogTypeOK`, `AckedRecoverable`, `LossIsReal`, `PerCellContiguous` | two followers, up to two rows, two ensembles, two bundles, two recoverers, one fault; seven scopes | holds |
| `serving` | gate: `GateTypeOK`, `RevealedIsKept`, `TicketIsConfirmed`, `GateDrains`; admission: `AdmissionTypeOK`, `QueuesAgree`, `NoIdleRoom`, `EvictionPermitsReturn`, `WaiterSettles` | two requests or tickets, two writes; up to three cells, two slots, two permits; nine and seven scopes | holds |
| `bucket` | lease: `LeaseTypeOK`, `LapsedStaysLapsed`, `SurvivesOneFault`, `EvidenceKept`; epochs: `EpochTypeOK`, `AckedRestorable`, `PagedReadsKept`; alarms: `AlarmWakeTypeOK`, `AckedAlarmDiscoverable`, `HibernatedAlarmDiscoverable`, `WakesSettle`; log: `DeadLogSealed` | lease of 3 or 9 ticks, two faults, a restart; three epochs; two alarm epochs, one fault of each kind; two rival recoverers | holds |
| `reload_race` | `SoleServer` | reload only | violated |
| `stranded_rows` | `AckedNeverLost` | fleet proofs; drain, shed, swap, bounded stops, failed starts and proofs, parked requests | violated |
| `graceful_close` | `AckedRecoverable` | one row, one flush, a close between its capture and its PUT | violated |
| `swap_reveals` | `RevealedIsKept` | two requests, one write that may have no output, one swap | violated |

`fleet_release` with `drain` and `start_failure` added also holds (2.3 million
states); they are left out of the run only because of its length. Bounds: `MaxEpoch` stands for
`u64::MAX`, so the runs also cover the exhaustion of epochs; `MaxReconciles` and
`MaxRecoveries` are the code's two retry limits, scaled down; one client write is
enough, because the properties speak of one write at a time.

In `NodeLease` a lease of 9 ticks stands for a production one: its cadence is a
third of it, and a retry after a fault still falls inside it. A lease of 3 makes
every timer collide with every other. In the other modules one fault of each
kind is enough for the properties, which speak of one row, one ticket, one
request or one alarm.

The runs about ownership and durability check for deadlock: a node can always
fence or restart. `node_log`, `serving` and `bucket` do not, because their
behaviours really end when a scope is used up: the log is sealed, the requests
are answered, the clock has run out.

### Fairness

`ColdRouteSettles` assumes weak fairness of `RouteStep(n)` only: some step of a
cold route is taken eventually while one is possible. The code guarantees it,
because every effect of a route is armed with a deadline
(`arm_operation_deadlines`) that answers in its place. No fairness is assumed
of a particular answer, of the store, of peers or of lease expiry.

- `GateDrains`: the sync loop uploads what is owed until it succeeds, the effects
  of the oldest barrier complete or expire, and a node past its lease fences.
- `WaiterSettles`: the shell answers each effect or expires it, and the recovery
  retry and queue timers fire. One condition covers all of them
  (`AdmissionStep`): while one of these is due, some one of them happens. Nothing
  is assumed of callers, of handlers (a request may stay active for ever), of load
  samples or of the operator.
- `WakesSettle`: timers, the two periodic scans, the uploader, the mailbox and
  the spawned tasks run, again as one condition (`AlarmStep`). Nothing is
  assumed of requests, of faults, or of PUTs nobody waits for.
- `DeadLogSealed`: the sweeps of the other nodes keep running and the heartbeat
  of a claimant that is gone ages. Faults are bounded by the scope.

### What the violated runs show

- **Clean reload** (`reload_race`, `lib.rs` 2111). A reload reads its
  predecessor's lease while it is live, the lease then expires, a peer takes the
  cell at the next epoch and serves it, and the reload's lease write still
  succeeds, because a takeover does not touch the node's lease record. The
  reload resumes at its old epoch without reading the owner record: two nodes
  serve. The ownership read behind a bucket proof keeps the writes safe
  (`durability_bucket` includes this race), but the stale node answers reads.
- **Stranded rows** (`stranded_rows`). Rows acknowledged by followers reach the
  bucket by uploads, by the final barrier of a stop, or by folding a log or a
  tail. Four paths avoid all three, each isolated by the behaviours in brackets:
  a swap that stops while the node drains rests dormant, and the drain releases
  the record with no barrier [`drain`, `swap`]; a same-epoch restart that fails
  to start rests dormant over an open replica, and the next epoch restores
  prefixes only [`start_failure` with `swap` or `bounded_stop`]; the tail of a
  reset waits for this node's next restore, but a claim made only for a handoff
  goes to dormant and the record is released [`failed_proof` with `drain` or
  `shed`, 3 epochs]; a balancing release answered while the woken cell is
  stopping reroutes it past its barrier [`shed`, `parked`, 3 epochs]. The run has
  two epochs and reaches the first two; with `MaxEpoch = 3` and the bracketed
  behaviours alone, TLC finds each of the other two.
- **Graceful close** (`graceful_close`, `node_log.rs` 6967). `close_gracefully`
  waits for `flush_in_flight`, which `put_bundle` raises after `bundle_loop` has
  captured the rows (`ltx_repl.rs` 5104-5151), and `put_bundle` does not ask again
  whether the session is closing. A close that begins between the two finds no
  flush, scans an index without the bundle, and publishes the seal; the bundle
  lands, its read of the record still finds it open, and the rows are credited.
  The record is then sealed over acknowledged rows that only a bundle holds.
  `log_tier.rs` 325 says "credited bundle coverage must never satisfy this guard".
  The bounded wait has the same outcome: a flush that lasts longer than the three
  seconds of `node_log.rs` 5793 (scope `SlowClose` of `MCNodeLog`, violated too).
  `node_log` has neither race: its closes meet no flush, or one they wait for.
- **Swap** (`swap_reveals`, `lib.rs` 5302). A request commits and ends with no
  output that would prove the commit. `swap_safe_point` finds no request, no alarm
  and no barrier, the swap has no durability barrier (`actor.rs` 4046), and the
  new connection takes its first position as the published baseline (`storage.rs`
  1790). The next reader's answer names no position and trails no barrier, so it
  reveals a commit that a crash can still lose. `output_gate.rs` 7 says "Nothing
  that reveals a cell's state may leave this process while that cell has a write
  it cannot prove durable." Without a swap the connection's positions still tell
  the reader of the commit, and `HoldsObserved` opens a barrier for it: `serving`
  shows this. With a swap, `serving` shows it only for handlers whose every commit
  has an output.

### Disagreements kept without a run

Each of these has a definition or a scope in its module, and TLC finds a violation
when it is put in place of the listed one.

- **Ambiguous takeover** (`CellOwnership`, `EveryRouteSettles` with `ambiguity`;
  `lib.rs` 4541, 4591). The reconcile count survives a read back that finds an
  absent, a released or an own record. When the read back finds the dead owner's
  record again, the claim restarts at zero, so the bound is never reached, although
  `lib.rs` 4097 says "The count has to survive the round trip or the bound below
  can never be reached." `ColdRouteSettles` excepts exactly this read back.
- **Handoff pipeline** (`CellOwnership`, `HandoffInPipeline` with `shed`; `lib.rs`
  3798). A wake hint, or the alarm timer of a dormant cell, does not ask
  `hands_off`, so a cell whose balancing release is in flight starts a cold route;
  `State::validate` (`lib.rs` 1409) refuses that state.
- **Export proof across a swap** (`OutputGate`, scope `SwapExport` of
  `MCOutputGate`, `RevealedIsKept`). An export barrier does not hold a swap
  (`lib.rs` 5317). When it settles afterwards, `note_proven` (`output_gate.rs` 326)
  records a position of the old connection, which covers positions of the new one
  that no proof has seen; `lib.rs` 7112 says "Every residency starts with no proof
  on record, so a stale one cannot cover a new runtime's commit". No scope of
  `serving` has both a ticket and a swap.
- **Adoption** (`NodeLease`, `NeverRevived`). A renewal whose answer was lost can
  be adopted (`lib.rs` 2640) after the held record lapsed and a peer may have read
  it dead. `LapsedStaysLapsed` excepts exactly this.
- **Chain by position** (`EpochLineage`, `ContinuesItsChain`). A late upload of a
  fenced owner can take the place of the continuation of a paged epoch, because
  `EpochChain::build` (`epochs.rs` 60) compares positions. Only writes nobody was
  told of are affected: `AckedRestorable` holds.
- **Confirming cells** (`Admission`, `ConfirmingIsQueued`). `cancel` (`lib.rs`
  3852) of the only request of a parked cell leaves its confirmation mark on an
  inactive cell, which `State::validate` (`lib.rs` 1463) refuses.
- **Unwatched waiters** (`Admission`, `EveryWaiterSettles`). A request that joins a
  cell which an alarm wake or a confirmation keeps parked after its queue timer
  fired has no timer, although `watch_queued` (`lib.rs` 5994) means to bound every
  wait behind the gate. `WaiterSettles` leaves these requests out.

Two observations without a run. A release answer that arrives on a draining node
after the cell was claimed again and went dormant moves it to `Adopting`
although the record still names this node; the record then waits for the lease
to run out. And `AckedNeverLost` fails for fleet proofs under `skew`, as it must:
`docs/testing.md` grants the protocol shared clocks, and a fleet proof has no
ownership read.

## Theorems

`CellOwnershipProofs` proves, for every set of nodes, every bound and every set
of behaviours:

- `TypeCorrect`: `Spec => []TypeOK`;
- `OneWriter`: `Spec => []OneWriterPerEpoch`;
- `LedgerImplemented`: `Spec => ImplementsLedger`.

The proof is in four modules that extend one another: `CellOwnershipInvariant`
(the invariant, and types), `CellOwnershipFrame` (what a step leaves alone),
`CellOwnershipClaims` (grants, openings and claims), `CellOwnershipProofs` (the
theorems). They assume only the `ASSUME`s of `CellOwnership`: `NoNode` is no node, the
bounds are naturals, the behaviours are known ones.

The argument: an epoch is opened by a node whose claim applied. `writers` alone
says nothing about claims that have not been answered, so the invariant `IInv`
adds what every pending write and every claim in progress knows. A grant exists
for no epoch past the record's (`RecordGranted`); only the grantee of an epoch
opened it (`WritersGranted`); every write in flight either grants the epoch after
its guard's or gives its guard's back (`LateWellFormed`); and a claim whose write
applied, or may still be confirmed by a read back, is for an epoch granted to
this node and not opened yet (`ClaimsSound`). Each of the action groups
`Resolve`, `Acquire`, `Activate`, `Stop`, `GiveAway` and `Authority` has a lemma
per part of `IInv`, with one step per action. `StepRefines` maps every step to
`Grant`, `GiveBack`, `OpenEpoch` or a stutter of the ledger; a reload restores at
an epoch already open and maps to a stutter.

`NodeLeaseProofs` proves, for every lease length and every bound on faults,
restarts and time:

- `LeaseTypes`: `LeaseSpec => []LeaseTypeOK`;
- `LapsedForGood`: `LeaseSpec => []LapsedStaysLapsed`;
- `EvidenceSurvives`: `LeaseSpec => EvidenceKept`.

They assume only `LeaseAssumption` (a lease lasts at least one tick, bounds are
naturals). `LapsedStaysLapsed` is not inductive: it says nothing of writes that
may still land and shorten the published record. The invariant `LeaseInv` adds
that every tag in use was the record's at some time (`TagsOK`), that the running
attempt has the latest expiry this process asked for (`ExpiriesOK`), and that of
each write on its way either the tag is past or its expiry is no earlier than
that of the record held, seen or published (`OrderOK`). So the published record
outlasts the lease the process counts on, and at the instant it lapses the
process has none left. For `EvidenceSurvives`, `ReplacedOK` says that a write
still naming the current tag belongs to the record's own session or was issued
over a log that needs no recovery. Steps of a similar shape share a lemma
(`AttemptEnds`, `LeaseTaken`, `AttemptStarts`, `TimersMove`); each action has one
of its own. TLC finds the conjuncts of `LeaseInv` true on the lease scopes of
`bucket`, but for the types of unbounded numbers, which `LeaseTypeOK` bounds.

Only model-checked: `SoleServer`, the durability properties, and everything about
`NodeLog`, `EpochLineage`, `Admission`, `OutputGate` and `AlarmWake`. Liveness is
outside the reach of the prover, and so is `Admission`, whose pumps are recursive
operators.

## Plan

1. A refinement from `NodeLog` to the log of `CellDurability`, where a fleet proof
   and a recovery are single steps.
2. Theorems: `SoleServer` when clocks agree and nobody reloads (a node that holds
   a phase past its claim is named by the record at its epoch, and every pending
   write of its own is guarded by an earlier epoch), then `RevealedIsKept`.
3. Export links between epochs; queue delivery; removal of dead nodes' records.

## Not modelled

Most of the repository is not protocol: guest execution and the storage API,
WebSockets, HTTP, containers, assets, telemetry, the control plane, the command
line, export formats and sinks, object store dialects and the performance
harness. Those parts hold no state that two actors share, or are encodings and
I/O, and a model of them would only repeat the code. They are most of the
repository's lines, so the lines that the modules translate are a small share of
it.

Of the parts that are modelled, the following is left out. Below `CellDurability`
and `EpochLineage`, compaction levels and the page level of LTX are abstracted to
the writes an object carries. A cell whose first epoch starts from a preview seed
is treated as fresh. Scores (placement, pressure, rebalance, gray members) are
free choices. A process and its peers share one clock in `NodeLease`; wrong
judgements of a lease are in `CellOwnership` (`skew`). In `CellOwnership` waiting
for a permit or a slot is a delay of the next step; `Admission` has the waits.
Queues, cron, KV and the exporter's links change rows inside one cell's
transactions and are not modelled yet.
