------------------------------ MODULE Admission ------------------------------
(***************************************************************************)
(* The admission gate of one celld node: how a cold cell gets a runtime.   *)
(*                                                                         *)
(* A cold route holds an activation permit from the owner read until the   *)
(* cell is resident (at most `activations` permits), and a residency slot  *)
(* from the ownership claim on (at most `resident` slots).  A cell that    *)
(* finds no permit parks in `awaiting`; a cell that finds no slot parks in *)
(* `cwaiting` and keeps its permit.  Parking starts the queue timer.  A    *)
(* slot comes back when an activation fails or an eviction's stop ends,    *)
(* and a waiter nominates an idle resident for eviction (`evicting` holds  *)
(* the eviction permits).  Memory pressure latches `shedding`, which       *)
(* closes the gate and walks residency down.                               *)
(*                                                                         *)
(* The module follows State in crates/logic/lib.rs with ownership, epochs  *)
(* and alarms reduced to the answers the gate tells apart.  One step of    *)
(* the module is one event; operators that choose an eviction victim       *)
(* return the set of nodes the event may leave, because the ages that rank *)
(* the victims are not modelled.  Draining and generation swaps are in     *)
(* CellOwnership and are left out here.                                    *)
(***************************************************************************)
EXTENDS Naturals, FiniteSets, SequencesExt

CONSTANTS Cell,            \* the cells this node is asked for
          Caller,          \* the requests, each made at most once
          AdmissionScope   \* the configurations explored

(***************************************************************************)
(* A scope gives the three ceilings of Config, whether an eviction for     *)
(* room releases the owner record (ownership_on_evict), the cells that are *)
(* resident at the start, the cells a pinned socket or an uncovered alarm  *)
(* keeps resident, the cells that are asked for and the callers that ask,  *)
(* the local inventory a restarted process reads, the kinds of request,    *)
(* and the bounds on faults, wake hints, load samples and operator         *)
(* evictions.                                                              *)
(***************************************************************************)
VARIABLES ascope, adm, spent

admissionVars == <<ascope, adm, spent>>

Queue == {"WaitingActivation", "WaitingCapacity"}

\* phase_occupies_capacity
OccupyingPhase == {"Acquiring", "Reconciling", "Restoring", "Starting", "Publishing",
                   "EnsuringDurability", "Cleaning", "Resident"}

\* phase_holds_activation
PermitPhase == {"ReadingOwner", "ReadingNodeLease", "ReadingCapacity", "WaitingCapacity",
                "Acquiring", "Reconciling", "Restoring", "Starting", "Publishing", "Cleaning"}

Phase == Queue \cup OccupyingPhase \cup PermitPhase
           \cup {"Inactive", "Dormant", "Remote", "WaitingRecovery"}

\* What a parked cell resumes with: ColdStart and Activation.
Start == {"ReadOwner", "Claim", "Restore"}

CellState ==
  [phase: Phase, want: Start \cup {"none"}, dormant: BOOLEAN, reconciles: 0..3,
   cause: {"none", "keep", "release", "cleanup"}, releasing: BOOLEAN, swapping: BOOLEAN,
   late: BOOLEAN, alarmWake: BOOLEAN, resume: BOOLEAN, confirming: BOOLEAN,
   watched: BOOLEAN]

-----------------------------------------------------------------------------
(* Reading the node. *)

\* cell.requests
Requests(n, c) == {r \in Caller : n.req[r].at = c /\ n.req[r].st = "waiting"}

\* is_active, with the sockets and alarms that pin a cell
Active(n, c) == c \in ascope.pinned \/ \E r \in Caller : n.req[r].at = c /\ n.req[r].st = "active"

\* Somebody still wants the cell: the test activate_or_wait, pump_capacity,
\* cancel and retry_owner_log_recovery make.
Demand(n, c) == Requests(n, c) # {} \/ n.cell[c].alarmWake \/ n.cell[c].resume

\* Every waiting request is an ownership-only handoff.
OnlyHandoffs(n, c) == Requests(n, c) # {} /\ \A r \in Requests(n, c) : n.req[r].kind = "handoff"

Occupies(n, c) == n.cell[c].phase \in OccupyingPhase /\ ~n.cell[c].dormant

Occupied(n) == Cardinality({c \in Cell : Occupies(n, c)})

\* Mutant: the cap is checked with an off-by-one.
MutantHasCapacity(n) == Occupied(n) <= ascope.resident /\ ~n.shedding

HasCapacity(n) == Occupied(n) < ascope.resident /\ ~n.shedding

\* shed_candidate: resident, idle and not holding an alarm the node owes
Victims(n) == {c \in Cell : n.cell[c].phase = "Resident" /\ ~Active(n, c)}

-----------------------------------------------------------------------------
(* Changing the node. *)

\* set_phase; the queue timer, the dormant mark, the reconcile count, the
\* timed-out start and the swap flag end with the phases that carry them.
SetPhase(n, c, p) ==
  [n EXCEPT !.cell[c] =
     [@ EXCEPT !.phase = p, !.want = "none", !.watched = FALSE,
               !.dormant = @ /\ p \in {"Acquiring", "Reconciling"},
               !.reconciles = IF p \in {"Inactive", "Dormant", "Remote", "Resident"} THEN 0 ELSE @,
               !.cause = IF p \in {"EnsuringDurability", "Cleaning"} THEN @ ELSE "none",
               !.late = @ /\ p = "Starting",
               !.swapping = @ /\ p \in {"Starting", "Publishing"}]]

\* complete_request on a set of requests
CompleteRequests(n, rs, st) ==
  [n EXCEPT !.req = [r \in Caller |-> IF r \in rs THEN [@[r] EXCEPT !.st = st] ELSE @[r]]]

\* finish_requests
Finish(n, c, st) == CompleteRequests(n, Requests(n, c), st)

Settled(start) == IF start = "Restore" THEN "Dormant" ELSE "Inactive"

\* Mutant: only the activation queue is watched.
MutantPark(n, c, start, phase) ==
  LET m == [SetPhase(n, c, phase) EXCEPT !.cell[c].want = start,
                                         !.cell[c].watched = phase = "WaitingActivation"]
  IN  IF phase = "WaitingActivation" THEN [m EXCEPT !.awaiting = Append(@, c)]
                                     ELSE [m EXCEPT !.cwaiting = Append(@, c)]

\* Park a cell in a queue and arm its timer (watch_queued).
Park(n, c, start, phase) ==
  LET m == [SetPhase(n, c, phase) EXCEPT !.cell[c].want = start, !.cell[c].watched = TRUE]
  IN  IF phase = "WaitingActivation" THEN [m EXCEPT !.awaiting = Append(@, c)]
                                     ELSE [m EXCEPT !.cwaiting = Append(@, c)]

\* begin_eviction: nominate a victim and take its permit.
BeginEviction(n, c, cause) ==
  IF c \in Victims(n) /\ Cardinality(n.evicting) < ascope.evictions
    THEN [SetPhase(n, c, "EnsuringDurability") EXCEPT !.cell[c].cause = cause,
                                                      !.evicting = @ \cup {c}]
    ELSE n

\* rebalances
Cause == IF ascope.release THEN "release" ELSE "keep"

ShedOne(n) ==
  IF n.shedding \/ Len(n.cwaiting) <= Cardinality(n.evicting)
                \/ Cardinality(n.evicting) >= ascope.evictions \/ Victims(n) = {}
    THEN {n}
    ELSE {BeginEviction(n, v, Cause) : v \in Victims(n)}

RECURSIVE ShedTowardFloor(_)
ShedTowardFloor(n) ==
  IF ~n.shedding \/ Occupied(n) <= n.floor \/ Cardinality(n.evicting) >= ascope.evictions
       \/ Occupied(n) - Cardinality(n.evicting) <= n.floor \/ Victims(n) = {}
    THEN {n}
    ELSE UNION {ShedTowardFloor(BeginEviction(n, v, Cause)) : v \in Victims(n)}

RECURSIVE EvictIdle(_)
\* evict_idle: any of the idle residents may be old enough.
EvictIdle(n) ==
  IF n.shedding \/ Cardinality(n.evicting) >= ascope.evictions THEN {n}
  ELSE {n} \cup UNION {EvictIdle(BeginEviction(n, v, "keep")) : v \in Victims(n)}

\* begin_activation
BeginActivation(n, c, start) ==
  IF start = "Claim"
    THEN [SetPhase(n, c, "Acquiring") EXCEPT !.cell[c].dormant = OnlyHandoffs(n, c)]
    ELSE SetPhase(n, c, "Restoring")

\* activate_or_wait; `shed` is WhenFull::ShedToAdmit
ActivateOrWait(n, c, start, shed) ==
  IF ~Demand(n, c) /\ ~n.cell[c].confirming THEN {SetPhase(n, c, Settled(start))}
  ELSE IF HasCapacity(n) THEN {BeginActivation(n, c, start)}
  ELSE IF shed THEN ShedOne(Park(n, c, start, "WaitingCapacity"))
  ELSE {Park(n, c, start, "WaitingCapacity")}

BeginColdRoute(n, c, start) ==
  IF start = "ReadOwner" THEN {SetPhase(n, c, "ReadingOwner")}
                         ELSE ActivateOrWait(n, c, start, TRUE)

AdmitOrQueue(n, c, start) ==
  IF c \in n.permits THEN BeginColdRoute(n, c, start)
  ELSE IF Cardinality(n.permits) < ascope.activations
    THEN BeginColdRoute([n EXCEPT !.permits = @ \cup {c}], c, start)
  ELSE {Park(n, c, start, "WaitingActivation")}

Retained(n) == [n EXCEPT !.permits = {c \in @ : n.cell[c].phase \in PermitPhase}]

RECURSIVE PumpWaiters(_)
PumpWaiters(n) ==
  IF n.awaiting = <<>> \/ Cardinality(n.permits) >= ascope.activations THEN {n}
  ELSE LET c == Head(n.awaiting)
           m == [n EXCEPT !.awaiting = Tail(@)]
           start == n.cell[c].want
       IN  IF n.cell[c].phase # "WaitingActivation" \/ start = "none" THEN PumpWaiters(m)
           ELSE IF ~Demand(n, c) /\ ~n.cell[c].confirming
             THEN PumpWaiters(SetPhase(m, c, Settled(start)))
           ELSE UNION {PumpWaiters(x) :
                         x \in BeginColdRoute([m EXCEPT !.permits = @ \cup {c}], c, start)}

\* pump_activations, which ends every event
PumpActivations(n) == PumpWaiters(Retained(n))

RECURSIVE AdmitWaiters(_)
AdmitWaiters(n) ==
  IF n.cwaiting = <<>> \/ ~HasCapacity(n) THEN n
  ELSE LET c == Head(n.cwaiting)
           m == [n EXCEPT !.cwaiting = Tail(@)]
           start == n.cell[c].want
       IN  IF n.cell[c].phase # "WaitingCapacity" \/ start = "none" THEN AdmitWaiters(m)
           ELSE IF ~Demand(n, c) THEN AdmitWaiters(SetPhase(m, c, Settled(start)))
           ELSE AdmitWaiters(BeginActivation(m, c, start))

PumpCapacity(n) == ShedOne(AdmitWaiters(n))

\* Apply a pump to every node of a set.
Each(Op(_), ns) == UNION {Op(n) : n \in ns}

-----------------------------------------------------------------------------
(* The events. *)

\* Every event ends by pumping the activation queue.
Becomes(ns) == /\ adm' \in Each(PumpActivations, ns)
               /\ UNCHANGED ascope

Spends(what) == /\ spent[what] < ascope[what]
                /\ spent' = [spent EXCEPT ![what] = @ + 1]

\* An answer costs a fault unless it is the good one.
Costs(bad) == IF bad THEN Spends("faults") ELSE UNCHANGED spent

Is(c, p) == adm.cell[c].phase = p

Joins(n, r, c, k, st) == [n EXCEPT !.req[r] = [at |-> c, st |-> st, kind |-> k]]

\* request_authorized
RequestRoute(r, c, k) ==
  LET wait == Joins(adm, r, c, k, "waiting")
      p == adm.cell[c].phase
  IN  /\ r \in ascope.callers /\ c \in ascope.cells /\ k \in ascope.kinds
      /\ adm.req[r].st = "idle"
      /\ UNCHANGED spent
      /\ \/ /\ p = "Resident"
            /\ Becomes({Joins(adm, r, c, k, "active")})
         \/ /\ p = "EnsuringDurability"
            /\ Becomes({[Joins(SetPhase(adm, c, "Resident"), r, c, k, "active")
                           EXCEPT !.evicting = @ \ {c}]})
         \/ /\ p = "Remote"  \* the cached route is still live
            /\ Becomes({Joins(adm, r, c, k, "done")})
         \/ /\ p = "Starting" /\ adm.cell[c].late
            /\ Becomes({Joins(adm, r, c, k, "done")})
         \/ /\ \/ p \in {"Inactive", "Remote"}
               \/ p = "Dormant" /\ k # "handoff"
            /\ Becomes(AdmitOrQueue(wait, c, "ReadOwner"))
         \/ /\ \/ p \notin {"Inactive", "Remote", "Dormant", "Resident", "EnsuringDurability"}
               \/ p = "Dormant" /\ k = "handoff"
            /\ ~(p = "Starting" /\ adm.cell[c].late)
            /\ Becomes({wait})

\* activity_finished
ActivityFinished(r) ==
  /\ adm.req[r].st = "active"
  /\ Becomes(ShedOne(CompleteRequests(adm, {r}, "done")))
  /\ UNCHANGED spent

\* cancel on a request that still waits: the last caller of a parked cell
\* takes the cell out of its queue.
Cancel(r) ==
  LET c == adm.req[r].at
      n == CompleteRequests(adm, {r}, "done")
      gone(q) == SelectSeq(q, LAMBDA x : x # c)
  IN  /\ adm.req[r].st = "waiting"
      /\ Becomes({IF ~Demand(n, c) /\ n.cell[c].phase \in Queue
                    THEN [SetPhase(n, c, Settled(n.cell[c].want))
                            EXCEPT !.awaiting = gone(@), !.cwaiting = gone(@)]
                    ELSE n})
      /\ UNCHANGED spent

\* wake_hint_authorized
WakeHint(c) ==
  LET n == [adm EXCEPT !.cell[c].alarmWake = TRUE]
  IN  /\ c \in ascope.cells
      /\ Spends("wakes")
      /\ Becomes(IF adm.cell[c].phase \in {"Inactive", "Remote", "Dormant"}
                   THEN AdmitOrQueue(n, c, "ReadOwner") ELSE {n})

\* cell_alarm_timer on a resident cell, or alarm_observed with no alarm left
AlarmSettles(c) ==
  /\ Is(c, "Resident") /\ adm.cell[c].alarmWake
  /\ Becomes({[adm EXCEPT !.cell[c].alarmWake = FALSE]})
  /\ UNCHANGED spent

\* local_cells_read and confirm_local_cells: the inventory of a restarted
\* process, resumed without reading ownership or confirmed against it.  A
\* cell a request reached first is known and is left alone; a resume that
\* finds any known cell gives up.
RECURSIVE TakeInventory(_, _)
TakeInventory(n, cs) ==
  IF cs = <<>> THEN {n}
  ELSE LET c == Head(cs)
           m == IF ascope.local = "resume" THEN [n EXCEPT !.cell[c].resume = TRUE]
                                           ELSE [n EXCEPT !.cell[c].confirming = TRUE]
           start == IF ascope.local = "resume" THEN "Restore" ELSE "ReadOwner"
       IN  UNION {TakeInventory(x, Tail(cs)) : x \in AdmitOrQueue(m, c, start)}

LocalCellsRead ==
  LET known == {adm.req[r].at : r \in Caller}
      n == [adm EXCEPT !.reading = FALSE]
  IN  /\ adm.reading
      /\ Becomes(IF ascope.local = "resume" /\ known \cap Cell # {} THEN {n}
                  ELSE TakeInventory(n, SetToSeq(ascope.cells \ known)))
      /\ UNCHANGED spent

\* place_unowned
PlaceUnowned(n, c) ==
  LET refused == {r \in Requests(n, c) : n.req[r].kind = "capacity"}
      m == CompleteRequests(n, refused, "done")
  IN  IF HasCapacity(n) THEN ActivateOrWait(n, c, "Claim", TRUE)
      ELSE IF OnlyHandoffs(n, c) THEN {BeginActivation(n, c, "Claim")}
      ELSE IF Requests(m, c) = {} THEN ActivateOrWait(m, c, "Claim", TRUE)
      ELSE {SetPhase(m, c, "ReadingCapacity")}

\* owner_read, on a cold route and on the readback of an ambiguous claim
OwnerRead(c, result) ==
  LET again == Is(c, "Reconciling")
      n == [adm EXCEPT !.cell[c].confirming = FALSE]
      next ==
        CASE adm.cell[c].confirming /\ Requests(n, c) = {} /\ ~n.cell[c].alarmWake
               -> {SetPhase(n, c, IF result = "self" THEN "Dormant" ELSE "Inactive")}
          [] result = "claimed" -> IF OnlyHandoffs(n, c) THEN {SetPhase(n, c, "Dormant")}
                                   ELSE ActivateOrWait(n, c, "Restore", TRUE)
          [] result = "self" -> ActivateOrWait(n, c, "Claim", TRUE)
          [] result = "unowned" -> PlaceUnowned(n, c)
          [] result = "foreign" -> {SetPhase(n, c, "ReadingNodeLease")}
          [] result = "failed" -> {Finish(SetPhase(n, c, "Inactive"), c, "done")}
  IN  /\ Is(c, "ReadingOwner") \/ again
      /\ result = "claimed" => again
      /\ Costs(result = "failed")
      /\ Becomes(IF again THEN Each(PumpCapacity, next) ELSE next)

\* node_lease_read and node_log_recovered: the owner is live, dead and
\* recovered, unreadable, or still being swept.
NodeLeaseRead(c, result) ==
  /\ Is(c, "ReadingNodeLease")
  /\ Costs(result \in {"failed", "sweeping"})
  /\ Becomes(CASE result = "live" -> {Finish(SetPhase(adm, c, "Remote"), c, "done")}
              [] result = "dead" -> ActivateOrWait(adm, c, "Claim", TRUE)
              [] result = "failed" -> {Finish(SetPhase(adm, c, "Inactive"), c, "done")}
              [] result = "sweeping" -> {SetPhase(adm, c, "WaitingRecovery")})

\* retry_owner_log_recovery
RecoveryRetry(c) ==
  /\ Is(c, "WaitingRecovery")
  /\ Becomes(IF Demand(adm, c) THEN AdmitOrQueue(adm, c, "ReadOwner")
                               ELSE {SetPhase(adm, c, "Inactive")})
  /\ UNCHANGED spent

\* capacity_peers_read
CapacityPeersRead(c, result) ==
  /\ Is(c, "ReadingCapacity")
  /\ Costs(result = "failed")
  /\ Becomes(CASE result = "peer" -> {Finish(SetPhase(adm, c, "Remote"), c, "done")}
              [] result = "full" -> ActivateOrWait(adm, c, "Claim", TRUE)
              [] result = "failed" -> ActivateOrWait(adm, c, "Claim", FALSE))

\* owner_cas_completed
OwnerCasCompleted(c, result) ==
  LET next ==
        CASE result = "applied" ->
               IF OnlyHandoffs(adm, c) THEN {SetPhase(adm, c, "Dormant")}
               ELSE IF adm.cell[c].dormant THEN ActivateOrWait(adm, c, "Restore", TRUE)
               ELSE {SetPhase(adm, c, "Restoring")}
          [] result = "rejected" -> {SetPhase(adm, c, "ReadingOwner")}
          [] result = "ambiguous" /\ adm.cell[c].reconciles < 3 ->
               {[SetPhase(adm, c, "Reconciling") EXCEPT !.cell[c].reconciles = @ + 1]}
          [] OTHER -> {Finish(SetPhase(adm, c, "Inactive"), c, "done")}
  IN  /\ Is(c, "Acquiring")
      /\ Costs(result # "applied")
      /\ Becomes(Each(PumpCapacity, next))

\* Mutant: a failed activation returns its slot without pumping the queue.
MutantProceeds(c, from, to, ok) ==
  LET failed == Finish(SetPhase(adm, c, "Dormant"), c, "done")
  IN  /\ Is(c, from)
      /\ Costs(~ok)
      /\ Becomes({IF ok THEN SetPhase(adm, c, to)
                        ELSE [failed EXCEPT !.cell[c].resume = FALSE]})

\* restore_completed and runtime_started: a failure settles the cell dormant.
Proceeds(c, from, to, ok) ==
  LET failed == Finish(SetPhase(adm, c, "Dormant"), c, "done")
  IN  /\ Is(c, from)
      /\ Costs(~ok)
      /\ Becomes(PumpCapacity(IF ok THEN SetPhase(adm, c, to)
                                    ELSE [failed EXCEPT !.cell[c].resume = FALSE]))

RestoreCompleted(c, ok) == Proceeds(c, "Restoring", "Starting", ok)

RuntimeStarted(c, ok) == Proceeds(c, "Starting", "Publishing", ok)

\* runtime_start_timed_out: the callers fail and the start goes on.
RuntimeStartTimedOut(c) ==
  /\ Is(c, "Starting") /\ ~adm.cell[c].late
  /\ Spends("faults")
  /\ Becomes({[Finish(adm, c, "done") EXCEPT !.cell[c].late = TRUE]})

\* published
Published(c, ok) ==
  LET n == [adm EXCEPT !.cell[c].resume = FALSE]
  IN  /\ Is(c, "Publishing")
      /\ Costs(~ok)
      /\ Becomes({IF ok THEN Finish(SetPhase(n, c, "Resident"), c, "active")
                        ELSE [SetPhase(n, c, "Cleaning") EXCEPT !.cell[c].cause = "cleanup"]})

\* Mutant: a refused eviction keeps its permit.
MutantDurabilityChecked(c, ok) ==
  /\ Is(c, "EnsuringDurability")
  /\ Costs(~ok)
  /\ Becomes({SetPhase(adm, c, IF ok THEN "Cleaning" ELSE "Resident")})

\* durability_checked
DurabilityChecked(c, ok) ==
  /\ Is(c, "EnsuringDurability")
  /\ Costs(~ok)
  /\ Becomes({IF ok THEN SetPhase(adm, c, "Cleaning")
                    ELSE [SetPhase(adm, c, "Resident") EXCEPT !.evicting = @ \ {c}]})

\* runtime_stopped
RuntimeStopped(c) ==
  LET returned == [adm EXCEPT !.evicting = @ \ {c}]
      cause == adm.cell[c].cause
      next == CASE cause = "cleanup" -> {Finish(SetPhase(adm, c, "Dormant"), c, "done")}
                [] cause # "cleanup" /\ Requests(adm, c) = {} ->
                     {[SetPhase(returned, c, "Dormant")
                         EXCEPT !.cell[c].releasing = @ \/ cause = "release"]}
                [] OTHER -> AdmitOrQueue(returned, c, "ReadOwner")
  IN  /\ Is(c, "Cleaning")
      /\ Becomes(Each(EvictIdle, Each(ShedTowardFloor, Each(PumpCapacity, next))))
      /\ UNCHANGED spent

\* runtime_stop_failed: a bounded stop gave up, or a request abandoned it,
\* and the runtime restarts on the open database.
RuntimeStopFailed(c) ==
  /\ Is(c, "Cleaning") /\ adm.cell[c].cause # "cleanup"
  /\ Costs(Requests(adm, c) = {})
  /\ Becomes({[SetPhase(adm, c, "Starting") EXCEPT !.cell[c].swapping = TRUE,
                                                   !.evicting = @ \ {c}]})

\* owner_released
OwnerReleased(c, applied) ==
  LET n == [adm EXCEPT !.cell[c].releasing = FALSE]
  IN  /\ adm.cell[c].releasing
      /\ Costs(~applied)
      /\ Becomes({IF applied /\ Is(c, "Dormant") THEN SetPhase(n, c, "Inactive") ELSE n})

\* evict
Evict(c) ==
  /\ Is(c, "Resident")
  /\ Spends("evicts")
  /\ Becomes({BeginEviction(adm, c, "keep")})

\* load_sampled: the latch opens the gate, or closes it and sets the floor.
LoadSampled(pressed) ==
  /\ Spends("samples")
  /\ Becomes(IF pressed
       THEN ShedTowardFloor([adm EXCEPT !.shedding = TRUE, !.floor = IF Occupied(adm) = 0 THEN 0
                                                                   ELSE Occupied(adm) - 1])
       ELSE Each(EvictIdle, PumpCapacity([adm EXCEPT !.shedding = FALSE, !.floor = 0])))

\* Mutant: an expired cell leaves only the activation queue.
MutantExpireQueued(n, c) ==
  LET m == [Finish(n, c, "done") EXCEPT !.cell[c].watched = FALSE]
      gone(q) == SelectSeq(q, LAMBDA x : x # c)
  IN  IF m.cell[c].alarmWake \/ m.cell[c].confirming THEN m
      ELSE [SetPhase(m, c, Settled(m.cell[c].want))
              EXCEPT !.awaiting = gone(@), !.cell[c].resume = FALSE]

\* expire_queued: the queue timer of a parked cell.  An alarm wake or a
\* confirmation keeps the cell parked without a timer.
ExpireQueued(n, c) ==
  LET m == [Finish(n, c, "done") EXCEPT !.cell[c].watched = FALSE]
      gone(q) == SelectSeq(q, LAMBDA x : x # c)
  IN  IF m.cell[c].alarmWake \/ m.cell[c].confirming THEN m
      ELSE [SetPhase(m, c, Settled(m.cell[c].want))
              EXCEPT !.awaiting = gone(@), !.cwaiting = gone(@), !.cell[c].resume = FALSE]

QueueTimer(c) ==
  /\ adm.cell[c].phase \in Queue /\ adm.cell[c].watched
  /\ Becomes(Each(PumpCapacity, PumpActivations(ExpireQueued(adm, c))))
  /\ UNCHANGED spent

-----------------------------------------------------------------------------
NewCell(p) == [phase |-> p, want |-> "none", dormant |-> FALSE, reconciles |-> 0,
               cause |-> "none", releasing |-> FALSE, swapping |-> FALSE, late |-> FALSE,
               alarmWake |-> FALSE, resume |-> FALSE, confirming |-> FALSE, watched |-> FALSE]

AdmissionInit ==
  /\ ascope \in AdmissionScope
  /\ adm = [cell |-> [c \in Cell |-> NewCell(IF c \in ascope.warm THEN "Resident" ELSE "Inactive")],
            req |-> [r \in Caller |-> [at |-> "none", st |-> "idle", kind |-> "plain"]],
            permits |-> {}, awaiting |-> <<>>, cwaiting |-> <<>>, evicting |-> {},
            shedding |-> FALSE, floor |-> 0, reading |-> ascope.local # "none"]
  /\ spent = [faults |-> 0, wakes |-> 0, samples |-> 0, evicts |-> 0]

Owner == {"claimed", "self", "unowned", "foreign", "failed"}
Lease == {"live", "dead", "failed", "sweeping"}
Peers == {"peer", "full", "failed"}
Cas == {"applied", "rejected", "ambiguous", "failed"}

\* The shell answers every operation it was handed, bounded by the
\* operation deadline (watch_operations, expire_operation).
ShellAnswers(c) ==
  \/ \E x \in Owner : OwnerRead(c, x)
  \/ \E x \in Lease : NodeLeaseRead(c, x)
  \/ \E x \in Peers : CapacityPeersRead(c, x)
  \/ \E x \in Cas : OwnerCasCompleted(c, x)
  \/ \E ok \in BOOLEAN : RestoreCompleted(c, ok)
  \/ \E ok \in BOOLEAN : RuntimeStarted(c, ok)
  \/ \E ok \in BOOLEAN : Published(c, ok)
  \/ \E ok \in BOOLEAN : DurabilityChecked(c, ok)
  \/ RuntimeStopped(c)
  \/ RuntimeStopFailed(c)

AdmissionNext ==
  \/ \E r \in Caller, c \in Cell, k \in {"plain", "capacity", "handoff"} : RequestRoute(r, c, k)
  \/ \E r \in Caller : ActivityFinished(r)
  \/ \E r \in Caller : Cancel(r)
  \/ \E c \in Cell : WakeHint(c)
  \/ \E c \in Cell : AlarmSettles(c)
  \/ LocalCellsRead
  \/ \E c \in Cell : ShellAnswers(c)
  \/ \E c \in Cell : RecoveryRetry(c)
  \/ \E c \in Cell : RuntimeStartTimedOut(c)
  \/ \E c \in Cell, applied \in BOOLEAN : OwnerReleased(c, applied)
  \/ \E c \in Cell : Evict(c)
  \/ \E pressed \in BOOLEAN : LoadSampled(pressed)
  \/ \E c \in Cell : QueueTimer(c)

AdmissionSpec == AdmissionInit /\ [][AdmissionNext]_admissionVars

(***************************************************************************)
(* The shell answers what it was asked, and timers fire.  Nothing is       *)
(* assumed of callers, of handlers (a request may stay active for ever),   *)
(* of load samples or of the operator.                                     *)
(***************************************************************************)
AdmissionStep == \E c \in Cell : ShellAnswers(c) \/ RecoveryRetry(c) \/ QueueTimer(c)
AdmissionFairness == WF_admissionVars(AdmissionStep)

AdmissionLiveSpec == AdmissionSpec /\ AdmissionFairness

-----------------------------------------------------------------------------
(***************************************************************************)
(* Types, and the three ceilings of Config: resident cells, activation     *)
(* permits and eviction permits (State::validate, lib.rs 1332).            *)
(***************************************************************************)
AdmissionTypeOK ==
  /\ adm.cell \in [Cell -> CellState]
  /\ \A r \in Caller : /\ adm.req[r].st \in {"idle", "waiting", "active", "done"}
                        /\ adm.req[r].st # "idle" => adm.req[r].at \in Cell
  /\ adm.permits \subseteq Cell /\ adm.evicting \subseteq Cell
  /\ Occupied(adm) <= ascope.resident
  /\ Cardinality(adm.permits) <= ascope.activations
  /\ Cardinality(adm.evicting) <= ascope.evictions

(***************************************************************************)
(* A parked cell is in the queue its phase names, once, with the work it   *)
(* resumes; a queued cell is parked; and every phase of a cold route holds *)
(* a permit.  A cancel, a queue timer and a pump can all take the same     *)
(* cell out of a queue: a cell left parked outside the queue would never   *)
(* be admitted (State::validate, lib.rs 1375 and 1551).                    *)
(***************************************************************************)
QueuesAgree ==
  LET here(q, p) == /\ ToSet(q) = {c \in Cell : Is(c, p) /\ adm.cell[c].want # "none"}
                    /\ ToSet(q) = {c \in Cell : Is(c, p)}
                    /\ IsInjective(q)
  IN  /\ here(adm.awaiting, "WaitingActivation")
      /\ here(adm.cwaiting, "WaitingCapacity")
      /\ ToSet(adm.awaiting) \cap adm.permits = {}
      /\ \A c \in Cell : /\ adm.cell[c].phase \in PermitPhase \ {"Cleaning"}
                         /\ ~adm.cell[c].swapping
                         => c \in adm.permits

(***************************************************************************)
(* No lost wakeup at the gate: between events no cell waits for a          *)
(* residency slot while one is free and the gate is open, and none waits   *)
(* for an activation permit while one is free.  Every path that gives a    *)
(* slot or a permit back has to pump the queue (pump_capacity,             *)
(* pump_activations).                                                      *)
(***************************************************************************)
NoIdleRoom ==
  /\ HasCapacity(adm) => adm.cwaiting = <<>>
  /\ Cardinality(adm.permits) < ascope.activations => adm.awaiting = <<>>

(***************************************************************************)
(* An eviction permit is held exactly while its eviction runs.  A request  *)
(* rescues a nominated cell, a proof fails, a stop gives up or ends with   *)
(* demand waiting: each of them returns the permit, or "it counts against  *)
(* max_evictions forever" (lib.rs 3671) and no cell is ever shed again.    *)
(***************************************************************************)
EvictionPermitsReturn ==
  adm.evicting = {c \in Cell : \/ Is(c, "EnsuringDurability")
                               \/ Is(c, "Cleaning") /\ adm.cell[c].cause # "cleanup"}

Parked(c) == adm.cell[c].phase \in Queue

(***************************************************************************)
(* Everyone waiting on everyone: the permits may all be held by cells that *)
(* wait for a slot, the slots by residents that never go idle, and the     *)
(* gate may be latched shut for ever.  Every request the gate holds is     *)
(* still answered, because a cell is parked with a timer.  The exception   *)
(* is a request that joins a cell an alarm wake or a confirmation keeps    *)
(* parked after its timer fired (watch_queued, expire_queued).             *)
(***************************************************************************)
WaiterSettles ==
  \A r \in Caller :
    (/\ adm.req[r].st = "waiting" /\ adm.req[r].kind # "handoff"
     /\ Parked(adm.req[r].at) => adm.cell[adm.req[r].at].watched)
      ~> (adm.req[r].st # "waiting")

(***************************************************************************)
(* The same of every request, as watch_queued's documentation has it.  It  *)
(* does not hold of the requests WaiterSettles leaves out.                 *)
(***************************************************************************)
EveryWaiterSettles ==
  \A r \in Caller : (adm.req[r].st = "waiting" /\ adm.req[r].kind # "handoff")
                      ~> (adm.req[r].st # "waiting")

(***************************************************************************)
(* State::validate (lib.rs 1463): a cell being confirmed is in its owner   *)
(* read or queued for it.  It does not hold: Cancel of the only request of *)
(* a parked cell leaves the mark on an inactive one.                       *)
(***************************************************************************)
ConfirmingIsQueued ==
  \A c \in Cell : adm.cell[c].confirming => adm.cell[c].phase \in {"ReadingOwner", "WaitingActivation"}
=============================================================================
