----------------------------- MODULE AlarmWake -----------------------------
(***************************************************************************)
(* Alarm discovery: how the alarm row of one cell stays findable in the    *)
(* bucket while the cell sleeps, moves and crashes                         *)
(* (crates/celld/wake.rs, wake_entry.rs, storage/wake_record.rs,           *)
(* crates/logic/wake.rs, and the alarm handlers of crates/logic/lib.rs).   *)
(*                                                                         *)
(* Every committed change of the alarm row is an installation, named by    *)
(* the writer's epoch and a sequence that never repeats within it.  An     *)
(* armed installation owns one object under wake/entries/; a retirement    *)
(* record per cell holds the largest installation proved durable by the    *)
(* owner, and everything older may be deleted.  PUTs and DELETEs can land  *)
(* late, sessions crash or are fenced, and the bucket keeps only the rows  *)
(* that were uploaded.                                                     *)
(*                                                                         *)
(* Abstractions.  One cell.  A row is [seq, at, acked]: its sequence, its  *)
(* minute (NoAlarm when there is no alarm) and a ghost flag, set when the  *)
(* response that revealed it left.  A session is one epoch's residency;    *)
(* row i of a session is its i-th committed row, row 1 the restored one,   *)
(* and its replication position is i.  The LIST page is one entry at a     *)
(* time, the retirement CAS one step (its token makes it atomic).          *)
(***************************************************************************)
EXTENDS Integers, Sequences, SequencesExt, FiniteSetsExt

CONSTANT AlarmScope   \* a set of records: the bounds of each instance
                      \* [epochs, installs, faults: how many; kinds: which
                      \* faults; minutes: what requests set; armed: the alarm
                      \* at the start, or NoAlarm; horizon: the last
                      \* minute; zombie: the lease may lapse under a running
                      \* session; evicts: cells may hibernate]

VARIABLES wscope,     \* the bounds of this behaviour
          wowner,     \* the epoch of the owner record (0: never claimed)
          wsess,      \* epoch -> session
          entries,    \* objects under wake/entries/
          puts,       \* entry PUTs sent and not landed
          dels,       \* entry DELETEs sent and not landed
          frontier,   \* the retirement record
          tasks,      \* wake maintenance in progress
          now,        \* the wall clock, in minutes
          wused       \* installs and faults spent

alarmVars == <<wscope, wowner, wsess, entries, puts, dels, frontier, tasks, now, wused>>

NoAlarm == -1
NoReport == [row |-> 0, covered |-> FALSE, fin |-> FALSE]
NoCore == [alarm |-> "none", at |-> NoAlarm, covered |-> FALSE, staged |-> NoReport,
           src |-> 0, wake |-> FALSE, done |-> NoReport]
NoWakeSession == [phase |-> "none", rows |-> <<>>, up |-> 0, core |-> NoCore, mail |-> <<>>,
                  confirmed |-> {}, settled |-> 0, busy |-> FALSE]

\* A publication identity, ordered by epoch and then by sequence.
Before(a, b) == a.epoch < b.epoch \/ (a.epoch = b.epoch /\ a.seq < b.seq)
Entry(e, i) == [epoch |-> e, seq |-> wsess[e].rows[i].seq, at |-> wsess[e].rows[i].at]

\* Retirement::retires: everything older, and the tombstone's own name.
MutantRetires(r, x) == x.epoch = r.epoch /\ Before(x, r)
Retires(r, x) == Before(x, r) \/ (x.epoch = r.epoch /\ x.seq = r.seq /\ r.at = NoAlarm)

SessionRuns(e) == wsess[e].phase \in {"live", "evicting"}
LastRow(e) == Len(wsess[e].rows)   \* the registry's cached row

\* The row a claimant after epoch e restores: the newest uploaded row of the
\* newest epoch that uploaded any.
KeptRow[e \in Nat] ==
  IF e = 0 THEN [seq |-> 0, at |-> NoAlarm, acked |-> FALSE]
  ELSE IF wsess[e].up > 0 THEN wsess[e].rows[wsess[e].up] ELSE KeptRow[e - 1]

\* WakeCore::covered: the newest confirmed publication is this installation.
EntryCovered(s, i) == s.rows[i].at # NoAlarm /\ s.confirmed # {} /\ Max(s.confirmed) = i

\* A committed turn that moved the alarm row: the triggers of _cf_WAKE take
\* the next sequence, the reporter caches the row and tells the core.
Installs(s, at) ==
  LET last == s.rows[Len(s.rows)]
      i == Len(s.rows) + 1
  IN [s EXCEPT !.rows = Append(@, [seq |-> last.seq + 1, at |-> at, acked |-> FALSE]),
               !.mail = IF at = last.at THEN @
                        ELSE Append(@, [row |-> i, covered |-> FALSE, fin |-> FALSE])]

\* WakeFlusher::publish: a PUT of the installation's own name, unless there is
\* no alarm or the name is confirmed already.
NeedsPut(e, i) == wsess[e].rows[i].at # NoAlarm /\ ~EntryCovered(wsess[e], i)
Put(e, i) == [of |-> e, row |-> i, key |-> Entry(e, i), waits |-> TRUE]

\* schedule_wake_maintenance for the snapshot of row i.  A task whose row is
\* settled or no longer the cached one ends at once, and stays that way; a
\* second task for a row under maintenance repeats the first.
Maintains(e, i) ==
  IF wsess[e].settled >= i \/ LastRow(e) # i \/ \E t \in tasks : t.of = e /\ t.row = i
  THEN tasks
  ELSE tasks \cup {[of |-> e, row |-> i, step |-> "start"]}

(***************************************************************************)
(* alarm_observed: what the core makes of a report of row m.row.  The      *)
(* result is the session after it and whether ReconcileWakeEntry left.     *)
(***************************************************************************)
Observed(s, m, firingSettled) ==
  LET core == s.core
      row == s.rows[m.row]
      stays == [s EXCEPT !.phase = "live"]     \* cancel_eviction
      settles ==
        [stays EXCEPT !.core = [core EXCEPT
           !.alarm = IF row.at = NoAlarm THEN "none" ELSE "armed",
           !.at = row.at, !.covered = m.covered, !.staged = NoReport, !.done = NoReport,
           !.src = m.row, !.wake = @ /\ row.at # NoAlarm]]
  IN IF core.src > m.row
     THEN [s |-> s, reconcile |-> FALSE]
     ELSE IF core.alarm = "firing" /\ ~firingSettled
     THEN [s |-> IF core.staged.row > m.row THEN stays
                 ELSE IF row.at = core.at /\ core.staged = NoReport /\ m.row = core.src
                 THEN [stays EXCEPT !.core.covered = m.covered]
                 ELSE [stays EXCEPT !.core.staged = m],
           reconcile |-> FALSE]
     ELSE [s |-> settles,
           reconcile |-> \/ row.at # core.at
                         \/ core.wake /\ row.at = NoAlarm
                         \/ core.src # m.row /\ (row.at # NoAlarm \/ row.seq > 0)]

Faults(kind) ==
  /\ kind \in wscope.kinds /\ wused.faults < wscope.faults
  /\ wused' = [wused EXCEPT !.faults = @ + 1]

\* The first owner is resident and has uploaded what it committed: no alarm
\* yet or, with scope.armed, an acknowledged one whose entry is published and
\* whose retirement record is written.
Idle == [NoWakeSession EXCEPT !.phase = "live", !.up = 1, !.core.src = 1,
                              !.rows = <<[seq |-> 0, at |-> NoAlarm, acked |-> FALSE]>>]
Armed(at) == [Idle EXCEPT !.rows = Append(@, [seq |-> 1, at |-> at, acked |-> TRUE]),
                          !.up = 2, !.confirmed = {2}, !.settled = 2,
                          !.core = [@ EXCEPT !.src = 2, !.alarm = "armed", !.at = at,
                                             !.covered = TRUE]]

AlarmInit ==
  /\ wscope \in AlarmScope
  /\ wowner = 1
  /\ wsess = [e \in 1..wscope.epochs |->
                IF e > 1 THEN NoWakeSession
                ELSE IF wscope.armed = NoAlarm THEN Idle ELSE Armed(wscope.armed)]
  /\ puts = {} /\ dels = {} /\ tasks = {} /\ now = 0
  /\ \/ /\ wscope.armed = NoAlarm /\ entries = {}
        /\ frontier = [epoch |-> 0, seq |-> 0, at |-> NoAlarm]
     \/ /\ wscope.armed # NoAlarm /\ frontier = [epoch |-> 1, seq |-> 1, at |-> wscope.armed]
        /\ entries = {frontier}
  /\ wused = [installs |-> 0, faults |-> 0]

-----------------------------------------------------------------------------
(***************************************************************************)
(* Sessions.                                                               *)
(***************************************************************************)
\* A new owner takes the next epoch.  The lease of the previous owner has
\* run out, or its session has ended; with scope.zombie it may still run.
Claimable ==
  /\ wowner < wscope.epochs
  /\ \/ wsess[wowner].phase \in {"gone", "dormant"}
     \/ wscope.zombie /\ wsess[wowner].phase = "live"

Claim(wake) ==
  /\ wowner' = wowner + 1
  /\ wsess' = [wsess EXCEPT ![wowner + 1] =
                 [NoWakeSession EXCEPT !.phase = "claimed", !.core.wake = wake]]
  /\ UNCHANGED <<wscope, entries, puts, dels, frontier, tasks, now, wused>>

RequestClaims == Claimable /\ Claim(FALSE)

\* due_scan and the collector's refresh: an entry whose minute has come is a
\* hint, and the hinted cell activates wherever its owner is not running.
HintClaims ==
  /\ Claimable
  /\ \E x \in entries : x.at <= now
  /\ Claim(TRUE)

\* cell_alarm_timer on a dormant cell: the owner wakes it itself.
TimerClaims ==
  /\ Claimable
  /\ wsess[wowner].phase = "dormant"
  /\ wsess[wowner].core.alarm = "armed" /\ wsess[wowner].core.at <= now
  /\ Claim(TRUE)

\* Restore, wake_record::initialize (the epoch moves, the sequence stays) and
\* the observation the start of the runtime sends.
Restores(e) ==
  /\ wsess[e].phase = "claimed"
  /\ wsess' = [wsess EXCEPT ![e].phase = "live",
                            ![e].rows = <<KeptRow[e - 1]>>,
                            ![e].mail = <<[row |-> 1, covered |-> FALSE, fin |-> FALSE]>>]
  /\ UNCHANGED <<wscope, wowner, entries, puts, dels, frontier, tasks, now, wused>>

UploadsRow(e) ==
  /\ wsess[e].up < LastRow(e)
  /\ SessionRuns(e)
  /\ wsess' = [wsess EXCEPT ![e].up = @ + 1]
  /\ UNCHANGED <<wscope, wowner, entries, puts, dels, frontier, tasks, now, wused>>

\* The process is lost: its mailbox, caches and tasks with it.  A PUT already
\* sent may still land.
Gone(e) ==
  /\ wsess' = [wsess EXCEPT ![e].phase = "gone", ![e].mail = <<>>, ![e].busy = FALSE,
                            ![e].core = NoCore, ![e].confirmed = {}, ![e].settled = 0]
  /\ tasks' = {t \in tasks : t.of # e}
  /\ puts' = {[p EXCEPT !.waits = @ /\ p.of # e] : p \in puts}

Crashes(e) ==
  /\ wsess[e].phase \in {"claimed", "live", "evicting"} /\ e < wscope.epochs
  /\ Faults("crash")
  /\ Gone(e)
  /\ UNCHANGED <<wscope, wowner, entries, dels, frontier, now>>

\* The session finds out that its lease or its record is lost (a failed
\* output proof or a fence).
FencesSession(e) ==
  /\ SessionRuns(e) /\ wowner # e
  /\ Gone(e)
  /\ UNCHANGED <<wscope, wowner, entries, dels, frontier, now, wused>>

-----------------------------------------------------------------------------
(***************************************************************************)
(* Requests and the alarm handler.                                         *)
(***************************************************************************)
\* A request sets (or deletes) the alarm: the row commits, the PUT of its
\* entry is launched against the event's output gate.
SetsAlarm(e, at) ==
  /\ wsess[e].phase = "live" /\ wsess[e].core.src > 0
  /\ at = NoAlarm => wsess[e].rows[LastRow(e)].at # NoAlarm
  /\ wused.installs < wscope.installs
  /\ wused' = [wused EXCEPT !.installs = @ + 1]
  /\ LET s == Installs(wsess[e], at)
         i == Len(s.rows)
     IN /\ wsess' = [wsess EXCEPT ![e] = [s EXCEPT !.busy = TRUE]]
        /\ puts' = IF at = NoAlarm THEN puts
                   ELSE puts \cup {[of |-> e, row |-> i, waits |-> TRUE,
                                    key |-> [epoch |-> e, seq |-> s.rows[i].seq, at |-> at]]}
  /\ UNCHANGED <<wscope, wowner, entries, dels, frontier, tasks, now>>

\* The response leaves: the event's PUT landed and the output gate proved the
\* row durable under this owner.
Acknowledges(e, i) ==
  /\ wsess[e].busy /\ i \in wsess[e].confirmed /\ ~wsess[e].rows[i].acked
  /\ wsess[e].up >= i /\ wowner = e
  /\ wsess' = [wsess EXCEPT ![e].rows[i].acked = TRUE]
  /\ UNCHANGED <<wscope, wowner, entries, puts, dels, frontier, tasks, now, wused>>

\* ActivityFinished carries the cached row and its coverage, read under the
\* registry lock.
FinishesActivity(e) ==
  /\ wsess[e].busy /\ SessionRuns(e)
  /\ \A k \in 1..Len(wsess[e].mail) : ~wsess[e].mail[k].fin
  /\ wsess' = [wsess EXCEPT ![e].mail =
       Append(@, [row |-> LastRow(e), covered |-> EntryCovered(wsess[e], LastRow(e)), fin |-> TRUE])]
  /\ UNCHANGED <<wscope, wowner, entries, puts, dels, frontier, tasks, now, wused>>

\* A request that leaves the alarm alone.
ReadsOnly(e) ==
  /\ wsess[e].phase = "live" /\ ~wsess[e].busy
  /\ wsess[e].core.alarm = "armed" /\ ~wsess[e].core.covered
  /\ EntryCovered(wsess[e], LastRow(e))
  /\ wsess' = [wsess EXCEPT ![e].busy = TRUE]
  /\ UNCHANGED <<wscope, wowner, entries, puts, dels, frontier, tasks, now, wused>>

\* Message::AlarmObserved and Message::ActivityFinished reach the core.
CoreObserves(e) ==
  /\ SessionRuns(e) /\ wsess[e].mail # <<>>
  /\ LET m == Head(wsess[e].mail)
         o == Observed(wsess[e], m, FALSE)
     IN /\ wsess' = [wsess EXCEPT ![e] =
                       [o.s EXCEPT !.mail = Tail(@), !.busy = @ /\ ~m.fin]]
        /\ tasks' = IF o.reconcile THEN Maintains(e, m.row) ELSE tasks
  /\ UNCHANGED <<wscope, wowner, entries, puts, dels, frontier, now, wused>>

\* cell_alarm_timer on a running cell.
AlarmFires(e) ==
  /\ SessionRuns(e) /\ wowner = e
  /\ wsess[e].core.alarm = "armed" /\ wsess[e].core.at <= now
  /\ wsess' = [wsess EXCEPT ![e].phase = "live", ![e].core.alarm = "firing",
                            ![e].core.wake = FALSE, ![e].core.staged = NoReport]
  /\ UNCHANGED <<wscope, wowner, entries, puts, dels, frontier, tasks, now, wused>>

\* The handler's turn consumes the row it was fired for, and answers with the
\* row it leaves.
HandlerCommits(e) ==
  /\ wsess[e].core.alarm = "firing" /\ wsess[e].core.done = NoReport
  /\ LET row == wsess[e].rows[LastRow(e)]
         s == IF row.at = NoAlarm \/ row.at > now THEN wsess[e] ELSE Installs(wsess[e], NoAlarm)
         i == Len(s.rows)
     IN wsess' = [wsess EXCEPT ![e] = [s EXCEPT !.core.done =
                    [row |-> i, covered |-> EntryCovered(s, i), fin |-> FALSE]]]
  /\ UNCHANGED <<wscope, wowner, entries, puts, dels, frontier, tasks, now, wused>>

\* alarm_finished: once the consuming write is proved, a staged observation
\* or else the handler's answer settles the firing.
AlarmSettled(e) ==
  /\ wsess[e].core.alarm = "firing" /\ wsess[e].core.done # NoReport
  /\ wsess[e].up >= wsess[e].core.done.row /\ wowner = e
  /\ LET core == wsess[e].core
         m == IF core.staged # NoReport THEN core.staged ELSE core.done
         o == Observed(wsess[e], m, TRUE)
     IN /\ wsess' = [wsess EXCEPT ![e] = o.s]
        /\ tasks' = IF o.reconcile THEN Maintains(e, m.row) ELSE tasks
  /\ UNCHANGED <<wscope, wowner, entries, puts, dels, frontier, now, wused>>

\* The firing fails or outlives its operation deadline: armed again.
AlarmRetries(e) ==
  /\ wsess[e].core.alarm = "firing"
  /\ Faults("retry")
  /\ wsess' = [wsess EXCEPT ![e].core.alarm = "armed", ![e].core.done = NoReport,
                            ![e].core.staged = NoReport]
  /\ UNCHANGED <<wscope, wowner, entries, puts, dels, frontier, tasks, now>>

\* begin_eviction: never with an uncovered or firing alarm.
MutantMayEvict(s) == ~s.busy
MayEvict(s) == ~s.busy /\ (s.core.alarm = "none" \/ (s.core.alarm = "armed" /\ s.core.covered))

BeginsEviction(e) ==
  /\ wsess[e].phase = "live" /\ wsess[e].core.src > 0 /\ MayEvict(wsess[e])
  /\ wscope.evicts /\ e < wscope.epochs
  /\ wsess' = [wsess EXCEPT ![e].phase = "evicting"]
  /\ UNCHANGED <<wscope, wowner, entries, puts, dels, frontier, tasks, now, wused>>

\* EnsureDurable and the stop of the runtime: the core keeps the alarm and its
\* timer, the registry loses the cell.
Hibernates(e) ==
  /\ wsess[e].phase = "evicting" /\ wsess[e].up = LastRow(e) /\ wowner = e
  /\ wsess' = [wsess EXCEPT ![e].phase = "dormant", ![e].mail = <<>>]
  /\ UNCHANGED <<wscope, wowner, entries, puts, dels, frontier, tasks, now, wused>>

-----------------------------------------------------------------------------
(***************************************************************************)
(* The bucket: PUTs and DELETEs land in any order, some of them late.      *)
(***************************************************************************)
PutLands(p) ==
  /\ entries' = entries \cup {p.key}
  /\ puts' = puts \ {p}
  /\ wsess' = IF p.waits THEN [wsess EXCEPT ![p.of].confirmed = @ \cup {p.row}] ELSE wsess
  /\ UNCHANGED <<wscope, wowner, dels, frontier, tasks, now, wused>>

\* The caller gives up on the PUT; it may land later, or never.
PutFails(p) ==
  /\ p.waits /\ Faults("put")
  /\ puts' \in {puts \ {p}, (puts \ {p}) \cup {[p EXCEPT !.waits = FALSE]}}
  /\ UNCHANGED <<wscope, wowner, wsess, entries, dels, frontier, tasks, now>>

DeleteLands(x) ==
  /\ entries' = entries \ {x} /\ dels' = dels \ {x}
  /\ UNCHANGED <<wscope, wowner, wsess, puts, frontier, tasks, now, wused>>

DeleteLost(x) ==
  /\ Faults("delete")
  /\ dels' = dels \ {x}
  /\ UNCHANGED <<wscope, wowner, wsess, entries, puts, frontier, tasks, now>>

\* Collector::pass over one listed entry: delete what the record retires, and
\* refresh what is due and not retired (MaintainWake and a wake hint to the
\* running owner; without one the entry is HintClaims' hint).
CollectorDeletes(x) ==
  /\ Retires(frontier, x) /\ x \notin dels
  /\ dels' = dels \cup {x}
  /\ UNCHANGED <<wscope, wowner, wsess, entries, puts, frontier, tasks, now, wused>>

CollectorRefreshes(x) ==
  /\ ~Retires(frontier, x) /\ x.at <= now
  /\ SessionRuns(wowner)
  /\ wsess' = [wsess EXCEPT ![wowner].core.wake = TRUE]
  /\ tasks' = Maintains(wowner, LastRow(wowner))
  /\ UNCHANGED <<wscope, wowner, entries, puts, dels, frontier, now, wused>>

-----------------------------------------------------------------------------
(***************************************************************************)
(* WakeFlusher::maintain, one remote call at a time.                       *)
(***************************************************************************)
Ends(t) == tasks' = tasks \ {t}
StepsTo(t, step) == tasks' = (tasks \ {t}) \cup {[t EXCEPT !.step = step]}

\* Already settled, or the registry shows another installation: nothing to do.
Current(t) ==
  /\ wsess[t.of].settled < t.row
  /\ SessionRuns(t.of) /\ LastRow(t.of) = t.row

MaintainStarts(t) ==
  /\ t.step = "start"
  /\ IF ~Current(t) THEN Ends(t) /\ UNCHANGED puts
     ELSE /\ StepsTo(t, "prove")
          /\ puts' = IF NeedsPut(t.of, t.row)
                     THEN {p \in puts : ~(p.of = t.of /\ p.row = t.row)} \cup {Put(t.of, t.row)}
                     ELSE puts
  /\ UNCHANGED <<wscope, wowner, wsess, entries, dels, frontier, now, wused>>

\* The owner record must still name this writer's epoch.
MutantOwnsWriter(e) == TRUE
OwnsWriter(e) == wowner = e

\* The publication has landed and the row is replicated; then the owner is
\* read.  (Both facts last, so the read's instant stands for all three.)
MaintainProves(t) ==
  /\ t.step = "prove"
  /\ \A p \in puts : ~(p.waits /\ p.of = t.of /\ p.row = t.row)
  /\ IF wsess[t.of].rows[t.row].at # NoAlarm /\ t.row \notin wsess[t.of].confirmed
     THEN Ends(t)
     ELSE /\ wsess[t.of].up >= t.row
          /\ IF OwnsWriter(t.of) THEN StepsTo(t, "retire") ELSE Ends(t)
  /\ UNCHANGED <<wscope, wowner, wsess, entries, puts, dels, frontier, now, wused>>

\* publish_retirement, the eager deletes and the settled mark.
MutantAdvanceFrontier(r) == r
AdvanceFrontier(r) == IF Before(frontier, r) THEN r ELSE frontier

MaintainRetires(t) ==
  /\ t.step = "retire"
  /\ LET r == Entry(t.of, t.row)
         old == {i \in wsess[t.of].confirmed : Retires(r, Entry(t.of, i))}
     IN /\ frontier' = AdvanceFrontier(r)
        /\ dels' = dels \cup {Entry(t.of, i) : i \in old}
                        \cup {x \in {frontier} : x.at # NoAlarm /\ Retires(r, x)}
        /\ wsess' = [wsess EXCEPT ![t.of].confirmed = @ \ old,
                                  ![t.of].settled = Max({@, t.row})]
  /\ Ends(t)
  /\ UNCHANGED <<wscope, wowner, entries, puts, now, wused>>

\* The operation deadline, a failed read or a contended CAS; the CAS may have
\* applied before its answer was lost.
MaintainFails(t) ==
  /\ Faults("maintain")
  /\ frontier' \in {frontier} \cup
                   {IF t.step = "retire" THEN AdvanceFrontier(Entry(t.of, t.row)) ELSE frontier}
  /\ Ends(t)
  /\ UNCHANGED <<wscope, wowner, wsess, entries, puts, dels, now>>

MinutePasses ==
  /\ now < wscope.horizon
  /\ now' = now + 1
  /\ UNCHANGED <<wscope, wowner, wsess, entries, puts, dels, frontier, tasks, wused>>

-----------------------------------------------------------------------------
WakeEpoch == 1..wscope.epochs

Maintenance(t) ==
  MaintainStarts(t) \/ MaintainProves(t) \/ MaintainRetires(t)

AlarmNext ==
  \/ RequestClaims \/ HintClaims \/ TimerClaims \/ MinutePasses
  \/ \E e \in WakeEpoch :
       \/ Restores(e) \/ UploadsRow(e) \/ Crashes(e) \/ FencesSession(e)
       \/ \E at \in wscope.minutes : SetsAlarm(e, at)
       \/ \E i \in 1..LastRow(e) : Acknowledges(e, i)
       \/ FinishesActivity(e) \/ ReadsOnly(e) \/ CoreObserves(e)
       \/ AlarmFires(e) \/ HandlerCommits(e) \/ AlarmSettled(e) \/ AlarmRetries(e)
       \/ BeginsEviction(e) \/ Hibernates(e)
  \/ \E p \in puts : PutLands(p) \/ PutFails(p)
  \/ \E x \in dels : DeleteLands(x) \/ DeleteLost(x)
  \/ \E x \in entries : CollectorDeletes(x) \/ CollectorRefreshes(x)
  \/ \E t \in tasks : Maintenance(t) \/ MaintainFails(t)

AlarmSpec == AlarmInit /\ [][AlarmNext]_alarmVars

(***************************************************************************)
(* Fairness: while the clock, a timer, one of the two scans, the uploader, *)
(* the mailbox or a spawned task has a step to take, one of them takes it. *)
(* Nothing is assumed of requests, faults or late PUTs.                    *)
(***************************************************************************)
AlarmStep ==
  \/ MinutePasses \/ HintClaims \/ TimerClaims
  \/ \E e \in WakeEpoch :
       Restores(e) \/ UploadsRow(e) \/ FencesSession(e) \/ CoreObserves(e) \/ FinishesActivity(e)
       \/ AlarmFires(e) \/ HandlerCommits(e) \/ AlarmSettled(e) \/ Hibernates(e)
  \/ \E p \in puts : p.waits /\ PutLands(p)
  \/ \E x \in dels : DeleteLands(x)
  \/ \E x \in entries : CollectorDeletes(x) \/ CollectorRefreshes(x)
  \/ \E t \in tasks : Maintenance(t)
AlarmFairness == WF_alarmVars(AlarmStep)

AlarmLiveSpec == AlarmSpec /\ AlarmFairness

-----------------------------------------------------------------------------
(***************************************************************************)
(* Properties.                                                             *)
(***************************************************************************)
\* Types, and what ties the caches to the bucket: a session's settled mark is
\* covered by the retirement record, a confirmed publication was a PUT of an
\* armed row, and a sequence never repeats within an epoch.
AlarmWakeTypeOK ==
  /\ wowner \in 0..wscope.epochs /\ now \in 0..wscope.horizon
  /\ \A e \in WakeEpoch :
       LET s == wsess[e] IN
       /\ s.phase \in {"none", "claimed", "live", "evicting", "dormant", "gone"}
       /\ s.phase = "none" <=> e > wowner
       /\ s.up \in 0..Len(s.rows) /\ s.core.src \in 0..Len(s.rows)
       /\ \A i, j \in 1..Len(s.rows) : i < j => s.rows[i].seq < s.rows[j].seq
       /\ \A i \in s.confirmed : s.rows[i].at # NoAlarm
       /\ s.settled > 0 => ~Before(frontier, Entry(e, s.settled))
  /\ \A x \in dels : Retires(frontier, x)

\* "An arm the caller has OBSERVED acknowledged is covered by a durable
\* entry": whatever crashes, late PUTs and late DELETEs did, an acknowledged
\* alarm that the next owner would restore has an entry at its minute.
AckedAlarmDiscoverable ==
  LET kept == KeptRow[wowner]
  IN kept.acked /\ kept.at # NoAlarm => \E x \in entries : x.at = kept.at

\* A cell that hibernates leaves a discoverable alarm, acknowledged or not
\* (the covered test of begin_eviction, against reports still in the mailbox).
HibernatedAlarmDiscoverable ==
  wsess[wowner].phase = "dormant" /\ KeptRow[wowner].at # NoAlarm
    => \E x \in entries : x.at = KeptRow[wowner].at

\* Once requests and faults stop, every acknowledged alarm that is due has
\* fired or was replaced, and every entry that is due or retired (orphans of
\* lost writes and late PUTs included) has been reclaimed.
WakesSettle ==
  <>[](/\ \A x \in entries : x.at > now /\ ~Retires(frontier, x)
       /\ LET kept == KeptRow[wowner]
          IN ~(kept.acked /\ kept.at # NoAlarm /\ kept.at <= now))
=============================================================================
