------------------------------ MODULE NodeLease ------------------------------
(* The lease of one node: how the core of a process acquires, renews, adopts  *)
(* or loses nodes/<node>.json (crates/logic/lib.rs, NodeAuthority), against a *)
(* bucket whose answers are lost or late, peers that recover the log of a     *)
(* node whose lease lapsed, and restarts of the process under the same name.  *)
(*                                                                            *)
(* Time is a count of ticks that the process and its peers share.  A          *)
(* conditional write names the tag of the record it replaces.                 *)
EXTENDS Naturals, FiniteSets

CONSTANTS
    LeaseScope   \* the bounds to explore; Init picks one of them

\* What a scope bounds: the clock, store answers that fail or are lost, changes
\* of the log the lease carries, restarts; the ticks a lease lasts; and whether
\* timers and answers are prompt (each within a tick), or may be as late as the
\* clock allows.
ASSUME LeaseAssumption ==
    LeaseScope \subseteq [ttl : Nat \ {0}, clock : Nat, faults : Nat, publishes : Nat,
                          restarts : Nat, prompt : BOOLEAN]

VARIABLES
    lscope,    \* the bounds of this behaviour
    clock,     \* the time
    record,    \* nodes/<node>.json
    node,      \* NodeAuthority of the running process
    io,        \* its operation on the bucket
    late,      \* writes whose answer was given up and which may still land
    ownLog,    \* the log state the shell stamps into the next write
    leaseUsed      \* faults, publishes and restarts so far

leaseVars == <<lscope, clock, record, node, io, late, ownLog, leaseUsed>>

NoLease == [gen |-> 0, expires |-> 0, log |-> "none", tag |-> 0]
NoPrior == [record |-> NoLease, lastOk |-> 0]
NoIo == [kind |-> "none", since |-> 0, stage |-> "sent", saw |-> NoLease, guard |-> 0]

\* A process that has not asked for its lease yet.
Unstarted(gen) ==
    [state |-> "unstarted", gen |-> gen, prior |-> NoPrior, desired |-> NoLease,
     anchor |-> 0, readback |-> FALSE, nudge |-> FALSE, renewals |-> {}, lapsed |-> FALSE,
     revived |-> FALSE]

LeaseInit ==
    /\ lscope \in LeaseScope
    /\ clock = 0 /\ record = NoLease /\ node = Unstarted(1) /\ io = NoIo
    /\ late = {} /\ ownLog = "none"
    /\ leaseUsed = [faults |-> 0, publishes |-> 0, restarts |-> 0]

TTL == lscope.ttl
HasPrior == node.prior # NoPrior
Expired == clock >= node.prior.record.expires \/ clock - node.prior.lastOk >= TTL
SameLease(a, b) == a.gen = b.gen /\ a.expires = b.expires /\ a.log = b.log
AtLeastOne(n) == IF n = 0 THEN 1 ELSE n

\* node_authoritative: the lease is evaluated when it is asked about, whatever
\* the timers did.
Authoritative ==
    /\ node.state \in {"held", "reading", "writing"}
    /\ HasPrior /\ clock - node.prior.lastOk < TTL

----------------------------------------------------------------------------
(* The states of NodeAuthority                                              *)

\* The writes that may still land once nobody waits for the running one.
GivenUp ==
    late \cup {[guard |-> io.guard, body |-> node.desired] :
                  x \in {y \in {io} : y.kind = "cas" /\ y.stage = "sent"}}

Reads == [NoIo EXCEPT !.kind = "read", !.since = clock]
Writes(guard) == [NoIo EXCEPT !.kind = "cas", !.since = clock, !.guard = guard]

\* begin_node_lease_acquisition.
Acquires(n) ==
    [n EXCEPT !.state = "reading", !.prior = NoPrior, !.readback = FALSE, !.anchor = clock,
              !.desired = [gen |-> n.gen, expires |-> clock + TTL, log |-> "none", tag |-> 0],
              !.renewals = {}, !.lapsed = FALSE, !.revived = FALSE]

\* fail_initial_node_lease, fence_node.
FailsInitial(n) == [n EXCEPT !.state = "retrying", !.renewals = {clock + AtLeastOne(TTL \div 3)}]
Fences(n) == [n EXCEPT !.state = "fenced", !.renewals = {}]

\* hold_node_lease: anchored to the instant the expiry was sampled.
MutantAnchor(n) == clock
Anchor(n) == n.anchor
Holds(n, rec) ==
    [n EXCEPT !.state = "held", !.prior = [record |-> rec, lastOk |-> Anchor(n)], !.nudge = FALSE,
              !.renewals = {Anchor(n) + IF n.nudge THEN 1 ELSE AtLeastOne(TTL \div 3)}]

\* complete_node_lease_write.
MutantKeptAuthority(n) == clock - n.anchor < TTL
KeptAuthority(n) ==
    /\ clock - n.anchor < TTL
    /\ n.prior # NoPrior => clock - n.prior.lastOk < TTL
Completes(n, rec) ==
    IF KeptAuthority(n) THEN Holds(n, rec)
    ELSE IF n.prior = NoPrior THEN FailsInitial(n) ELSE Fences(n)

\* resume_node_lease_after_failure.
MutantRetryAfter(n) == AtLeastOne(TTL \div 3)
RetryAfter(n) ==
    LET remaining == IF clock < n.prior.lastOk + TTL THEN n.prior.lastOk + TTL - clock ELSE 0
        cadence == AtLeastOne(TTL \div 3)
    IN IF n.nudge THEN 1
       ELSE IF cadence <= remaining \div 2 THEN cadence ELSE AtLeastOne(remaining \div 4)
Resumes(n) ==
    [n EXCEPT !.state = "held", !.nudge = FALSE, !.renewals = @ \cup {clock + RetryAfter(n)}]
FailsOrResumes(n) == IF n.prior = NoPrior THEN FailsInitial(n) ELSE Resumes(n)

\* The zombie arm of read_self_node_lease: an earlier write of this process
\* landed after its readback.
OwnZombie(rec) ==
    /\ HasPrior /\ rec.gen = node.desired.gen /\ rec.log = node.desired.log
    /\ rec.expires > node.prior.record.expires /\ rec.expires <= node.desired.expires
Adopts(rec) ==
    LET byDelta == node.prior.lastOk + rec.expires - node.prior.record.expires
        observed == clock + rec.expires - clock - TTL
        anchor == IF byDelta < observed THEN byDelta ELSE observed
    IN IF rec.expires <= clock \/ rec.expires < TTL THEN Fences(node)
       ELSE Resumes([node EXCEPT !.prior = [record |-> rec, lastOk |-> anchor], !.nudge = TRUE,
                                 !.revived = @ \/ Expired])

----------------------------------------------------------------------------
(* Actions of the process                                                   *)

\* start_node_lease.
StartNodeLease ==
    /\ node.state = "unstarted"
    /\ node' = Acquires(node) /\ io' = Reads
    /\ UNCHANGED <<lscope, clock, record, late, ownLog, leaseUsed>>

\* read_self_node_lease, with the record the read saw.
MutantUnrecovered(rec) == FALSE
Unrecovered(rec) == rec.gen # node.gen /\ rec.log \notin {"none", "sealed"}
SelfNodeLeaseRead ==
    /\ node.state = "reading" /\ io.stage = "served"
    /\ LET rec == io.saw IN
       \/ /\ SameLease(rec, node.desired)
          /\ node' = Completes(node, rec) /\ io' = NoIo
       \/ /\ ~SameLease(rec, node.desired) /\ HasPrior
          /\ node' = IF SameLease(rec, node.prior.record)
                     THEN Resumes([node EXCEPT !.prior.record.tag = rec.tag])
                     ELSE IF OwnZombie(rec) THEN Adopts(rec) ELSE Fences(node)
          /\ io' = NoIo
       \/ /\ ~SameLease(rec, node.desired) /\ ~HasPrior /\ (node.readback \/ Unrecovered(rec))
          /\ node' = FailsInitial(node) /\ io' = NoIo
       \/ /\ ~SameLease(rec, node.desired) /\ ~HasPrior /\ ~node.readback /\ ~Unrecovered(rec)
          /\ node' = [node EXCEPT !.state = "writing", !.desired.log = ownLog]
          /\ io' = Writes(rec.tag)
    /\ UNCHANGED <<lscope, clock, record, late, ownLog, leaseUsed>>

\* node_lease_cas_completed with an answer of the bucket.
NodeLeaseCasCompleted ==
    /\ node.state = "writing" /\ io.stage \in {"applied", "rejected"}
    /\ \/ /\ io.stage = "applied"
          /\ node' = Completes(node, [node.desired EXCEPT !.tag = io.saw.tag]) /\ io' = NoIo
       \/ /\ io.stage = "rejected"
          /\ node' = [node EXCEPT !.state = "reading"] /\ io' = Reads
    /\ UNCHANGED <<lscope, clock, record, late, ownLog, leaseUsed>>

Faulty == leaseUsed.faults < lscope.faults /\ leaseUsed' = [leaseUsed EXCEPT !.faults = @ + 1]

\* The answer is lost or the attempt times out: a write not served yet may
\* still be, and the record is read back.
CasIsAmbiguous ==
    /\ node.state = "writing" /\ Faulty
    /\ late' = GivenUp
    /\ node' = [node EXCEPT !.state = "reading", !.readback = TRUE]
    /\ io' = Reads
    /\ UNCHANGED <<lscope, clock, record, ownLog>>

\* A write the store refused without committing it, and a read that failed.
LeaseIoFails ==
    /\ node.state \in {"reading", "writing"} /\ io.stage = "sent" /\ Faulty
    /\ node' = FailsOrResumes(node) /\ io' = NoIo
    /\ UNCHANGED <<lscope, clock, record, late, ownLog>>

\* Timer::NodeLeaseRenew: retries an acquisition, renews, or finds the lease
\* expired; a timer that fires during an operation is spent.  A renewal's body
\* carries the log as the shell serializes it.
RenewFires(t) ==
    /\ t \in node.renewals /\ t <= clock
    /\ LET n == [node EXCEPT !.renewals = @ \ {t}] IN
       \/ node.state = "retrying" /\ node' = Acquires(n) /\ io' = Reads /\ UNCHANGED late
       \/ /\ node.state # "retrying" /\ HasPrior /\ Expired
          /\ node' = Fences(n) /\ io' = NoIo /\ late' = GivenUp
       \/ /\ node.state = "held" /\ ~Expired
          /\ node' = [n EXCEPT !.state = "writing", !.anchor = clock, !.readback = FALSE,
                          !.desired = [gen |-> n.gen, expires |-> clock + TTL, log |-> ownLog,
                                       tag |-> 0]]
          /\ io' = Writes(node.prior.record.tag) /\ UNCHANGED late
       \/ /\ node.state \in {"reading", "writing"} /\ ~(HasPrior /\ Expired)
          /\ node' = n /\ UNCHANGED <<io, late>>
    /\ UNCHANGED <<lscope, clock, record, ownLog, leaseUsed>>

\* Timer::NodeLeaseFence, scheduled for every lease held or adopted.
FenceFires ==
    /\ node.state \in {"held", "reading", "writing"} /\ HasPrior /\ Expired
    /\ node' = Fences(node) /\ io' = NoIo /\ late' = GivenUp
    /\ UNCHANGED <<lscope, clock, record, ownLog, leaseUsed>>

\* set_own_log and NudgeNodeLease: the log's state changed, and is published
\* by a renewal at once or as soon as the running operation ends.
PublishLog(log) ==
    /\ leaseUsed.publishes < lscope.publishes /\ node.state \in {"held", "reading", "writing"} /\ HasPrior
    /\ log \in CASE ownLog = "none" -> {"open"} [] ownLog = "open" -> {"sealed"} [] OTHER -> {}
    /\ ownLog' = log
    /\ leaseUsed' = [leaseUsed EXCEPT !.publishes = @ + 1]
    /\ node' = IF node.state = "held" THEN [node EXCEPT !.renewals = @ \cup {clock}]
               ELSE [node EXCEPT !.nudge = TRUE]
    /\ UNCHANGED <<lscope, clock, record, io, late>>

----------------------------------------------------------------------------
(* The bucket, the peers, the clock and restarts                            *)

\* The conditional write of cas_node_lease, and the read.
Served ==
    /\ io.kind # "none" /\ io.stage = "sent"
    /\ \/ /\ io.kind = "read"
          /\ io' = [io EXCEPT !.stage = "served", !.saw = record] /\ UNCHANGED record
       \/ /\ io.kind = "cas" /\ io.guard = record.tag
          /\ record' = [node.desired EXCEPT !.tag = record.tag + 1]
          /\ io' = [io EXCEPT !.stage = "applied", !.saw = record']
       \/ /\ io.kind = "cas" /\ io.guard # record.tag
          /\ io' = [io EXCEPT !.stage = "rejected"] /\ UNCHANGED record
    /\ UNCHANGED <<lscope, clock, node, late, ownLog, leaseUsed>>

LateWriteLands(w) ==
    /\ late' = late \ {w}
    /\ record' = IF w.guard = record.tag THEN [w.body EXCEPT !.tag = record.tag + 1] ELSE record
    /\ UNCHANGED <<lscope, clock, node, io, ownLog, leaseUsed>>

\* A peer recovers the log of a node whose lease lapsed, stamping the record.
PeerRecovers ==
    /\ clock >= record.expires /\ record.log \in {"open", "recovering"}
    /\ record' = [record EXCEPT !.tag = @ + 1,
                     !.log = IF @ = "open" THEN "recovering" ELSE "sealed"]
    /\ UNCHANGED <<lscope, clock, node, io, late, ownLog, leaseUsed>>

\* A prompt process has nothing due, and no operation older than a tick.
Due ==
    \/ \E t \in node.renewals : t <= clock
    \/ node.state \in {"held", "reading", "writing"} /\ HasPrior /\ Expired
    \/ io.kind # "none" /\ io.since < clock
    \/ node.state = "unstarted"
Tick ==
    /\ clock < lscope.clock /\ (lscope.prompt => ~Due)
    /\ clock' = clock + 1
    /\ node' = [node EXCEPT !.lapsed = @ \/ (/\ HasPrior /\ record.gen = node.gen
                                             /\ clock + 1 >= record.expires)]
    /\ UNCHANGED <<lscope, record, io, late, ownLog, leaseUsed>>

\* The process ends, and another starts under the node's name.
Restarts ==
    /\ leaseUsed.restarts < lscope.restarts
    /\ leaseUsed' = [leaseUsed EXCEPT !.restarts = @ + 1]
    /\ late' = GivenUp
    /\ node' = Unstarted(node.gen + 1) /\ io' = NoIo /\ ownLog' = "none"
    /\ UNCHANGED <<lscope, clock, record>>

----------------------------------------------------------------------------
LeaseNext ==
    \/ StartNodeLease \/ SelfNodeLeaseRead \/ NodeLeaseCasCompleted
    \/ CasIsAmbiguous \/ LeaseIoFails
    \/ \E t \in node.renewals : RenewFires(t)
    \/ FenceFires
    \/ \E log \in {"open", "sealed"} : PublishLog(log)
    \/ Served \/ \E w \in late : LateWriteLands(w)
    \/ PeerRecovers \/ Tick \/ Restarts

LeaseSpec == LeaseInit /\ [][LeaseNext]_leaseVars

----------------------------------------------------------------------------
(* Properties                                                               *)

\* The states of NodeAuthority; and a held lease ends, on the process's clock,
\* no later than the record it holds expires.
LeaseTypeOK ==
    /\ node.state \in {"unstarted", "reading", "writing", "held", "retrying", "fenced"}
    /\ record.log \in {"none", "open", "recovering", "sealed"}
    /\ (io.kind = "none") = (node.state \notin {"reading", "writing"})
    /\ HasPrior => node.prior.lastOk + TTL <= node.prior.record.expires

\* A process that held the lease while the published record lapsed does not
\* act with authority again, whatever renewal of its own is answered
\* afterwards: from that instant a peer may have read the record dead and begun
\* a takeover.  The adoption of a late write is the exception; it asks whether
\* the adopted record is live and not whether the held one still was.
LapsedStaysLapsed == node.lapsed /\ ~node.revived => ~Authoritative

\* The same with no exception.  It does not hold: a renewal whose answer was
\* lost can be adopted after the held record has lapsed.
NeverRevived == node.lapsed => ~Authoritative

\* Whatever processes restart under the node's name and whichever of their
\* writes land late, a record whose log is not sealed is replaced only by the
\* session that opened the log: the evidence that a recovery is owed survives.
EvidenceKept == [][record'.gen # record.gen => record.log \in {"none", "sealed"}]_leaseVars

\* A prompt process whose store fails it once (a failed read or write, a lost
\* answer, a write that lands after its readback) does not lose its lease.
SurvivesOneFault ==
    lscope.prompt /\ leaseUsed.faults <= 1 /\ leaseUsed.publishes = 0 => node.state # "fenced"

=============================================================================
