----------------------------- MODULE OutputGate -----------------------------
(* The output gate of one cell on one node (crates/logic/output_gate.rs and  *)
(* the handlers of crates/logic/lib.rs that open or drain its barriers).     *)
(* Requests and alarms commit writes; an output that reveals the database    *)
(* is held on a barrier until the replica proves the writes it can reveal,   *)
(* and a proof by the bucket counts only after a read of the owner record.   *)
(* The change exporter's tickets ride barriers to share that read.           *)
(*                                                                           *)
(* A write is a number.  A position counts the commits of one runtime's      *)
(* connection, so it starts over with each runtime; a barrier's proof is of  *)
(* the image at the moment it was asked.                                     *)
EXTENDS Naturals, Sequences, SequencesExt, FiniteSets

CONSTANTS
    Request,    \* request slots; a slot serves one request after another
    GateScope   \* the bounds to explore; Init picks one of them

\* What a scope bounds: the requests at once, writes, export tickets, epochs
\* this node reaches, proofs and reads that fail; whether followers can prove
\* a write, an alarm fires, the node drains; whether it loses the record, its
\* lease, or both; how often the runtime is swapped; and whether handlers may
\* leave a commit that no output of theirs and no alarm's barrier stands for.
ASSUME GateAssumption ==
    GateScope \subseteq [requests : SUBSET Request, writes : Nat, tickets : Nat, epochs : Nat,
                         failures : Nat, fleet : BOOLEAN, alarm : BOOLEAN, drain : BOOLEAN,
                         loss : SUBSET {"record", "lease"}, swaps : Nat,
                         abandons : BOOLEAN]

VARIABLES
    gscope,     \* the bounds of this behaviour
    cell,       \* phase, epoch, the runtime's position, proven_position
    image,      \* writes in the runtime's database
    uploaded,   \* writes in this epoch's prefix in the bucket
    shipped,    \* writes every member of the ensemble confirmed
    kept,       \* writes that a later owner of the cell restores
    owner,      \* the record names this node at this epoch
    lease,      \* the node lease is unexpired by this node's own clocks
    gate,       \* the barriers, in the order of their operation ids
    req,        \* requests: what they sampled, and whether they are held
    ticket,     \* export tickets: state, commits and owner when asked
    alarm,      \* alarm handlers that committed and have not reported: the one
                \* the core has firing, and those whose firing it has expired
    told,       \* writes revealed by released outputs
    used        \* writes issued, failures and swaps so far

gateVars == <<gscope, cell, image, uploaded, shipped, kept, owner, lease, gate,
              req, ticket, alarm, told, used>>

NoRequest == [state |-> "none", before |-> 0, unanswered |-> FALSE, pos |-> 0,
              wrote |-> FALSE, epoch |-> 0, seen |-> {}]
NoTicket == [state |-> "none", commits |-> {}, owned |-> FALSE]
NoAlarm == [firing |-> 0, expired |-> 0]
Tickets == 1 .. gscope.tickets

GateInit ==
    /\ gscope \in GateScope
    /\ cell = [phase |-> "resident", epoch |-> 1, pos |-> 0, proven |-> 0]
    /\ image = {} /\ uploaded = {} /\ shipped = {} /\ kept = {} /\ told = {}
    /\ owner = TRUE /\ lease = TRUE /\ gate = <<>>
    /\ req = [r \in Request |-> NoRequest]
    /\ ticket = [t \in 1 .. gscope.tickets |-> NoTicket]
    /\ alarm = NoAlarm
    /\ used = [writes |-> 0, failures |-> 0, swaps |-> 0, drained |-> FALSE]

Resident == cell.phase = "resident"

----------------------------------------------------------------------------
(* Handlers: requests and the alarm                                         *)

\* A request is routed to the resident cell; the event notes its position.
RequestStarts(r) ==
    /\ r \in gscope.requests /\ Resident /\ lease /\ req[r].state = "none"
    /\ req' = [req EXCEPT ![r] = [NoRequest EXCEPT !.state = "running", !.before = cell.pos]]
    /\ UNCHANGED <<gscope, cell, image, uploaded, shipped, kept, owner, lease,
                   gate, ticket, alarm, told, used>>

CommitOne ==
    /\ Resident /\ used.writes < gscope.writes
    /\ used' = [used EXCEPT !.writes = @ + 1]
    /\ image' = image \cup {used.writes + 1}
    /\ cell' = [cell EXCEPT !.pos = @ + 1]
    /\ UNCHANGED <<gscope, uploaded, shipped, kept, owner, lease, gate, ticket, told>>

RequestWrites(r) ==
    /\ req[r].state = "running"
    /\ CommitOne
    /\ req' = [req EXCEPT ![r].unanswered = TRUE]
    /\ UNCHANGED alarm

\* egress_gate: the shell samples the position, the epoch and what the effect
\* shows in one turn of the isolate; the core sees the ticket later.
RequestSamples(r) ==
    /\ Resident /\ req[r].state = "running"
    /\ req' = [req EXCEPT ![r] = [@ EXCEPT !.state = "sampled", !.pos = cell.pos,
                                  !.wrote = cell.pos > req[r].before, !.epoch = cell.epoch,
                                  !.seen = image]]
    /\ UNCHANGED <<gscope, cell, image, uploaded, shipped, kept, owner, lease,
                   gate, ticket, alarm, told, used>>

\* activity_finished: a request whose output is held stays pinned until the
\* barrier settles; any other ends, and its ticket, if one is on its way, is
\* refused.  What it committed after its answer (waitUntil), before a failure
\* outside a turn, or before it was cancelled, has no output to prove it.
RequestEnds(r) ==
    /\ \/ req[r].state = "running" /\ ~req[r].unanswered
       \/ gscope.abandons /\ req[r].state \in {"running", "sampled"}
    /\ req' = [req EXCEPT ![r] = NoRequest]
    /\ UNCHANGED <<gscope, cell, image, uploaded, shipped, kept, owner, lease,
                   gate, ticket, alarm, told, used>>

\* cell_alarm_timer, and the consuming commit of the handler it fires.
AlarmCommits ==
    /\ gscope.alarm /\ lease /\ alarm.firing = 0
    /\ CommitOne
    /\ alarm' = [alarm EXCEPT !.firing = 1]
    /\ UNCHANGED req

\* The firing's deadline passes: alarm_finished re-arms the alarm with no
\* barrier, and the handler runs on.
AlarmExpires ==
    /\ gscope.abandons /\ alarm.firing = 1
    /\ alarm' = [firing |-> 0, expired |-> alarm.expired + 1]
    /\ UNCHANGED <<gscope, cell, image, uploaded, shipped, kept, owner, lease,
                   gate, req, ticket, told, used>>

----------------------------------------------------------------------------
(* The gate                                                                 *)

Barrier(what, who, pos, riders) ==
    [what |-> what, who |-> who, epoch |-> cell.epoch, pos |-> pos, cover |-> image,
     proof |-> "none", verifying |-> FALSE, read |-> "none", followers |-> {},
     riders |-> riders]

Trailable(b) == b.what # "export"
Newest(S) == CHOOSE i \in S : \A j \in S : j <= i
Oldest(S) == CHOOSE i \in S : \A j \in S : i <= j

\* The requests in rs leave the gate: their outputs are released, Ok or not.
Released(rs) == [r \in Request |-> IF r \in rs THEN [NoRequest EXCEPT !.state = "running",
                                        !.before = req[r].before] ELSE req[r]]
Seen(rs) == UNION {req[r].seen : r \in rs}
HeldBack(r) == [req EXCEPT ![r].state = "held"]

\* alarm_finished with the position of its commit opens the alarm's barrier,
\* for a firing the core has expired too.
AlarmFinishes(k) ==
    /\ alarm[k] > 0 /\ Resident
    /\ alarm' = [alarm EXCEPT ![k] = @ - 1]
    /\ gate' = Append(gate, Barrier("alarm", 0, cell.pos, {}))
    /\ UNCHANGED <<gscope, cell, image, uploaded, shipped, kept, owner, lease,
                   req, ticket, told, used>>

\* Its other end: the dispatch failed and reports no position, or the cell no
\* longer runs the epoch.
AlarmFails(k) ==
    /\ alarm[k] > 0 /\ gscope.abandons
    /\ alarm' = [alarm EXCEPT ![k] = @ - 1]
    /\ UNCHANGED <<gscope, cell, image, uploaded, shipped, kept, owner, lease,
                   gate, req, ticket, told, used>>

\* proven_covers, and the barrier a read-only output joins.
MutantProvenCovers(pos) == cell.proven > 0
ProvenCovers(pos) == cell.proven >= pos
Trails(r) ==
    LET open == {i \in DOMAIN gate : Trailable(gate[i])}
    IN IF open = {}
       THEN req' = Released({r}) /\ told' = told \cup req[r].seen /\ UNCHANGED gate
       ELSE /\ gate' = [gate EXCEPT ![Newest(open)].followers = @ \cup {r}]
            /\ req' = HeldBack(r) /\ UNCHANGED told
OpensWriteBarrier(r) ==
    /\ gate' = Append(gate, Barrier("output", r, req[r].pos, {}))
    /\ req' = HeldBack(r) /\ UNCHANGED told
HoldsObserved(r) ==
    LET covers == {i \in DOMAIN gate : /\ Trailable(gate[i]) /\ gate[i].epoch = cell.epoch
                                       /\ gate[i].pos >= req[r].pos}
    IN IF covers = {} THEN OpensWriteBarrier(r)
       ELSE /\ gate' = [gate EXCEPT ![Newest(covers)].followers = @ \cup {r}]
            /\ req' = HeldBack(r) /\ UNCHANGED told

\* output: one rule for every channel.  A position above the connection's
\* first sample is observed by a read-only output too.
Output(r) ==
    /\ req[r].state = "sampled"
    /\ \/ /\ ~lease \/ ~Resident \/ req[r].epoch # cell.epoch
          /\ req' = [req EXCEPT ![r] = NoRequest] /\ UNCHANGED <<gate, told>>
       \/ /\ lease /\ Resident /\ req[r].epoch = cell.epoch
          /\ IF req[r].wrote THEN OpensWriteBarrier(r)
             ELSE IF req[r].pos > 0 /\ ~ProvenCovers(req[r].pos) THEN HoldsObserved(r)
             ELSE Trails(r)
    /\ UNCHANGED <<gscope, cell, image, uploaded, shipped, kept, owner, lease,
                   ticket, alarm, used>>

\* The exporter asks for a proof of the commits it pulled, one ticket of the
\* cell's stream at a time, or relays a facet's proof at position 0; the
\* ticket rides a barrier that has not asked its ownership read.
Captured(pos) == {w \in image : Cardinality({v \in image : v > w}) >= cell.pos - pos}
MutantRideable(pos) == {i \in DOMAIN gate : gate[i].epoch = cell.epoch /\ gate[i].pos >= pos}
Rideable(pos) ==
    {i \in DOMAIN gate : gate[i].epoch = cell.epoch /\ ~gate[i].verifying /\ gate[i].pos >= pos}
ExportTicket(t, pos) ==
    /\ ticket[t].state = "none"
    /\ pos = 0 \/ \A u \in 1 .. t - 1 : ticket[u].state \in {"fleet", "read", "failed"}
    /\ IF ~lease \/ ~Resident
       THEN ticket' = [ticket EXCEPT ![t].state = "failed"] /\ UNCHANGED gate
       ELSE /\ ticket' = [ticket EXCEPT ![t] = [state |-> "asked", owned |-> owner,
                                                commits |-> Captured(pos)]]
            /\ gate' = IF Rideable(pos) = {} THEN Append(gate, Barrier("export", t, pos, {}))
                       ELSE [gate EXCEPT ![Oldest(Rideable(pos))].riders =
                                             @ \cup {[ticket |-> t, pos |-> pos]}]
    /\ UNCHANGED <<gscope, cell, image, uploaded, shipped, kept, owner, lease,
                   req, alarm, told, used>>

----------------------------------------------------------------------------
(* The replica, the bucket and the record                                   *)

\* A sync uploads the image, for a node that lost the record too; a later
\* owner's restore has been and gone by then.
Uploads ==
    /\ cell.phase \in {"resident", "swapping"} /\ uploaded # image
    /\ uploaded' = image
    /\ kept' = IF owner THEN kept \cup image ELSE kept
    /\ UNCHANGED <<gscope, cell, image, shipped, owner, lease, gate, req, ticket,
                   alarm, told, used>>

\* Every member of the ensemble confirms: a takeover seals a member first, so
\* none confirms after it.
Ships ==
    /\ gscope.fleet /\ owner /\ Resident /\ shipped # image
    /\ shipped' = image
    /\ kept' = kept \cup image
    /\ UNCHANGED <<gscope, cell, image, uploaded, owner, lease, gate, req, ticket,
                   alarm, told, used>>

\* await_durable returns: the fleet proof is preferred.
ProofLands(i) ==
    /\ gate[i].proof = "none"
    /\ gate[i].cover \subseteq uploaded \/ gate[i].cover \subseteq shipped
    /\ gate' = [gate EXCEPT ![i].proof = IF gate[i].cover \subseteq shipped THEN "fleet" ELSE "bucket"]
    /\ UNCHANGED <<gscope, cell, image, uploaded, shipped, kept, owner, lease, req,
                   ticket, alarm, told, used>>

Fails == used.failures < gscope.failures /\ used' = [used EXCEPT !.failures = @ + 1]

\* await_durable fails, or the operation's deadline passes first.
ProofFails(i) ==
    /\ gate[i].proof # "failed" /\ Fails
    /\ gate' = [gate EXCEPT ![i].proof = "failed"]
    /\ UNCHANGED <<gscope, cell, image, uploaded, shipped, kept, owner, lease, req,
                   ticket, alarm, told>>

\* The read of VerifyOwnership reaches the bucket.
OwnerIsRead(i) ==
    /\ gate[i].verifying /\ gate[i].read = "none"
    /\ \/ /\ gate' = [gate EXCEPT ![i].read = IF owner THEN "ours" ELSE "lost"]
          /\ UNCHANGED used
       \/ /\ gate' = [gate EXCEPT ![i].read = "lost"] /\ Fails
    /\ UNCHANGED <<gscope, cell, image, uploaded, shipped, kept, owner, lease, req,
                   ticket, alarm, told>>

----------------------------------------------------------------------------
(* Settlement                                                               *)

Judged(ts, verdict) ==
    [t \in Tickets |-> IF t \in ts THEN [ticket[t] EXCEPT !.state = verdict] ELSE ticket[t]]
RidersOf(b) == {x.ticket : x \in b.riders}
TicketsOf(b) == RidersOf(b) \cup (IF b.what = "export" THEN {b.who} ELSE {})
OutputsOf(b) == b.followers \cup (IF b.what = "output" THEN {b.who} ELSE {})

\* note_proven.
Noted(b) == [cell EXCEPT !.proven = IF b.epoch = cell.epoch /\ b.pos > @ THEN b.pos ELSE @]

\* settle_gate with a proof: the riders, the owner and the followers share it.
SettleProven(i, barriers) ==
    LET b == gate[i] IN
        /\ gate' = barriers
        /\ cell' = Noted(b)
        /\ req' = Released(OutputsOf(b)) /\ told' = told \cup Seen(OutputsOf(b))
        /\ UNCHANGED alarm

\* reset_cell: everything on the gate for this residency fails with it, and
\* the runtime is discarded.
Reset ==
    /\ gate' = <<>>
    /\ cell' = [cell EXCEPT !.phase = "resetting"]
    /\ req' = [r \in Request |-> IF req[r].state = "sampled" THEN req[r] ELSE NoRequest]
    /\ ticket' = Judged({t \in Tickets : ticket[t].state = "asked"}, "failed")
    /\ alarm' = NoAlarm
    /\ UNCHANGED told

\* settle_gate without one: only the exporter's own barrier fails alone.
SettleUnproven(i) ==
    IF gate[i].what = "export"
    THEN /\ gate' = RemoveAt(gate, i)
         /\ ticket' = Judged(TicketsOf(gate[i]), "failed")
         /\ UNCHANGED <<cell, req, alarm, told>>
    ELSE Reset

\* Riders are asked again, each on an export barrier of its own.
Reasked(riders) ==
    [k \in 1 .. Cardinality(riders) |->
        LET x == SetToSeq(riders)[k] IN Barrier("export", x.ticket, x.pos, {})]

\* durable_reached with a fleet proof: it may predate the riders' tickets.
FleetProven(i) ==
    /\ gate[i].proof = "fleet" /\ ~gate[i].verifying
    /\ SettleProven(i, RemoveAt(gate, i) \o Reasked(gate[i].riders))
    /\ ticket' = Judged(TicketsOf(gate[i]) \ RidersOf(gate[i]), "fleet")
    /\ UNCHANGED <<gscope, image, uploaded, shipped, kept, owner, lease, used>>

\* durable_reached with a bucket proof: an export barrier hands its tickets to
\* an output's or an alarm's barrier still proving; any other takes the
\* export barriers it covers along and reads the record.
Hosts(i) == {j \in DOMAIN gate : /\ j # i /\ gate[j].epoch = gate[i].epoch
                                 /\ ~gate[j].verifying /\ Trailable(gate[j])}
Covered(i) == {j \in DOMAIN gate : /\ j # i /\ gate[j].epoch = gate[i].epoch
                                   /\ ~gate[j].verifying /\ gate[j].what = "export"
                                   /\ gate[j].pos <= gate[i].pos}
MutantAsRiders(j) == {[ticket |-> gate[j].who, pos |-> gate[j].pos]}
AsRiders(j) == gate[j].riders \cup {[ticket |-> gate[j].who, pos |-> gate[j].pos]}
Without(barriers, S) ==
    LET keep == SetToSortSeq(DOMAIN barriers \ S, LAMBDA a, b : a < b)
    IN [k \in 1 .. Len(keep) |-> barriers[keep[k]]]
BucketProven(i) ==
    /\ gate[i].proof = "bucket" /\ ~gate[i].verifying
    /\ IF gate[i].what = "export" /\ Hosts(i) # {}
       THEN gate' = RemoveAt([gate EXCEPT ![Oldest(Hosts(i))].riders = @ \cup AsRiders(i)], i)
       ELSE gate' = Without([gate EXCEPT ![i].verifying = TRUE,
                                         ![i].riders = @ \cup UNION {AsRiders(j) : j \in Covered(i)}],
                            Covered(i))
    /\ UNCHANGED <<gscope, cell, image, uploaded, shipped, kept, owner, lease, req,
                   ticket, alarm, told, used>>

\* durable_reached without a proof.
Unproven(i) ==
    /\ gate[i].proof = "failed"
    /\ SettleUnproven(i)
    /\ UNCHANGED <<gscope, image, uploaded, shipped, kept, owner, lease, used>>

\* ownership_verified.
OwnershipVerified(i) ==
    /\ gate[i].read # "none"
    /\ IF gate[i].read = "ours"
       THEN SettleProven(i, RemoveAt(gate, i)) /\ ticket' = Judged(TicketsOf(gate[i]), "read")
       ELSE SettleUnproven(i)
    /\ UNCHANGED <<gscope, image, uploaded, shipped, kept, owner, lease, used>>

----------------------------------------------------------------------------
(* What happens to the residency                                            *)

\* The runtime is gone and the cell is claimed again at the next epoch, which
\* restores what the bucket and the ensemble kept.
Reactivates ==
    /\ cell.phase = "resetting" /\ owner /\ lease /\ cell.epoch < gscope.epochs
    /\ cell' = [phase |-> "resident", epoch |-> cell.epoch + 1, pos |-> 0, proven |-> 0]
    /\ image' = kept /\ uploaded' = kept /\ shipped' = {}
    /\ UNCHANGED <<gscope, kept, owner, lease, gate, req, ticket, alarm, told, used>>

\* cancel_cell_outputs: a shutdown handoff fails the held outputs, keeps the
\* runtime and asks their riders again.
MutantCancelled(outs) == Without(gate, outs)
Cancelled(outs) == Without(gate, outs) \o Reasked(UNION {gate[i].riders : i \in outs})
DrainCancels ==
    /\ gscope.drain /\ Resident /\ ~used.drained
    /\ LET outs == {i \in DOMAIN gate : gate[i].what = "output"}
       IN /\ gate' = Cancelled(outs)
          /\ req' = Released(UNION {OutputsOf(gate[i]) : i \in outs})
    /\ used' = [used EXCEPT !.drained = TRUE]
    /\ UNCHANGED <<gscope, cell, image, uploaded, shipped, kept, owner, lease,
                   ticket, alarm, told>>

\* pump_swap at swap_safe_point: no request, no firing alarm, no barrier a
\* reader could trail.  The stop waits for no proof, and the next runtime's
\* connection counts from zero.
SwapStops ==
    /\ used.swaps < gscope.swaps /\ Resident /\ lease /\ ~used.drained
    /\ \A r \in Request : req[r].state = "none"
    /\ alarm.firing = 0 /\ \A i \in DOMAIN gate : ~Trailable(gate[i])
    /\ cell' = [cell EXCEPT !.phase = "swapping"]
    /\ used' = [used EXCEPT !.swaps = @ + 1]
    /\ UNCHANGED <<gscope, image, uploaded, shipped, kept, owner, lease, gate, req,
                   ticket, alarm, told>>
SwapStarts ==
    /\ cell.phase = "swapping"
    /\ cell' = [cell EXCEPT !.phase = "resident", !.pos = 0, !.proven = 0]
    /\ UNCHANGED <<gscope, image, uploaded, shipped, kept, owner, lease, gate, req,
                   ticket, alarm, told, used>>

\* A peer takes the record over, and this node's clocks reach its lease's end:
\* in either order when clocks disagree.
TakenOver ==
    /\ "record" \in gscope.loss /\ owner
    /\ owner' = FALSE
    /\ UNCHANGED <<gscope, cell, image, uploaded, shipped, kept, lease, gate, req,
                   ticket, alarm, told, used>>
LeaseEnds ==
    /\ "lease" \in gscope.loss /\ lease
    /\ lease' = FALSE
    /\ UNCHANGED <<gscope, cell, image, uploaded, shipped, kept, owner, gate, req,
                   ticket, alarm, told, used>>

\* fence: every barrier fails; the alarm's wake entry stays for the next owner.
Fence ==
    /\ ~lease /\ cell.phase # "fenced"
    /\ cell' = [cell EXCEPT !.phase = "fenced"]
    /\ gate' = <<>>
    /\ req' = [r \in Request |-> IF req[r].state = "sampled" THEN req[r] ELSE NoRequest]
    /\ ticket' = Judged({t \in Tickets : ticket[t].state = "asked"}, "failed")
    /\ UNCHANGED <<gscope, image, uploaded, shipped, kept, owner, lease, alarm, told, used>>

----------------------------------------------------------------------------
Settles(i) ==
    ProofLands(i) \/ OwnerIsRead(i) \/ FleetProven(i) \/ BucketProven(i)
    \/ Unproven(i) \/ OwnershipVerified(i)

GateNext ==
    \/ \E r \in Request : RequestStarts(r) \/ RequestWrites(r) \/ RequestSamples(r)
                          \/ RequestEnds(r) \/ Output(r)
    \/ AlarmCommits \/ AlarmExpires
    \/ \E k \in DOMAIN alarm : AlarmFinishes(k) \/ AlarmFails(k)
    \/ \E t \in Tickets, pos \in 0 .. cell.pos : ExportTicket(t, pos)
    \/ Uploads \/ Ships
    \/ \E i \in DOMAIN gate : Settles(i) \/ ProofFails(i)
    \/ Reactivates \/ DrainCancels \/ SwapStops \/ SwapStarts
    \/ TakenOver \/ LeaseEnds \/ Fence

GateSpec == GateInit /\ [][GateNext]_gateVars

\* The sync loop uploads a cell that is owed until it succeeds, the effects of
\* each barrier complete or expire, and a node past its lease fences.
OldestSettles == gate # <<>> /\ Settles(1)
GateFairness == WF_gateVars(Uploads) /\ WF_gateVars(OldestSettles) /\ WF_gateVars(Fence)
GateLiveSpec == GateSpec /\ GateFairness

----------------------------------------------------------------------------
(* Properties                                                               *)

\* Types; every barrier in the gate is of the epoch of the session, and every
\* output held back and every ticket not yet answered waits on exactly one
\* barrier, as its subject or as a rider.
GateTypeOK ==
    /\ cell \in [phase : {"resident", "resetting", "swapping", "fenced"},
                 epoch : 1 .. gscope.epochs, pos : 0 .. gscope.writes,
                 proven : 0 .. gscope.writes]
    /\ cell.proven <= cell.pos
    /\ \A i \in DOMAIN gate : /\ gate[i].epoch = cell.epoch
                              /\ gate[i].verifying => gate[i].proof # "none"
    /\ \A r \in Request : (req[r].state = "held") =
           (Cardinality({i \in DOMAIN gate : r \in OutputsOf(gate[i])}) = 1)
    /\ \A t \in Tickets : (ticket[t].state = "asked") =
           (Cardinality({i \in DOMAIN gate : t \in TicketsOf(gate[i])}) = 1)

\* Whatever an output released as good can have shown is in every image a
\* later owner restores: no channel reveals a write that a takeover loses.
RevealedIsKept == told \subseteq kept

\* An export ticket answered Ok stands for commits every later owner's lineage
\* holds; and one that settled on an ownership read, its host's or its own,
\* was asked before that read: a node that had lost the record by the time it
\* asked is refused, whichever barrier carried the ticket.
TicketIsConfirmed ==
    \A t \in Tickets :
        /\ ticket[t].state \in {"fleet", "read"} => ticket[t].commits \subseteq kept
        /\ ticket[t].state = "read" => ticket[t].owned

\* Nothing waits on the gate for ever: every held output is released, Ok or
\* not, and every export ticket is answered, however riders move between
\* barriers and whichever of their hosts settles, fails or is cancelled.
GateDrains ==
    /\ \A r \in Request : req[r].state = "held" ~> req[r].state # "held"
    /\ \A t \in 1 .. 2 : (t \in Tickets /\ ticket[t].state = "asked")
                            ~> (t \in Tickets /\ ticket[t].state # "asked")

=============================================================================
