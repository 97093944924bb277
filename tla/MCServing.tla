----------------------------- MODULE MCServing ------------------------------
(***************************************************************************)
(* Instances of OutputGate and Admission for TLC, the two gates a request  *)
(* passes on one node: the admission to a resident runtime, and the        *)
(* release of what it wrote. A behaviour picks one of them (focus) and     *)
(* explores it alone while the other stands still at an initial state, so  *)
(* that the states of the run are the sum of the two and each property     *)
(* speaks of its own service.                                              *)
(***************************************************************************)
EXTENDS OutputGate, Admission

CONSTANTS r1, r2, c1, c2, c3

VARIABLE focus   \* the service this behaviour explores

-----------------------------------------------------------------------------
(* The instances.                                                          *)

\* Two requests, with two writes or a takeover; a ticket, with two writes or a
\* fleet; two tickets; an alarm and a failed proof; a drain, with the alarm and
\* with a ticket, under a lapsing lease; a generation swap.
GateBase == [requests |-> {r1}, writes |-> 1, tickets |-> 0, epochs |-> 1, failures |-> 0,
             fleet |-> FALSE, alarm |-> FALSE, drain |-> FALSE, loss |-> {"record"}, swaps |-> 0,
             abandons |-> TRUE]
Draining == [GateBase EXCEPT !.drain = TRUE, !.loss = {"lease"}]
GateScopes == {[GateBase EXCEPT !.requests = {r1, r2}, !.writes = 2, !.loss = {}],
               [GateBase EXCEPT !.requests = {r1, r2}],
               [GateBase EXCEPT !.tickets = 1, !.writes = 2],
               [GateBase EXCEPT !.tickets = 1, !.fleet = TRUE],
               [GateBase EXCEPT !.tickets = 2, !.loss = {}],
               [GateBase EXCEPT !.alarm = TRUE, !.loss = {}, !.failures = 1, !.epochs = 2],
               [Draining EXCEPT !.alarm = TRUE], [Draining EXCEPT !.tickets = 1],
               [GateBase EXCEPT !.requests = {r1, r2}, !.loss = {}, !.swaps = 1,
                                !.abandons = FALSE]}

\* A full node; two slots and a pinned resident; memory pressure; alarm wakes
\* and evictions; the inventory confirmed or resumed at boot; handoffs.
Full == [resident |-> 1, activations |-> 1, evictions |-> 1, release |-> FALSE, warm |-> {c1},
         pinned |-> {}, cells |-> {c1, c2, c3}, callers |-> {r1, r2}, local |-> "none",
         kinds |-> {"plain"}, faults |-> 1, wakes |-> 0, samples |-> 0, evicts |-> 0]
Confirm == [Full EXCEPT !.local = "confirm", !.warm = {}, !.cells = {c1, c2}, !.faults = 0]
AdmissionScopes == {Full,
                    [Full EXCEPT !.resident = 2, !.activations = 2, !.warm = {c1, c2},
                                 !.pinned = {c2}, !.release = TRUE],
                    [Full EXCEPT !.samples = 2, !.activations = 2, !.resident = 2,
                                 !.cells = {c1, c2}, !.faults = 0],
                    [Full EXCEPT !.wakes = 1, !.evicts = 1, !.faults = 0, !.cells = {c1, c2}],
                    Confirm, [Confirm EXCEPT !.local = "resume"],
                    [Full EXCEPT !.kinds = {"capacity", "handoff"}, !.cells = {c1, c2}]}

-----------------------------------------------------------------------------
OneOf(S) == CHOOSE s \in S : TRUE

\* A service that stands still is under no fairness.
ServingInit ==
    /\ focus \in {"gate", "admission"}
    /\ GateInit /\ (focus # "gate" => gscope = OneOf(GateScope))
    /\ AdmissionInit /\ (focus # "admission" => ascope = Full)

GateOnly == focus = "gate" /\ UNCHANGED <<focus, admissionVars>>
AdmissionOnly == focus = "admission" /\ UNCHANGED <<focus, gateVars>>

\* Every action of every service.
ServingNext ==
    \/ \E r \in Request : GateOnly /\ RequestStarts(r)
    \/ \E r \in Request : GateOnly /\ RequestWrites(r)
    \/ \E r \in Request : GateOnly /\ RequestSamples(r)
    \/ \E r \in Request : GateOnly /\ RequestEnds(r)
    \/ \E r \in Request : GateOnly /\ Output(r)
    \/ GateOnly /\ AlarmCommits
    \/ GateOnly /\ AlarmExpires
    \/ \E k \in DOMAIN alarm : GateOnly /\ AlarmFinishes(k)
    \/ \E k \in DOMAIN alarm : GateOnly /\ AlarmFails(k)
    \/ GateOnly /\ Uploads
    \/ GateOnly /\ Ships
    \/ GateOnly /\ Reactivates
    \/ GateOnly /\ DrainCancels
    \/ GateOnly /\ SwapStops
    \/ GateOnly /\ SwapStarts
    \/ GateOnly /\ TakenOver
    \/ GateOnly /\ LeaseEnds
    \/ GateOnly /\ Fence
    \/ \E t \in Tickets, pos \in 0 .. cell.pos : GateOnly /\ ExportTicket(t, pos)
    \/ \E i \in DOMAIN gate : GateOnly /\ ProofLands(i)
    \/ \E i \in DOMAIN gate : GateOnly /\ OwnerIsRead(i)
    \/ \E i \in DOMAIN gate : GateOnly /\ FleetProven(i)
    \/ \E i \in DOMAIN gate : GateOnly /\ BucketProven(i)
    \/ \E i \in DOMAIN gate : GateOnly /\ Unproven(i)
    \/ \E i \in DOMAIN gate : GateOnly /\ OwnershipVerified(i)
    \/ \E i \in DOMAIN gate : GateOnly /\ ProofFails(i)
    \/ \E r \in Caller, c \in Cell, k \in {"plain", "capacity", "handoff"} : AdmissionOnly /\ RequestRoute(r, c, k)
    \/ \E r \in Caller : AdmissionOnly /\ ActivityFinished(r)
    \/ \E r \in Caller : AdmissionOnly /\ Cancel(r)
    \/ AdmissionOnly /\ LocalCellsRead
    \/ \E c \in Cell : AdmissionOnly /\ WakeHint(c)
    \/ \E c \in Cell : AdmissionOnly /\ AlarmSettles(c)
    \/ \E c \in Cell : AdmissionOnly /\ RecoveryRetry(c)
    \/ \E c \in Cell : AdmissionOnly /\ RuntimeStartTimedOut(c)
    \/ \E c \in Cell : AdmissionOnly /\ RuntimeStopped(c)
    \/ \E c \in Cell : AdmissionOnly /\ RuntimeStopFailed(c)
    \/ \E c \in Cell : AdmissionOnly /\ Evict(c)
    \/ \E c \in Cell : AdmissionOnly /\ QueueTimer(c)
    \/ \E c \in Cell, x \in Owner : AdmissionOnly /\ OwnerRead(c, x)
    \/ \E c \in Cell, x \in Lease : AdmissionOnly /\ NodeLeaseRead(c, x)
    \/ \E c \in Cell, x \in Peers : AdmissionOnly /\ CapacityPeersRead(c, x)
    \/ \E c \in Cell, x \in Cas : AdmissionOnly /\ OwnerCasCompleted(c, x)
    \/ \E c \in Cell, ok \in BOOLEAN : AdmissionOnly /\ RestoreCompleted(c, ok)
    \/ \E c \in Cell, ok \in BOOLEAN : AdmissionOnly /\ RuntimeStarted(c, ok)
    \/ \E c \in Cell, ok \in BOOLEAN : AdmissionOnly /\ Published(c, ok)
    \/ \E c \in Cell, ok \in BOOLEAN : AdmissionOnly /\ DurabilityChecked(c, ok)
    \/ \E c \in Cell, ok \in BOOLEAN : AdmissionOnly /\ OwnerReleased(c, ok)
    \/ \E pressed \in BOOLEAN : AdmissionOnly /\ LoadSampled(pressed)

\* GateFairness and AdmissionFairness, each while its service is in focus.
ServingFairness ==
    /\ WF_gateVars(focus = "gate" /\ Uploads)
    /\ WF_gateVars(focus = "gate" /\ OldestSettles)
    /\ WF_gateVars(focus = "gate" /\ Fence)
    /\ WF_admissionVars(focus = "admission" /\ AdmissionStep)

ServingSpec ==
    /\ ServingInit /\ [][ServingNext]_<<focus, gateVars, admissionVars>>
    /\ ServingFairness
=============================================================================
