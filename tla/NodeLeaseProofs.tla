--------------------------- MODULE NodeLeaseProofs ---------------------------
(* Proofs about NodeLease, for every scope: a process whose published lease   *)
(* lapsed under it stays without authority (LapsedStaysLapsed), and a record  *)
(* whose log awaits recovery is not replaced by another session               *)
(* (EvidenceKept).                                                            *)
(*                                                                            *)
(* Both are about writes that land late.  A write can land only while the     *)
(* record has the tag the write names, and every change of the record moves   *)
(* the tag on; so the invariant says, of each write that may still land, that *)
(* its tag is already past or that it does no harm.                           *)
EXTENDS NodeLease, TLAPS

Logs == {"none", "open", "recovering", "sealed"}
Records == [gen : Nat, expires : Nat, log : Logs, tag : Nat]
Holdings == [record : Records, lastOk : Nat]
States == {"unstarted", "reading", "writing", "held", "retrying", "fenced"}
Processes ==
    [state : States, gen : Nat, prior : Holdings, desired : Records, anchor : Nat,
     readback : BOOLEAN, nudge : BOOLEAN, renewals : SUBSET Nat, lapsed : BOOLEAN,
     revived : BOOLEAN]
Operations ==
    [kind : {"none", "read", "cas"}, since : Nat,
     stage : {"sent", "served", "applied", "rejected"}, saw : Records, guard : Nat]
LateWrites == [guard : Nat, body : Records]

TypesOK ==
    /\ lscope \in LeaseScope
    /\ clock \in Nat
    /\ record \in Records
    /\ node \in Processes
    /\ io \in Operations
    /\ late \subseteq LateWrites
    /\ ownLog \in Logs
    /\ leaseUsed \in [faults : Nat, publishes : Nat, restarts : Nat]

\* An operation runs exactly while the core reads or writes; only an operation
\* the bucket answered saw a record.
OperationsOK ==
    /\ (io.kind = "read") <=> (node.state = "reading")
    /\ (io.kind = "cas") <=> (node.state = "writing")
    /\ io.kind = "none" => io.stage = "sent"
    /\ io.kind = "read" => io.stage \in {"sent", "served"}
    /\ io.kind = "cas" => io.stage \in {"sent", "applied", "rejected"}
    /\ io.stage = "applied" => /\ io.saw.gen = node.gen
                               /\ io.saw.expires = node.desired.expires

\* Generations only grow, and a process that has not started wrote nothing.
GenerationsOK ==
    /\ node.gen > 0 /\ record.gen <= node.gen
    /\ \A w \in late : w.body.gen <= node.gen
    /\ node.state = "unstarted" =>
          /\ record.gen < node.gen /\ \A w \in late : w.body.gen < node.gen
          /\ ~HasPrior
    /\ node.state # "unstarted" => node.desired.gen = node.gen
    /\ HasPrior => node.prior.record.gen = node.gen

\* The running attempt has the latest expiry that this process ever asked for.
ExpiriesOK ==
    /\ node.state # "unstarted" =>
          /\ node.desired.expires <= clock + TTL
          /\ record.gen = node.gen => record.expires <= node.desired.expires
          /\ \A w \in late : w.body.gen = node.gen => w.body.expires <= node.desired.expires
          /\ HasPrior => node.prior.record.expires <= node.desired.expires
    /\ node.state \in {"reading", "writing"} => node.desired.expires = node.anchor + TTL
    /\ HasPrior => node.prior.lastOk + TTL <= node.prior.record.expires

Answered == io.stage \in {"served", "applied"}

\* Every tag in use was the record's at some time.
TagsOK ==
    /\ io.guard <= record.tag
    /\ \A w \in late : w.guard <= record.tag
    /\ Answered => io.saw.tag <= record.tag
    /\ HasPrior => node.prior.record.tag <= record.tag

\* A write of this process that may still land cannot replace rec by a record
\* that expires before it.
Outlasts(rec) ==
    \A w \in late : w.body.gen = node.gen => w.guard < rec.tag \/ rec.expires <= w.body.expires

\* The record this process holds, the one its operation saw and the one in the
\* bucket expire in this order.
OrderOK ==
    /\ HasPrior => Outlasts(node.prior.record)
    /\ Answered /\ io.saw.gen = node.gen => Outlasts(io.saw)
    /\ record.gen = node.gen =>
          /\ Outlasts(record)
          /\ HasPrior => node.prior.record.expires <= record.expires
          /\ Answered /\ io.saw.gen = node.gen => io.saw.expires <= record.expires

\* Who may replace the record: a write on its way names it only if it belongs to
\* the record's own session or the record's log needs no recovery.
Replaceable(gen) == gen = record.gen \/ record.log \in {"none", "sealed"}
ReplacedOK ==
    /\ \A w \in late : w.guard = record.tag => Replaceable(w.body.gen)
    /\ io.kind = "cas" /\ io.guard = record.tag => Replaceable(node.gen)
    /\ Answered /\ io.saw.tag = record.tag => io.saw.gen = record.gen /\ io.saw.log = record.log
    /\ HasPrior /\ node.prior.record.tag = record.tag => record.gen = node.gen

\* Only a process with a lease holds it, or sees it lapse.
LapseOK ==
    /\ node.state = "held" => HasPrior
    /\ ~HasPrior => ~node.lapsed
    /\ LapsedStaysLapsed

LeaseInv ==
    /\ TypesOK /\ OperationsOK /\ GenerationsOK /\ ExpiriesOK /\ TagsOK /\ OrderOK
    /\ ReplacedOK /\ LapseOK

----------------------------------------------------------------------------
(* The transformers of the process                                          *)

\* What every transformer but an acquisition keeps.
SameAttempt(m, n) ==
    /\ m.gen = n.gen /\ m.desired = n.desired /\ m.anchor = n.anchor
    /\ m.lapsed = n.lapsed /\ m.revived = n.revived

\* A lease lasts a positive number of ticks, whatever the scope (LeaseAssumption).
LEMMA TTLType ==
    ASSUME TypesOK
    PROVE  TTL \in Nat /\ TTL > 0 /\ AtLeastOne(TTL \div 3) \in Nat
<1>1. TTL \in Nat /\ TTL > 0
  BY LeaseAssumption DEF TypesOK, TTL
<1>2. \A n \in Nat : AtLeastOne(n \div 3) \in Nat
  BY DEF AtLeastOne
<1> QED
  BY <1>1, <1>2

\* hold_node_lease replaces the held lease and nothing else of the attempt.
LEMMA HoldsShape ==
    ASSUME TypesOK, NEW n \in Processes, NEW rec \in Records
    PROVE  /\ Holds(n, rec) \in Processes
           /\ Holds(n, rec).state = "held" /\ SameAttempt(Holds(n, rec), n)
           /\ Holds(n, rec).prior = [record |-> rec, lastOk |-> n.anchor]
<1>1. Anchor(n) \in Nat
  BY DEF Anchor, Processes
<1>2. {Anchor(n) + IF n.nudge THEN 1 ELSE AtLeastOne(TTL \div 3)} \in SUBSET Nat
  BY <1>1, TTLType
<1> QED
  BY <1>1, <1>2 DEF Holds, SameAttempt, Processes, Holdings, States, Anchor

\* fail_initial_node_lease and fence_node keep the held lease.
LEMMA FailsShape ==
    ASSUME TypesOK, NEW n \in Processes
    PROVE  /\ FailsInitial(n) \in Processes /\ Fences(n) \in Processes
           /\ FailsInitial(n).state = "retrying" /\ SameAttempt(FailsInitial(n), n)
           /\ FailsInitial(n).prior = n.prior
           /\ Fences(n).state = "fenced" /\ SameAttempt(Fences(n), n)
           /\ Fences(n).prior = n.prior
<1>1. {clock + AtLeastOne(TTL \div 3)} \in SUBSET Nat
  BY TTLType DEF TypesOK
<1> QED
  BY <1>1 DEF FailsInitial, Fences, SameAttempt, Processes, States

\* resume_node_lease_after_failure keeps the held lease, too.
LEMMA ResumesShape ==
    ASSUME TypesOK, NEW n \in Processes
    PROVE  /\ Resumes(n) \in Processes
           /\ Resumes(n).state = "held" /\ SameAttempt(Resumes(n), n)
           /\ Resumes(n).prior = n.prior
<1>1. clock \in Nat /\ n.prior.lastOk \in Nat /\ TTL \in Nat
  BY TTLType DEF TypesOK, Processes, Holdings
<1>2. ASSUME NEW k \in Nat PROVE AtLeastOne(k \div 4) \in Nat /\ k \div 2 \in Nat
  BY DEF AtLeastOne
<1>3. RetryAfter(n) \in Nat
  BY <1>1, <1>2, TTLType DEF RetryAfter
<1>4. n.renewals \cup {clock + RetryAfter(n)} \in SUBSET Nat
  BY <1>1, <1>3 DEF Processes
<1> QED
  BY <1>4 DEF Resumes, SameAttempt, Processes, States

\* begin_node_lease_acquisition starts from no lease.
LEMMA AcquiresShape ==
    ASSUME TypesOK, NEW n \in Processes
    PROVE  /\ Acquires(n) \in Processes
           /\ Acquires(n).state = "reading" /\ Acquires(n).gen = n.gen
           /\ Acquires(n).prior = NoPrior
           /\ Acquires(n).desired.gen = n.gen /\ Acquires(n).desired.expires = clock + TTL
           /\ Acquires(n).anchor = clock
           /\ Acquires(n).lapsed = FALSE /\ Acquires(n).revived = FALSE
<1>1. clock \in Nat /\ clock + TTL \in Nat
  BY TTLType DEF TypesOK
<1> QED
  BY <1>1 DEF Acquires, Processes, States, Records, Logs, Holdings, NoPrior, NoLease

\* Operations as they are issued.
LEMMA IoShape ==
    ASSUME TypesOK
    PROVE  /\ NoIo \in Operations /\ NoIo.kind = "none" /\ NoIo.stage = "sent" /\ NoIo.guard = 0
           /\ Reads \in Operations /\ Reads.kind = "read" /\ Reads.stage = "sent"
           /\ Reads.guard = 0
           /\ \A g \in Nat : /\ Writes(g) \in Operations /\ Writes(g).kind = "cas"
                             /\ Writes(g).stage = "sent" /\ Writes(g).guard = g
  BY DEF TypesOK, NoIo, Reads, Writes, Operations, NoLease, Records, Logs

----------------------------------------------------------------------------
(* The bucket, the peers and the clock                                      *)

\* Before anything happened.
LEMMA InitInv == LeaseInit => LeaseInv
<1> SUFFICES ASSUME LeaseInit PROVE LeaseInv
  OBVIOUS
<1> USE DEF LeaseInit, Unstarted, NoPrior, NoLease, NoIo, HasPrior
<1>1. TypesOK
  BY DEF TypesOK, Records, Logs, Processes, States, Holdings, Operations
<1>2. OperationsOK /\ GenerationsOK
  BY DEF OperationsOK, GenerationsOK
<1>3. ExpiriesOK /\ TagsOK
  BY DEF ExpiriesOK, TagsOK, Answered
<1>4. OrderOK /\ ReplacedOK
  BY DEF OrderOK, Outlasts, Answered, ReplacedOK, Replaceable
<1>5. LapseOK
  BY DEF LapseOK, LapsedStaysLapsed
<1> QED
  BY <1>1, <1>2, <1>3, <1>4, <1>5 DEF LeaseInv

\* A conditional write moves the tag past that of every write on its way, so
\* nothing of this process lands over it; a read sees the record as it is.
LEMMA ServedKeeps == LeaseInv /\ Served => LeaseInv'
<1> SUFFICES ASSUME LeaseInv, Served PROVE LeaseInv'
  OBVIOUS
<1> USE DEF LeaseInv
<1>0. /\ UNCHANGED <<lscope, clock, node, late, ownLog, leaseUsed>>
      /\ UNCHANGED <<TTL, HasPrior>>
  BY DEF Served, TTL, HasPrior
<1>1. CASE io.kind = "read"
  <2>1. record' = record /\ io' = [io EXCEPT !.stage = "served", !.saw = record]
    BY <1>1 DEF Served
  <2>2. /\ io' \in Operations /\ io'.kind = "read" /\ io'.stage = "served"
        /\ io'.saw = record /\ io'.guard = io.guard
    BY <1>1, <2>1 DEF TypesOK, Operations
  <2>3. TypesOK'
    BY <1>0, <2>1, <2>2 DEF TypesOK
  <2>4. OperationsOK' /\ GenerationsOK' /\ ExpiriesOK'
    BY <1>0, <1>1, <2>1, <2>2 DEF OperationsOK, GenerationsOK, ExpiriesOK
  <2>5. TagsOK' /\ ReplacedOK'
    BY <1>0, <2>1, <2>2 DEF TypesOK, Records, TagsOK, ReplacedOK, Replaceable, Answered
  <2>6. OrderOK'
    BY <1>0, <2>1, <2>2 DEF TypesOK, Records, OrderOK, Outlasts, Answered
  <2>7. LapseOK'
    BY <1>0 DEF LapseOK, LapsedStaysLapsed, Authoritative
  <2> QED
    BY <2>3, <2>4, <2>5, <2>6, <2>7
<1>2. CASE io.kind = "cas" /\ io.guard = record.tag
  <2>1. /\ record' = [node.desired EXCEPT !.tag = record.tag + 1]
        /\ io' = [io EXCEPT !.stage = "applied", !.saw = record']
        /\ io.stage = "sent"
    BY <1>2 DEF Served
  <2>2. /\ record' \in Records /\ record'.gen = node.desired.gen
        /\ record'.expires = node.desired.expires /\ record'.tag = record.tag + 1
    BY <2>1 DEF TypesOK, Processes, Records
  <2>3. /\ io' \in Operations /\ io'.kind = "cas" /\ io'.stage = "applied"
        /\ io'.saw = record' /\ io'.guard = io.guard
    BY <1>2, <2>1, <2>2 DEF TypesOK, Operations
  <2>4. node.state = "writing" /\ node.desired.gen = node.gen
    BY <1>2 DEF OperationsOK, GenerationsOK
  <2>5. TypesOK'
    BY <1>0, <2>2, <2>3 DEF TypesOK
  <2>6. OperationsOK' /\ GenerationsOK'
    BY <1>0, <1>2, <2>2, <2>3, <2>4
    DEF OperationsOK, GenerationsOK, TypesOK, Processes, Records
  <2>7. ExpiriesOK'
    BY <1>0, <2>2, <2>4 DEF ExpiriesOK, TypesOK, Processes, Records
  <2>8. /\ \A w \in late : w.guard \in Nat /\ w.guard < record'.tag
        /\ HasPrior => node.prior.record.tag \in Nat /\ node.prior.record.tag < record'.tag
    BY <2>2 DEF TagsOK, TypesOK, LateWrites, Processes, Holdings, Records
  <2>9. TagsOK'
    BY <1>0, <1>2, <2>2, <2>3, <2>8 DEF TagsOK, TypesOK, Records, Operations
  <2>10. OrderOK'
    BY <1>0, <2>2, <2>3, <2>4, <2>8
    DEF OrderOK, Outlasts, ExpiriesOK, TypesOK, Processes, Records
  <2>11. ReplacedOK'
    BY <1>0, <1>2, <2>2, <2>3, <2>4, <2>8
    DEF ReplacedOK, Replaceable, TypesOK, Records
  <2>12. LapseOK'
    BY <1>0 DEF LapseOK, LapsedStaysLapsed, Authoritative
  <2> QED
    BY <2>5, <2>6, <2>7, <2>9, <2>10, <2>11, <2>12
<1>3. CASE io.kind = "cas" /\ io.guard # record.tag
  <2>1. record' = record /\ io' = [io EXCEPT !.stage = "rejected"]
    BY <1>3 DEF Served
  <2>2. /\ io' \in Operations /\ io'.kind = "cas" /\ io'.stage = "rejected"
        /\ io'.guard = io.guard
    BY <1>3, <2>1 DEF TypesOK, Operations
  <2>3. TypesOK' /\ OperationsOK'
    BY <1>0, <1>3, <2>1, <2>2 DEF TypesOK, OperationsOK
  <2>4. GenerationsOK' /\ ExpiriesOK' /\ TagsOK'
    BY <1>0, <2>1, <2>2 DEF GenerationsOK, ExpiriesOK, TagsOK, Answered
  <2>5. OrderOK' /\ ReplacedOK'
    BY <1>0, <1>3, <2>1, <2>2 DEF OrderOK, Outlasts, ReplacedOK, Replaceable, Answered
  <2>6. LapseOK'
    BY <1>0 DEF LapseOK, LapsedStaysLapsed, Authoritative
  <2> QED
    BY <2>3, <2>4, <2>5, <2>6
<1> QED
  BY <1>1, <1>2, <1>3 DEF Served

\* A write given up lands only over the tag it names: it then expires no
\* earlier than what the process holds or has seen, and replaces no evidence.
LEMMA LateWriteKeeps == ASSUME NEW w \in late PROVE LeaseInv /\ LateWriteLands(w) => LeaseInv'
<1> SUFFICES ASSUME LeaseInv, LateWriteLands(w) PROVE LeaseInv'
  OBVIOUS
<1> USE DEF LeaseInv
<1>0. /\ UNCHANGED <<lscope, clock, node, io, ownLog, leaseUsed>>
      /\ UNCHANGED <<TTL, HasPrior, Answered>>
      /\ late' = late \ {w} /\ late' \subseteq late
  BY DEF LateWriteLands, TTL, HasPrior, Answered
<1>1. w \in LateWrites /\ w.guard \in Nat /\ w.body \in Records
  BY DEF TypesOK, LateWrites
<1>2. LapseOK'
  BY <1>0 DEF LapseOK, LapsedStaysLapsed, Authoritative
<1>3. CASE w.guard # record.tag
  <2>1. record' = record
    BY <1>3 DEF LateWriteLands
  <2>2. TypesOK' /\ OperationsOK'
    BY <1>0, <2>1 DEF TypesOK, OperationsOK
  <2>3. GenerationsOK' /\ ExpiriesOK' /\ TagsOK'
    BY <1>0, <2>1 DEF GenerationsOK, ExpiriesOK, TagsOK
  <2>4. OrderOK' /\ ReplacedOK'
    BY <1>0, <2>1 DEF OrderOK, Outlasts, ReplacedOK, Replaceable
  <2> QED
    BY <1>2, <2>2, <2>3, <2>4
<1>4. CASE w.guard = record.tag
  <2>1. record' = [w.body EXCEPT !.tag = record.tag + 1]
    BY <1>4 DEF LateWriteLands
  <2>2. /\ record' \in Records /\ record'.gen = w.body.gen
        /\ record'.expires = w.body.expires /\ record'.tag = record.tag + 1
    BY <1>1, <2>1 DEF TypesOK, Records
  <2>3. /\ \A v \in late : v.guard \in Nat /\ v.guard < record'.tag
        /\ HasPrior => /\ node.prior.record.tag \in Nat
                       /\ node.prior.record.tag < record'.tag
                       /\ node.prior.record.tag <= w.guard
        /\ Answered => /\ io.saw.tag \in Nat /\ io.saw.tag < record'.tag
                       /\ io.saw.tag <= w.guard
        /\ io.guard \in Nat /\ io.guard < record'.tag
    BY <1>4, <2>2 DEF TagsOK, TypesOK, LateWrites, Processes, Holdings, Records, Operations
  <2>4. TypesOK' /\ OperationsOK'
    BY <1>0, <2>2 DEF TypesOK, OperationsOK
  <2>5. GenerationsOK'
    BY <1>0, <1>1, <2>2 DEF GenerationsOK
  <2>6. ExpiriesOK'
    BY <1>0, <1>1, <2>2 DEF ExpiriesOK, GenerationsOK
  <2>7. TagsOK'
    BY <1>0, <2>2, <2>3 DEF TagsOK, TypesOK, Records
  <2>8. OrderOK'
    <3>1. HasPrior /\ w.body.gen = node.gen => node.prior.record.expires <= w.body.expires
      BY <1>1, <2>3 DEF OrderOK, Outlasts, TypesOK, Processes, Holdings, Records
    <3>2. Answered /\ io.saw.gen = node.gen /\ w.body.gen = node.gen
             => io.saw.expires <= w.body.expires
      BY <1>1, <2>3 DEF OrderOK, Outlasts, TypesOK, Operations, Records
    <3>3. Outlasts(record)'
      BY <1>0, <2>3 DEF Outlasts
    <3> QED
      BY <1>0, <2>2, <3>1, <3>2, <3>3 DEF OrderOK, Outlasts
  <2>9. ReplacedOK'
    BY <1>0, <2>2, <2>3 DEF ReplacedOK, Replaceable
  <2> QED
    BY <1>2, <2>4, <2>5, <2>6, <2>7, <2>8, <2>9
<1> QED
  BY <1>3, <1>4

\* A peer's stamp moves the tag on and leaves session and expiry.
LEMMA PeerKeeps == LeaseInv /\ PeerRecovers => LeaseInv'
<1> SUFFICES ASSUME LeaseInv, PeerRecovers PROVE LeaseInv'
  OBVIOUS
<1> USE DEF LeaseInv
<1>0. /\ UNCHANGED <<lscope, clock, node, io, late, ownLog, leaseUsed>>
      /\ UNCHANGED <<TTL, HasPrior, Answered>>
  BY DEF PeerRecovers, TTL, HasPrior, Answered
<1>1. /\ record' \in Records /\ record'.gen = record.gen
      /\ record'.expires = record.expires /\ record'.tag = record.tag + 1
  <2>1. PICK log \in Logs : record' = [record EXCEPT !.tag = record.tag + 1, !.log = log]
    BY DEF PeerRecovers, Logs
  <2>2. record \in Records /\ record.tag + 1 \in Nat
    BY DEF TypesOK, Records
  <2>3. ASSUME NEW tag \in Nat, NEW r, r = [record EXCEPT !.tag = tag, !.log = log]
        PROVE  r \in Records /\ r.gen = record.gen /\ r.expires = record.expires /\ r.tag = tag
    BY <2>2, <2>3 DEF Records
  <2> QED
    BY <2>1, <2>2, <2>3
<1>2. /\ \A v \in late : v.guard \in Nat /\ v.guard < record'.tag
      /\ HasPrior => node.prior.record.tag \in Nat /\ node.prior.record.tag < record'.tag
      /\ Answered => io.saw.tag \in Nat /\ io.saw.tag < record'.tag
      /\ io.guard \in Nat /\ io.guard < record'.tag
  BY <1>1 DEF TagsOK, TypesOK, LateWrites, Processes, Holdings, Records, Operations
<1>3. TypesOK' /\ OperationsOK'
  BY <1>0, <1>1 DEF TypesOK, OperationsOK
<1>4. GenerationsOK' /\ ExpiriesOK'
  BY <1>0, <1>1 DEF GenerationsOK, ExpiriesOK
<1>5. TagsOK' /\ ReplacedOK'
  BY <1>0, <1>1, <1>2 DEF TagsOK, ReplacedOK, Replaceable, TypesOK, Records
<1>6. OrderOK'
  BY <1>0, <1>1, <1>2 DEF OrderOK, Outlasts
<1>7. LapseOK'
  BY <1>0 DEF LapseOK, LapsedStaysLapsed, Authoritative
<1> QED
  BY <1>3, <1>4, <1>5, <1>6, <1>7

\* The record lapses no earlier than the lease the process counts on.
LEMMA TickKeeps == LeaseInv /\ Tick => LeaseInv'
<1> SUFFICES ASSUME LeaseInv, Tick PROVE LeaseInv'
  OBVIOUS
<1> USE DEF LeaseInv
<1> DEFINE lapses == HasPrior /\ record.gen = node.gen /\ clock + 1 >= record.expires
<1>0. /\ UNCHANGED <<lscope, record, io, late, ownLog, leaseUsed>>
      /\ UNCHANGED <<TTL, Answered>>
      /\ clock' = clock + 1 /\ clock \in Nat
      /\ node' = [node EXCEPT !.lapsed = @ \/ lapses]
  BY DEF Tick, TTL, Answered, TypesOK
<1>1. /\ node' \in Processes /\ node'.state = node.state /\ node'.gen = node.gen
      /\ node'.prior = node.prior /\ node'.desired = node.desired
      /\ node'.anchor = node.anchor /\ node'.revived = node.revived
      /\ node'.lapsed = (node.lapsed \/ lapses)
  BY <1>0 DEF TypesOK, Processes
<1>2. HasPrior' = HasPrior
  BY <1>1 DEF HasPrior
<1>3. TypesOK' /\ OperationsOK'
  BY <1>0, <1>1 DEF TypesOK, OperationsOK
<1>4. GenerationsOK' /\ TagsOK'
  BY <1>0, <1>1, <1>2 DEF GenerationsOK, TagsOK
<1>5. ExpiriesOK'
  BY <1>0, <1>1, <1>2, TTLType DEF ExpiriesOK, TypesOK, Processes, Records
<1>6. OrderOK' /\ ReplacedOK'
  BY <1>0, <1>1, <1>2 DEF OrderOK, Outlasts, ReplacedOK, Replaceable
<1>7. lapses => clock + 1 - node.prior.lastOk >= TTL
  BY <1>0, TTLType DEF OrderOK, ExpiriesOK, TypesOK, Processes, Holdings, Records
<1>8. node.lapsed /\ ~node.revived => ~Authoritative
  BY DEF LapseOK, LapsedStaysLapsed
<1>9. LapseOK'
  BY <1>0, <1>1, <1>2, <1>7, <1>8, TTLType
  DEF LapseOK, LapsedStaysLapsed, Authoritative, TypesOK, Processes, Holdings
<1> QED
  BY <1>3, <1>4, <1>5, <1>6, <1>9

----------------------------------------------------------------------------
(* The process                                                              *)

\* A write nobody waits for any more is added, if it was not served.
LEMMA GivenUpShape ==
    ASSUME TypesOK
    PROVE  /\ GivenUp \subseteq LateWrites
           /\ \A w \in GivenUp :
                 \/ w \in late
                 \/ /\ io.kind = "cas" /\ io.stage = "sent"
                    /\ w.guard = io.guard /\ w.body = node.desired
  BY DEF TypesOK, GivenUp, LateWrites, Operations, Processes

\* An attempt that ends, or goes on to a read, without a new lease: the write it
\* may leave behind expires last, and names a tag the record had.
LEMMA AttemptEnds ==
    ASSUME LeaseInv, UNCHANGED <<lscope, clock, record>>,
           ownLog' \in Logs, leaseUsed' \in [faults : Nat, publishes : Nat, restarts : Nat],
           node' \in Processes, SameAttempt(node', node), node'.prior = node.prior,
           node.state # "unstarted",
           \/ node'.state \in {"held", "retrying", "fenced"} /\ io' = NoIo
           \/ node'.state = "reading" /\ node.state \in {"reading", "writing"} /\ io' = Reads,
           node'.state = "held" => HasPrior /\ node.state \in {"held", "reading", "writing"},
           late' = late \/ late' = GivenUp
    PROVE  LeaseInv'
<1> USE DEF LeaseInv
<1>1. /\ node'.gen = node.gen /\ node'.desired = node.desired /\ node'.anchor = node.anchor
      /\ node'.lapsed = node.lapsed /\ node'.revived = node.revived
      /\ HasPrior' = HasPrior /\ TTL' = TTL /\ TTL \in Nat /\ node'.state # "unstarted"
  BY TTLType DEF SameAttempt, HasPrior, TTL
<1>2. /\ io' \in Operations /\ io'.stage = "sent" /\ io'.guard = 0 /\ ~Answered'
      /\ io'.kind = IF node'.state = "reading" THEN "read" ELSE "none"
  BY IoShape DEF Answered
<1>3. /\ late' \subseteq LateWrites
      /\ \A w \in late' :
            \/ w \in late
            \/ /\ io.kind = "cas" /\ io.stage = "sent"
               /\ w.guard = io.guard /\ w.body = node.desired
  BY GivenUpShape DEF TypesOK
<1>4. TypesOK'
  BY <1>2, <1>3 DEF TypesOK
<1>5. OperationsOK'
  BY <1>1, <1>2 DEF OperationsOK
<1>6. node.desired.gen = node.gen /\ node.desired \in Records
  BY DEF GenerationsOK, TypesOK, Processes
<1>7. GenerationsOK'
  BY <1>1, <1>3, <1>6 DEF GenerationsOK, TypesOK, Processes
<1>8. ExpiriesOK'
  BY <1>1, <1>3, <1>6 DEF ExpiriesOK, Records
<1>9. TagsOK'
  BY <1>1, <1>2, <1>3 DEF TagsOK, TypesOK, Records
<1>10. OrderOK'
  BY <1>1, <1>2, <1>3, <1>6 DEF OrderOK, Outlasts, ExpiriesOK
<1>11. ReplacedOK'
  BY <1>1, <1>2, <1>3, <1>6 DEF ReplacedOK, Replaceable
<1>12. LapseOK'
  BY <1>1 DEF LapseOK, LapsedStaysLapsed, Authoritative
<1> QED
  BY <1>4, <1>5, <1>7, <1>8, <1>9, <1>10, <1>11, <1>12

\* An attempt that ends with a lease whose record the operation saw.
LEMMA LeaseTaken ==
    ASSUME LeaseInv, UNCHANGED <<lscope, clock, record, late, ownLog, leaseUsed>>,
           node' \in Processes, io' = NoIo, Answered,
           node.state \in {"reading", "writing"}, node'.state = "held",
           node'.gen = node.gen, node'.desired = node.desired, node'.anchor = node.anchor,
           io.saw.gen = node.gen, io.saw.expires <= node.desired.expires,
           node'.prior.record.gen = io.saw.gen, node'.prior.record.expires = io.saw.expires,
           node'.prior.record.tag = io.saw.tag,
           node'.prior.lastOk + TTL <= io.saw.expires,
           node'.lapsed /\ ~node'.revived => clock - node'.prior.lastOk >= TTL
    PROVE  LeaseInv'
<1> USE DEF LeaseInv
<1>1. TTL' = TTL /\ TTL \in Nat
  BY TTLType DEF TTL
<1>2. /\ io' \in Operations /\ io'.stage = "sent" /\ io'.guard = 0 /\ ~Answered'
      /\ io'.kind = "none"
  BY IoShape DEF Answered
<1>3. HasPrior' /\ node.gen > 0
  BY DEF GenerationsOK, HasPrior, NoPrior, NoLease
<1>4. TypesOK'
  BY <1>2 DEF TypesOK
<1>5. OperationsOK' /\ GenerationsOK'
  BY <1>2 DEF OperationsOK, GenerationsOK
<1>6. ExpiriesOK'
  BY <1>1 DEF ExpiriesOK
<1>7. TagsOK'
  BY <1>2 DEF TagsOK, TypesOK, Records
<1>8. OrderOK'
  BY <1>2 DEF OrderOK, Outlasts
<1>9. ReplacedOK'
  BY <1>2 DEF ReplacedOK, Replaceable
<1>10. LapseOK'
  BY <1>1, <1>3 DEF LapseOK, LapsedStaysLapsed, Authoritative, TypesOK, Processes, Holdings
<1> QED
  BY <1>4, <1>5, <1>6, <1>7, <1>8, <1>9, <1>10

\* An attempt that starts, and issues a read from no lease or a write over the
\* record it names.
LEMMA AttemptStarts ==
    ASSUME LeaseInv, UNCHANGED <<lscope, clock, record, late, ownLog, leaseUsed>>,
           node' \in Processes, node'.gen = node.gen, node'.desired.gen = node.gen,
           node'.desired.expires = node'.anchor + TTL, node'.anchor <= clock,
           node.state # "unstarted" => node.desired.expires <= node'.desired.expires,
           \/ /\ node'.state = "reading" /\ io' = Reads
              /\ node'.prior = NoPrior /\ ~node'.lapsed
           \/ /\ node'.state = "writing" /\ node.state \in {"held", "reading"}
              /\ node'.prior = node.prior
              /\ node'.lapsed = node.lapsed /\ node'.revived = node.revived
              /\ \E g \in Nat : /\ io' = Writes(g) /\ g <= record.tag
                                /\ g = record.tag => Replaceable(node.gen)
    PROVE  LeaseInv'
<1> USE DEF LeaseInv
<1>1. /\ TTL' = TTL /\ TTL \in Nat /\ clock \in Nat
      /\ HasPrior' => HasPrior /\ node'.prior = node.prior
  BY TTLType DEF TTL, HasPrior, TypesOK
<1>2. /\ io' \in Operations /\ io'.stage = "sent" /\ io'.guard <= record.tag /\ ~Answered'
      /\ io'.kind = IF node'.state = "reading" THEN "read" ELSE "cas"
      /\ io'.kind = "cas" /\ io'.guard = record.tag => Replaceable(node.gen)
  <2>1. CASE node'.state = "reading" /\ io' = Reads
    BY <2>1, IoShape DEF Answered, TypesOK, Records
  <2>2. CASE node'.state = "writing"
    <3>1. PICK g \in Nat : /\ io' = Writes(g) /\ g <= record.tag
                           /\ g = record.tag => Replaceable(node.gen)
      BY <2>2
    <3>2. /\ io' \in Operations /\ io'.kind = "cas" /\ io'.stage = "sent" /\ io'.guard = g
      BY <3>1, IoShape
    <3>3. io'.guard <= record.tag /\ (io'.guard = record.tag => Replaceable(node.gen))
      BY <3>1, <3>2
    <3> QED
      BY <2>2, <3>2, <3>3 DEF Answered
  <2> QED
    BY <2>1, <2>2
<1>3. TypesOK'
  BY <1>2 DEF TypesOK
<1>4. OperationsOK'
  BY <1>2 DEF OperationsOK
<1>5. GenerationsOK'
  BY <1>1 DEF GenerationsOK
<1>6. node'.desired.expires \in Nat /\ node'.anchor \in Nat
  BY DEF Processes, Records
<1>7. node.state = "unstarted" => record.gen # node.gen /\ \A w \in late : w.body.gen # node.gen
  BY DEF GenerationsOK, TypesOK, Processes, Records, LateWrites
<1>8. ExpiriesOK'
  <2>1. node'.desired.expires <= clock + TTL
    BY <1>1, <1>6
  <2>2. record.gen = node.gen => record.expires <= node'.desired.expires
    BY <1>6, <1>7 DEF ExpiriesOK, TypesOK, Processes, Records
  <2>3. \A w \in late : w.body.gen = node.gen => w.body.expires <= node'.desired.expires
    BY <1>6, <1>7 DEF ExpiriesOK, TypesOK, Processes, Records, LateWrites
  <2>4. HasPrior' => /\ node.prior.record.expires <= node'.desired.expires
                     /\ node.prior.lastOk + TTL <= node.prior.record.expires
    BY <1>1, <1>6 DEF ExpiriesOK, GenerationsOK, TypesOK, Processes, Holdings, Records
  <2> QED
    BY <1>1, <2>1, <2>2, <2>3, <2>4 DEF ExpiriesOK
<1>9. TagsOK'
  BY <1>1, <1>2 DEF TagsOK
<1>10. OrderOK'
  BY <1>1, <1>2 DEF OrderOK, Outlasts
<1>11. ReplacedOK'
  BY <1>1, <1>2 DEF ReplacedOK, Replaceable
<1>12. LapseOK'
  BY <1>1 DEF LapseOK, LapsedStaysLapsed, Authoritative, HasPrior
<1> QED
  BY <1>3, <1>4, <1>5, <1>8, <1>9, <1>10, <1>11, <1>12

\* A step that touches only the process's timers.
LEMMA TimersMove ==
    ASSUME LeaseInv, UNCHANGED <<lscope, clock, record, io, late>>,
           ownLog' \in Logs, leaseUsed' \in [faults : Nat, publishes : Nat, restarts : Nat],
           node' \in Processes, SameAttempt(node', node), node'.prior = node.prior,
           node'.state = node.state
    PROVE  LeaseInv'
<1> USE DEF LeaseInv
<1>1. /\ node'.gen = node.gen /\ node'.desired = node.desired /\ node'.anchor = node.anchor
      /\ node'.lapsed = node.lapsed /\ node'.revived = node.revived
      /\ HasPrior' = HasPrior /\ TTL' = TTL /\ Answered' = Answered
  BY DEF SameAttempt, HasPrior, TTL, Answered
<1>2. TypesOK' /\ OperationsOK'
  BY <1>1 DEF TypesOK, OperationsOK
<1>3. GenerationsOK' /\ ExpiriesOK' /\ TagsOK'
  BY <1>1 DEF GenerationsOK, ExpiriesOK, TagsOK
<1>4. OrderOK' /\ ReplacedOK'
  BY <1>1 DEF OrderOK, Outlasts, ReplacedOK, Replaceable
<1>5. LapseOK'
  BY <1>1 DEF LapseOK, LapsedStaysLapsed, Authoritative
<1> QED
  BY <1>2, <1>3, <1>4, <1>5

----------------------------------------------------------------------------
(* One lemma per action of the process                                      *)

\* start_node_lease.
LEMMA StartKeeps == LeaseInv /\ StartNodeLease => LeaseInv'
<1> SUFFICES ASSUME LeaseInv, StartNodeLease PROVE LeaseInv'
  OBVIOUS
<1>1. TypesOK /\ node \in Processes /\ clock \in Nat
  BY DEF LeaseInv, TypesOK
<1>2. node' = Acquires(node) /\ node.state = "unstarted" /\ io' = Reads
  BY DEF StartNodeLease
<1>3. UNCHANGED <<lscope, clock, record, late, ownLog, leaseUsed>>
  BY DEF StartNodeLease
<1>4. /\ node' \in Processes /\ node'.state = "reading" /\ node'.gen = node.gen
      /\ node'.prior = NoPrior /\ node'.lapsed = FALSE /\ node'.anchor = clock
      /\ node'.desired.gen = node.gen /\ node'.desired.expires = clock + TTL
  BY <1>1, <1>2, AcquiresShape
<1>5. ~node'.lapsed /\ node'.anchor <= clock
  BY <1>1, <1>4
<1> QED
  BY <1>2, <1>3, <1>4, <1>5, AttemptStarts

\* complete_node_lease_write: the lease is taken only while the one it renews is
\* live, and then no lapse can have been seen.
LEMMA CompletesKeeps ==
    ASSUME LeaseInv, UNCHANGED <<lscope, clock, record, late, ownLog, leaseUsed>>,
           NEW rec \in Records, node' = Completes(node, rec), io' = NoIo, Answered,
           node.state \in {"reading", "writing"}, io.saw.gen = node.gen,
           io.saw.expires = node.desired.expires,
           rec.gen = io.saw.gen, rec.expires = io.saw.expires, rec.tag = io.saw.tag
    PROVE  LeaseInv'
<1>1. /\ TypesOK /\ node \in Processes /\ clock \in Nat /\ ownLog \in Logs
      /\ leaseUsed \in [faults : Nat, publishes : Nat, restarts : Nat]
  BY DEF LeaseInv, TypesOK
<1>2. CASE KeptAuthority(node)
  <2>1. node' = Holds(node, rec)
    BY <1>2 DEF Completes
  <2>2. /\ node' \in Processes /\ node'.state = "held" /\ SameAttempt(node', node)
        /\ node'.prior = [record |-> rec, lastOk |-> node.anchor]
    BY <1>1, <2>1, HoldsShape
  <2>3. node'.prior.record = rec /\ node'.prior.lastOk = node.anchor
    BY <2>2
  <2>4. node.anchor + TTL <= io.saw.expires /\ io.saw.expires <= node.desired.expires
    BY <1>1, TTLType DEF LeaseInv, ExpiriesOK, Processes, Records
  <2>5. ~(node.lapsed /\ ~node.revived)
    BY <1>1, <1>2, TTLType
    DEF LeaseInv, LapseOK, LapsedStaysLapsed, Authoritative, HasPrior, KeptAuthority
  <2> QED
    BY <2>2, <2>3, <2>4, <2>5, LeaseTaken DEF SameAttempt
<1>3. CASE ~KeptAuthority(node)
  <2>1. node' = FailsInitial(node) \/ node' = Fences(node)
    BY <1>3 DEF Completes
  <2>2. /\ node' \in Processes /\ node'.state \in {"retrying", "fenced"}
        /\ SameAttempt(node', node) /\ node'.prior = node.prior
    BY <1>1, <2>1, FailsShape
  <2> QED
    BY <1>1, <2>2, AttemptEnds
<1> QED
  BY <1>2, <1>3

\* read_self_node_lease: the attempt's own record, the held one, an earlier write
\* of this process, or somebody else's.
LEMMA SelfReadKeeps == LeaseInv /\ SelfNodeLeaseRead => LeaseInv'
<1> SUFFICES ASSUME LeaseInv, SelfNodeLeaseRead PROVE LeaseInv'
  OBVIOUS
<1> DEFINE rec == io.saw
<1>1. /\ TypesOK /\ node \in Processes /\ clock \in Nat /\ ownLog \in Logs
      /\ leaseUsed \in [faults : Nat, publishes : Nat, restarts : Nat]
      /\ rec \in Records /\ TTL \in Nat
  BY TTLType DEF LeaseInv, TypesOK, Operations
<1>2. /\ node.state = "reading" /\ io.stage = "served" /\ Answered
      /\ UNCHANGED <<lscope, clock, record, late, ownLog, leaseUsed>>
  BY DEF SelfNodeLeaseRead, Answered
<1>3. node.desired.gen = node.gen /\ node.desired \in Records /\ node.prior \in Holdings
  BY <1>1, <1>2 DEF LeaseInv, GenerationsOK, Processes
<1>4. CASE SameLease(rec, node.desired)
  <2>1. node' = Completes(node, rec) /\ io' = NoIo
    BY <1>4 DEF SelfNodeLeaseRead
  <2> QED
    BY <1>1, <1>2, <1>3, <1>4, <2>1, CompletesKeeps DEF SameLease
<1>5. CASE ~SameLease(rec, node.desired) /\ HasPrior
  <2>0. io' = NoIo
    BY <1>5 DEF SelfNodeLeaseRead
  <2>1. CASE SameLease(rec, node.prior.record)
    <3> DEFINE n == [node EXCEPT !.prior = [node.prior EXCEPT !.record =
                        [node.prior.record EXCEPT !.tag = rec.tag]]]
    <3>1. node' = Resumes(n)
      BY <1>1, <1>5, <2>1 DEF SelfNodeLeaseRead
    <3>2. /\ n \in Processes /\ SameAttempt(n, node)
          /\ n.prior.record.gen = node.prior.record.gen
          /\ n.prior.record.expires = node.prior.record.expires
          /\ n.prior.record.tag = rec.tag /\ n.prior.lastOk = node.prior.lastOk
      BY <1>1, <1>3 DEF Processes, Holdings, Records, SameAttempt
    <3> HIDE DEF n
    <3>3. /\ node' \in Processes /\ node'.state = "held" /\ SameAttempt(node', n)
          /\ node'.prior = n.prior
      BY <1>1, <3>1, <3>2, ResumesShape
    <3>4. /\ rec.gen = node.gen /\ rec.expires <= node.desired.expires
          /\ rec.gen = node.prior.record.gen /\ rec.expires = node.prior.record.expires
          /\ node.prior.lastOk + TTL <= rec.expires
      BY <1>2, <1>5, <2>1 DEF LeaseInv, GenerationsOK, ExpiriesOK, SameLease
    <3>5. node.lapsed /\ ~node.revived => clock - node.prior.lastOk >= TTL
      BY <1>1, <1>2, <1>3, <1>5 DEF LeaseInv, LapseOK, LapsedStaysLapsed, Authoritative, Holdings
    <3>6. /\ node'.gen = node.gen /\ node'.desired = node.desired
          /\ node'.anchor = node.anchor
          /\ node'.lapsed = node.lapsed /\ node'.revived = node.revived
      BY <3>2, <3>3 DEF SameAttempt
    <3> QED
      BY <1>2, <2>0, <3>2, <3>3, <3>4, <3>5, <3>6, LeaseTaken
  <2>2. CASE ~SameLease(rec, node.prior.record) /\ OwnZombie(rec)
    <3>1. node' = Adopts(rec)
      BY <1>5, <2>2 DEF SelfNodeLeaseRead
    <3>2. CASE rec.expires <= clock \/ rec.expires < TTL
      <4>1. node' = Fences(node)
        BY <3>1, <3>2 DEF Adopts
      <4> QED
        BY <1>1, <1>2, <2>0, <4>1, FailsShape, AttemptEnds
    <3>3. CASE ~(rec.expires <= clock \/ rec.expires < TTL)
      <4> DEFINE byDelta == node.prior.lastOk + rec.expires - node.prior.record.expires
                 observed == clock + rec.expires - clock - TTL
                 anchor == IF byDelta < observed THEN byDelta ELSE observed
                 n == [node EXCEPT !.prior = [record |-> rec, lastOk |-> anchor],
                                   !.nudge = TRUE, !.revived = node.revived \/ Expired]
      <4>1. node' = Resumes(n)
        BY <3>1, <3>3 DEF Adopts
      <4>2. /\ rec.gen = node.gen /\ node.prior.record.expires < rec.expires
            /\ rec.expires <= node.desired.expires
        BY <1>1, <1>3, <2>2 DEF OwnZombie, Holdings, Records
      <4>3. anchor \in Nat /\ anchor + TTL <= rec.expires
        BY <1>1, <1>3, <3>3, <4>2 DEF Holdings, Records
      <4> HIDE DEF anchor
      <4>4. Expired \in BOOLEAN /\ node.revived \in BOOLEAN
        BY <1>1 DEF Expired, Processes
      <4>5. /\ n \in Processes
            /\ n.gen = node.gen /\ n.desired = node.desired /\ n.anchor = node.anchor
            /\ n.lapsed = node.lapsed /\ n.revived = (node.revived \/ Expired)
            /\ n.prior = [record |-> rec, lastOk |-> anchor]
        BY <1>1, <4>3, <4>4 DEF Processes, Holdings
      <4> HIDE DEF n
      <4>6. /\ node' \in Processes /\ node'.state = "held" /\ SameAttempt(node', n)
            /\ node'.prior = n.prior
        BY <1>1, <4>1, <4>5, ResumesShape
      <4>7. node.lapsed /\ ~node.revived => Expired
        BY <1>1, <1>2, <1>3, <1>5
        DEF LeaseInv, LapseOK, LapsedStaysLapsed, Authoritative, Expired, Holdings
      <4>8. /\ node'.gen = node.gen /\ node'.desired = node.desired
            /\ node'.anchor = node.anchor /\ node'.lapsed = node.lapsed
            /\ node'.revived = n.revived
            /\ node'.prior.record = rec /\ node'.prior.lastOk = anchor
        BY <4>5, <4>6 DEF SameAttempt
      <4>9. ~(node'.lapsed /\ ~node'.revived)
        <5>1. n.revived = (node.revived \/ Expired)
          BY <4>5
        <5> QED
          BY <4>7, <4>8, <5>1, Zenon
      <4> QED
        BY <1>2, <2>0, <4>2, <4>3, <4>6, <4>8, <4>9, LeaseTaken
    <3> QED
      BY <3>2, <3>3
  <2>3. CASE ~SameLease(rec, node.prior.record) /\ ~OwnZombie(rec)
    <3>1. node' = Fences(node)
      BY <1>5, <2>3 DEF SelfNodeLeaseRead
    <3> QED
      BY <1>1, <1>2, <2>0, <3>1, FailsShape, AttemptEnds
  <2> QED
    BY <2>1, <2>2, <2>3
<1>6. CASE /\ ~SameLease(rec, node.desired) /\ ~HasPrior
           /\ node.readback \/ Unrecovered(rec)
  <2>1. node' = FailsInitial(node) /\ io' = NoIo
    BY <1>6 DEF SelfNodeLeaseRead
  <2> QED
    BY <1>1, <1>2, <2>1, FailsShape, AttemptEnds
<1>7. CASE /\ ~SameLease(rec, node.desired) /\ ~HasPrior
           /\ ~node.readback /\ ~Unrecovered(rec)
  <2> DEFINE wanted == [node.desired EXCEPT !.log = ownLog]
  <2>1. /\ node' = [node EXCEPT !.state = "writing", !.desired = wanted]
        /\ io' = Writes(rec.tag)
    BY <1>1, <1>7 DEF SelfNodeLeaseRead
  <2>2. /\ wanted \in Records /\ wanted.gen = node.desired.gen
        /\ wanted.expires = node.desired.expires
    BY <1>1, <1>3 DEF Records
  <2> HIDE DEF wanted
  <2>3. /\ node' \in Processes /\ node'.state = "writing" /\ node'.gen = node.gen
        /\ node'.prior = node.prior /\ node'.desired = wanted /\ node'.anchor = node.anchor
        /\ node'.lapsed = node.lapsed /\ node'.revived = node.revived
    BY <1>1, <2>1, <2>2 DEF Processes, States
  <2>4. rec.tag \in Nat /\ rec.tag <= record.tag
    BY <1>1, <1>2 DEF LeaseInv, TagsOK, Records
  <2>5. rec.tag = record.tag => Replaceable(node.gen)
    BY <1>2, <1>7 DEF LeaseInv, ReplacedOK, Replaceable, Unrecovered
  <2>6. /\ node.desired.expires = node.anchor + TTL /\ node.anchor <= clock
        /\ node.desired.expires <= wanted.expires
    BY <1>1, <1>2, <1>3, <2>2 DEF LeaseInv, ExpiriesOK, Processes, Records
  <2> QED
    BY <1>2, <1>3, <2>1, <2>2, <2>3, <2>4, <2>5, <2>6, AttemptStarts
<1> QED
  BY <1>4, <1>5, <1>6, <1>7

\* node_lease_cas_completed.
LEMMA CasCompletedKeeps == LeaseInv /\ NodeLeaseCasCompleted => LeaseInv'
<1> SUFFICES ASSUME LeaseInv, NodeLeaseCasCompleted PROVE LeaseInv'
  OBVIOUS
<1>1. /\ TypesOK /\ node \in Processes /\ ownLog \in Logs
      /\ leaseUsed \in [faults : Nat, publishes : Nat, restarts : Nat]
      /\ io.saw \in Records /\ node.desired \in Records
  BY DEF LeaseInv, TypesOK, Operations, Processes
<1>2. /\ node.state = "writing"
      /\ UNCHANGED <<lscope, clock, record, late, ownLog, leaseUsed>>
  BY DEF NodeLeaseCasCompleted
<1>3. CASE io.stage = "applied"
  <2> DEFINE rec == [node.desired EXCEPT !.tag = io.saw.tag]
  <2>1. node' = Completes(node, rec) /\ io' = NoIo /\ Answered
    BY <1>3 DEF NodeLeaseCasCompleted, Answered
  <2>2. /\ rec \in Records /\ rec.gen = node.desired.gen
        /\ rec.expires = node.desired.expires /\ rec.tag = io.saw.tag
    BY <1>1 DEF Records
  <2> HIDE DEF rec
  <2>3. /\ io.saw.gen = node.gen /\ node.desired.gen = node.gen
        /\ io.saw.expires = node.desired.expires
    BY <1>2, <1>3 DEF LeaseInv, OperationsOK, GenerationsOK
  <2> QED
    BY <1>2, <2>1, <2>2, <2>3, CompletesKeeps
<1>4. CASE io.stage = "rejected"
  <2>1. node' = [node EXCEPT !.state = "reading"] /\ io' = Reads
    BY <1>4 DEF NodeLeaseCasCompleted
  <2>2. /\ node' \in Processes /\ node'.state = "reading"
        /\ SameAttempt(node', node) /\ node'.prior = node.prior
    BY <1>1, <2>1 DEF Processes, States, SameAttempt
  <2> QED
    BY <1>1, <1>2, <2>1, <2>2, AttemptEnds
<1> QED
  BY <1>3, <1>4 DEF NodeLeaseCasCompleted

\* A lost answer and a failed operation.
LEMMA FaultKeeps == LeaseInv /\ (CasIsAmbiguous \/ LeaseIoFails) => LeaseInv'
<1> SUFFICES ASSUME LeaseInv, CasIsAmbiguous \/ LeaseIoFails PROVE LeaseInv'
  OBVIOUS
<1>1. /\ TypesOK /\ node \in Processes /\ ownLog \in Logs
      /\ leaseUsed \in [faults : Nat, publishes : Nat, restarts : Nat]
  BY DEF LeaseInv, TypesOK
<1>2. leaseUsed' \in [faults : Nat, publishes : Nat, restarts : Nat]
  BY <1>1 DEF CasIsAmbiguous, LeaseIoFails, Faulty
<1>3. CASE CasIsAmbiguous
  <2>1. /\ node' = [node EXCEPT !.state = "reading", !.readback = TRUE]
        /\ io' = Reads /\ late' = GivenUp /\ node.state = "writing"
        /\ UNCHANGED <<lscope, clock, record, ownLog>>
    BY <1>3 DEF CasIsAmbiguous
  <2>2. /\ node' \in Processes /\ node'.state = "reading"
        /\ SameAttempt(node', node) /\ node'.prior = node.prior
    BY <1>1, <2>1 DEF Processes, States, SameAttempt
  <2> QED
    BY <1>1, <1>2, <2>1, <2>2, AttemptEnds
<1>4. CASE LeaseIoFails
  <2>1. /\ node' = FailsOrResumes(node) /\ io' = NoIo
        /\ node.state \in {"reading", "writing"}
        /\ UNCHANGED <<lscope, clock, record, late, ownLog>>
    BY <1>4 DEF LeaseIoFails
  <2>2. /\ node' \in Processes /\ node'.state \in {"held", "retrying"}
        /\ SameAttempt(node', node) /\ node'.prior = node.prior
        /\ node'.state = "held" => HasPrior
    BY <1>1, <2>1, FailsShape, ResumesShape DEF FailsOrResumes, HasPrior
  <2> QED
    BY <1>1, <1>2, <2>1, <2>2, AttemptEnds
<1> QED
  BY <1>3, <1>4

\* Timer::NodeLeaseRenew.
LEMMA RenewKeeps == ASSUME NEW t \in node.renewals PROVE LeaseInv /\ RenewFires(t) => LeaseInv'
<1> SUFFICES ASSUME LeaseInv, RenewFires(t) PROVE LeaseInv'
  OBVIOUS
<1> DEFINE n == [node EXCEPT !.renewals = node.renewals \ {t}]
<1>1. /\ TypesOK /\ node \in Processes /\ ownLog \in Logs /\ clock \in Nat /\ TTL \in Nat
      /\ leaseUsed \in [faults : Nat, publishes : Nat, restarts : Nat]
  BY TTLType DEF LeaseInv, TypesOK
<1>2. UNCHANGED <<lscope, clock, record, ownLog, leaseUsed>>
  BY DEF RenewFires
<1>3. node.renewals \ {t} \in SUBSET Nat
  BY <1>1 DEF Processes
<1>4. /\ n \in Processes /\ SameAttempt(n, node)
      /\ n.prior = node.prior /\ n.state = node.state
  BY <1>1, <1>3 DEF Processes, SameAttempt
<1>5. CASE /\ node.state = "retrying" /\ node' = Acquires(n) /\ io' = Reads /\ late' = late
  <2>1. node.desired.expires <= clock + TTL
    BY <1>5 DEF LeaseInv, ExpiriesOK
  <2>2. n.gen = node.gen
    BY <1>4 DEF SameAttempt
  <2> HIDE DEF n
  <2>3. /\ node' \in Processes /\ node'.state = "reading" /\ node'.gen = node.gen
        /\ node'.prior = NoPrior /\ node'.lapsed = FALSE /\ node'.anchor = clock
        /\ node'.desired.gen = node.gen /\ node'.desired.expires = clock + TTL
    BY <1>1, <1>4, <1>5, <2>2, AcquiresShape
  <2>4. ~node'.lapsed /\ node'.anchor <= clock
    BY <1>1, <2>3
  <2> QED
    BY <1>2, <1>5, <2>1, <2>3, <2>4, AttemptStarts
<1>6. CASE /\ node.state # "retrying" /\ HasPrior /\ Expired
           /\ node' = Fences(n) /\ io' = NoIo /\ late' = GivenUp
  <2>1. node.state # "unstarted"
    BY <1>6 DEF LeaseInv, GenerationsOK
  <2>2. n.gen = node.gen
    BY <1>4 DEF SameAttempt
  <2> HIDE DEF n
  <2>3. /\ node' \in Processes /\ node'.state = "fenced"
        /\ SameAttempt(node', node) /\ node'.prior = node.prior
    BY <1>1, <1>4, <1>6, FailsShape DEF SameAttempt
  <2> QED
    BY <1>1, <1>2, <1>6, <2>1, <2>3, AttemptEnds
<1>7. CASE /\ node.state = "held" /\ ~Expired
           /\ node' = [n EXCEPT !.state = "writing", !.anchor = clock, !.readback = FALSE,
                          !.desired = [gen |-> n.gen, expires |-> clock + TTL, log |-> ownLog,
                                       tag |-> 0]]
           /\ io' = Writes(node.prior.record.tag) /\ late' = late
  <2>1. n.gen = node.gen /\ n.lapsed = node.lapsed /\ n.revived = node.revived
    BY <1>4 DEF SameAttempt
  <2> HIDE DEF n
  <2>2. [gen |-> n.gen, expires |-> clock + TTL, log |-> ownLog, tag |-> 0] \in Records
    BY <1>1, <1>4 DEF Processes, Records
  <2>3. /\ node' \in Processes /\ node'.state = "writing" /\ node'.gen = node.gen
        /\ node'.prior = node.prior /\ node'.anchor = clock
        /\ node'.desired = [gen |-> n.gen, expires |-> clock + TTL, log |-> ownLog, tag |-> 0]
        /\ node'.lapsed = node.lapsed /\ node'.revived = node.revived
    BY <1>1, <1>4, <1>7, <2>1, <2>2 DEF Processes, States
  <2>4. node'.desired.gen = node.gen /\ node'.desired.expires = clock + TTL
    BY <2>1, <2>3
  <2>5. node.desired.expires <= clock + TTL
    BY <1>7 DEF LeaseInv, ExpiriesOK
  <2>6. /\ node.prior.record.tag \in Nat /\ node.prior.record.tag <= record.tag
        /\ node.prior.record.tag = record.tag => Replaceable(node.gen)
    <3>1. CASE HasPrior
      BY <1>1, <3>1 DEF LeaseInv, TagsOK, ReplacedOK, Replaceable, Processes, Holdings, Records
    <3>2. CASE ~HasPrior
      BY <1>7, <3>2 DEF LeaseInv, LapseOK
    <3> QED
      BY <3>1, <3>2
  <2> QED
    BY <1>1, <1>2, <1>7, <2>3, <2>4, <2>5, <2>6, AttemptStarts
<1>8. CASE /\ node.state \in {"reading", "writing"} /\ ~(HasPrior /\ Expired)
           /\ node' = n /\ UNCHANGED <<io, late>>
  BY <1>1, <1>2, <1>4, <1>8, TimersMove
<1> QED
  BY <1>5, <1>6, <1>7, <1>8 DEF RenewFires

\* Timer::NodeLeaseFence.
LEMMA FenceKeeps == LeaseInv /\ FenceFires => LeaseInv'
<1> SUFFICES ASSUME LeaseInv, FenceFires PROVE LeaseInv'
  OBVIOUS
<1>1. /\ TypesOK /\ node \in Processes /\ ownLog \in Logs
      /\ leaseUsed \in [faults : Nat, publishes : Nat, restarts : Nat]
  BY DEF LeaseInv, TypesOK
<1>2. /\ node' = Fences(node) /\ io' = NoIo /\ late' = GivenUp /\ node.state # "unstarted"
      /\ UNCHANGED <<lscope, clock, record, ownLog, leaseUsed>>
  BY DEF FenceFires
<1> QED
  BY <1>1, <1>2, FailsShape, AttemptEnds

\* set_own_log and NudgeNodeLease.
LEMMA PublishKeeps ==
    ASSUME NEW log \in {"open", "sealed"} PROVE LeaseInv /\ PublishLog(log) => LeaseInv'
<1> SUFFICES ASSUME LeaseInv, PublishLog(log) PROVE LeaseInv'
  OBVIOUS
<1>1. /\ TypesOK /\ node \in Processes /\ clock \in Nat
      /\ leaseUsed \in [faults : Nat, publishes : Nat, restarts : Nat]
  BY DEF LeaseInv, TypesOK
<1>2. /\ ownLog' \in Logs /\ UNCHANGED <<lscope, clock, record, io, late>>
      /\ leaseUsed' \in [faults : Nat, publishes : Nat, restarts : Nat]
  BY <1>1 DEF PublishLog, Logs
<1>3. node.renewals \cup {clock} \in SUBSET Nat
  BY <1>1 DEF Processes
<1>4. \/ node' = [node EXCEPT !.renewals = node.renewals \cup {clock}]
      \/ node' = [node EXCEPT !.nudge = TRUE]
  BY DEF PublishLog
<1>5. /\ node' \in Processes /\ SameAttempt(node', node)
      /\ node'.prior = node.prior /\ node'.state = node.state
  BY <1>1, <1>3, <1>4 DEF Processes, SameAttempt
<1> QED
  BY <1>2, <1>5, TimersMove

\* A new process has a generation of its own, which no write on its way carries.
LEMMA RestartKeeps == LeaseInv /\ Restarts => LeaseInv'
<1> SUFFICES ASSUME LeaseInv, Restarts PROVE LeaseInv'
  OBVIOUS
<1> USE DEF LeaseInv
<1>1. /\ node' = Unstarted(node.gen + 1) /\ io' = NoIo /\ ownLog' = "none" /\ late' = GivenUp
      /\ UNCHANGED <<lscope, clock, record>>
      /\ leaseUsed' = [leaseUsed EXCEPT !.restarts = @ + 1]
  BY DEF Restarts
<1>2. /\ node' \in Processes /\ node'.state = "unstarted" /\ node'.gen = node.gen + 1
      /\ node'.prior = NoPrior /\ node'.lapsed = FALSE /\ ~HasPrior'
  BY <1>1 DEF TypesOK, Unstarted, Processes, States, Holdings, Records, Logs, NoPrior, NoLease,
              HasPrior
<1>3. /\ io' \in Operations /\ io'.stage = "sent" /\ io'.guard = 0 /\ ~Answered'
      /\ io'.kind = "none"
  BY <1>1, IoShape DEF Answered
<1>4. /\ late' \subseteq LateWrites
      /\ \A w \in late' :
            \/ w \in late
            \/ /\ io.kind = "cas" /\ io.stage = "sent"
               /\ w.guard = io.guard /\ w.body = node.desired
  BY <1>1, GivenUpShape
<1>5. TypesOK'
  BY <1>1, <1>2, <1>3, <1>4 DEF TypesOK, Logs
<1>6. OperationsOK'
  BY <1>2, <1>3 DEF OperationsOK
<1>7. /\ node.gen \in Nat /\ record.gen \in Nat /\ record.gen <= node.gen
      /\ \A w \in late' : w.body.gen \in Nat /\ w.body.gen <= node.gen
  <2>1. io.kind = "cas" => node.desired.gen = node.gen
    BY DEF OperationsOK, GenerationsOK
  <2> QED
    BY <1>4, <2>1 DEF GenerationsOK, TypesOK, Processes, Records, LateWrites
<1>8. /\ record'.gen < node'.gen /\ record'.gen # node'.gen
      /\ \A w \in late' : w.body.gen < node'.gen /\ w.body.gen # node'.gen
  BY <1>1, <1>2, <1>7
<1>9. GenerationsOK' /\ ExpiriesOK'
  <2>1. node'.gen > 0 /\ record'.gen <= node'.gen /\ \A w \in late' : w.body.gen <= node'.gen
    BY <1>1, <1>2, <1>7
  <2> QED
    BY <1>2, <1>8, <2>1 DEF GenerationsOK, ExpiriesOK
<1>10. TagsOK'
  BY <1>1, <1>2, <1>3, <1>4 DEF TagsOK, TypesOK, Records
<1>11. OrderOK'
  BY <1>2, <1>3, <1>8 DEF OrderOK
<1>12. ReplacedOK'
  <2>1. io.kind = "cas" => node.desired.gen = node.gen
    BY DEF OperationsOK, GenerationsOK
  <2> QED
    BY <1>1, <1>2, <1>3, <1>4, <2>1 DEF ReplacedOK, Replaceable
<1>13. LapseOK'
  BY <1>2 DEF LapseOK, LapsedStaysLapsed
<1> QED
  BY <1>5, <1>6, <1>9, <1>10, <1>11, <1>12, <1>13

----------------------------------------------------------------------------
(* The theorems                                                             *)

\* Every step keeps the invariant.
LEMMA NextInv == LeaseInv /\ [LeaseNext]_leaseVars => LeaseInv'
<1> SUFFICES ASSUME LeaseInv, [LeaseNext]_leaseVars PROVE LeaseInv'
  OBVIOUS
<1>1. CASE StartNodeLease
  BY <1>1, StartKeeps
<1>2. CASE SelfNodeLeaseRead
  BY <1>2, SelfReadKeeps
<1>3. CASE NodeLeaseCasCompleted
  BY <1>3, CasCompletedKeeps
<1>4. CASE CasIsAmbiguous \/ LeaseIoFails
  BY <1>4, FaultKeeps
<1>5. ASSUME NEW t \in node.renewals, RenewFires(t) PROVE LeaseInv'
  BY <1>5, RenewKeeps
<1>6. CASE FenceFires
  BY <1>6, FenceKeeps
<1>7. ASSUME NEW log \in {"open", "sealed"}, PublishLog(log) PROVE LeaseInv'
  BY <1>7, PublishKeeps
<1>8. CASE Served
  BY <1>8, ServedKeeps
<1>9. ASSUME NEW w \in late, LateWriteLands(w) PROVE LeaseInv'
  BY <1>9, LateWriteKeeps
<1>10. CASE PeerRecovers
  BY <1>10, PeerKeeps
<1>11. CASE Tick
  BY <1>11, TickKeeps
<1>12. CASE Restarts
  BY <1>12, RestartKeeps
<1>13. CASE UNCHANGED leaseVars
  <2>1. UNCHANGED <<lscope, clock, record, node, io, late, ownLog, leaseUsed>>
    BY <1>13 DEF leaseVars
  <2>2. UNCHANGED <<TTL, HasPrior, Answered>>
    BY <2>1 DEF TTL, HasPrior, Answered
  <2>3. TypesOK' /\ OperationsOK' /\ LapseOK'
    BY <2>1, <2>2 DEF LeaseInv, TypesOK, OperationsOK, LapseOK, LapsedStaysLapsed, Authoritative
  <2>4. GenerationsOK' /\ ExpiriesOK' /\ TagsOK'
    BY <2>1, <2>2 DEF LeaseInv, GenerationsOK, ExpiriesOK, TagsOK
  <2>5. OrderOK' /\ ReplacedOK'
    BY <2>1, <2>2 DEF LeaseInv, OrderOK, Outlasts, ReplacedOK, Replaceable
  <2> QED
    BY <2>3, <2>4, <2>5 DEF LeaseInv
<1> QED
  BY <1>1, <1>2, <1>3, <1>4, <1>5, <1>6, <1>7, <1>8, <1>9, <1>10, <1>11, <1>12, <1>13
  DEF LeaseNext

\* Each step of the lease protocol is one of a system in LeaseInv.
LEMMA AlwaysInv == LeaseSpec => []LeaseInv
<1> QED
  BY InitInv, NextInv, PTL DEF LeaseSpec

\* The lease a process counts on ends no later than the record it published
\* (LeaseTypeOK), for every scope.
THEOREM LeaseTypes == LeaseSpec => []LeaseTypeOK
<1>1. LeaseInv => LeaseTypeOK
  BY DEF LeaseInv, TypesOK, OperationsOK, ExpiriesOK, LeaseTypeOK, Processes, States, Records,
         Logs, Operations
<1> QED
  BY <1>1, AlwaysInv, PTL

\* Whatever answers are lost or late, a process that held the lease while the
\* published record lapsed has no authority afterwards, unless it adopted a late
\* write (complete_node_lease_write, node_authoritative).
THEOREM LapsedForGood == LeaseSpec => []LapsedStaysLapsed
<1>1. LeaseInv => LapsedStaysLapsed
  BY DEF LeaseInv, LapseOK
<1> QED
  BY <1>1, AlwaysInv, PTL

\* Over any restarts and late writes, a record whose log awaits recovery is
\* replaced only by the session that opened the log (read_self_node_lease).
THEOREM EvidenceSurvives == LeaseSpec => EvidenceKept
<1> DEFINE Step == record'.gen # record.gen => record.log \in {"none", "sealed"}
<1>1. LeaseInv /\ [LeaseNext]_leaseVars => [Step]_leaseVars
  <2> SUFFICES ASSUME LeaseInv, LeaseNext, record'.gen # record.gen
               PROVE  record.log \in {"none", "sealed"}
    OBVIOUS
  <2>1. /\ record \in Records /\ node.desired \in Records
        /\ \A w \in late : w.body \in Records
    BY DEF LeaseInv, TypesOK, Processes, LateWrites
  <2>2. record' # record
    OBVIOUS
  <2>3. CASE Served
    <3>1. io.kind = "cas" /\ io.guard = record.tag
      BY <2>2, <2>3 DEF Served
    <3>2. record'.gen = node.gen
      BY <2>1, <2>3, <3>1 DEF Served, LeaseInv, OperationsOK, GenerationsOK, Records
    <3> QED
      BY <3>1, <3>2 DEF LeaseInv, ReplacedOK, Replaceable
  <2>4. ASSUME NEW w \in late, LateWriteLands(w) PROVE record.log \in {"none", "sealed"}
    <3>1. w.guard = record.tag /\ record' = [w.body EXCEPT !.tag = record.tag + 1]
      BY <2>2, <2>4 DEF LateWriteLands
    <3>2. record'.gen = w.body.gen
      BY <2>1, <3>1 DEF Records
    <3> QED
      BY <3>1, <3>2 DEF LeaseInv, ReplacedOK, Replaceable
  <2>5. ~PeerRecovers
    <3> SUFFICES ASSUME PeerRecovers PROVE FALSE
      OBVIOUS
    <3>1. PICK log : record' = [record EXCEPT !.tag = record.tag + 1, !.log = log]
      BY DEF PeerRecovers
    <3>2. record'.gen = record.gen
      BY <2>1, <3>1 DEF Records
    <3> QED
      BY <3>2
  <2> QED
    BY <2>2, <2>3, <2>4, <2>5
    DEF LeaseNext, StartNodeLease, SelfNodeLeaseRead, NodeLeaseCasCompleted, CasIsAmbiguous,
        LeaseIoFails, RenewFires, FenceFires, PublishLog, Tick, Restarts
<1> QED
  BY <1>1, AlwaysInv, PTL DEF LeaseSpec, EvidenceKept

=============================================================================
