--------------------------- MODULE CellDurability ---------------------------
(* What a cell's owners write, where it becomes durable, and when a write  *)
(* is acknowledged: CellOwnership composed with the LTX replica of each    *)
(* activation (crates/celld/ltx_repl.rs), the output gate's two proofs and *)
(* the node log that a fleet proof rests on.                               *)
(*                                                                         *)
(* A database image is the set of writes it contains.  A replication       *)
(* prefix e<epoch>/ holds one image: its first object is a snapshot of the *)
(* restored image, and every later one adds writes; the transaction ids    *)
(* inside a prefix are abstracted.  An upload is an unconditional PUT, so  *)
(* one that a dead process sent may land at any later time.  The node log  *)
(* of a node is the set of images its followers hold, with the state the   *)
(* node's lease record publishes for it; sealing and folding the log is    *)
(* one step.                                                               *)
EXTENDS CellOwnership

CONSTANTS
    Write,      \* the writes clients submit
    FleetTier   \* nodes keep a node log, so followers can prove a write

ASSUME FleetAssumption == FleetTier \in BOOLEAN

VARIABLES
    db,       \* the image a node's open or last open database contains
    handle,   \* the epoch of the node's open LTX replica, or 0
    snap,     \* the preserved .evicted image on a node's disk, and its epoch
    tail,     \* dirty_tails: an ended epoch left acked rows to fold
    prefix,   \* the image under each replication prefix of the bucket
    objects,  \* the epochs whose prefix is not empty
    puts,     \* uploads in flight
    proved,   \* writes a bucket proof covers, before the ownership read
    log,      \* the node log: "none", "open" or "sealed"
    rows,     \* rows[n][e]: the image of epoch e that n's followers hold
    issued,   \* writes submitted so far
    acked     \* the epoch a write was acknowledged at, or 0

dataVars == <<db, handle, snap, tail, prefix, objects, puts, proved, log,
              rows, issued, acked>>
dvars == <<own, granted, writers, late, proc, lease, kept, draining, phase,
           epoch, claim, cas, cause, rel, handoff, attempts, db, handle, snap,
           tail, prefix, objects, puts, proved, log, rows, issued, acked>>

Image == SUBSET Write
NoSnap == [epoch |-> 0, image |-> {}]
Put == [node : Node, epoch : Epoch, image : Image]

DInit ==
    /\ Init
    /\ db = [n \in Node |-> {}]
    /\ handle = [n \in Node |-> 0]
    /\ snap = [n \in Node |-> NoSnap]
    /\ tail = [n \in Node |-> FALSE]
    /\ prefix = [e \in Epoch |-> {}]
    /\ objects = {}
    /\ puts = {}
    /\ proved = [n \in Node |-> {}]
    /\ log = [n \in Node |-> "none"]
    /\ rows = [n \in Node |-> [e \in Epoch |-> {}]]
    /\ issued = {}
    /\ acked = [w \in Write |-> 0]

----------------------------------------------------------------------------
(* Serving.                                                                *)

\* A client write commits to the resident database; its answer is held.
Commit(n, w) ==
    /\ proc[n] = "up" /\ phase[n] = "Resident"
    /\ w \notin issued
    /\ issued' = issued \cup {w}
    /\ db' = [db EXCEPT ![n] = @ \cup {w}]
    /\ UNCHANGED <<vars, handle, snap, tail, prefix, objects, puts, proved,
                   log, rows, acked>>

\* A replica uploads what its prefix lacks, one upload at a time.
Upload(n) ==
    /\ proc[n] = "up" /\ handle[n] # 0
    /\ handle[n] \notin objects \/ ~(db[n] \subseteq prefix[handle[n]])
    /\ ~\E p \in puts : p.node = n /\ p.epoch = handle[n]
    /\ puts' = puts \cup {[node |-> n, epoch |-> handle[n], image |-> db[n]]}
    /\ UNCHANGED <<vars, db, handle, snap, tail, prefix, objects, proved, log,
                   rows, issued, acked>>

\* The upload lands.  For the process that sent it, it is the bucket's proof.
LandPut(p) ==
    /\ p \in puts
    /\ puts' = puts \ {p}
    /\ prefix' = [prefix EXCEPT ![p.epoch] = @ \cup p.image]
    /\ objects' = objects \cup {p.epoch}
    /\ proved' = IF proc[p.node] = "up" /\ phase[p.node] = "Resident"
                    /\ epoch[p.node] = p.epoch
                 THEN [proved EXCEPT ![p.node] = @ \cup p.image]
                 ELSE proved
    /\ UNCHANGED <<vars, db, handle, snap, tail, log, rows, issued, acked>>

\* Writes of n's image that are answered to their clients.
Acknowledge(n, image) ==
    acked' = [w \in Write |-> IF w \in image /\ acked[w] = 0
                              THEN epoch[n] ELSE acked[w]]

\* Mutant: a bucket proof alone answers.
VerifyOwnershipUnread(n) ==
    /\ proc[n] = "up" /\ phase[n] = "Resident"
    /\ proved[n] # {}
    /\ Acknowledge(n, proved[n])
    /\ proved' = [proved EXCEPT ![n] = {}]
    /\ UNCHANGED <<vars, db, handle, snap, tail, prefix, objects, puts, log,
                   rows, issued>>
\* VerifyOwnership after a bucket proof: one read of the owner record, which
\* must still name this node at this epoch.
VerifyOwnership(n) ==
    /\ proc[n] = "up" /\ phase[n] = "Resident"
    /\ proved[n] # {}
    /\ own = Owned(n, epoch[n])
    /\ Acknowledge(n, proved[n])
    /\ proved' = [proved EXCEPT ![n] = {}]
    /\ UNCHANGED <<vars, db, handle, snap, tail, prefix, objects, puts, log,
                   rows, issued>>

\* A fleet proof: the followers of an open log hold the image.  It needs no
\* ownership read, because a takeover seals the log first.
FleetProof(n) ==
    /\ FleetTier
    /\ proc[n] = "up" /\ phase[n] = "Resident"
    /\ log[n] = "open"
    /\ rows' = [rows EXCEPT ![n][epoch[n]] = @ \cup db[n]]
    /\ Acknowledge(n, db[n])
    /\ UNCHANGED <<vars, db, handle, snap, tail, prefix, objects, puts,
                   proved, log, issued>>

\* reset_cell: a proof that did not complete, or a record that names another.
\* StopRuntime{Reset} discards the database and records an undrained tail.
DResetCell(n) ==
    /\ ResetCell(n)
    /\ proved' = [proved EXCEPT ![n] = {}]
    /\ UNCHANGED <<db, handle, snap, tail, prefix, objects, puts, log, rows,
                   issued, acked>>

----------------------------------------------------------------------------
(* Activation.                                                             *)

\* Folding a node's log writes its rows under the prefixes they belong to.
Folded(n) == [e \in Epoch |-> prefix[e] \cup rows[n][e]]
FoldedObjects(n) == objects \cup {e \in Epoch : rows[n][e] # {}}

\* The local snapshot of the previous epoch is the baseline of a claim that
\* took the cell from nobody.
SnapReusable(n) ==
    /\ ~Fresh(n) /\ ~TookOver(n)
    /\ epoch[n] > 1
    /\ snap[n].epoch = epoch[n] - 1

\* epoch_chain: the newest prefix, which must be older than the claim.
Newest(objs) == CHOOSE x \in objs : \A y \in objs : y <= x
ChainImage(pre, objs) == IF objs = {} THEN {} ELSE pre[Newest(objs)]

\* activate_with.
Open(n, image) ==
    /\ db' = [db EXCEPT ![n] = image]
    /\ handle' = [handle EXCEPT ![n] = epoch[n]]
    /\ snap' = [snap EXCEPT ![n] = NoSnap]
    /\ UNCHANGED <<puts, proved, log, rows, issued, acked>>

ResumeLocal(n) ==
    /\ kept[n] # 0
    /\ Open(n, db[n])
    /\ UNCHANGED <<tail, prefix, objects>>

OpenFresh(n) ==
    /\ kept[n] = 0 /\ Fresh(n)
    /\ Open(n, {})
    /\ UNCHANGED <<tail, prefix, objects>>

ReuseSnapshot(n) ==
    /\ kept[n] = 0 /\ SnapReusable(n)
    /\ Open(n, snap[n].image)
    /\ UNCHANGED <<tail, prefix, objects>>

\* Mutant: the tail an ended epoch of this node left is not folded.
RestoreFromBucketUnfolded(n) ==
    /\ kept[n] = 0 /\ ~Fresh(n) /\ ~SnapReusable(n)
    /\ UNCHANGED <<tail, prefix, objects>>
    /\ \A e \in objects : e < epoch[n]
    /\ Open(n, ChainImage(prefix, objects))

RestoreFromBucket(n) ==
    /\ kept[n] = 0 /\ ~Fresh(n) /\ ~SnapReusable(n)
    /\ prefix' = IF tail[n] THEN Folded(n) ELSE prefix
    /\ objects' = IF tail[n] THEN FoldedObjects(n) ELSE objects
    /\ tail' = [tail EXCEPT ![n] = FALSE]
    /\ \A e \in objects' : e < epoch[n]
    /\ Open(n, ChainImage(prefix', objects'))

DRestoreCompleted(n) ==
    /\ RestoreCompleted(n)
    /\ \/ ResumeLocal(n) \/ OpenFresh(n) \/ ReuseSnapshot(n)
       \/ RestoreFromBucket(n)

----------------------------------------------------------------------------
(* Eviction and stops.                                                     *)

\* begin_eviction admits a cell whose outputs are settled or cancelled.
DBeginEviction(n, c) ==
    /\ BeginEviction(n, c)
    /\ proved' = [proved EXCEPT ![n] = {}]
    /\ UNCHANGED <<db, handle, snap, tail, prefix, objects, puts, log, rows,
                   issued, acked>>

\* EnsureDurable: either proof covers the image.
DDurabilityChecked(n) ==
    /\ DurabilityChecked(n)
    /\ db[n] \subseteq prefix[epoch[n]] \cup rows[n][epoch[n]]
    /\ UNCHANGED dataVars

\* A swap waits for a safe point: no barrier is open on the cell.
DBeginSwap(n) ==
    /\ BeginSwap(n)
    /\ proved[n] = {}
    /\ UNCHANGED dataVars

\* Mutant: a proof of either tier is enough to give the record away.
FinalBarrierEither(n) == db[n] \subseteq prefix[epoch[n]] \cup rows[n][epoch[n]]
\* The final barrier of evict and release: the prefix holds the image.
FinalBarrier(n) == epoch[n] \in objects /\ db[n] \subseteq prefix[epoch[n]]

\* StopRuntime: an eviction and a cleanup pass the final barrier, and keep the
\* image on disk unless the record is being given away; a reset discards the
\* image and notes rows that only followers hold; a swap leaves it all open.
StopReplica(n) ==
    /\ \/ cause[n] = "Swap" /\ UNCHANGED <<db, handle, snap, tail>>
       \/ /\ cause[n] = "Reset"
          /\ tail' = [tail EXCEPT ![n] =
                        @ \/ ~(rows[n][epoch[n]] \subseteq prefix[epoch[n]])]
          /\ db' = [db EXCEPT ![n] = {}]
          /\ handle' = [handle EXCEPT ![n] = 0]
          /\ UNCHANGED snap
       \/ /\ cause[n] \in {"Evict", "Rebalance", "Cleanup"}
          /\ FinalBarrier(n)
          /\ snap' = [snap EXCEPT ![n] =
                        IF cause[n] = "Rebalance" THEN NoSnap
                        ELSE [epoch |-> epoch[n], image |-> db[n]]]
          /\ db' = [db EXCEPT ![n] = {}]
          /\ handle' = [handle EXCEPT ![n] = 0]
          /\ UNCHANGED tail
    /\ UNCHANGED <<prefix, objects, puts, proved, log, rows, issued, acked>>

DRuntimeStopped(n) == RuntimeStopped(n) /\ StopReplica(n)
DRuntimeStoppedShed(n) == RuntimeStoppedShed(n) /\ StopReplica(n)

----------------------------------------------------------------------------
(* The node log, and the interlock between it and a takeover.              *)

OpenLog(n) ==
    /\ FleetTier
    /\ proc[n] = "up" /\ log[n] = "none"
    /\ log' = [log EXCEPT ![n] = "open"]
    /\ UNCHANGED <<vars, db, handle, snap, tail, prefix, objects, puts,
                   proved, rows, issued, acked>>

\* Recovery of a dead node's log by a survivor or by its own next process,
\* refused while the lease on the record being fenced is live.
RecoverLog(n) ==
    /\ log[n] = "open"
    /\ ~lease[n] \/ "skew" \in Behaviours
    /\ prefix' = Folded(n)
    /\ objects' = FoldedObjects(n)
    /\ log' = [log EXCEPT ![n] = "sealed"]
    /\ UNCHANGED <<vars, db, handle, snap, tail, puts, proved, rows, issued,
                   acked>>

\* Mutant: a log whose owner is down counts as recovered.
UnrecoveredLive(n) == /\ log[claim[n].guard.node] = "open"
                      /\ proc[claim[n].guard.node] = "up"
\* The takeover interlock asks for a sealed log, or none.
Unrecovered(n) == log[claim[n].guard.node] = "open"

DNodeLeaseDead(n) ==
    /\ NodeLeaseDead(n) /\ ~Unrecovered(n) /\ UNCHANGED dataVars

DNodeLeaseUnrecovered(n) ==
    /\ NodeLeaseUnrecovered(n) /\ Unrecovered(n) /\ UNCHANGED dataVars

DNodeLogRecovered(n) ==
    /\ NodeLogRecovered(n) /\ ~Unrecovered(n) /\ UNCHANGED dataVars

----------------------------------------------------------------------------
(* Node authority.                                                         *)

\* A fence or a crash: memory is gone; the disk and the uploads are not.
DFence(n) ==
    /\ Fence(n)
    /\ db' = [db EXCEPT ![n] = {}]
    /\ handle' = [handle EXCEPT ![n] = 0]
    /\ tail' = [tail EXCEPT ![n] = FALSE]
    /\ proved' = [proved EXCEPT ![n] = {}]
    /\ UNCHANGED <<snap, prefix, objects, puts, log, rows, issued, acked>>

\* prepare_clean_reload: the bucket holds what a resident database contains
\* before the process leaves it on disk.
DPreserve(n) ==
    /\ Preserve(n)
    /\ phase[n] = "Resident" => FinalBarrier(n)
    /\ db' = [db EXCEPT ![n] = IF phase[n] = "Resident" THEN @ ELSE {}]
    /\ handle' = [handle EXCEPT ![n] = 0]
    /\ tail' = [tail EXCEPT ![n] = FALSE]
    /\ proved' = [proved EXCEPT ![n] = {}]
    /\ UNCHANGED <<snap, prefix, objects, puts, log, rows, issued, acked>>

\* The boot order recovers the predecessor's log before the lease installs.
DRestart(n) ==
    /\ Restart(n)
    /\ log[n] # "open"
    /\ log' = [log EXCEPT ![n] = "none"]
    /\ rows' = [rows EXCEPT ![n] = [e \in Epoch |-> {}]]
    /\ db' = [db EXCEPT ![n] = {}]
    /\ UNCHANGED <<handle, snap, tail, prefix, objects, puts, proved, issued,
                   acked>>

----------------------------------------------------------------------------
DServe(n) ==
    \/ \E w \in Write : Commit(n, w)
    \/ Upload(n) \/ VerifyOwnership(n) \/ FleetProof(n) \/ DResetCell(n)
DResolve(n) ==
    \/ /\ \/ Wake(n) \/ OwnerReadConfirming(n) \/ OwnerReadApplied(n)
          \/ OwnerReadClaimable(n) \/ PlacedOnPeer(n) \/ OwnerReadForeign(n)
          \/ ResolveFailed(n) \/ InvalidateRemote(n) \/ NodeLeaseLive(n)
          \/ NodeLogRecoveryFailed(n) \/ RetryOwnerLogRecovery(n)
       /\ UNCHANGED dataVars
    \/ DNodeLeaseDead(n) \/ DNodeLeaseUnrecovered(n) \/ DNodeLogRecovered(n)
DActivate(n) ==
    \/ DRestoreCompleted(n)
    \/ /\ \/ Acquire(n) \/ RestoreFailed(n) \/ RuntimeStarted(n)
          \/ RuntimeStartFailed(n) \/ Published(n) \/ PublishFailed(n)
       /\ UNCHANGED dataVars
DStop(n) ==
    \/ \E c \in {"Evict", "Rebalance"} : DBeginEviction(n, c)
    \/ DDurabilityChecked(n) \/ DBeginSwap(n)
    \/ DRuntimeStopped(n) \/ DRuntimeStoppedShed(n)
    \/ /\ EvictionCancelled(n) \/ RuntimeStopFailed(n)
       /\ UNCHANGED dataVars
\* A cell that leaves its resident phase under demand leaves its replica open
\* and its outputs unverified.
DGiveAway(n) ==
    /\ GiveAway(n)
    /\ proved' = [proved EXCEPT ![n] = IF Serving(n)' THEN @ ELSE {}]
    /\ UNCHANGED <<db, handle, snap, tail, prefix, objects, puts, log, rows,
                   issued, acked>>
DAuthority(n) ==
    \/ DFence(n) \/ DPreserve(n) \/ DRestart(n)
    \/ /\ LeaseExpires(n) \/ ReloadLeaseRead(n) \/ ReloadLeaseHeld(n)
       /\ UNCHANGED dataVars
    \/ OpenLog(n) \/ RecoverLog(n)

DNext ==
    \/ \E p \in puts : LandPut(p)
    \/ (\E w \in late : LandLate(w)) /\ UNCHANGED dataVars
    \/ \E n \in Node : \/ DServe(n) \/ DResolve(n) \/ DActivate(n)
                       \/ DStop(n) \/ DGiveAway(n) \/ DAuthority(n)

DSpec == DInit /\ [][DNext]_dvars

----------------------------------------------------------------------------
\* DTypeOK: the images, handles and logs stay well formed, and no upload,
\* snapshot or acknowledgement carries an epoch past the last one.
DTypeOK ==
    /\ TypeOK
    /\ db \in [Node -> Image]
    /\ handle \in [Node -> 0 .. MaxEpoch]
    /\ snap \in [Node -> [epoch : 0 .. MaxEpoch, image : Image]]
    /\ tail \in [Node -> BOOLEAN]
    /\ prefix \in [Epoch -> Image]
    /\ objects \in SUBSET Epoch
    /\ puts \in SUBSET Put
    /\ proved \in [Node -> Image]
    /\ log \in [Node -> {"none", "open", "sealed"}]
    /\ rows \in [Node -> [Epoch -> Image]]
    /\ issued \in SUBSET Write
    /\ acked \in [Write -> 0 .. MaxEpoch]

\* AckedNeverLost: a node that serves the cell at an epoch serves every write
\* acknowledged at that epoch or an earlier one, through takeovers, crashes,
\* evictions, late uploads and clock skew (docs/guarantees.md: "an
\* acknowledged write is never lost").
AckedNeverLost ==
    \A n \in Node : Serving(n) =>
        \A w \in Write : acked[w] \in 1 .. epoch[n] => w \in db[n]

\* ReleasedIsComplete: a successor of a released record skips the recovery of
\* the previous owner's node log, so the bucket alone holds every
\* acknowledged write whenever the record names nobody.
ReleasedIsComplete ==
    own.node = NoNode =>
        \A w \in Write : acked[w] # 0 => w \in ChainImage(prefix, objects)

============================================================================
