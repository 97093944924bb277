---------------------------- MODULE EpochLineage ----------------------------
(* The LTX epochs of one cell in the bucket: how an activation restores from  *)
(* the chain of epochs it lists (crates/ltx/src/client/epochs.rs, activate),  *)
(* how the objects of its own epoch are uploaded, also late and after a       *)
(* successor claimed the cell, and how an owner deletes the epochs below the  *)
(* base of its chain (crates/logic/epoch_gc.rs, gc_superseded_epochs).        *)
(*                                                                            *)
(* A write is a number; the image of a database is the set of writes it       *)
(* holds.  An object covers the transactions min..max of its epoch and        *)
(* carries the writes of its pages: an opener or a snapshot carries a whole   *)
(* image.  Every claim makes the next epoch, so a session is named by its     *)
(* epoch.                                                                     *)
EXTENDS Naturals, FiniteSets, Sequences, SequencesExt

CONSTANTS
    EpochScope   \* the bounds to explore; Init picks one of them

\* What a scope bounds: claims and writes; whether a superseded owner goes on,
\* and which of paged activations, folds, handoffs and collections happen.
ASSUME EpochAssumption ==
    EpochScope \subseteq [epochs : Nat \ {0}, writes : Nat, zombies : BOOLEAN,
                          does : SUBSET {"page", "fold", "handoff", "gc"}]

VARIABLES
    escope,    \* the bounds of this behaviour
    claimed,   \* the epoch of the ownership record
    sess,      \* the activation of each epoch
    objects,   \* the objects under each epoch's prefix
    wire,      \* uploads on their way
    mark,      \* retired.json
    collect,   \* each owner's collection under way
    acked,     \* writes whose answer left
    written    \* writes so far

epochVars == <<escope, claimed, sess, objects, wire, mark, collect, acked, written>>

Epochs == 1..escope.epochs
File(min, max, writes) == [min |-> min, max |-> max, writes |-> writes]
Max0(S) == CHOOSE x \in S \cup {0} : \A y \in S : y <= x
Min1(S) == CHOOSE x \in S : \A y \in S : x <= y
WritesOf(files) == UNION {f.writes : f \in files}

NoSession == [state |-> "none", names |-> {}, chain |-> <<>>, paged |-> FALSE, base |-> {},
              image |-> {}, synced |-> {}, next |-> 1, busy |-> FALSE, reads |-> {}]
NoCollect == [step |-> "idle", base |-> 0, victims |-> {}]

EpochInit ==
    /\ escope \in EpochScope
    /\ claimed = 1 /\ mark = 0 /\ acked = {} /\ written = 0 /\ wire = {}
    /\ sess = [e \in Epochs |-> IF e = 1 THEN [NoSession EXCEPT !.state = "open"] ELSE NoSession]
    /\ objects = [e \in Epochs |-> {}]
    /\ collect = [e \in Epochs |-> NoCollect]

----------------------------------------------------------------------------
(* EpochChain: spans from the newest epoch down to one that opens at 1      *)

\* build, for one epoch below the spans taken so far (newest first).
MutantLinks(files, chain) == files # {}
Links(files, chain) ==
    /\ files # {}
    /\ chain # <<>> => Max0({f.max : f \in files}) = Last(chain).lo - 1
Clip(files, chain) ==
    IF chain = <<>> THEN files ELSE {f \in files : f.max < Last(chain).lo}
Extend(chain, e, listed) ==
    LET files == Clip(listed, chain) IN
    IF ~Links(files, chain) THEN chain
    ELSE Append(chain, [epoch |-> e, lo |-> Min1({f.min : f \in files}), files |-> files])
Based(chain) == chain # <<>> /\ Last(chain).lo = 1

\* The chain over epochs 1..n of the objects as they are.
ChainOver(files, n) ==
    LET below[k \in 0..n] ==
            IF k = 0 THEN <<>>
            ELSE LET above == below[k - 1] IN
                 IF Based(above) THEN above ELSE Extend(above, n + 1 - k, files[n + 1 - k])
    IN below[n]

ChainFiles(chain) == UNION {chain[i].files : i \in DOMAIN chain}
ChainReads(chain) == UNION {{<<chain[i].epoch, f>> : f \in chain[i].files} : i \in DOMAIN chain}
\* max_txid.
ChainEnd(chain) == Max0({f.max : f \in ChainFiles(chain)})

\* calc_restore_plan for the latest state: files that cover 1..end with no gap.
Resolves(chain) ==
    /\ chain # <<>>
    /\ \A t \in 1..ChainEnd(chain) : \E f \in ChainFiles(chain) : f.min <= t /\ t <= f.max

----------------------------------------------------------------------------
(* Claims and restores                                                      *)

\* A takeover, or the node's own return after the cell was closed.
Claims ==
    /\ claimed < escope.epochs
    /\ claimed' = claimed + 1
    /\ sess' = [sess EXCEPT ![claimed + 1].state = "claimed",
                            ![claimed].state = IF @ = "open" /\ escope.zombies THEN @ ELSE "gone"]
    /\ UNCHANGED <<escope, objects, wire, mark, collect, acked, written>>

\* The eviction snapshot of the previous epoch is the new epoch's image.
ReusesLocal ==
    /\ claimed < escope.epochs /\ sess[claimed].state = "closed" /\ ~sess[claimed].paged
    /\ claimed' = claimed + 1
    /\ sess' = [sess EXCEPT ![claimed].state = "gone",
                   ![claimed + 1] = [NoSession EXCEPT !.state = "open",
                       !.base = sess[claimed].image, !.image = sess[claimed].image,
                       !.synced = sess[claimed].image]]
    /\ UNCHANGED <<escope, objects, wire, mark, collect, acked, written>>

\* nonempty_epochs: refuses an epoch that is used.
ListsEpochs(e) ==
    /\ sess[e].state = "claimed"
    /\ LET names == {n \in Epochs : objects[n] # {}} IN
       sess' = [sess EXCEPT ![e].names = names,
                            ![e].state = IF \E n \in names : n >= e THEN "gone" ELSE "walking"]
    /\ UNCHANGED <<escope, claimed, objects, wire, mark, collect, acked, written>>

\* EpochChain::build lists one epoch after the other.
ListsEpoch(e) ==
    /\ sess[e].state = "walking" /\ sess[e].names # {} /\ ~Based(sess[e].chain)
    /\ LET n == Max0(sess[e].names) IN
       sess' = [sess EXCEPT ![e].names = @ \ {n}, ![e].chain = Extend(@, n, objects[n])]
    /\ UNCHANGED <<escope, claimed, objects, wire, mark, collect, acked, written>>

WalkDone(e) == sess[e].state = "walking" /\ (sess[e].names = {} \/ Based(sess[e].chain))
NothingListed(e) == sess[e].names = {} /\ sess[e].chain = <<>>

\* A cell no epoch of which holds an object starts empty.
StartsEmpty(e) ==
    /\ WalkDone(e) /\ NothingListed(e)
    /\ sess' = [sess EXCEPT ![e].state = "open"]
    /\ UNCHANGED <<escope, claimed, objects, wire, mark, collect, acked, written>>

\* The clone reads every object of its plan; one that is gone, or a plan with a
\* gap, fails the activation.
Clones(e) ==
    /\ WalkDone(e) /\ ~NothingListed(e)
    /\ LET chain == sess[e].chain
           image == WritesOf(ChainFiles(chain))
           whole == Resolves(chain) /\ \A r \in ChainReads(chain) : r[2] \in objects[r[1]]
       IN sess' = [sess EXCEPT ![e] = [@ EXCEPT !.state = IF whole THEN "open" ELSE "gone",
                      !.chain = <<>>, !.base = image, !.image = image, !.synced = image]]
    /\ UNCHANGED <<escope, claimed, objects, wire, mark, collect, acked, written>>

\* A paged activation reads its chain on demand, and uploads its marker before
\* it serves.
Pages(e) ==
    /\ "page" \in escope.does /\ WalkDone(e) /\ ~NothingListed(e)
    /\ LET chain == sess[e].chain
           image == WritesOf(ChainFiles(chain))
           cut == ChainEnd(chain)
       IN /\ Resolves(chain)
          /\ sess' = [sess EXCEPT ![e] = [@ EXCEPT !.state = "marking", !.paged = TRUE,
                         !.chain = <<>>, !.reads = ChainReads(chain), !.base = image,
                         !.image = image, !.synced = image, !.next = cut + 2, !.busy = TRUE]]
          /\ wire' = wire \cup {<<e, File(cut + 1, cut + 1, {})>>}
    /\ UNCHANGED <<escope, claimed, objects, mark, collect, acked, written>>

\* The background fill completes.
Hydrates(e) ==
    /\ sess[e].state = "open" /\ sess[e].reads # {}
    /\ sess' = [sess EXCEPT ![e].reads = {}]
    /\ UNCHANGED <<escope, claimed, objects, wire, mark, collect, acked, written>>

----------------------------------------------------------------------------
(* The activation writes, uploads, folds and closes                         *)

CellWrites(e) ==
    /\ sess[e].state = "open" /\ written < escope.writes
    /\ written' = written + 1
    /\ sess' = [sess EXCEPT ![e].image = @ \cup {written + 1}]
    /\ UNCHANGED <<escope, claimed, objects, wire, mark, collect, acked>>

\* The next object: the whole image opens an epoch that does not continue a
\* chain, a delta follows.
Syncs(e) ==
    /\ sess[e].state = "open" /\ ~sess[e].busy /\ sess[e].image # sess[e].synced
    /\ LET n == sess[e].next IN
       wire' = wire \cup {<<e, File(n, n, IF n = 1 THEN sess[e].image
                                          ELSE sess[e].image \ sess[e].synced)>>}
    /\ sess' = [sess EXCEPT ![e].busy = TRUE]
    /\ UNCHANGED <<escope, claimed, objects, mark, collect, acked, written>>

\* The upload a session waits for.
MutantCredits(s, f) == s.state = "open" /\ s.busy
Credits(s, f) == s.state = "open" /\ s.busy /\ f.max = s.next

\* An upload lands, whatever became of its session; a live one is credited.
Lands(w) ==
    LET e == w[1] IN
    /\ wire' = wire \ {w}
    /\ objects' = [objects EXCEPT ![e] = @ \cup {w[2]}]
    /\ sess' = [sess EXCEPT ![e] =
          CASE @.state = "marking" -> [@ EXCEPT !.state = "open", !.busy = FALSE]
            [] Credits(@, w[2]) ->
                 [@ EXCEPT !.busy = FALSE, !.next = @ + 1, !.synced = @ \cup w[2].writes]
            [] OTHER -> @]
    /\ UNCHANGED <<escope, claimed, mark, collect, acked, written>>

\* The answer to a write leaves: its upload is credited and the ownership
\* record, read after it, names the epoch.
Acks(e) ==
    /\ sess[e].state = "open" /\ claimed = e
    /\ LET own == sess[e].synced \ sess[e].base IN
       ~(own \subseteq acked) /\ acked' = acked \cup own
    /\ UNCHANGED <<escope, claimed, sess, objects, wire, mark, collect, written>>

\* compact_with_progress: one object for the uploaded transactions.
Folds(e) ==
    /\ "fold" \in escope.does /\ sess[e].state = "open" /\ Cardinality(objects[e]) > 1
    /\ LET lo == Min1({f.min : f \in objects[e]})
           hi == Max0({f.max : f \in objects[e]})
           fold == File(lo, hi, WritesOf(objects[e]))
       IN fold \notin objects[e] /\ <<e, fold>> \notin wire /\ wire' = wire \cup {<<e, fold>>}
    /\ UNCHANGED <<escope, claimed, sess, objects, mark, collect, acked, written>>

\* The final barrier of a release or an eviction: everything is uploaded.  An
\* eviction also publishes a snapshot of the image, which a sparse paged
\* database cannot.
Closes(e) ==
    /\ sess[e].state = "open" /\ ~sess[e].busy /\ sess[e].image = sess[e].synced
    /\ sess' = [sess EXCEPT ![e].state = "closed"]
    /\ \/ UNCHANGED objects
       \/ /\ "handoff" \in escope.does /\ ~sess[e].paged /\ sess[e].next > 1
          /\ objects' = [objects EXCEPT ![e] = @ \cup {File(1, sess[e].next - 1, sess[e].image)}]
    /\ UNCHANGED <<escope, claimed, wire, mark, collect, acked, written>>

----------------------------------------------------------------------------
(* gc_superseded_epochs: scan, confirm the owner, record the mark, delete   *)

\* epoch_gc::plan over the scan.
MutantPinned(e) == FALSE
Pinned(e) == sess[e].reads # {}
Scans(e) ==
    /\ "gc" \in escope.does /\ sess[e].state = "open" /\ collect[e].step = "idle" /\ ~Pinned(e)
    /\ \A n \in Epochs : objects[n] # {} => n <= e
    /\ LET chain == ChainOver(objects, escope.epochs)
           base == Last(chain).epoch
           victims == {n \in Epochs : objects[n] # {} /\ n < base /\ n + 1 < e}
       IN /\ Resolves(chain) /\ chain[1].epoch = e /\ mark <= base
          /\ victims # {} \/ mark # base
          /\ collect' = [collect EXCEPT ![e] = [step |-> "planned", base |-> base,
                                                victims |-> victims]]
    /\ UNCHANGED <<escope, claimed, sess, objects, wire, mark, acked, written>>

ConfirmsOwner(e) ==
    /\ collect[e].step = "planned"
    /\ collect' = [collect EXCEPT ![e] = IF claimed = e THEN [@ EXCEPT !.step = "confirmed"]
                                         ELSE NoCollect]
    /\ UNCHANGED <<escope, claimed, sess, objects, wire, mark, acked, written>>

RecordsRetired(e) ==
    /\ collect[e].step = "confirmed"
    /\ mark' = collect[e].base
    /\ collect' = [collect EXCEPT ![e].step = "deleting"]
    /\ UNCHANGED <<escope, claimed, sess, objects, wire, acked, written>>

DeletesEpoch(e) ==
    /\ collect[e].step = "deleting"
    /\ \/ /\ collect[e].victims = {}
          /\ collect' = [collect EXCEPT ![e] = NoCollect] /\ UNCHANGED objects
       \/ /\ collect[e].victims # {}
          /\ LET v == Min1(collect[e].victims) IN
             /\ objects' = [objects EXCEPT ![v] = {}]
             /\ collect' = [collect EXCEPT ![e].victims = @ \ {v}]
    /\ UNCHANGED <<escope, claimed, sess, wire, mark, acked, written>>

----------------------------------------------------------------------------
EpochNext ==
    \/ Claims \/ ReusesLocal
    \/ \E e \in Epochs :
          \/ ListsEpochs(e) \/ ListsEpoch(e) \/ StartsEmpty(e) \/ Clones(e) \/ Pages(e)
          \/ Hydrates(e) \/ CellWrites(e) \/ Syncs(e) \/ Acks(e) \/ Folds(e) \/ Closes(e)
          \/ Scans(e) \/ ConfirmsOwner(e) \/ RecordsRetired(e) \/ DeletesEpoch(e)
    \/ \E w \in wire : Lands(w)

EpochSpec == EpochInit /\ [][EpochNext]_epochVars

----------------------------------------------------------------------------
(* Properties                                                               *)

\* The states of the activations; and an owner that serves numbers its next
\* object after the last it uploaded, whatever folds land in between.
EpochTypeOK ==
    /\ claimed \in Epochs /\ mark \in 0..claimed /\ acked \subseteq 1..written
    /\ \A e \in Epochs :
          /\ sess[e].state \in {"none", "claimed", "walking", "marking", "open", "closed", "gone"}
          /\ (sess[e].state = "none") = (e > claimed)
          /\ sess[e].synced \subseteq sess[e].image
    /\ sess[claimed].state = "open" =>
          sess[claimed].next = 1 + Max0({f.max : f \in objects[claimed]})

\* Whatever is uploaded late, deleted or half deleted, a successor that listed
\* the epochs now would build a chain without a gap that holds every write
\* whose answer left; and so does the database the owner serves, which listed
\* the epochs one by one.
AckedRestorable ==
    LET chain == ChainOver(objects, escope.epochs) IN
    /\ acked # {} => Resolves(chain) /\ acked \subseteq WritesOf(ChainFiles(chain))
    /\ sess[claimed].state = "open" => acked \subseteq sess[claimed].image

\* The objects that the owner's paged database still reads on demand are not
\* deleted under it.
PagedReadsKept ==
    \A r \in sess[claimed].reads : r[2] \in objects[r[1]]

\* The chain below a paged epoch, as a restore builds it, holds what that epoch
\* paged in.  It does not hold of writes nobody was told of: positions are
\* compared, not contents, so a late upload of a fenced owner can take the place
\* of the continuation.
ContinuesItsChain ==
    LET chain == ChainOver(objects, escope.epochs) IN
    \A i \in DOMAIN chain : sess[chain[i].epoch].paged /\ i < Len(chain) =>
        WritesOf(UNION {chain[j].files : j \in i + 1..Len(chain)}) = sess[chain[i].epoch].base

=============================================================================
