------------------------------ MODULE MCNodeLog ------------------------------
(* Instances of NodeLog for TLC. *)
EXTENDS NodeLog

CONSTANTS r1, r2

LogSymmetry == Permutations(Follower)

\* One scope per hazard: an ensemble change, with a bundle flush and with a fault
\* beside it; faults of followers and of the recoverer; rival recoverers; a graceful
\* close; two bundles to fold.
Reconfigure == [tx |-> 2, epochs |-> 2, peers |-> {1}, flushes |-> 0, faults |-> 0,
                by |-> {r1}, drains |-> FALSE, closes |-> FALSE, races |-> {}]
Flushed == [Reconfigure EXCEPT !.tx = 1, !.flushes = 1]
Stalled == [Reconfigure EXCEPT !.tx = 1, !.faults = 1]
Faulty == [Reconfigure EXCEPT !.epochs = 1, !.peers = {2}, !.faults = 1,
                              !.drains = TRUE]
Rivals == [Reconfigure EXCEPT !.tx = 1, !.epochs = 1, !.peers = {2}, !.faults = 1,
                              !.by = {r1, r2}]
Closing == [Reconfigure EXCEPT !.epochs = 1, !.flushes = 1, !.drains = TRUE, !.closes = TRUE]
Bundles == [Reconfigure EXCEPT !.epochs = 1, !.flushes = 2]
Scopes == {Bundles, Reconfigure, Flushed, Faulty, Stalled, Rivals, Closing}

\* A close that comes between the capture of a bundle flush and its PUT.
CaptureRace == {[Closing EXCEPT !.tx = 1, !.races = {"capture"}]}
\* A close whose bounded wait ends before the flush does.
SlowClose == {[Closing EXCEPT !.tx = 1, !.races = {"outlast"}]}

=============================================================================
