---------------------------- MODULE MCOutputGate ----------------------------
(* Instances of OutputGate for TLC in which a generation swap meets what the *)
(* old runtime left behind.                                                  *)
EXTENDS OutputGate

CONSTANTS r1, r2

\* A request may leave a commit with no output, and the runtime is swapped.
SwapScopes == {[requests |-> {r1, r2}, writes |-> 1, tickets |-> 0, epochs |-> 1, failures |-> 0,
                fleet |-> FALSE, alarm |-> FALSE, drain |-> FALSE, loss |-> {}, swaps |-> 1,
                abandons |-> TRUE]}

\* An export barrier of the old runtime settles after the swap.
SwapExport == {[requests |-> {r1, r2}, writes |-> 2, tickets |-> 1, epochs |-> 1, failures |-> 0,
                fleet |-> FALSE, alarm |-> FALSE, drain |-> FALSE, loss |-> {}, swaps |-> 1,
                abandons |-> FALSE]}
=============================================================================
