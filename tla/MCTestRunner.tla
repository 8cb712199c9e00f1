---------------------------- MODULE MCTestRunner ----------------------------
(* TestRunner with named runners; the two that are started alike may be    *)
(* exchanged.                                                              *)
EXTENDS TestRunner, TLC

CONSTANTS r1, r2, r3

(* Three runners until two of them race for the lock, and two that were not *)
(* forced from then on: TestsDoNotOverlap says nothing of what follows, and *)
(* the list of tests has to survive it.                                     *)
FewAfterTheRace == raced => pc[r3] = "idle"

Alike == Permutations({r1, r2})
=============================================================================
