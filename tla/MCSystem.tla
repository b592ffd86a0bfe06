------------------------------ MODULE MCSystem ------------------------------
(***************************************************************************)
(* System for TLC: one workstation with one app.                           *)
(***************************************************************************)
EXTENDS System, TLC

CONSTANTS w1, a1, j1, j2

\* Slots are interchangeable.
Symmetric == Permutations(Jobs)

\* Once goroutines or calls have overlapped, the invariants promise nothing, and
\* they never do again: such states need not be explored further.
Promising == raced = {} /\ ~overlapped

\* What decides the possible steps and the invariants: the app states and the
\* other ghosts of the lifecycle are only written.
Course == <<row, job, phase, recon, raced, workerVars, spent>>
=============================================================================
