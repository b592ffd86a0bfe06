---------------------------- MODULE MCLifecycle ----------------------------
(***************************************************************************)
(* Lifecycle for TLC: one workstation and two goroutine slots.  Requests,  *)
(* crashes, deadlines and reconciliations are not counted: they may happen *)
(* any number of times, two goroutines of the workstation at a time.       *)
(***************************************************************************)
EXTENDS Lifecycle, TLC

CONSTANTS w1, j1, j2

\* Goroutine slots are interchangeable.
Symmetric == Permutations(Jobs)

\* A workstation that was both raced and lost is not followed further.
Telling == raced \cap lost = {}

\* What decides which steps are possible: the app states and the ghosts are only
\* written, so the liveness run need not tell them apart.
Course == <<row, job, phase, recon>>
=============================================================================
