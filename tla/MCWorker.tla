------------------------------ MODULE MCWorker ------------------------------
(***************************************************************************)
(* DockerWorker for TLC.                                                   *)
(***************************************************************************)
EXTENDS DockerWorker, TLC

CONSTANTS a1, a2, k1, k2

\* Call slots are interchangeable.
Symmetric == Permutations(Calls)

\* What decides which steps are possible.  The two ghosts are only written, and
\* the properties of the run with two calls do not read them.
Engine == <<res, seeded, edited, call>>
=============================================================================
