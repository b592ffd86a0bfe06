----------------------------- MODULE MCProfiles -----------------------------
(* Two requests, two profiles, two keys to rotate to.                      *)
EXTENDS Profiles, TLC

Symmetric == Permutations(Handlers) \cup Permutations(Refs)
=============================================================================
