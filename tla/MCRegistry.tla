----------------------------- MODULE MCRegistry -----------------------------
(* One app to install and a core app, two packages with versions of their  *)
(* own, two handlers and one custom template.                              *)
EXTENDS Registry, TLC

CONSTANTS app, core, p1, p2

MCVersion == (p1 :> 1) @@ (p2 :> 2)
MCListing == <<[a \in {app, core} |-> p1], [a \in {app, core} |-> p2]>>
MCBodies == {{app}}
HandlerSymmetry == Permutations(Handlers)

\* What this life of the controller could not remove or move back; in a second
\* life the directories that the first one moved away are not told apart.
Litter ==
  LET InUse(a) == \E h \in Handlers : req[h].app = a /\ req[h].pc \in Staging \cup Late IN
  {<<"temp", a>> : a \in {b \in Apps : temp[b][life] # None /\ ~InUse(b)}}
    \cup {<<"prev", a>> : a \in {b \in Apps : life = 0 /\ prev[b] # None /\ ~InUse(b)}}
    \cup {<<"draft", h>> : h \in {g \in Handlers : Draft(g, life) # NoDraft /\ req[g].pc \notin Saving}}

\* Beyond one crash or one other fault a behaviour is not followed, nor one in
\* which the catalogue goes back after its newer package has been kept.
OneFault ==
  /\ life + Cardinality(forgotten) + Cardinality(Litter)
       + (IF life = 0 /\ (unsynced \/ unrecorded # {}) THEN 1 ELSE 0) <= 1
  /\ versions[app][2] # None => index = 2
=============================================================================
