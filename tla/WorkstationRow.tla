--------------------------- MODULE WorkstationRow ---------------------------
(***************************************************************************)
(* What the controller promises every reader of the state column, whatever *)
(* its goroutines do: a row appears as "creating", moves only along the    *)
(* transition table, and is otherwise only ever declared an error by       *)
(* reconciliation, which touches neither a workstation whose images are    *)
(* still being pulled nor one that is being or has been deleted.           *)
(***************************************************************************)
EXTENDS WorkstationState

CONSTANT Workstations

VARIABLE row

Init == row = [w \in Workstations |-> Absent]

Insert(w) ==
  /\ row[w] = Absent
  /\ row' = [row EXCEPT ![w] = "creating"]

Move(w) ==
  \E to \in States :
    /\ CanTransition(row[w], to)
    /\ row' = [row EXCEPT ![w] = to]

DeclareLost(w) ==
  /\ row[w] \notin {Absent, "creating", "pulling-images", "deleting", "deleted"}
  /\ row' = [row EXCEPT ![w] = "error"]

Next == \E w \in Workstations : Insert(w) \/ Move(w) \/ DeclareLost(w)

Spec == Init /\ [][Next]_row
=============================================================================
