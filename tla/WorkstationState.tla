-------------------------- MODULE WorkstationState --------------------------
(***************************************************************************)
(* The workstation state machine of internal/workstations/state.go: the    *)
(* fifteen values of the state column and the table of moves between them. *)
(***************************************************************************)

States ==
  {"creating", "pulling-images", "creating-storage", "starting-vpn",
   "waiting-for-vpn", "starting-apps", "ready", "vpn-failed", "unhealthy",
   "locked", "stopping", "stopped", "deleting", "deleted", "error"}

\* The value of a row that has not been inserted.
Absent == "absent"

\* var transitions: the states each state may move to.
transitions(from) ==
  CASE from = "creating"         -> {"pulling-images", "creating-storage", "error", "deleting"}
    [] from = "pulling-images"   -> {"creating-storage", "error", "deleting"}
    [] from = "creating-storage" -> {"starting-vpn", "starting-apps", "error", "deleting"}
    [] from = "starting-vpn"     -> {"waiting-for-vpn", "vpn-failed", "error", "deleting"}
    [] from = "waiting-for-vpn"  -> {"starting-apps", "vpn-failed", "locked", "error", "deleting"}
    [] from = "starting-apps"    -> {"ready", "unhealthy", "vpn-failed", "error", "deleting"}
    [] from = "ready"            -> {"pulling-images", "stopping", "unhealthy", "vpn-failed",
                                     "locked", "deleting", "error"}
    [] from = "vpn-failed"       -> {"pulling-images", "starting-vpn", "locked", "stopping",
                                     "deleting", "error"}
    [] from = "unhealthy"        -> {"pulling-images", "starting-apps", "stopping", "deleting",
                                     "error"}
    [] from = "locked"           -> {"pulling-images", "starting-vpn", "stopping", "deleting",
                                     "error"}
    [] from = "stopping"         -> {"stopped", "error"}
    [] from = "stopped"          -> {"pulling-images", "creating-storage", "starting-vpn",
                                     "starting-apps", "deleting", "error"}
    [] from = "deleting"         -> {"deleted", "error"}
    [] from = "error"            -> {"pulling-images", "creating-storage", "starting-vpn",
                                     "starting-apps", "stopping", "deleting"}
    [] OTHER                     -> {}

CanTransition(from, to) == to \in transitions(from)

\* The states the controller passes through while one of its goroutines works.
Transient ==
  {"creating", "pulling-images", "creating-storage", "starting-vpn",
   "waiting-for-vpn", "starting-apps", "stopping", "deleting"}
=============================================================================
