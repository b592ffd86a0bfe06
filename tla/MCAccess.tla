------------------------------ MODULE MCAccess ------------------------------
(***************************************************************************)
(* Two requests at a time; times in quarters of a second.  The templates   *)
(* are one for each mode a user can be granted, one for the mode only      *)
(* administrators have, and one written before modes had names.            *)
(***************************************************************************)
EXTENDS Access, TLC

CONSTANTS h1, h2

MCSlots == {h1, h2}
MCGrants == {{}, {"ipv6"}, DefaultGrants}
MCPresets == {[egress |-> "direct", vpn |-> FALSE], [egress |-> "ipv6", vpn |-> FALSE],
              [egress |-> "host-gateway", vpn |-> FALSE], [egress |-> "wireguard", vpn |-> TRUE],
              [egress |-> "", vpn |-> TRUE]}
MCShares == {[permissions |-> {"stop"}, hours |-> 2, max |-> 1],
             [permissions |-> {"restart"}, hours |-> 0, max |-> 0]}

\* Failed logins, the egress of a workstation and its share link have no column
\* in common.  Each is explored while the others are at rest.
OneTopic ==
  LET login  == attempt # NoAttempt
      egress == ("user" \in users /\ grants # DefaultGrants) \/ ~enabled \/ sent # NotSent
      links  == share.exists
  IN  /\ ~(egress /\ links)
      /\ login => ~egress /\ ~links /\ row = NoRow

SlotSymmetry == Permutations(MCSlots)
=============================================================================
