---------------------------- MODULE AccessProofs ----------------------------
(***************************************************************************)
(* Proofs about Access, for any number of requests in progress, any grants *)
(* and templates, and any times.                                           *)
(***************************************************************************)
EXTENDS Access, FiniteSetTheorems, TLAPS

SessionType == [expires : 0 .. Never, revoked : BOOLEAN, exists : BOOLEAN]

AttemptType == [failures : 0 .. MaxFailures, blocked : Nat]

RowType == [egress : Modes \cup {""}, vpn : BOOLEAN, profile : BOOLEAN, chosen : Modes \cup {None}]

SentType == [mode : Modes \cup {None}, profile : BOOLEAN]

ShareType == [permissions : SUBSET Actions, expires : Nat, max : Nat, uses : Nat,
              revoked : BOOLEAN, exists : BOOLEAN]

SlotType == [pc : PCs, at : Nat, until : Nat, grants : SUBSET Modes,
             permissions : SUBSET Actions, row : RowType]

\* The types of the whole state; TypeOK mentions some records only in part.
TypeInv ==
  /\ now \in 0 .. MaxTime
  /\ users \in SUBSET {"admin", "user"}
  /\ grants \in SUBSET Modes
  /\ session \in SessionType
  /\ attempt \in AttemptType
  /\ enabled \in BOOLEAN
  /\ row \in RowType
  /\ sent \in SentType
  /\ share \in ShareType
  /\ cookie \in BOOLEAN
  /\ slot \in [Slots -> SlotType]
  /\ overrun \in Nat
  /\ after \in Nat

-----------------------------------------------------------------------------
(* Types.                                                                  *)

LEMMA NeverType == Never \in Nat /\ Never > MaxTime + SessionTime
BY TimeAssumption DEF Never

LEMMA NoSessionType == NoSession \in SessionType
BY NeverType DEF NoSession, SessionType

LEMMA SessionExpires == \A s \in SessionType : s.expires \in Nat
BY NeverType DEF SessionType

LEMMA SessionRevoked ==
  ASSUME NEW s \in SessionType PROVE [s EXCEPT !.revoked = TRUE] \in SessionType
BY NeverType DEF SessionType

LEMMA AttemptTypes == NoAttempt \in AttemptType
BY TimeAssumption DEF NoAttempt, AttemptType

LEMMA RowTypes ==
  /\ NoRow \in RowType
  /\ \A r \in RowType : [r EXCEPT !.egress = ""] \in RowType
BY DEF NoRow, RowType

LEMMA SentTypes == NotSent \in SentType
BY DEF NotSent, SentType

LEMMA ShareTypes == NoShare \in ShareType
BY DEF NoShare, ShareType

LEMMA SlotTypes == NoSlot \in SlotType
BY RowTypes DEF NoSlot, SlotType, PCs

\* Resolve gives a mode.
LEMMA ResolveType == \A s, v : Resolve(s, v) \in Modes
BY DEF Resolve, Modes

LEMMA InitTyped == Init => TypeInv
<1> SUFFICES ASSUME Init PROVE TypeInv
  OBVIOUS
<1>1. now \in 0 .. MaxTime /\ overrun \in Nat /\ after \in Nat
  BY TimeAssumption DEF Init
<1>2. enabled \in BOOLEAN /\ cookie \in BOOLEAN /\ users \subseteq {"admin", "user"} /\ grants \subseteq Modes
  BY Zenon DEF Init
<1>3. slot \in [Slots -> SlotType]
  BY SlotTypes DEF Init
<1> QED
  BY <1>1, <1>2, <1>3, NoSessionType, AttemptTypes, RowTypes, SentTypes, ShareTypes DEF Init, TypeInv

LEMMA TypedOK == TypeInv => TypeOK
<1> SUFFICES ASSUME TypeInv PROVE TypeOK
  OBVIOUS
<1>1. attempt.failures \in 0 .. MaxFailures /\ attempt.blocked \in Nat
  BY DEF TypeInv, AttemptType
<1>2. share.uses \in Nat /\ share.permissions \subseteq Actions
  BY DEF TypeInv, ShareType
<1>3. \A h \in Slots : slot[h].pc \in PCs /\ slot[h].grants \subseteq Modes
  BY DEF TypeInv, SlotType
<1> QED
  BY <1>1, <1>2, <1>3 DEF TypeInv, TypeOK, SessionType, RowType, SentType

LEMMA ReturnTyped ==
  ASSUME TypeInv, NEW h \in Slots, Return(h) PROVE slot' \in [Slots -> SlotType]
BY SlotTypes DEF Return, TypeInv

LEMMA NextTyped == TypeInv /\ [Next]_vars => TypeInv'
<1> SUFFICES ASSUME TypeInv, [Next]_vars PROVE TypeInv'
  OBVIOUS
<1> USE DEF accountVars, loginVars, workVars, shareVars
<1>1. CASE UNCHANGED vars
  BY <1>1 DEF vars, TypeInv
<1>2. CASE Tick
  BY <1>2, TimeAssumption DEF Tick, TypeInv
<1>3. CASE Setup
  BY <1>3 DEF Setup, TypeInv
<1>4. CASE SetVPNProfileEnabled
  BY <1>4 DEF SetVPNProfileEnabled, TypeInv
<1>5. CASE ProvisionRequest
  <2>1. sent' \in SentType
    BY <1>5, ResolveType DEF ProvisionRequest, SentType
  <2> QED BY <1>5, <2>1 DEF ProvisionRequest, TypeInv
<1>6. CASE RedeemShare
  <2>1. share' \in ShareType
    BY <1>6 DEF RedeemShare, ShareType, TypeInv
  <2> QED BY <1>6, <2>1 DEF RedeemShare, TypeInv
<1>7. ASSUME NEW g \in Grants \cup {DefaultGrants}, CreateUser(g) \/ SetUserEgress(g)
      PROVE TypeInv'
  <2>1. g \in SUBSET Modes
    BY GrantAssumption DEF Grantable, DefaultGrants, Modes
  <2> QED BY <1>7, <2>1 DEF CreateUser, SetUserEgress, TypeInv
<1>8. ASSUME NEW h \in Slots, LoginBegin(h) PROVE TypeInv'
  <2>1. slot' \in [Slots -> SlotType]
    BY <1>8 DEF LoginBegin, SlotType, PCs, TypeInv
  <2> QED BY <1>8, <2>1 DEF LoginBegin, TypeInv
<1>9. ASSUME NEW h \in Slots, LoginFails(h) PROVE TypeInv'
  <2>1. slot' \in [Slots -> SlotType]
    BY <1>9, ReturnTyped DEF LoginFails
  <2>2. attempt' \in AttemptType
    BY <1>9, TimeAssumption DEF LoginFails, Failed, AttemptType, TypeInv
  <2> QED BY <1>9, <2>1, <2>2 DEF LoginFails, TypeInv
<1>10. ASSUME NEW h \in Slots, LoginSucceeds(h) PROVE TypeInv'
  <2>1. slot' \in [Slots -> SlotType]
    BY <1>10 DEF LoginSucceeds, SlotType, PCs, TypeInv
  <2> QED BY <1>10, <2>1, AttemptTypes DEF LoginSucceeds, TypeInv
<1>11. ASSUME NEW h \in Slots, StartSession(h) PROVE TypeInv'
  <2>1. slot' \in [Slots -> SlotType]
    BY <1>11, ReturnTyped DEF StartSession
  <2>2. session' \in SessionType
    BY <1>11, NeverType, TimeAssumption DEF StartSession, NewSession, SessionType, TypeInv
  <2> QED BY <1>11, <2>1, <2>2 DEF StartSession, TypeInv
<1>12. ASSUME NEW h \in Slots, RequireUser(h) PROVE TypeInv'
  <2>a. session.expires \in Nat /\ now \in Nat /\ grants \in SUBSET Modes
    BY SessionExpires, TimeAssumption DEF SessionType, TypeInv
  <2> DEFINE new == [NoSlot EXCEPT !.pc = IF SessionValid THEN "in" ELSE "refused",
                                   !.at = now, !.until = session.expires,
                                   !.grants = grants]
  <2>b. new \in SlotType
    BY <2>a, SlotTypes DEF SlotType, PCs
  <2>1. slot' \in [Slots -> SlotType]
    BY <1>12, <2>b DEF RequireUser, TypeInv
  <2> QED BY <1>12, <2>1 DEF RequireUser, TypeInv
<1>13. ASSUME NEW h \in Slots, Logout(h) PROVE TypeInv'
  <2>1. slot' \in [Slots -> SlotType]
    BY <1>13, ReturnTyped DEF Logout
  <2>2. session' \in SessionType
    BY <1>13, SessionRevoked DEF Logout, RevokedSession, TypeInv
  <2> QED BY <1>13, <2>1, <2>2 DEF Logout, TypeInv
<1>14. ASSUME NEW h \in Slots, Answer(h) PROVE TypeInv'
  <2>1. slot' \in [Slots -> SlotType]
    BY <1>14, ReturnTyped DEF Answer
  <2> QED BY <1>14, <2>1 DEF Answer, TypeInv
<1>15. ASSUME NEW h \in Slots, NEW p \in Presets, Create(h, p) PROVE TypeInv'
  <2> DEFINE mode == Resolve(p.egress, p.vpn)
             made == [egress |-> mode, vpn |-> p.vpn, profile |-> p.vpn, chosen |-> mode]
  <2>a. made \in RowType
    BY ResolveType, PresetAssumption DEF RowType
  <2>b. [NoSlot EXCEPT !.pc = "insert", !.row = made] \in SlotType
    BY <2>a, SlotTypes DEF SlotType, PCs
  <2>1. slot' \in [Slots -> SlotType]
    BY <1>15, <2>b DEF Create, TypeInv
  <2> QED BY <1>15, <2>1 DEF Create, TypeInv
<1>16. ASSUME NEW h \in Slots, CreateWorkstation(h) PROVE TypeInv'
  <2>1. slot' \in [Slots -> SlotType]
    BY <1>16, ReturnTyped DEF CreateWorkstation
  <2>2. row' \in RowType
    BY <1>16, RowTypes DEF CreateWorkstation, SlotType, TypeInv
  <2> QED BY <1>16, <2>1, <2>2 DEF CreateWorkstation, TypeInv
<1>17. ASSUME NEW h \in Slots, CreateOther(h) PROVE TypeInv'
  <2>1. slot' \in [Slots -> SlotType]
    BY <1>17, ReturnTyped DEF CreateOther
  <2> QED BY <1>17, <2>1 DEF CreateOther, TypeInv
<1>18. ASSUME NEW h \in Slots, NEW s \in Shares, CreateShare(h, s) PROVE TypeInv'
  <2>1. slot' \in [Slots -> SlotType]
    BY <1>18, ReturnTyped DEF CreateShare
  <2>2. share' \in ShareType
    BY <1>18, NeverType, TimeAssumption, ShareAssumption DEF CreateShare, ShareInput, ShareType, TypeInv
  <2> QED BY <1>18, <2>1, <2>2 DEF CreateShare, TypeInv
<1>19. ASSUME NEW h \in Slots, RevokeShare(h) PROVE TypeInv'
  <2>1. slot' \in [Slots -> SlotType]
    BY <1>19, ReturnTyped DEF RevokeShare
  <2>2. share' \in ShareType
    BY <1>19 DEF RevokeShare, RevokedShare, ShareType, TypeInv
  <2> QED BY <1>19, <2>1, <2>2 DEF RevokeShare, TypeInv
<1>20. ASSUME NEW h \in Slots, RequireShare(h) PROVE TypeInv'
  <2>a. share.expires \in Nat /\ now \in Nat /\ share.permissions \in SUBSET Actions
    BY TimeAssumption DEF ShareType, TypeInv
  <2> DEFINE new == [NoSlot EXCEPT !.pc = IF ShareAlive THEN "shared" ELSE "refused",
                                   !.at = now, !.until = share.expires,
                                   !.permissions = share.permissions]
  <2>b. new \in SlotType
    BY <2>a, SlotTypes DEF SlotType, PCs
  <2>1. slot' \in [Slots -> SlotType]
    BY <1>20, <2>b DEF RequireShare, TypeInv
  <2> QED BY <1>20, <2>1 DEF RequireShare, TypeInv
<1>21. ASSUME NEW h \in Slots, SharedLogout(h) PROVE TypeInv'
  <2>1. slot' \in [Slots -> SlotType]
    BY <1>21, ReturnTyped DEF SharedLogout
  <2> QED BY <1>21, <2>1 DEF SharedLogout, TypeInv
<1>22. ASSUME NEW h \in Slots, NEW action \in Actions, SharedAction(h, action) PROVE TypeInv'
  <2>1. slot' \in [Slots -> SlotType]
    BY <1>22, ReturnTyped DEF SharedAction
  <2> QED BY <1>22, <2>1 DEF SharedAction, TypeInv
<1> QED
  BY <1>1, <1>2, <1>3, <1>4, <1>5, <1>6, <1>7, <1>8, <1>9, <1>10, <1>11, <1>12,
     <1>13, <1>14, <1>15, <1>16, <1>17, <1>18, <1>19, <1>20, <1>21, <1>22 DEF Next

LEMMA AlwaysTyped == Spec => []TypeInv
BY InitTyped, NextTyped, PTL DEF Spec

\* The state stays in its types, whatever requests overlap.
THEOREM AccessTyped == Spec => []TypeOK
BY AlwaysTyped, TypedOK, PTL

\* How a step changes the requests in progress.
LEMMA SlotSteps ==
  ASSUME Next
  PROVE  \/ UNCHANGED slot
         \/ \E h \in Slots : \/ Return(h) \/ LoginBegin(h) \/ LoginSucceeds(h)
                             \/ RequireUser(h) \/ RequireShare(h)
                             \/ \E p \in Presets : Create(h, p)
BY DEF Next, Tick, Setup, SetVPNProfileEnabled, ProvisionRequest, RedeemShare, CreateUser, SetUserEgress,
       LoginFails, StartSession, Logout, Answer, CreateWorkstation, CreateOther, CreateShare, RevokeShare,
       SharedLogout, SharedAction

-----------------------------------------------------------------------------
(* Expiry.                                                                 *)

\* The text order of two times agrees with the order of their seconds.
LEMMA LaterIsHonest ==
  ASSUME NEW e \in Nat, NEW n \in Nat
  PROVE  /\ Later(e, n) => Second(n) <= Second(e)
         /\ ~Later(e, n) => Second(n) >= Second(e)
<1>1. Second(e) \in Nat /\ Second(n) \in Nat
  BY DEF Second
<1> QED BY <1>1 DEF Later

Honest(x) ==
  /\ x.pc \in {"in", "shared"} => Second(x.at) <= Second(x.until)
  /\ x.pc = "refused" => Second(x.at) >= Second(x.until)

LEMMA ExpiryStep == TypeInv /\ ExpiryIsHonest /\ [Next]_vars => ExpiryIsHonest'
<1> SUFFICES ASSUME TypeInv, ExpiryIsHonest, [Next]_vars PROVE ExpiryIsHonest'
  OBVIOUS
<1>1. \A h \in Slots : Honest(slot[h])
  BY DEF ExpiryIsHonest, Honest
<1>2. SUFFICES \A g \in Slots : Honest(slot'[g])
  BY DEF ExpiryIsHonest, Honest
<1>3. CASE UNCHANGED slot
  BY <1>1, <1>3
<1>4. ASSUME NEW h \in Slots, NEW x \in SlotType, slot' = [slot EXCEPT ![h] = x], Honest(x)
      PROVE \A g \in Slots : Honest(slot'[g])
  BY <1>1, <1>4 DEF TypeInv
<1>5. ASSUME NEW h \in Slots, Return(h) PROVE \A g \in Slots : Honest(slot'[g])
  <2>1. Honest(NoSlot)
    BY DEF NoSlot, Honest
  <2> QED BY <1>4, <1>5, <2>1, SlotTypes DEF Return
<1>6. ASSUME NEW h \in Slots, LoginBegin(h) \/ LoginSucceeds(h)
      PROVE \A g \in Slots : Honest(slot'[g])
  <2>1. slot'[h].pc \in {"verify", "session"}
    BY <1>6 DEF LoginBegin, LoginSucceeds, TypeInv, SlotType
  <2>2. \A g \in Slots \ {h} : slot'[g] = slot[g]
    BY <1>6 DEF LoginBegin, LoginSucceeds, TypeInv
  <2> QED BY <1>1, <2>1, <2>2 DEF Honest
<1>7. ASSUME NEW h \in Slots, RequireUser(h) PROVE \A g \in Slots : Honest(slot'[g])
  <2>1. session.expires \in Nat /\ now \in Nat /\ grants \in SUBSET Modes
    BY SessionExpires, TimeAssumption DEF TypeInv
  <2> DEFINE new == [NoSlot EXCEPT !.pc = IF SessionValid THEN "in" ELSE "refused",
                                   !.at = now, !.until = session.expires, !.grants = grants]
  <2>2. new \in SlotType
    BY <2>1, SlotTypes DEF SlotType, PCs
  <2>3. new.pc = (IF SessionValid THEN "in" ELSE "refused") /\ new.at = now /\ new.until = session.expires
    BY DEF NoSlot
  <2>4. SessionValid <=> Later(session.expires, now)
    BY <1>7 DEF RequireUser, SessionValid
  <2>5. Honest(new)
    BY <2>1, <2>3, <2>4, LaterIsHonest DEF Honest
  <2> QED BY <1>4, <1>7, <2>2, <2>5 DEF RequireUser
<1>8. ASSUME NEW h \in Slots, RequireShare(h) PROVE \A g \in Slots : Honest(slot'[g])
  <2>1. share.expires \in Nat /\ now \in Nat /\ share.permissions \in SUBSET Actions
    BY TimeAssumption DEF TypeInv, ShareType
  <2> DEFINE new == [NoSlot EXCEPT !.pc = IF ShareAlive THEN "shared" ELSE "refused",
                                   !.at = now, !.until = share.expires, !.permissions = share.permissions]
  <2>2. new \in SlotType
    BY <2>1, SlotTypes DEF SlotType, PCs
  <2>3. new.pc = (IF ShareAlive THEN "shared" ELSE "refused") /\ new.at = now /\ new.until = share.expires
    BY DEF NoSlot
  <2>4. share.expires = Never => Second(now) <= Second(share.expires)
    <3>1. now <= Never
      BY NeverType, TimeAssumption DEF TypeInv
    <3>2. \A m, n \in Nat : m <= n => m \div 4 <= n \div 4
      OBVIOUS
    <3> QED BY <2>1, <3>1, <3>2, NeverType DEF Second
  <2>5. /\ ShareAlive => share.expires = Never \/ Later(share.expires, now)
        /\ ~ShareAlive => ~Later(share.expires, now)
    BY <1>8 DEF RequireShare, ShareAlive
  <2>6. Honest(new)
    BY <2>1, <2>3, <2>4, <2>5, LaterIsHonest DEF Honest
  <2> QED BY <1>4, <1>8, <2>2, <2>6 DEF RequireShare
<1>9. ASSUME NEW h \in Slots, NEW p \in Presets, Create(h, p) PROVE \A g \in Slots : Honest(slot'[g])
  <2>1. slot'[h].pc = "insert"
    BY <1>9 DEF Create, TypeInv, NoSlot
  <2>2. \A g \in Slots \ {h} : slot'[g] = slot[g]
    BY <1>9 DEF Create, TypeInv
  <2> QED BY <1>1, <2>1, <2>2 DEF Honest
<1> QED
  BY <1>3, <1>5, <1>6, <1>7, <1>8, <1>9, SlotSteps DEF vars

\* No session and no share lets anybody in in a later second than the one it
\* expires in, or refuses anybody in an earlier one (SessionUser,
\* ValidateShare), for any lifetimes and any interleaving of requests.
THEOREM ExpiryHolds == Spec => []ExpiryIsHonest
<1>1. Init => ExpiryIsHonest
  BY DEF Init, ExpiryIsHonest, NoSlot
<1> QED BY <1>1, AlwaysTyped, ExpiryStep, PTL DEF Spec

-----------------------------------------------------------------------------
(* Egress.                                                                 *)

\* The flag of a row and the mode chosen for it agree.
Matches(r) == r.vpn <=> r.chosen = "wireguard"

\* The mode is never stored, so what the worker is sent is determined by the
\* flag, which goes from the template through the request to the row.
EgressInv ==
  /\ row.egress = ""
  /\ Matches(row)
  /\ row = NoRow => sent = NotSent
  /\ sent # NotSent /\ row.vpn => sent = [mode |-> "wireguard", profile |-> TRUE]
  /\ \A h \in Slots : Matches(slot[h].row)

\* egress.Resolve gives wireguard exactly for the templates with the flag.
LEMMA PresetMatches ==
  ASSUME NEW p \in Presets PROVE p.vpn <=> Resolve(p.egress, p.vpn) = "wireguard"
BY PresetAssumption DEF Resolve, Modes

LEMMA SlotRows ==
  ASSUME TypeInv, EgressInv, [Next]_vars PROVE \A g \in Slots : Matches(slot'[g].row)
<1>1. \A h \in Slots : Matches(slot[h].row)
  BY DEF EgressInv
<1>2. NoSlot.row = NoRow /\ Matches(NoRow)
  BY DEF NoSlot, NoRow, Matches, None
<1>3. CASE UNCHANGED slot
  BY <1>1, <1>3
<1>4. ASSUME NEW h \in Slots, Return(h) PROVE \A g \in Slots : Matches(slot'[g].row)
  BY <1>1, <1>2, <1>4 DEF Return, TypeInv
<1>5. ASSUME NEW h \in Slots, LoginBegin(h) \/ LoginSucceeds(h)
      PROVE \A g \in Slots : Matches(slot'[g].row)
  <2>1. \A g \in Slots : slot'[g].row = slot[g].row
    BY <1>5 DEF LoginBegin, LoginSucceeds, TypeInv, SlotType
  <2> QED BY <1>1, <2>1
<1>6. ASSUME NEW h \in Slots, RequireUser(h) \/ RequireShare(h)
      PROVE \A g \in Slots : Matches(slot'[g].row)
  <2>1. slot'[h].row = NoRow
    BY <1>6 DEF RequireUser, RequireShare, TypeInv, NoSlot
  <2>2. \A g \in Slots \ {h} : slot'[g] = slot[g]
    BY <1>6 DEF RequireUser, RequireShare, TypeInv
  <2> QED BY <1>1, <1>2, <2>1, <2>2
<1>7. ASSUME NEW h \in Slots, NEW p \in Presets, Create(h, p)
      PROVE \A g \in Slots : Matches(slot'[g].row)
  <2> DEFINE mode == Resolve(p.egress, p.vpn)
             made == [egress |-> mode, vpn |-> p.vpn, profile |-> p.vpn, chosen |-> mode]
  <2>1. slot'[h].row = made
    BY <1>7 DEF Create, TypeInv, NoSlot
  <2>2. Matches(made)
    BY PresetMatches DEF Matches
  <2>3. \A g \in Slots \ {h} : slot'[g] = slot[g]
    BY <1>7 DEF Create, TypeInv
  <2> QED BY <1>1, <2>1, <2>2, <2>3
<1> QED
  BY <1>3, <1>4, <1>5, <1>6, <1>7, SlotSteps DEF vars

\* Only CreateWorkstation and provisionRequest change the row and what is sent.
LEMMA RowSteps ==
  ASSUME [Next]_vars
  PROVE  \/ UNCHANGED <<row, sent>>
         \/ ProvisionRequest
         \/ \E h \in Slots : CreateWorkstation(h)
BY DEF Next, vars, Tick, Setup, SetVPNProfileEnabled, RedeemShare, CreateUser, SetUserEgress, LoginBegin,
       LoginFails, LoginSucceeds, StartSession, RequireUser, Logout, Answer, Create, CreateOther, CreateShare,
       RevokeShare, RequireShare, SharedLogout, SharedAction, workVars

LEMMA EgressStep == TypeInv /\ EgressInv /\ [Next]_vars => EgressInv'
<1> SUFFICES ASSUME TypeInv, EgressInv, [Next]_vars PROVE EgressInv'
  OBVIOUS
<1>1. \A g \in Slots : Matches(slot'[g].row)
  BY SlotRows
<1>2. CASE UNCHANGED <<row, sent>>
  BY <1>1, <1>2 DEF EgressInv
<1>3. CASE ProvisionRequest
  <2>1. row' = row /\ row # NoRow
    BY <1>3 DEF ProvisionRequest
  <2>2. row.vpn => Resolve(row.egress, row.vpn) = "wireguard"
    BY DEF EgressInv, Resolve, Modes
  <2>3. row.vpn => sent' = [mode |-> "wireguard", profile |-> TRUE]
    BY <1>3, <2>2 DEF ProvisionRequest
  <2> QED BY <1>1, <2>1, <2>3 DEF EgressInv
<1>4. ASSUME NEW h \in Slots, CreateWorkstation(h) PROVE EgressInv'
  <2>1. /\ row'.egress = ""
        /\ row'.vpn = slot[h].row.vpn
        /\ row'.chosen = slot[h].row.chosen
    BY <1>4 DEF CreateWorkstation, TypeInv, SlotType, RowType
  <2>2. Matches(row')
    BY <2>1 DEF Matches, EgressInv
  <2>3. sent' = NotSent
    BY <1>4 DEF CreateWorkstation, EgressInv
  <2> QED BY <1>1, <2>1, <2>2, <2>3 DEF EgressInv
<1> QED
  BY <1>2, <1>3, <1>4, RowSteps

\* A workstation for which WireGuard was chosen is provisioned with WireGuard
\* and a profile (provisionRequest), for any templates and grants, although its
\* mode is not stored.
THEOREM EgressFailsClosed == Spec => []FailsClosed
<1>1. Init => EgressInv
  <2>1. NoSlot.row = NoRow /\ NoRow.egress = "" /\ Matches(NoRow) /\ ~NoRow.vpn
    BY DEF NoSlot, NoRow, Matches, None
  <2> QED BY <2>1 DEF Init, EgressInv
<1>2. EgressInv => FailsClosed
  BY DEF EgressInv, FailsClosed, Matches
<1> QED BY <1>1, <1>2, AlwaysTyped, EgressStep, PTL DEF Spec

-----------------------------------------------------------------------------
(* Counting requests.                                                      *)

LEMMA SlotCount ==
  /\ Cardinality(Slots) \in Nat \ {0}
  /\ \A T \in SUBSET Slots : /\ Cardinality(T) \in Nat
                             /\ Cardinality(T) <= Cardinality(Slots)
                             /\ T # Slots => Cardinality(T) < Cardinality(Slots)
                             /\ \A S \in SUBSET T : Cardinality(S) <= Cardinality(T)
                             /\ \A h \in T : Cardinality(T \ {h}) = Cardinality(T) - 1
<1>1. IsFiniteSet(Slots) /\ Cardinality(Slots) \in Nat \ {0}
  BY SlotAssumption, FS_CardinalityType, FS_EmptySet
<1>2. ASSUME NEW T \in SUBSET Slots
      PROVE  /\ IsFiniteSet(T) /\ Cardinality(T) \in Nat
             /\ Cardinality(T) <= Cardinality(Slots)
             /\ T # Slots => Cardinality(T) < Cardinality(Slots)
  BY <1>1, FS_Subset, FS_CardinalityType
<1>3. ASSUME NEW T \in SUBSET Slots, NEW S \in SUBSET T PROVE Cardinality(S) <= Cardinality(T)
  BY <1>2, FS_Subset
<1>4. ASSUME NEW T \in SUBSET Slots, NEW h \in T PROVE Cardinality(T \ {h}) = Cardinality(T) - 1
  BY <1>2, FS_RemoveElement
<1> QED BY <1>1, <1>2, <1>3, <1>4

Verifying == {h \in Slots : slot[h].pc = "verify"}
Through == {h \in Slots : slot[h].pc = "shared"}

\* Only LoginBegin adds a request to those whose password is being verified,
\* only RequireShare one to those that came through the share.
LEMMA CountSteps ==
  ASSUME TypeInv, Next
  PROVE  /\ Verifying' \subseteq Verifying \/ \E h \in Slots : LoginBegin(h)
         /\ Through' \subseteq Through \/ \E h \in Slots : RequireShare(h)
<1>1. CASE UNCHANGED slot
  BY <1>1 DEF Verifying, Through
<1>2. ASSUME NEW h \in Slots, Return(h)
      PROVE Verifying' \subseteq Verifying /\ Through' \subseteq Through
  BY <1>2 DEF Return, NoSlot, TypeInv, Verifying, Through
<1>3. ASSUME NEW h \in Slots, LoginSucceeds(h) \/ LoginBegin(h)
      PROVE /\ Through' \subseteq Through
            /\ Verifying' \subseteq Verifying \/ LoginBegin(h)
  <2>1. slot'[h].pc # "shared" /\ (slot'[h].pc = "verify" => LoginBegin(h))
    BY <1>3 DEF LoginSucceeds, LoginBegin, TypeInv, SlotType
  <2>2. \A g \in Slots \ {h} : slot'[g] = slot[g]
    BY <1>3 DEF LoginSucceeds, LoginBegin, TypeInv
  <2> QED BY <2>1, <2>2 DEF Verifying, Through
<1>4. ASSUME NEW h \in Slots, RequireUser(h) \/ RequireShare(h) \/ \E p \in Presets : Create(h, p)
      PROVE /\ Verifying' \subseteq Verifying
            /\ Through' \subseteq Through \/ RequireShare(h)
  <2>1. slot'[h].pc # "verify" /\ (slot'[h].pc = "shared" => RequireShare(h))
    <3>1. RequireUser(h) => slot'[h].pc \in {"in", "refused"}
      BY DEF RequireUser, NoSlot, TypeInv
    <3>2. RequireShare(h) => slot'[h].pc \in {"shared", "refused"}
      BY DEF RequireShare, NoSlot, TypeInv
    <3>3. ASSUME NEW p \in Presets, Create(h, p) PROVE slot'[h].pc = "insert"
      BY <3>3 DEF Create, NoSlot, TypeInv
    <3> QED BY <1>4, <3>1, <3>2, <3>3
  <2>2. \A g \in Slots \ {h} : slot'[g] = slot[g]
    BY <1>4 DEF RequireUser, RequireShare, Create, TypeInv
  <2> QED BY <2>1, <2>2 DEF Verifying, Through
<1> QED
  BY <1>1, <1>2, <1>3, <1>4, SlotSteps

-----------------------------------------------------------------------------
(* The login limiter.                                                      *)

\* While the address is blocked, the failures past the block and the attempts
\* that may still fail leave out the one that blocked it.
LimitInv ==
  /\ overrun < Cardinality(Slots)
  /\ Blocked => overrun + Cardinality(Verifying) < Cardinality(Slots)

\* Only a tick and the steps of a login bear on the limiter.
LEMMA LimitSteps ==
  ASSUME Next
  PROVE  \/ UNCHANGED <<now, attempt, overrun>>
         \/ Tick
         \/ \E h \in Slots : LoginFails(h) \/ LoginSucceeds(h)
BY DEF Next, Setup, SetVPNProfileEnabled, ProvisionRequest, RedeemShare, CreateUser, SetUserEgress, LoginBegin,
       StartSession, RequireUser, Logout, Answer, Create, CreateWorkstation, CreateOther, CreateShare,
       RevokeShare, RequireShare, SharedLogout, SharedAction, loginVars

LEMMA LimitStep == TypeInv /\ LimitInv /\ [Next]_vars => LimitInv'
<1> SUFFICES ASSUME TypeInv, LimitInv, [Next]_vars PROVE LimitInv'
  OBVIOUS
<1>1. Verifying \in SUBSET Slots /\ Verifying' \in SUBSET Slots
  BY DEF Verifying
<1>2. /\ Cardinality(Verifying) \in Nat /\ Cardinality(Verifying') \in Nat
      /\ Cardinality(Slots) \in Nat \ {0}
      /\ Cardinality(Verifying) <= Cardinality(Slots)
      /\ Verifying' \subseteq Verifying => Cardinality(Verifying') <= Cardinality(Verifying)
  BY <1>1, SlotCount
<1>3. now \in Nat /\ overrun \in Nat /\ attempt.blocked \in Nat
  BY TimeAssumption DEF TypeInv, AttemptType
<1>4. CASE UNCHANGED vars
  BY <1>4 DEF vars, LimitInv, Blocked, Verifying
<1>5. ASSUME NEW h \in Slots, LoginBegin(h) PROVE LimitInv'
  BY <1>5 DEF LoginBegin, loginVars, LimitInv, Blocked
<1>6. CASE Next /\ UNCHANGED <<now, attempt, overrun>> /\ Verifying' \subseteq Verifying
  BY <1>2, <1>3, <1>6 DEF LimitInv, Blocked
<1>7. CASE Tick
  <2>1. Verifying' = Verifying /\ overrun' = overrun
    BY <1>7 DEF Tick, Verifying, loginVars
  <2>2. Blocked' => Blocked
    BY <1>3, <1>7 DEF Tick, Blocked, loginVars
  <2> QED BY <2>1, <2>2 DEF LimitInv
<1>8. ASSUME NEW h \in Slots, LoginFails(h) PROVE LimitInv'
  <2>1. h \in Verifying
    BY <1>8 DEF LoginFails, Verifying
  <2>2. Verifying' = Verifying \ {h}
    BY <1>8 DEF LoginFails, Return, NoSlot, Verifying, TypeInv
  <2>3. Cardinality(Verifying') = Cardinality(Verifying) - 1
    BY <1>1, <2>1, <2>2, SlotCount
  <2>4. overrun' = IF Blocked THEN overrun + 1 ELSE 0
    BY <1>8 DEF LoginFails
  <2> QED BY <1>2, <1>3, <2>3, <2>4 DEF LimitInv
<1>9. ASSUME NEW h \in Slots, LoginSucceeds(h) PROVE LimitInv'
  <2>1. ~Blocked'
    BY <1>3, <1>9 DEF LoginSucceeds, Blocked, NoAttempt
  <2> QED BY <1>2, <1>9, <2>1 DEF LoginSucceeds, LimitInv
<1> QED
  BY <1>4, <1>5, <1>6, <1>7, <1>8, <1>9, LimitSteps, CountSteps

\* Of the attempts that passed loginBlocked together, fewer than there are
\* requests in progress fail after recordLogin has blocked the address.
THEOREM LimiterBounds == Spec => []LimiterHolds
<1>1. Init => LimitInv
  <2> SUFFICES ASSUME Init PROVE LimitInv
    OBVIOUS
  <2>1. overrun = 0 /\ ~Blocked
    BY DEF Init, Blocked, NoAttempt
  <2> QED BY <2>1, SlotCount DEF LimitInv
<1>2. LimitInv => LimiterHolds
  BY DEF LimitInv, LimiterHolds
<1> QED BY <1>1, <1>2, AlwaysTyped, LimitStep, PTL DEF Spec

-----------------------------------------------------------------------------
(* Revocation.                                                             *)

\* Once the share is revoked, the actions through it and the requests that may
\* still act leave out the one that revoked it.
RevokeInv ==
  /\ ~share.exists => ~share.revoked
  /\ ~share.revoked => after = 0
  /\ share.revoked => after + Cardinality(Through) < Cardinality(Slots)

LEMMA RevokeSteps ==
  ASSUME Next
  PROVE  \/ UNCHANGED <<share, after>>
         \/ RedeemShare
         \/ \E h \in Slots : \/ \E s \in Shares : CreateShare(h, s)
                             \/ RevokeShare(h)
                             \/ \E action \in Actions : SharedAction(h, action)
BY DEF Next, Tick, Setup, SetVPNProfileEnabled, ProvisionRequest, CreateUser, SetUserEgress, LoginBegin,
       LoginFails, LoginSucceeds, StartSession, RequireUser, Logout, Answer, Create, CreateWorkstation,
       CreateOther, RequireShare, SharedLogout, shareVars

LEMMA RevokeStep == TypeInv /\ RevokeInv /\ [Next]_vars => RevokeInv'
<1> SUFFICES ASSUME TypeInv, RevokeInv, [Next]_vars PROVE RevokeInv'
  OBVIOUS
<1>1. Through \in SUBSET Slots /\ Through' \in SUBSET Slots
  BY DEF Through
<1>2. /\ Cardinality(Through) \in Nat /\ Cardinality(Through') \in Nat
      /\ Cardinality(Slots) \in Nat \ {0}
      /\ Through' \subseteq Through => Cardinality(Through') <= Cardinality(Through)
  BY <1>1, SlotCount
<1>3. after \in Nat
  BY DEF TypeInv
<1>4. CASE UNCHANGED vars
  BY <1>4 DEF vars, RevokeInv, Through
<1>5. ASSUME NEW h \in Slots, RequireShare(h) PROVE RevokeInv'
  <2>1. UNCHANGED <<share, after>>
    BY <1>5 DEF RequireShare, shareVars
  <2>2. share.revoked => FALSE
    BY <1>5 DEF RequireShare, ShareAlive
  <2> QED BY <2>1, <2>2 DEF RevokeInv
<1>6. CASE Next /\ UNCHANGED <<share, after>> /\ Through' \subseteq Through
  BY <1>2, <1>3, <1>6 DEF RevokeInv
<1>7. CASE RedeemShare
  <2>1. share'.exists = share.exists /\ share'.revoked = share.revoked
    BY <1>7 DEF RedeemShare, TypeInv, ShareType
  <2>2. after' = after /\ Through' = Through
    BY <1>7 DEF RedeemShare, Through
  <2> QED BY <2>1, <2>2 DEF RevokeInv
<1>8. ASSUME NEW h \in Slots, NEW s \in Shares, CreateShare(h, s) PROVE RevokeInv'
  <2>1. ~share'.revoked
    BY <1>8 DEF CreateShare, ShareInput
  <2>2. after' = 0
    BY <1>8 DEF CreateShare, RevokeInv
  <2> QED BY <2>1, <2>2 DEF RevokeInv
<1>9. ASSUME NEW h \in Slots, RevokeShare(h) PROVE RevokeInv'
  <2>1. share'.revoked /\ share'.exists
    BY <1>9 DEF RevokeShare, RevokedShare, TypeInv, ShareType
  <2>2. after' = 0
    BY <1>9 DEF RevokeShare, RevokeInv
  <2>3. h \notin Through'
    BY <1>9 DEF RevokeShare, Return, NoSlot, Through, TypeInv
  <2>4. Cardinality(Through') < Cardinality(Slots)
    BY <1>1, <2>3, SlotCount
  <2> QED BY <1>2, <2>1, <2>2, <2>4 DEF RevokeInv
<1>10. ASSUME NEW h \in Slots, NEW action \in Actions, SharedAction(h, action) PROVE RevokeInv'
  <2>1. h \in Through
    BY <1>10 DEF SharedAction, Through
  <2>2. Through' = Through \ {h}
    BY <1>10 DEF SharedAction, Return, NoSlot, Through, TypeInv
  <2>3. Cardinality(Through') = Cardinality(Through) - 1
    BY <1>1, <2>1, <2>2, SlotCount
  <2>4. share' = share /\ after' = IF share.revoked THEN after + 1 ELSE after
    BY <1>10 DEF SharedAction
  <2> QED BY <1>2, <1>3, <2>3, <2>4 DEF RevokeInv
<1> QED
  BY <1>4, <1>5, <1>6, <1>7, <1>8, <1>9, <1>10, RevokeSteps, CountSteps

\* After revokeShare, fewer actions go through the share than there are
\* requests in progress: only those that requireShare had already let in.
THEOREM RevocationBounds == Spec => []RevocationStops
<1>1. Init => RevokeInv
  BY DEF Init, RevokeInv, NoShare
<1>2. TypeInv /\ RevokeInv => RevocationStops
  <2> SUFFICES ASSUME TypeInv, RevokeInv PROVE RevocationStops
    OBVIOUS
  <2>1. /\ Cardinality(Through) \in Nat /\ Cardinality(Slots) \in Nat \ {0}
        /\ after \in Nat
    BY SlotCount DEF Through, TypeInv
  <2> QED BY <2>1 DEF RevokeInv, RevocationStops
<1> QED BY <1>1, <1>2, AlwaysTyped, RevokeStep, PTL DEF Spec
=============================================================================
