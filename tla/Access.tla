------------------------------- MODULE Access -------------------------------
(***************************************************************************)
(* Who may do what, and when: setup, login and its limiter, and sessions   *)
(* (internal/httpapi/auth.go), share links (sharing.go), the creation of a *)
(* workstation under the egress grants of a user (workstations.go,         *)
(* internal/egress), with the statements of internal/database they use.    *)
(*                                                                         *)
(* The pool of database connections has one connection, so each statement  *)
(* and each transaction is atomic.  A request is not: it is let in by one  *)
(* statement and acts, on the copy it got, in later ones.                  *)
(*                                                                         *)
(* There is the administrator that setup creates, one ordinary user with   *)
(* one session at a time, one workstation of that user with one share      *)
(* link, and one VPN profile.  Requests of the administrator other than    *)
(* setup are one step: the copy they act on, is_admin, never changes.      *)
(* The user works from one address with one browser, which keeps one       *)
(* session cookie and one share cookie.                                    *)
(***************************************************************************)
EXTENDS Timestamps, FiniteSets

CONSTANTS
  Slots,        \* requests in progress
  Grants,       \* the grant sets an administrator assigns
  Presets,      \* templates: [egress, vpn]
  Shares,       \* what a share may be created with: [permissions, hours, max]
  SessionTime,  \* Config.SessionLifetime
  Limit,        \* failures that block an address (5 in the code)
  BlockTime,    \* how much longer every failure blocks it (30 s in the code)
  MaxTime,      \* bound on the time
  MaxFailures   \* bound on the failed logins

Modes == {"direct", "wireguard", "host-gateway", "ipv6"}
\* AdminOnly is never granted.
Grantable == Modes \ {"host-gateway"}
Actions == {"restart", "stop"}
None == "none"
Never == MaxTime + SessionTime + 1

ASSUME SlotAssumption == IsFiniteSet(Slots) /\ Slots # {}
ASSUME GrantAssumption == Grants \subseteq SUBSET Grantable
\* templates.Validate: a named mode and vpn_required agree.
ASSUME PresetAssumption ==
  \A p \in Presets : /\ p \in [egress : Modes \cup {""}, vpn : BOOLEAN]
                     /\ p.egress # "" => (p.vpn <=> p.egress = "wireguard")
ASSUME ShareAssumption ==
  \A s \in Shares : s.permissions \subseteq Actions /\ s.hours \in Nat /\ s.max \in Nat
ASSUME TimeAssumption ==
  /\ SessionTime \in Nat \ {0} /\ BlockTime \in Nat \ {0} /\ MaxTime \in Nat
  /\ Limit \in Nat \ {0} /\ MaxFailures \in Nat

VARIABLES
  now,        \* the clock
  users,      \* accounts: "admin", "user"
  grants,     \* users.allowed_egress of the user
  session,    \* the user's row in sessions
  attempt,    \* the record of failed logins from the user's address
  enabled,    \* vpn_profiles.enabled
  row,        \* the row of the workstation
  sent,       \* the request the worker got for it
  share,      \* the row in share_tokens
  cookie,     \* whether the share's cookie was handed out
  slot,       \* the requests
  overrun,    \* ghost: wrong passwords tried since the address was blocked
  after       \* ghost: actions through the share since it was revoked

vars == <<now, users, grants, session, attempt, enabled, row, sent, share, cookie, slot, overrun, after>>

NoSession == [expires |-> 0, revoked |-> FALSE, exists |-> FALSE]
NoAttempt == [failures |-> 0, blocked |-> 0]
NoRow == [egress |-> "", vpn |-> FALSE, profile |-> FALSE, chosen |-> None]
NoShare == [permissions |-> {}, expires |-> 0, max |-> 0, uses |-> 0, revoked |-> FALSE, exists |-> FALSE]
NoSlot == [pc |-> "idle", at |-> 0, until |-> 0, grants |-> {}, permissions |-> {}, row |-> NoRow]
NotSent == [mode |-> None, profile |-> FALSE]

PCs == {"idle", "verify", "session", "in", "insert", "shared", "refused"}

\* Types of the variables.
TypeOK ==
  /\ now \in 0 .. MaxTime
  /\ users \in SUBSET {"admin", "user"}
  /\ grants \in SUBSET Modes
  /\ session \in [expires : 0 .. Never, revoked : BOOLEAN, exists : BOOLEAN]
  /\ attempt.failures \in 0 .. MaxFailures /\ attempt.blocked \in Nat
  /\ enabled \in BOOLEAN
  /\ row \in [egress : Modes \cup {""}, vpn : BOOLEAN, profile : BOOLEAN, chosen : Modes \cup {None}]
  /\ sent \in [mode : Modes \cup {None}, profile : BOOLEAN]
  /\ share.uses \in Nat /\ share.permissions \subseteq Actions
  /\ cookie \in BOOLEAN
  /\ after \in Nat
  /\ \A h \in Slots : slot[h].pc \in PCs /\ slot[h].grants \subseteq Modes
  /\ overrun \in Nat

Init ==
  /\ now = 0
  /\ users = {}
  /\ grants = {}
  /\ session = NoSession
  /\ attempt = NoAttempt
  /\ enabled = TRUE
  /\ row = NoRow
  /\ sent = NotSent
  /\ share = NoShare
  /\ cookie = FALSE
  /\ after = 0
  /\ slot = [h \in Slots |-> NoSlot]
  /\ overrun = 0

Idle(h) == slot[h].pc = "idle"
Return(h) == slot' = [slot EXCEPT ![h] = NoSlot]

accountVars == <<users, grants>>
workVars == <<row, sent, enabled>>
shareVars == <<share, cookie, after>>
loginVars == <<attempt, overrun>>

Tick ==
  /\ now < MaxTime
  /\ now' = now + 1
  /\ UNCHANGED <<accountVars, session, loginVars, workVars, shareVars, slot>>

-----------------------------------------------------------------------------
(* Accounts.                                                               *)

\* CreateInitialAdmin counts and inserts in one transaction.
NoUsers == users = {}

\* setupPost.
Setup ==
  /\ NoUsers
  /\ users' = {"admin"}
  /\ UNCHANGED <<now, grants, session, loginVars, workVars, shareVars, slot>>

DefaultGrants == {"direct", "wireguard"}

\* storeUser: an omitted grant set means the default one.
CreateUser(g) ==
  /\ users = {"admin"}
  /\ users' = users \cup {"user"}
  /\ grants' = g
  /\ UNCHANGED <<now, session, loginVars, workVars, shareVars, slot>>

SetUserEgress(g) ==
  /\ "user" \in users
  /\ g # grants
  /\ grants' = g
  /\ UNCHANGED <<now, users, session, loginVars, workVars, shareVars, slot>>

SetVPNProfileEnabled ==
  /\ "admin" \in users
  /\ enabled' = ~enabled
  /\ UNCHANGED <<now, accountVars, session, loginVars, row, sent, shareVars, slot>>

-----------------------------------------------------------------------------
(* Login.                                                                  *)

\* loginBlocked.
Blocked == now < attempt.blocked

\* Mutant: the block is not asked for.
LoginBegin_Unchecked(h) ==
  /\ Idle(h)
  /\ "user" \in users
  /\ slot' = [slot EXCEPT ![h].pc = "verify"]
  /\ UNCHANGED <<now, accountVars, session, loginVars, workVars, shareVars>>

\* loginPost, up to the password.
LoginBegin(h) ==
  /\ Idle(h)
  /\ "user" \in users
  /\ ~Blocked
  /\ slot' = [slot EXCEPT ![h].pc = "verify"]
  /\ UNCHANGED <<now, accountVars, session, loginVars, workVars, shareVars>>

\* recordLogin(ip, false): the block is computed from all failures so far.
Failed(a) ==
  [failures |-> a.failures + 1,
   blocked  |-> IF a.failures + 1 >= Limit
                  THEN now + (a.failures + 2 - Limit) * BlockTime
                  ELSE a.blocked]

LoginFails(h) ==
  /\ slot[h].pc = "verify"
  /\ attempt.failures < MaxFailures
  /\ attempt' = Failed(attempt)
  /\ overrun' = IF Blocked THEN overrun + 1 ELSE 0
  /\ Return(h)
  /\ UNCHANGED <<now, accountVars, session, workVars, shareVars>>

\* recordLogin(ip, true) forgets the address.
LoginSucceeds(h) ==
  /\ slot[h].pc = "verify"
  /\ attempt' = NoAttempt
  /\ overrun' = 0
  /\ slot' = [slot EXCEPT ![h].pc = "session"]
  /\ UNCHANGED <<now, accountVars, session, workVars, shareVars>>

\* CreateSession, RevokeSession: the statements on the sessions table.
NewSession == [expires |-> now + SessionTime, revoked |-> FALSE, exists |-> TRUE]
RevokedSession == [session EXCEPT !.revoked = TRUE]

\* startSession.  The user's earlier session, if any, is not modelled further.
StartSession(h) ==
  /\ slot[h].pc = "session"
  /\ session' = NewSession
  /\ Return(h)
  /\ UNCHANGED <<now, accountVars, loginVars, workVars, shareVars>>

-----------------------------------------------------------------------------
(* Sessions.                                                               *)

\* Mutant: expires_at is not looked at.
SessionValid_NoExpiry == session.exists /\ ~session.revoked

SessionValid == session.exists /\ ~session.revoked /\ Later(session.expires, now)

\* requireUser: the request goes on with a copy of the user's row.
RequireUser(h) ==
  /\ Idle(h)
  /\ session.exists /\ ~session.revoked
  /\ slot' = [slot EXCEPT ![h] = [NoSlot EXCEPT !.pc = IF SessionValid THEN "in" ELSE "refused",
                                               !.at = now, !.until = session.expires,
                                               !.grants = grants]]
  /\ UNCHANGED <<now, accountVars, session, loginVars, workVars, shareVars>>

\* logout: an error of the revocation is ignored, and the request is then one
\* more page (Answer).
Logout(h) ==
  /\ slot[h].pc = "in"
  /\ session' = RevokedSession
  /\ Return(h)
  /\ UNCHANGED <<now, accountVars, loginVars, workVars, shareVars>>

\* Pages, and requests that are refused.
Answer(h) ==
  /\ slot[h].pc \in {"in", "shared", "refused"}
  /\ Return(h)
  /\ UNCHANGED <<now, accountVars, session, loginVars, workVars, shareVars>>

-----------------------------------------------------------------------------
(* Creating and provisioning a workstation.                                *)

\* Mutant: rows without a mode are taken for direct ones.
Resolve_NoFlag(stored, vpn) == IF stored \in Modes THEN stored ELSE "direct"

\* egress.Resolve.
Resolve(stored, vpn) ==
  IF stored \in Modes THEN stored ELSE IF vpn THEN "wireguard" ELSE "direct"

\* egress.Granted, for a user who is not an administrator.
Granted(g, mode) == mode \in Grantable /\ mode \in g

\* VPNProfileForUser: the profile is there, for everybody, but maybe disabled.
ProfileUsable == enabled

\* create, up to the checks: the grants are those of the copy.
Create(h, p) ==
  /\ slot[h].pc = "in"
  /\ Granted(slot[h].grants, Resolve(p.egress, p.vpn))
  /\ p.vpn => ProfileUsable
  /\ LET mode == Resolve(p.egress, p.vpn) IN
     slot' = [slot EXCEPT ![h] = [NoSlot EXCEPT !.pc = "insert", !.row =
                [egress |-> mode, vpn |-> p.vpn, profile |-> p.vpn, chosen |-> mode]]]
  /\ UNCHANGED <<now, accountVars, session, loginVars, workVars, shareVars>>

\* db.CreateWorkstation: the INSERT does not name egress_mode, so the column
\* has its default, the empty string.
CreateWorkstation(h) ==
  /\ slot[h].pc = "insert"
  /\ row = NoRow
  /\ row' = [slot[h].row EXCEPT !.egress = ""]
  /\ Return(h)
  /\ UNCHANGED <<now, accountVars, session, loginVars, sent, enabled, shareVars>>

\* A second creation makes a workstation of its own, which is not followed.
CreateOther(h) ==
  /\ slot[h].pc = "insert"
  /\ row # NoRow
  /\ Return(h)
  /\ UNCHANGED <<now, accountVars, session, loginVars, workVars, shareVars>>

\* Mutant: the stored mode is sent as it is.
ProvisionRequest_Stored ==
  /\ row # NoRow
  /\ row.vpn => row.profile /\ enabled
  /\ sent' = [mode |-> row.egress, profile |-> row.vpn]
  /\ UNCHANGED <<now, accountVars, session, loginVars, row, enabled, shareVars, slot>>

\* provisionRequest, for a provision or an update: with a mode that needs a
\* profile, the profile must be there and enabled by now.
ProvisionRequest ==
  /\ row # NoRow
  /\ LET mode == Resolve(row.egress, row.vpn) IN
     /\ mode = "wireguard" => row.profile /\ enabled
     /\ sent' = [mode |-> mode, profile |-> mode = "wireguard"]
  /\ UNCHANGED <<now, accountVars, session, loginVars, row, enabled, shareVars, slot>>

-----------------------------------------------------------------------------
(* Shares.                                                                 *)

\* parseShareInput: 0 hours never expire, 0 uses are no limit.
ShareInput(s) ==
  [permissions |-> s.permissions, expires |-> IF s.hours = 0 THEN Never ELSE now + s.hours,
   max |-> s.max, uses |-> 0, revoked |-> FALSE, exists |-> TRUE]

\* createShare by the owner of the workstation.
CreateShare(h, s) ==
  /\ slot[h].pc = "in"
  /\ row # NoRow
  /\ ~share.exists
  /\ share' = ShareInput(s)
  /\ Return(h)
  /\ UNCHANGED <<now, accountVars, session, loginVars, workVars, cookie, after>>

\* The statement of RevokeShare.
RevokedShare == [share EXCEPT !.revoked = TRUE]

RevokeShare(h) ==
  /\ slot[h].pc = "in"
  /\ share.exists /\ ~share.revoked
  /\ share' = RevokedShare
  /\ Return(h)
  /\ UNCHANGED <<now, accountVars, session, loginVars, workVars, cookie, after>>

\* Mutant: revoked_at is not looked at.
ShareAlive_EvenRevoked == share.exists /\ (share.expires = Never \/ Later(share.expires, now))

ShareAlive == share.exists /\ ~share.revoked /\ (share.expires = Never \/ Later(share.expires, now))

\* RedeemShare of the database: one UPDATE checks and counts.  A share without
\* a limit may be used any number of times, of which one is followed.
Redeemable == ShareAlive /\ IF share.max = 0 THEN share.uses = 0 ELSE share.uses < share.max

\* redeemShare: with the cookie it hands out.
RedeemShare ==
  /\ Redeemable
  /\ share' = [share EXCEPT !.uses = @ + 1]
  /\ cookie' = TRUE
  /\ UNCHANGED <<now, accountVars, session, loginVars, workVars, slot, after>>

\* requireShare: ValidateShare, with a cookie.  The request goes on with a copy
\* of the share's row.  A revoked share is refused, which changes nothing.
RequireShare(h) ==
  /\ Idle(h)
  /\ cookie
  /\ share.exists
  /\ ShareAlive \/ ~share.revoked
  /\ slot' = [slot EXCEPT ![h] = [NoSlot EXCEPT !.pc = IF ShareAlive THEN "shared" ELSE "refused",
                                               !.at = now, !.until = share.expires,
                                               !.permissions = share.permissions]]
  /\ UNCHANGED <<now, accountVars, session, loginVars, workVars, shareVars>>

\* sharedAction, with the permissions of the copy.  The action itself is
\* beginAction of Lifecycle.
SharedAction(h, action) ==
  /\ slot[h].pc = "shared"
  /\ action \in slot[h].permissions
  /\ after' = IF share.revoked THEN after + 1 ELSE after
  /\ Return(h)
  /\ UNCHANGED <<now, accountVars, session, loginVars, workVars, share, cookie>>

\* sharedLogout: clearShare.
SharedLogout(h) ==
  /\ slot[h].pc = "shared"
  /\ cookie' = FALSE
  /\ Return(h)
  /\ UNCHANGED <<now, accountVars, session, loginVars, workVars, share, after>>

Next ==
  \/ Tick \/ Setup \/ SetVPNProfileEnabled \/ ProvisionRequest \/ RedeemShare
  \/ \E g \in Grants \cup {DefaultGrants} : CreateUser(g) \/ SetUserEgress(g)
  \/ \E h \in Slots :
       \/ LoginBegin(h) \/ LoginFails(h) \/ LoginSucceeds(h) \/ StartSession(h)
       \/ RequireUser(h) \/ Logout(h) \/ Answer(h)
       \/ \E p \in Presets : Create(h, p)
       \/ CreateWorkstation(h) \/ CreateOther(h)
       \/ \E s \in Shares : CreateShare(h, s)
       \/ RevokeShare(h) \/ RequireShare(h) \/ SharedLogout(h)
       \/ \E action \in Actions : SharedAction(h, action)

Spec == Init /\ [][Next]_vars

-----------------------------------------------------------------------------
(* Properties.                                                             *)

\* A workstation made from a template that forces traffic through WireGuard is
\* sent to the worker with that mode and a profile, although CreateWorkstation
\* does not store the mode, grants are replaced and the profile is switched
\* off and on in between: the flag vpn_required is enough to restore it.
FailsClosed ==
  row.chosen = "wireguard" /\ sent # NotSent => sent = [mode |-> "wireguard", profile |-> TRUE]

\* The mode that was checked against the user's grants and chosen for the
\* workstation is the one the worker is asked for.
ModeIsKept == sent # NotSent => sent.mode = row.chosen

\* Sessions and shares are compared with the clock as text that drops trailing
\* zeros.  The text order is wrong only within a second: nobody is let in in a
\* later second than the one of the expiry, or refused in an earlier one.
ExpiryIsHonest ==
  \A h \in Slots :
    /\ slot[h].pc \in {"in", "shared"} => Second(slot[h].at) <= Second(slot[h].until)
    /\ slot[h].pc = "refused" => Second(slot[h].at) >= Second(slot[h].until)

\* loginBlocked is asked before the password is verified and recordLogin called
\* after it, so attempts that passed together may fail after the address was
\* blocked, but never more than were under way beside the one that blocked it.
LimiterHolds == overrun < Cardinality(Slots)

\* A share's row is read once per request.  After revokeShare, only requests
\* that had already been let in act through the share.
RevocationStops == after < Cardinality(Slots)
=============================================================================
