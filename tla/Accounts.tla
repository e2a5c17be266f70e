------------------------------ MODULE Accounts ------------------------------
(***************************************************************************)
(* One account and its sessions: Login, the pages on which a user changes  *)
(* password and second factor, the administrator's reset and activation,   *)
(* and the check every page makes of its session.  They all read the row   *)
(* of the user whole, keep the copy for as long as they hash passwords or  *)
(* read other tables, and write it back whole.  One step is one statement. *)
(* Other accounts are other rows, and no handler reads two of them to      *)
(* write one.                                                              *)
(***************************************************************************)
EXTENDS Absent, Integers, FiniteSets

CONSTANTS
  Request,          \* requests that overlap
  Session,          \* session ids, each drawn once
  MaxFailedLogins,  \* wrong passwords that lock the account
  CodesPerSet,      \* recovery codes made at a time
  MaxChanges,       \* bound: passwords that are set
  MaxSets           \* bound: times that recovery codes are made

Code == 1..(MaxSets * CodesPerSet)
CodeSet(n) == ((n - 1) * CodesPerSet + 1)..(n * CodesPerSet)

Flag == {"active", "mfa", "locked"}
Legacy == {"secret", "codes"}  \* what an old release stored unprotected

\* A row of user_records.  Passwords are numbered in the order they were set.
UserRow ==
  [password : 0..MaxChanges, version : 0..MaxChanges, flags : SUBSET Flag,
   codes : SUBSET Code, failed : 0..(MaxFailedLogins - 1), legacy : SUBSET Legacy]

\* What a session is issued for.
Pass == [password : 0..MaxChanges, version : 0..MaxChanges]
PassOf(row) == [password |-> row.password, version |-> row.version]

ASSUME AccountsAssumption ==
  /\ MaxFailedLogins \in Nat \ {0} /\ CodesPerSet \in Nat \ {0}
  /\ MaxChanges \in Nat /\ MaxSets \in Nat \ {0}
  /\ None \notin Session \cup Pass \cup UserRow

Step == {"idle", "login", "enter", "issue", "arrive", "user", "page", "switch",
         "renew", "admin", "revoke"}

VARIABLES
  user,      \* the row
  issued,    \* the version and the password each session was issued for
  sessions,  \* the ids of the rows in the sessions table
  doing,     \* what a request does next
  copy,      \* the row as a request last read or wrote it
  held,      \* the session a request came with
  changes,   \* history: passwords that were set
  sets,      \* history: times that codes were made
  accepted,  \* history: codes that have opened a login
  undone     \* history: writes that put back another password, or other codes,
             \* than those that stood in the row: a set of "password", "codes"

userRows == <<user, issued, sessions>>
requests == <<doing, copy, held>>
accountNotes == <<changes, sets, accepted, undone>>
accountVars == <<userRows, requests, accountNotes>>

\* An account with a second factor, that an old release may have stored, or
\* without one.
AccountsInit ==
  /\ sets \in {0, 1}
  /\ user \in [password : {0}, version : {0}, failed : {0},
               flags : {IF sets = 0 THEN {"active"} ELSE {"active", "mfa"}},
               codes : {IF sets = 0 THEN {} ELSE CodeSet(1)},
               legacy : IF sets = 0 THEN {{}} ELSE SUBSET Legacy]
  /\ issued = [s \in Session |-> None] /\ sessions = {}
  /\ doing = [r \in Request |-> "idle"]
  /\ copy = [r \in Request |-> None]
  /\ held = [r \in Request |-> None]
  /\ changes = 0
  /\ accepted = {} /\ undone = {}

\* accepts sessions of the row's version while the account is active
Usable(s) == s \in sessions /\ issued[s].version = user.version /\ "active" \in user.flags

Goto(r, step) == doing' = [doing EXCEPT ![r] = step]

\* The request goes on with a row, or is over and forgets what it held.
Keep(r, step, row) ==
  /\ Goto(r, step)
  /\ copy' = [copy EXCEPT ![r] = row]
End(r) ==
  /\ Keep(r, "idle", None)
  /\ held' = [held EXCEPT ![r] = None]

\* UpsertUser: the copy, with what the handler changed in it, becomes the row.
Store(r, row) ==
  /\ user' = row
  /\ undone' = undone \cup (IF user.password # copy[r].password THEN {"password"} ELSE {})
                      \cup (IF user.codes # copy[r].codes THEN {"codes"} ELSE {})

\* persistUser protects what is still unprotected.
Persist(r, row) == Store(r, [row EXCEPT !.legacy = {}])

\* A request ends early: it is refused, a statement of it fails, or the process
\* ends.  What it has written stays.
Leave(r) ==
  /\ doing[r] # "idle"
  /\ End(r)
  /\ UNCHANGED <<userRows, accountNotes>>

\* hydrateUserSensitiveFields, in a login or in front of any page: unprotected
\* values are protected and the row is written, the secret before the codes.
Hydrate(r) ==
  LET part == IF "secret" \in copy[r].legacy THEN "secret" ELSE "codes"
      row == [copy[r] EXCEPT !.legacy = @ \ {part}]
  IN /\ doing[r] \in {"login", "user"} /\ copy[r].legacy # {}
     /\ Store(r, row)
     /\ Keep(r, doing[r], row)
     /\ UNCHANGED <<issued, sessions, held, changes, sets, accepted>>

-----------------------------------------------------------------------------
(* Login *)

Login(r) ==
  /\ doing[r] = "idle" /\ "active" \in user.flags
  /\ Keep(r, "login", user)
  /\ UNCHANGED <<userRows, held, accountNotes>>

\* The copy is at hand and not locked.
Tries(r) == doing[r] = "login" /\ copy[r].legacy = {} /\ "locked" \notin copy[r].flags

FailedLoginOneMore(row) == \* Mutant: one failure more than the limit.
  IF row.failed + 1 > MaxFailedLogins
  THEN [row EXCEPT !.failed = 0, !.flags = @ \cup {"locked"}]
  ELSE [row EXCEPT !.failed = @ + 1]

FailedLogin(row) ==
  IF row.failed + 1 >= MaxFailedLogins
  THEN [row EXCEPT !.failed = 0, !.flags = @ \cup {"locked"}]
  ELSE [row EXCEPT !.failed = @ + 1]

WrongPassword(r) ==
  /\ Tries(r)
  /\ Persist(r, FailedLogin(copy[r]))
  /\ End(r)
  /\ UNCHANGED <<issued, sessions, changes, sets, accepted>>

\* Mutant: the code stays in the list.
AcceptRecoveryCode(codes, used) == codes

\* ConsumeRecoveryCodeWithKey: a code that is in the list is taken out of it.
ConsumeRecoveryCode(codes, used) == codes \ used

\* The password is right, and so is the second factor when there is one: the
\* number of the moment, or one of the recovery codes (used).
RightPassword(r, used) ==
  LET row == [copy[r] EXCEPT !.failed = 0, !.flags = @ \ {"locked"},
                             !.codes = ConsumeRecoveryCode(@, used)]
  IN /\ Tries(r)
     /\ used \subseteq copy[r].codes /\ Cardinality(used) <= 1
     /\ used # {} => "mfa" \in copy[r].flags
     /\ Persist(r, row)
     /\ accepted' = accepted \cup used
     /\ Keep(r, "enter", PassOf(row))
     /\ UNCHANGED <<issued, sessions, held, changes, sets>>

\* ListMemberships: without a membership there is no session.  Memberships come
\* and go in the module Membership; here a request may find one or none.
Enter(r) ==
  /\ doing[r] = "enter"
  /\ Goto(r, "issue")
  /\ UNCHANGED <<userRows, copy, held, accountNotes>>

\* issueSession takes the version of the copy.
IssueSession(r, s) ==
  /\ doing[r] = "issue" /\ issued[s] = None
  /\ issued' = [issued EXCEPT ![s] = copy[r]]
  /\ sessions' = sessions \cup {s}
  /\ End(r)
  /\ UNCHANGED <<user, accountNotes>>

-----------------------------------------------------------------------------
(* The check in front of every page: resolveCurrentUserTenant *)

\* currentSession
Arrive(r, s) ==
  /\ doing[r] = "idle" /\ s \in sessions
  /\ held' = [held EXCEPT ![r] = s]
  /\ Goto(r, "arrive")
  /\ UNCHANGED <<userRows, copy, accountNotes>>

SessionFits(s, row) == "active" \in row.flags /\ issued[s].version = row.version

LoadUser(r) ==
  /\ doing[r] = "arrive"
  /\ IF SessionFits(held[r], user)
     THEN Keep(r, "user", user) /\ UNCHANGED <<held, sessions>>
     ELSE End(r) /\ sessions' = sessions \ {held[r]}
  /\ UNCHANGED <<user, issued, accountNotes>>

\* There is a membership, ...
LoadMembership(r) ==
  /\ doing[r] = "user" /\ copy[r].legacy = {}
  /\ Goto(r, "page")
  /\ UNCHANGED <<userRows, copy, held, accountNotes>>

\* ... or none, and the session goes.
NoMembership(r) ==
  /\ doing[r] = "user" /\ copy[r].legacy = {}
  /\ sessions' = sessions \ {held[r]}
  /\ End(r)
  /\ UNCHANGED <<user, issued, accountNotes>>

-----------------------------------------------------------------------------
(* Pages of the user *)

\* Mutant: the version stays.
NewPasswordOnly(row) == [row EXCEPT !.password = changes + 1]

NewPassword(row) == [row EXCEPT !.password = changes + 1, !.version = @ + 1]

\* A handler writes a new password and goes on to revoke the sessions.
SetPassword(r, next) ==
  /\ changes < MaxChanges
  /\ Persist(r, NewPassword(copy[r]))
  /\ changes' = changes + 1
  /\ Keep(r, next, PassOf(NewPassword(copy[r])))
  /\ held' = [held EXCEPT ![r] = None]
  /\ UNCHANGED <<issued, sessions, sets, accepted>>

PasswordPage(r) == doing[r] = "page" /\ SetPassword(r, "renew")

\* NewRecoveryCodes: none of them was made before.
SetCodes(r, row) ==
  /\ sets < MaxSets
  /\ Persist(r, [row EXCEPT !.codes = CodeSet(sets + 1)])
  /\ sets' = sets + 1
  /\ End(r)
  /\ UNCHANGED <<issued, sessions, changes, accepted>>

MFASetup(r) ==
  /\ doing[r] = "page"
  /\ SetCodes(r, [copy[r] EXCEPT !.flags = @ \cup {"mfa"}])

MFARegenerateRecoveryCodes(r) ==
  /\ doing[r] = "page" /\ "mfa" \in copy[r].flags
  /\ SetCodes(r, copy[r])

MFADisable(r) ==
  /\ doing[r] = "page"
  /\ Persist(r, [copy[r] EXCEPT !.flags = @ \ {"mfa"}, !.codes = {}])
  /\ End(r)
  /\ UNCHANGED <<issued, sessions, changes, sets, accepted>>

\* Logout: clearSession
Logout(r) ==
  /\ doing[r] = "page"
  /\ sessions' = sessions \ {held[r]}
  /\ End(r)
  /\ UNCHANGED <<user, issued, accountNotes>>

\* SwitchTenant reads the session once more, and the membership in the tenant, ...
SwitchTenant(r) ==
  /\ doing[r] = "page" /\ held[r] \in sessions
  /\ Keep(r, "switch", None)
  /\ UNCHANGED <<userRows, held, accountNotes>>

\* ... and saves it: UpsertSession inserts a row that is no longer there.
SaveSession(r) ==
  /\ doing[r] = "switch"
  /\ sessions' = sessions \cup {held[r]}
  /\ End(r)
  /\ UNCHANGED <<user, issued, accountNotes>>

-----------------------------------------------------------------------------
(* Administrators, whose own rights are in Membership *)

AdminRead(r) ==
  /\ doing[r] = "idle"
  /\ Keep(r, "admin", user)
  /\ UNCHANGED <<userRows, held, accountNotes>>

\* AdminToggleUser: a user that was active loses the sessions.
Deactivate(r) ==
  /\ doing[r] = "admin" /\ "active" \in copy[r].flags
  /\ Persist(r, [copy[r] EXCEPT !.flags = @ \ {"active"}])
  /\ Keep(r, "revoke", None)
  /\ UNCHANGED <<issued, sessions, held, changes, sets, accepted>>
Activate(r) ==
  /\ doing[r] = "admin" /\ "active" \notin copy[r].flags
  /\ Persist(r, [copy[r] EXCEPT !.flags = @ \cup {"active"}])
  /\ End(r)
  /\ UNCHANGED <<issued, sessions, changes, sets, accepted>>

\* AdminUpdatePlatformRole, of whose write only the copy matters here.
AdminUpdatePlatformRole(r) ==
  /\ doing[r] = "admin"
  /\ Persist(r, copy[r])
  /\ End(r)
  /\ UNCHANGED <<issued, sessions, changes, sets, accepted>>

AdminResetPassword(r) == doing[r] = "admin" /\ SetPassword(r, "revoke")

\* DeleteSessionsForUser; the user's own change then gets a new session.
RevokeUserSessions(r) ==
  /\ doing[r] \in {"revoke", "renew"}
  /\ sessions' = {}
  /\ IF doing[r] = "renew" THEN Goto(r, "issue") /\ UNCHANGED <<copy, held>> ELSE End(r)
  /\ UNCHANGED <<user, issued, accountNotes>>

-----------------------------------------------------------------------------
(* Time *)

\* A lock ends: it lasts longer than any request.
LockEnds ==
  /\ "locked" \in user.flags
  /\ \A r \in Request : doing[r] = "idle"
  /\ user' = [user EXCEPT !.flags = @ \ {"locked"}]
  /\ UNCHANGED <<issued, sessions, requests, accountNotes>>

\* GetSession deletes the row of a session that has expired.
SessionExpires(s) ==
  /\ s \in sessions
  /\ sessions' = sessions \ {s}
  /\ UNCHANGED <<user, issued, requests, accountNotes>>

AccountsNext ==
  \/ \E r \in Request :
       \/ Leave(r) \/ Hydrate(r)
       \/ Login(r) \/ WrongPassword(r) \/ Enter(r)
       \/ \E used \in SUBSET Code : RightPassword(r, used)
       \/ \E s \in Session : IssueSession(r, s) \/ Arrive(r, s)
       \/ LoadUser(r) \/ LoadMembership(r) \/ NoMembership(r)
       \/ PasswordPage(r) \/ MFASetup(r) \/ MFADisable(r) \/ MFARegenerateRecoveryCodes(r)
       \/ Logout(r) \/ SwitchTenant(r) \/ SaveSession(r)
       \/ AdminRead(r) \/ Deactivate(r) \/ Activate(r) \/ AdminUpdatePlatformRole(r)
       \/ AdminResetPassword(r)
       \/ RevokeUserSessions(r)
  \/ LockEnds
  \/ \E s \in Session : SessionExpires(s)

AccountsSpec == AccountsInit /\ [][AccountsNext]_accountVars

-----------------------------------------------------------------------------

AccountsTypeOK ==
  /\ user \in UserRow
  /\ issued \in [Session -> Pass \cup {None}]
  /\ sessions \subseteq {s \in Session : issued[s] # None}
  /\ doing \in [Request -> Step]
  /\ copy \in [Request -> UserRow \cup Pass \cup {None}]
  /\ held \in [Request -> Session \cup {None}]
  /\ changes \in 0..MaxChanges /\ sets \in 0..MaxSets
  /\ accepted \subseteq Code
  /\ undone \subseteq {"password", "codes"}

\* A session that a page accepts was issued for the password that is in force:
\* whoever came in with an older one is out after the change, also the login
\* that verified the old password and gets its session after the others were
\* revoked, the workspace switch that writes a revoked session back, and the
\* change that ends before it revokes anything.  Except when a copy of the row
\* that still had the old password was written over the new one.
SessionsFollowThePassword ==
  "password" \notin undone =>
    \A s \in Session : Usable(s) => issued[s].password = user.password

\* A recovery code opens one login: it is not in the list any more, as long as
\* no copy with other codes was written over the list.
CodesWorkOnce ==
  "codes" \notin undone => accepted \cap user.codes = {}

=============================================================================
