---------------------------- MODULE RecordsProofs ----------------------------
(***************************************************************************)
(* The components checked side by side in MCRecords, for any number of     *)
(* requests, sessions, changes, processes, tables, rows and jobs; those of *)
(* memberships and of the limiter have modules of their own.               *)
(*                                                                         *)
(* Accounts: sessions follow the password, and a recovery code opens one   *)
(* login.  As long as no copy with another password was written over the   *)
(* row, the version of a row, of a copy and of a session is the number of  *)
(* its password; and every code in use was made, while the codes of the    *)
(* next set were not.                                                      *)
(*                                                                         *)
(* Migration: migrations are complete and what is deleted stays deleted.   *)
(* Whoever migrates has read the version of the first database, as only    *)
(* current databases change and nobody migrates those; the transaction     *)
(* then has, stage by stage, what the stages before it made.               *)
(***************************************************************************)
EXTENDS MCRecords, MembershipProofs, LoginRateLimiterProofs

-----------------------------------------------------------------------------
(* Accounts *)

RowSteps == {"login", "user", "page", "admin"}
PassSteps == {"enter", "issue", "renew"}
SessionSteps == {"arrive", "user", "page", "switch"}

\* What a request holds at each of its steps.
Holds(r) ==
  /\ doing[r] \in RowSteps => copy[r] \in UserRow
  /\ doing[r] \in PassSteps => copy[r] \in Pass
  /\ doing[r] \in SessionSteps => held[r] \in Session /\ issued[held[r]] # None

VersionsFit ==
  /\ user.version <= changes
  /\ \A r \in Request : copy[r] # None => copy[r].version <= changes

VersionIsPassword ==
  "password" \notin undone =>
    /\ user.password = changes /\ user.version = changes
    /\ \A r \in Request : copy[r] # None => copy[r].version = copy[r].password
    /\ \A s \in Session : issued[s] # None => issued[s].version = issued[s].password

CodesMade == 1..(sets * CodesPerSet)

CodesAreMade ==
  /\ user.codes \subseteq CodesMade /\ accepted \subseteq CodesMade
  /\ \A r \in Request : doing[r] \in RowSteps => copy[r].codes \subseteq CodesMade

AInv ==
  /\ AccountsTypeOK
  /\ \A r \in Request : Holds(r)
  /\ VersionsFit /\ VersionIsPassword
  /\ CodesAreMade /\ CodesWorkOnce

-----------------------------------------------------------------------------
(* Codes and rows *)

LEMMA NextCodes ==
  ASSUME NEW n \in Nat, n < MaxSets
  PROVE  /\ CodeSet(n + 1) \subseteq Code
         /\ CodeSet(n + 1) \subseteq 1..((n + 1) * CodesPerSet)
         /\ CodeSet(n + 1) \cap (1..(n * CodesPerSet)) = {}
         /\ 1..(n * CodesPerSet) \subseteq 1..((n + 1) * CodesPerSet)
<1> DEFINE m == n * CodesPerSet
<1>1. m \in Nat /\ CodesPerSet \in Nat \ {0} /\ MaxSets \in Nat
  BY AccountsAssumption
<1>2. (n + 1) * CodesPerSet = m + CodesPerSet
  BY AccountsAssumption
<1>3. (n + 1) * CodesPerSet <= MaxSets * CodesPerSet
  <2>1. PICK d \in Nat : MaxSets = n + 1 + d
    <3>1. MaxSets - (n + 1) \in Nat /\ MaxSets = n + 1 + (MaxSets - (n + 1))
      BY <1>1
    <3>2. QED
      BY <3>1
  <2>2. MaxSets * CodesPerSet = (n + 1) * CodesPerSet + d * CodesPerSet
    BY <1>1, <2>1
  <2>3. d * CodesPerSet >= 0 /\ d * CodesPerSet \in Nat
    BY <1>1
  <2>4. QED
    BY <1>1, <1>2, <2>2, <2>3
<1>4. CodeSet(n + 1) = (m + 1)..(m + CodesPerSet)
  BY <1>1, <1>2 DEF CodeSet
<1>5. MaxSets * CodesPerSet \in Nat
  BY <1>1
<1> HIDE DEF m
<1>6. CodeSet(n + 1) \subseteq Code
  BY <1>1, <1>2, <1>3, <1>4, <1>5 DEF Code
<1>7. QED
  BY <1>1, <1>2, <1>4, <1>6 DEF m

LEMMA PersistedRow ==
  ASSUME NEW row \in UserRow, NEW some \in SUBSET Legacy
  PROVE  /\ [row EXCEPT !.legacy = some] \in UserRow
         /\ [row EXCEPT !.legacy = some].password = row.password
         /\ [row EXCEPT !.legacy = some].version = row.version
         /\ [row EXCEPT !.legacy = some].codes = row.codes
         /\ [row EXCEPT !.legacy = some].flags = row.flags
BY DEF UserRow

LEMMA FlaggedRow ==
  ASSUME NEW row \in UserRow, NEW flags \in SUBSET Flag
  PROVE  /\ [row EXCEPT !.flags = flags] \in UserRow
         /\ [row EXCEPT !.flags = flags].password = row.password
         /\ [row EXCEPT !.flags = flags].version = row.version
         /\ [row EXCEPT !.flags = flags].codes = row.codes
BY DEF UserRow

LEMMA CodedRow ==
  ASSUME NEW row \in UserRow, NEW codes \in SUBSET Code
  PROVE  /\ [row EXCEPT !.codes = codes] \in UserRow
         /\ [row EXCEPT !.codes = codes].password = row.password
         /\ [row EXCEPT !.codes = codes].version = row.version
         /\ [row EXCEPT !.codes = codes].codes = codes
BY DEF UserRow

LEMMA PassOfRow ==
  ASSUME NEW row \in UserRow
  PROVE  /\ PassOf(row) \in Pass
         /\ PassOf(row).password = row.password /\ PassOf(row).version = row.version
BY DEF UserRow, Pass, PassOf

-----------------------------------------------------------------------------
(* Steps that write no row, and steps that write one *)

LEMMA Quiet ==
  ASSUME AInv, NEW r \in Request, NEW step \in Step, Goto(r, step),
         UNCHANGED <<user, issued, accountNotes>>,
         \/ copy' = copy
         \/ copy' = [copy EXCEPT ![r] = None]
         \/ copy' = [copy EXCEPT ![r] = user],
         held' \in [Request -> Session \cup {None}], \A q \in Request \ {r} : held'[q] = held[q],
         sessions' \subseteq {s \in Session : issued[s] # None},
         step \in RowSteps => copy'[r] = user \/ (doing[r] \in RowSteps /\ copy'[r] = copy[r]),
         step \in PassSteps => copy'[r] \in Pass,
         step \in SessionSteps => held'[r] \in Session /\ issued[held'[r]] # None
  PROVE  AInv'
<1>1. /\ user' = user /\ issued' = issued /\ changes' = changes /\ sets' = sets
      /\ accepted' = accepted /\ undone' = undone
  BY DEF accountNotes
<1>2. /\ user \in UserRow /\ doing \in [Request -> Step]
      /\ copy \in [Request -> UserRow \cup Pass \cup {None}]
  BY DEF AInv, AccountsTypeOK
<1>3. doing' \in [Request -> Step] /\ doing'[r] = step /\ \A q \in Request \ {r} : doing'[q] = doing[q]
  BY <1>2 DEF Goto
<1>4. /\ copy' \in [Request -> UserRow \cup Pass \cup {None}]
      /\ copy'[r] \in {copy[r], None, user} /\ \A q \in Request \ {r} : copy'[q] = copy[q]
  BY <1>2
<1>5. AccountsTypeOK'
  BY <1>1, <1>3, <1>4 DEF AInv, AccountsTypeOK
<1>6. ASSUME NEW q \in Request PROVE Holds(q)'
  <2>1. CASE q = r
    BY <1>1, <1>2, <1>3, <2>1 DEF AInv, Holds
  <2>2. CASE q # r
    BY <1>1, <1>3, <1>4, <2>2 DEF AInv, Holds
  <2>3. QED
    BY <2>1, <2>2
<1>7. VersionsFit'
  BY <1>1, <1>4 DEF AInv, VersionsFit
<1>8. VersionIsPassword'
  BY <1>1, <1>4 DEF AInv, VersionIsPassword
<1>9. CodesAreMade'
  <2>1. CodesMade' = CodesMade
    BY <1>1 DEF CodesMade
  <2>2. ASSUME NEW q \in Request, doing'[q] \in RowSteps PROVE copy'[q].codes \subseteq CodesMade
    <3>1. CASE q = r
      BY <1>3, <2>2, <3>1 DEF AInv, CodesAreMade
    <3>2. CASE q # r
      BY <1>3, <1>4, <2>2, <3>2 DEF AInv, CodesAreMade
    <3>3. QED
      BY <3>1, <3>2
  <2>3. QED
    BY <1>1, <2>1, <2>2 DEF AInv, CodesAreMade
<1>10. CodesWorkOnce'
  BY <1>1 DEF AInv, CodesWorkOnce
<1>11. QED
  BY <1>5, <1>6, <1>7, <1>8, <1>9, <1>10 DEF AInv

\* A row gets the password of the copy or a new one, and codes of the copy or
\* new ones; what it loses may be what was accepted.
LEMMA Write ==
  ASSUME AInv, NEW r \in Request, NEW step \in Step, Goto(r, step),
         doing[r] \in RowSteps, NEW row \in UserRow, Store(r, row),
         UNCHANGED <<issued, sessions>>,
         NEW left, copy' = [copy EXCEPT ![r] = left], left \in {None, row, PassOf(row)},
         held' \in [Request -> Session \cup {None}], \A q \in Request \ {r} : held'[q] = held[q],
         \/ row.password = copy[r].password /\ row.version = copy[r].version /\ changes' = changes
         \/ /\ row.password = changes + 1 /\ row.version = copy[r].version + 1
            /\ changes' = changes + 1 /\ changes < MaxChanges,
         \/ /\ row.codes \subseteq copy[r].codes /\ sets' = sets
            /\ accepted' \subseteq accepted \cup (copy[r].codes \ row.codes)
         \/ /\ sets < MaxSets /\ row.codes = CodeSet(sets + 1)
            /\ sets' = sets + 1 /\ accepted' = accepted,
         step \in RowSteps => left = row,
         step \in PassSteps => left = PassOf(row),
         step \in SessionSteps => held'[r] \in Session /\ issued[held'[r]] # None
  PROVE  AInv'
<1>1. /\ user \in UserRow /\ doing \in [Request -> Step]
      /\ copy \in [Request -> UserRow \cup Pass \cup {None}]
      /\ changes \in Nat /\ sets \in Nat /\ undone \subseteq {"password", "codes"}
      /\ copy[r] \in UserRow
  BY AccountsAssumption DEF AInv, AccountsTypeOK, Holds
<1>2. /\ user' = row /\ issued' = issued /\ sessions' = sessions
      /\ undone' = undone \cup (IF user.password # copy[r].password THEN {"password"} ELSE {})
                          \cup (IF user.codes # copy[r].codes THEN {"codes"} ELSE {})
  BY DEF Store
<1>3. doing' \in [Request -> Step] /\ doing'[r] = step /\ \A q \in Request \ {r} : doing'[q] = doing[q]
  BY <1>1 DEF Goto
<1>4. /\ PassOf(row) \in Pass /\ PassOf(row).password = row.password
      /\ PassOf(row).version = row.version
  BY PassOfRow
<1>5. /\ copy' \in [Request -> UserRow \cup Pass \cup {None}]
      /\ copy'[r] = left /\ \A q \in Request \ {r} : copy'[q] = copy[q]
  BY <1>1, <1>4
<1>6. copy[r].version \in Nat /\ copy[r].version <= changes /\ copy[r] # None
  BY <1>1, AccountsAssumption DEF AInv, VersionsFit, UserRow
<1>7. changes' \in 0..MaxChanges /\ changes <= changes' /\ row.version <= changes'
  BY <1>1, <1>6, AccountsAssumption DEF AInv, AccountsTypeOK
<1>8. sets' \in 0..MaxSets /\ CodesMade \subseteq CodesMade' /\ row.codes \subseteq CodesMade' /\ accepted' \subseteq CodesMade'
  <2>1. CASE /\ row.codes \subseteq copy[r].codes /\ sets' = sets
             /\ accepted' \subseteq accepted \cup (copy[r].codes \ row.codes)
    <3>1. copy[r].codes \subseteq CodesMade /\ accepted \subseteq CodesMade
      BY DEF AInv, CodesAreMade
    <3>2. CodesMade' = CodesMade /\ sets' \in 0..MaxSets
      BY <2>1 DEF CodesMade, AInv, AccountsTypeOK
    <3>3. QED
      BY <2>1, <3>1, <3>2
  <2>2. CASE /\ sets < MaxSets /\ row.codes = CodeSet(sets + 1)
             /\ sets' = sets + 1 /\ accepted' = accepted
    <3>1. CodeSet(sets + 1) \subseteq 1..((sets + 1) * CodesPerSet) /\ CodesMade \subseteq 1..((sets + 1) * CodesPerSet)
      BY <1>1, <2>2, NextCodes DEF CodesMade
    <3>2. CodesMade' = 1..((sets + 1) * CodesPerSet)
      BY <2>2 DEF CodesMade
    <3>3. accepted \subseteq CodesMade
      BY DEF AInv, CodesAreMade
    <3>4. sets' \in 0..MaxSets
      BY <1>1, <2>2, AccountsAssumption
    <3>5. QED
      BY <2>2, <3>1, <3>2, <3>3, <3>4
  <2>3. QED
    BY <2>1, <2>2
<1>9. accepted' \subseteq Code
  BY <1>1 DEF AInv, AccountsTypeOK, UserRow
<1>10. AccountsTypeOK'
  <2>1. undone' \subseteq {"password", "codes"}
    BY <1>1, <1>2
  <2>2. QED
    BY <1>2, <1>3, <1>5, <1>7, <1>8, <1>9, <2>1 DEF AInv, AccountsTypeOK
<1>11. ASSUME NEW q \in Request PROVE Holds(q)'
  BY <1>2, <1>3, <1>4, <1>5 DEF AInv, Holds
<1>12. VersionsFit'
  <2>1. ASSUME NEW q \in Request, copy'[q] # None PROVE copy'[q].version <= changes'
    <3>1. CASE q = r
      BY <1>4, <1>5, <1>7, <2>1, <3>1
    <3>2. CASE q # r
      <4>1. copy'[q] = copy[q] /\ copy[q].version <= changes
        BY <1>5, <2>1, <3>2 DEF AInv, VersionsFit
      <4>2. copy[q].version \in Nat
        BY <1>1, <2>1, <4>1, AccountsAssumption DEF UserRow, Pass
      <4>3. QED
        BY <1>1, <1>7, <4>1, <4>2, AccountsAssumption
    <3>3. QED
      BY <3>1, <3>2
  <2>2. QED
    BY <1>2, <1>7, <2>1 DEF VersionsFit
<1>13. VersionIsPassword'
  <2> SUFFICES ASSUME "password" \notin undone'
               PROVE  /\ row.password = changes' /\ row.version = changes'
                      /\ \A q \in Request : copy'[q] # None => copy'[q].version = copy'[q].password
                      /\ \A s \in Session : issued[s] # None => issued[s].version = issued[s].password
    BY <1>2 DEF VersionIsPassword
  <2>1. "password" \notin undone /\ user.password = copy[r].password
    BY <1>2
  <2>2. /\ user.password = changes
        /\ \A q \in Request : copy[q] # None => copy[q].version = copy[q].password
        /\ \A s \in Session : issued[s] # None => issued[s].version = issued[s].password
    BY <2>1 DEF AInv, VersionIsPassword
  <2>3. copy[r].password = changes /\ copy[r].version = changes
    BY <1>6, <2>1, <2>2
  <2>4. row.password = changes' /\ row.version = changes'
    BY <2>3
  <2>5. \A q \in Request : copy'[q] # None => copy'[q].version = copy'[q].password
    BY <1>4, <1>5, <2>2, <2>4
  <2>6. QED
    BY <2>2, <2>4, <2>5
<1>14. CodesAreMade'
  <2>1. \A q \in Request : doing'[q] \in RowSteps => copy'[q].codes \subseteq CodesMade'
    <3> SUFFICES ASSUME NEW q \in Request, doing'[q] \in RowSteps
                 PROVE  copy'[q].codes \subseteq CodesMade'
      OBVIOUS
    <3>1. CASE q # r
      BY <1>3, <1>5, <1>8, <3>1 DEF AInv, CodesAreMade
    <3>2. CASE q = r
      BY <1>3, <1>5, <1>8, <3>2
    <3>3. QED
      BY <3>1, <3>2
  <2>2. QED
    BY <1>2, <1>8, <2>1 DEF CodesAreMade
<1>15. CodesWorkOnce'
  <2> SUFFICES ASSUME "codes" \notin undone' PROVE accepted' \cap row.codes = {}
    BY <1>2 DEF CodesWorkOnce
  <2>1. accepted \cap copy[r].codes = {}
    BY <1>2 DEF AInv, CodesWorkOnce
  <2>2. CASE /\ row.codes \subseteq copy[r].codes
             /\ accepted' \subseteq accepted \cup (copy[r].codes \ row.codes)
    BY <2>1, <2>2
  <2>3. CASE /\ sets < MaxSets /\ row.codes = CodeSet(sets + 1) /\ accepted' = accepted
    <3>1. CodeSet(sets + 1) \cap CodesMade = {}
      BY <1>1, <2>3, NextCodes DEF CodesMade
    <3>2. QED
      BY <2>3, <3>1 DEF AInv, CodesAreMade
  <2>4. QED
    BY <2>2, <2>3
<1>16. QED
  BY <1>10, <1>11, <1>12, <1>13, <1>14, <1>15 DEF AInv

-----------------------------------------------------------------------------
(* The actions that write no row *)

LEMMA LeaveKeeps ==
  ASSUME AInv, NEW r \in Request, Leave(r)
  PROVE  AInv'
BY Quiet DEF Leave, End, Keep, userRows, accountNotes, AInv, AccountsTypeOK, Step, RowSteps,
             PassSteps, SessionSteps

LEMMA LoginKeeps ==
  ASSUME AInv, NEW r \in Request, Login(r)
  PROVE  AInv'
BY Quiet DEF Login, Keep, userRows, accountNotes, AInv, AccountsTypeOK, Step, RowSteps,
             PassSteps, SessionSteps

LEMMA EnterKeeps ==
  ASSUME AInv, NEW r \in Request, Enter(r)
  PROVE  AInv'
BY Quiet DEF Enter, userRows, accountNotes, AInv, AccountsTypeOK, Step, RowSteps,
             PassSteps, SessionSteps, Holds

LEMMA ArriveKeeps ==
  ASSUME AInv, NEW r \in Request, NEW s \in Session, Arrive(r, s)
  PROVE  AInv'
BY Quiet DEF Arrive, userRows, accountNotes, AInv, AccountsTypeOK, Step, RowSteps,
             PassSteps, SessionSteps, Holds

LEMMA LoadUserKeeps ==
  ASSUME AInv, NEW r \in Request, LoadUser(r)
  PROVE  AInv'
BY Quiet DEF LoadUser, End, Keep, accountNotes, AInv, AccountsTypeOK, Step, RowSteps,
             PassSteps, SessionSteps, Holds

LEMMA LoadMembershipKeeps ==
  ASSUME AInv, NEW r \in Request, LoadMembership(r)
  PROVE  AInv'
BY Quiet DEF LoadMembership, userRows, accountNotes, AInv, AccountsTypeOK, Step, RowSteps,
             PassSteps, SessionSteps, Holds

LEMMA SessionGoes ==
  ASSUME AInv, NEW r \in Request, NoMembership(r) \/ Logout(r)
  PROVE  AInv'
BY Quiet DEF NoMembership, Logout, End, Keep, accountNotes, AInv, AccountsTypeOK, Step, RowSteps,
             PassSteps, SessionSteps, Holds

LEMMA SwitchTenantKeeps ==
  ASSUME AInv, NEW r \in Request, SwitchTenant(r)
  PROVE  AInv'
BY Quiet DEF SwitchTenant, Keep, userRows, accountNotes, AInv, AccountsTypeOK, Step, RowSteps,
             PassSteps, SessionSteps, Holds

LEMMA SaveSessionKeeps ==
  ASSUME AInv, NEW r \in Request, SaveSession(r)
  PROVE  AInv'
BY Quiet DEF SaveSession, End, Keep, accountNotes, AInv, AccountsTypeOK, Step, RowSteps,
             PassSteps, SessionSteps, Holds

LEMMA AdminReadKeeps ==
  ASSUME AInv, NEW r \in Request, AdminRead(r)
  PROVE  AInv'
BY Quiet DEF AdminRead, Keep, userRows, accountNotes, AInv, AccountsTypeOK, Step, RowSteps,
             PassSteps, SessionSteps

LEMMA RevokeKeeps ==
  ASSUME AInv, NEW r \in Request, RevokeUserSessions(r)
  PROVE  AInv'
BY Quiet DEF RevokeUserSessions, End, Keep, accountNotes, AInv, AccountsTypeOK, Step, RowSteps,
             PassSteps, SessionSteps, Holds

-----------------------------------------------------------------------------
(* The actions that write the row *)

\* What a request may write is a row, and has the fields of its copy.
LEMMA CopyIsRow ==
  ASSUME AInv, NEW r \in Request, doing[r] \in RowSteps
  PROVE  /\ copy[r] \in UserRow /\ copy[r] # None
         /\ copy[r].flags \subseteq Flag /\ copy[r].codes \subseteq Code
BY AccountsAssumption DEF AInv, Holds, UserRow

LEMMA HydrateKeeps ==
  ASSUME AInv, NEW r \in Request, Hydrate(r)
  PROVE  AInv'
<1> DEFINE some == IF "secret" \in copy[r].legacy THEN "secret" ELSE "codes"
           row == [copy[r] EXCEPT !.legacy = copy[r].legacy \ {some}]
<1>1. doing[r] \in {"login", "user"} /\ copy[r] \in UserRow
  BY CopyIsRow DEF Hydrate, RowSteps
<1>2. copy[r].legacy \ {some} \in SUBSET Legacy
  BY <1>1 DEF UserRow
<1>3. /\ row \in UserRow /\ row.password = copy[r].password
      /\ row.version = copy[r].version /\ row.codes = copy[r].codes
  BY <1>1, <1>2, PersistedRow
<1>4. /\ Store(r, row) /\ Goto(r, doing[r]) /\ copy' = [copy EXCEPT ![r] = row]
      /\ UNCHANGED <<issued, sessions, held, changes, sets, accepted>>
  BY DEF Hydrate, Keep
<1> HIDE DEF row, some
<1>5. QED
  BY <1>1, <1>3, <1>4, Write, ZenonT(30) DEF RowSteps, PassSteps, SessionSteps, Step, AInv, AccountsTypeOK, Holds

\* A handler that ends, or goes on with nothing, and changed neither the
\* password nor the codes.
LEMMA FlagsWritten ==
  ASSUME AInv, NEW r \in Request, doing[r] \in RowSteps, NEW row \in UserRow,
         row.password = copy[r].password, row.version = copy[r].version,
         row.codes \subseteq copy[r].codes,
         Persist(r, row), NEW step \in {"idle", "revoke"}, Keep(r, step, None),
         held' = held \/ held' = [held EXCEPT ![r] = None],
         UNCHANGED <<issued, sessions, changes, sets, accepted>>
  PROVE  AInv'
<1> DEFINE new == [row EXCEPT !.legacy = {}]
<1>1. /\ new \in UserRow /\ new.password = row.password
      /\ new.version = row.version /\ new.codes = row.codes
  BY PersistedRow
<1>2. Store(r, new) /\ Goto(r, step) /\ copy' = [copy EXCEPT ![r] = None]
  BY DEF Persist, Keep
<1> HIDE DEF new
<1>3. /\ held' \in [Request -> Session \cup {None}]
      /\ \A q \in Request \ {r} : held'[q] = held[q]
  BY DEF AInv, AccountsTypeOK
<1>4. step \in Step /\ step \notin RowSteps /\ step \notin PassSteps /\ step \notin SessionSteps
  BY DEF RowSteps, PassSteps, SessionSteps, Step
<1>5. new.codes \subseteq copy[r].codes /\ accepted' \subseteq accepted \cup (copy[r].codes \ new.codes)
  BY <1>1
<1>6. QED
  BY <1>1, <1>2, <1>3, <1>4, <1>5, Write

LEMMA FailedRow ==
  ASSUME NEW row \in UserRow
  PROVE  /\ FailedLogin(row) \in UserRow /\ FailedLogin(row).password = row.password
         /\ FailedLogin(row).version = row.version /\ FailedLogin(row).codes = row.codes
<1>1. row.failed \in 0..(MaxFailedLogins - 1) /\ MaxFailedLogins \in Nat \ {0}
  BY AccountsAssumption DEF UserRow
<1>2. CASE row.failed + 1 >= MaxFailedLogins
  <2> DEFINE f == row.flags \cup {"locked"}
  <2>1. f \in SUBSET Flag /\ 0 \in 0..(MaxFailedLogins - 1)
    BY <1>1 DEF UserRow, Flag
  <2>2. FailedLogin(row) = [row EXCEPT !.failed = 0, !.flags = f]
    BY <1>2 DEF FailedLogin
  <2> HIDE DEF f
  <2>3. /\ [row EXCEPT !.failed = 0, !.flags = f] \in UserRow
        /\ [row EXCEPT !.failed = 0, !.flags = f].password = row.password
        /\ [row EXCEPT !.failed = 0, !.flags = f].version = row.version
        /\ [row EXCEPT !.failed = 0, !.flags = f].codes = row.codes
    BY <2>1 DEF UserRow
  <2>4. QED
    BY <2>2, <2>3
<1>3. CASE ~(row.failed + 1 >= MaxFailedLogins)
  <2>1. row.failed + 1 \in 0..(MaxFailedLogins - 1)
    BY <1>1, <1>3
  <2>2. FailedLogin(row) = [row EXCEPT !.failed = row.failed + 1]
    BY <1>3 DEF FailedLogin
  <2> DEFINE n == row.failed + 1
  <2> HIDE DEF n
  <2>3. /\ [row EXCEPT !.failed = n] \in UserRow
        /\ [row EXCEPT !.failed = n].password = row.password
        /\ [row EXCEPT !.failed = n].version = row.version
        /\ [row EXCEPT !.failed = n].codes = row.codes
    BY <2>1 DEF UserRow, n
  <2>4. QED
    BY <2>2, <2>3 DEF n
<1>4. QED
  BY <1>2, <1>3

LEMMA WrongPasswordKeeps ==
  ASSUME AInv, NEW r \in Request, WrongPassword(r)
  PROVE  AInv'
<1>1. doing[r] \in RowSteps
  BY DEF WrongPassword, Tries, RowSteps
<1>2. copy[r] \in UserRow
  BY <1>1, CopyIsRow
<1>3. /\ Persist(r, FailedLogin(copy[r])) /\ Keep(r, "idle", None)
      /\ held' = [held EXCEPT ![r] = None]
      /\ UNCHANGED <<issued, sessions, changes, sets, accepted>>
  BY DEF WrongPassword, End
<1> DEFINE row == FailedLogin(copy[r])
<1>4. /\ row \in UserRow /\ row.password = copy[r].password
      /\ row.version = copy[r].version /\ row.codes = copy[r].codes
  BY <1>2, FailedRow
<1> HIDE DEF row
<1>5. Persist(r, row)
  BY <1>3 DEF row
<1>6. QED
  BY <1>1, <1>3, <1>4, <1>5, FlagsWritten

LEMMA RightPasswordKeeps ==
  ASSUME AInv, NEW r \in Request, NEW used \in SUBSET Code, RightPassword(r, used)
  PROVE  AInv'
<1> DEFINE row == [copy[r] EXCEPT !.failed = 0, !.flags = @ \ {"locked"},
                                  !.codes = ConsumeRecoveryCode(@, used)]
           new == [row EXCEPT !.legacy = {}]
<1>1. doing[r] \in RowSteps /\ used \subseteq copy[r].codes
  BY DEF RightPassword, Tries, RowSteps
<1>2. copy[r] \in UserRow
  BY <1>1, CopyIsRow
<1>3. /\ row \in UserRow /\ row.password = copy[r].password
      /\ row.version = copy[r].version /\ row.codes = copy[r].codes \ used
  <2> DEFINE flags == copy[r].flags \ {"locked"}
             codes == copy[r].codes \ used
  <2>1. flags \in SUBSET Flag /\ codes \in SUBSET Code
    BY <1>2 DEF UserRow
  <2>2. row = [copy[r] EXCEPT !.failed = 0, !.flags = flags, !.codes = codes]
    BY DEF ConsumeRecoveryCode
  <2> HIDE DEF row, flags, codes
  <2>3. /\ row \in UserRow /\ row.password = copy[r].password
        /\ row.version = copy[r].version /\ row.codes = codes
    <3>1. 0 \in 0..(MaxFailedLogins - 1)
      BY AccountsAssumption
    <3>2. QED
      BY <1>2, <2>1, <2>2, <3>1 DEF UserRow
  <2>4. QED
    BY <2>3 DEF codes
<1>4. /\ Persist(r, row) /\ Goto(r, "enter") /\ copy' = [copy EXCEPT ![r] = PassOf(row)]
      /\ accepted' = accepted \cup used
      /\ UNCHANGED <<issued, sessions, held, changes, sets>>
  BY DEF RightPassword, Keep
<1> HIDE DEF row
<1>5. /\ new \in UserRow /\ new.password = row.password
      /\ new.version = row.version /\ new.codes = row.codes
  BY <1>3, PersistedRow
<1>6. Store(r, new) /\ PassOf(row) = PassOf(new)
  BY <1>4, <1>5 DEF Persist, PassOf
<1> HIDE DEF new
<1>7. accepted' \subseteq accepted \cup (copy[r].codes \ new.codes) /\ new.codes \subseteq copy[r].codes
  BY <1>1, <1>3, <1>4, <1>5
<1>8. QED
  BY <1>1, <1>3, <1>4, <1>5, <1>6, <1>7, Write
     DEF RowSteps, PassSteps, SessionSteps, Step, AInv, AccountsTypeOK

LEMMA ChangedRow ==
  ASSUME NEW row \in UserRow, changes < MaxChanges, changes \in Nat,
         row.version <= changes
  PROVE  /\ NewPassword(row) \in UserRow /\ NewPassword(row).password = changes + 1
         /\ NewPassword(row).version = row.version + 1
         /\ NewPassword(row).codes = row.codes
<1> DEFINE p == changes + 1
           v == row.version + 1
<1>1. p \in 0..MaxChanges /\ v \in 0..MaxChanges
  BY AccountsAssumption DEF UserRow
<1>2. NewPassword(row) = [row EXCEPT !.password = p, !.version = v]
  BY DEF NewPassword
<1> HIDE DEF p, v
<1>3. /\ [row EXCEPT !.password = p, !.version = v] \in UserRow
      /\ [row EXCEPT !.password = p, !.version = v].password = p
      /\ [row EXCEPT !.password = p, !.version = v].version = v
      /\ [row EXCEPT !.password = p, !.version = v].codes = row.codes
  BY <1>1 DEF UserRow
<1>4. QED
  BY <1>2, <1>3 DEF p, v

LEMMA SetPasswordKeeps ==
  ASSUME AInv, NEW r \in Request, doing[r] \in RowSteps, NEW step \in {"renew", "revoke"},
         SetPassword(r, step)
  PROVE  AInv'
<1> DEFINE row == NewPassword(copy[r])
           new == [row EXCEPT !.legacy = {}]
<1>1. copy[r] \in UserRow /\ copy[r] # None
  BY CopyIsRow
<1>2. changes \in Nat /\ changes < MaxChanges /\ copy[r].version <= changes
  BY <1>1 DEF AInv, AccountsTypeOK, VersionsFit, SetPassword
<1>3. /\ row \in UserRow /\ row.password = changes + 1
      /\ row.version = copy[r].version + 1 /\ row.codes = copy[r].codes
  BY <1>1, <1>2, ChangedRow
<1>4. /\ Persist(r, row) /\ Goto(r, step) /\ copy' = [copy EXCEPT ![r] = PassOf(row)]
      /\ changes' = changes + 1 /\ held' = [held EXCEPT ![r] = None]
      /\ UNCHANGED <<issued, sessions, sets, accepted>>
  BY DEF SetPassword, Keep
<1> HIDE DEF row
<1>5. /\ new \in UserRow /\ new.password = row.password
      /\ new.version = row.version /\ new.codes = row.codes
  BY <1>3, PersistedRow
<1>6. Store(r, new) /\ PassOf(row) = PassOf(new)
  BY <1>4, <1>5 DEF Persist, PassOf
<1> HIDE DEF new
<1>7. /\ held' \in [Request -> Session \cup {None}]
      /\ \A q \in Request \ {r} : held'[q] = held[q]
  BY <1>4 DEF AInv, AccountsTypeOK
<1>8. step \in Step /\ step \notin RowSteps /\ step \notin SessionSteps
  BY DEF RowSteps, PassSteps, SessionSteps, Step
<1>9. /\ new.password = changes + 1 /\ new.version = copy[r].version + 1
      /\ changes' = changes + 1 /\ changes < MaxChanges
  BY <1>2, <1>3, <1>4, <1>5
<1>10. /\ new.codes \subseteq copy[r].codes /\ sets' = sets
       /\ accepted' \subseteq accepted \cup (copy[r].codes \ new.codes)
  BY <1>3, <1>4, <1>5
<1>11. QED
  BY <1>4, <1>5, <1>6, <1>7, <1>8, <1>9, <1>10, Write

LEMMA SetCodesKeeps ==
  ASSUME AInv, NEW r \in Request, doing[r] \in RowSteps, NEW row \in UserRow,
         row.password = copy[r].password, row.version = copy[r].version,
         SetCodes(r, row)
  PROVE  AInv'
<1> DEFINE coded == [row EXCEPT !.codes = CodeSet(sets + 1)]
           new == [coded EXCEPT !.legacy = {}]
<1>1. sets \in Nat /\ sets < MaxSets
  BY DEF AInv, AccountsTypeOK, SetCodes
<1>2. CodeSet(sets + 1) \in SUBSET Code
  BY <1>1, NextCodes
<1>3. /\ coded \in UserRow /\ coded.password = row.password
      /\ coded.version = row.version /\ coded.codes = CodeSet(sets + 1)
  BY <1>2, CodedRow
<1>4. /\ Persist(r, coded) /\ Goto(r, "idle") /\ copy' = [copy EXCEPT ![r] = None]
      /\ sets' = sets + 1 /\ held' = [held EXCEPT ![r] = None]
      /\ UNCHANGED <<issued, sessions, changes, accepted>>
  BY DEF SetCodes, End, Keep
<1> HIDE DEF coded
<1>5. /\ new \in UserRow /\ new.password = coded.password
      /\ new.version = coded.version /\ new.codes = coded.codes
  BY <1>3, PersistedRow
<1>6. Store(r, new)
  BY <1>4 DEF Persist
<1> HIDE DEF new
<1>7. /\ held' \in [Request -> Session \cup {None}]
      /\ \A q \in Request \ {r} : held'[q] = held[q]
  BY <1>4 DEF AInv, AccountsTypeOK
<1>8. "idle" \in Step /\ "idle" \notin RowSteps /\ "idle" \notin PassSteps /\ "idle" \notin SessionSteps
  BY DEF RowSteps, PassSteps, SessionSteps, Step
<1>9. /\ new.password = copy[r].password /\ new.version = copy[r].version /\ changes' = changes
      /\ new.codes = CodeSet(sets + 1) /\ accepted' = accepted
  BY <1>3, <1>4, <1>5
<1>10. QED
  BY <1>1, <1>4, <1>5, <1>6, <1>7, <1>8, <1>9, Write

\* The pages and the administrator, each an instance of the above.
LEMMA PagesKeep ==
  ASSUME AInv, NEW r \in Request,
         \/ PasswordPage(r) \/ AdminResetPassword(r)
         \/ MFASetup(r) \/ MFARegenerateRecoveryCodes(r) \/ MFADisable(r)
         \/ Deactivate(r) \/ Activate(r) \/ AdminUpdatePlatformRole(r)
  PROVE  AInv'
<1>1. doing[r] \in RowSteps
  BY DEF PasswordPage, AdminResetPassword, MFASetup, MFARegenerateRecoveryCodes, MFADisable,
         Deactivate, Activate, AdminUpdatePlatformRole, RowSteps
<1>2. copy[r] \in UserRow /\ copy[r].flags \subseteq Flag
  BY <1>1, CopyIsRow
<1>3. CASE PasswordPage(r) \/ AdminResetPassword(r)
  BY <1>1, <1>3, SetPasswordKeeps DEF PasswordPage, AdminResetPassword
<1>4. CASE MFARegenerateRecoveryCodes(r)
  BY <1>1, <1>2, <1>4, SetCodesKeeps DEF MFARegenerateRecoveryCodes
<1>5. CASE MFASetup(r)
  <2> DEFINE flags == copy[r].flags \cup {"mfa"}
             row == [copy[r] EXCEPT !.flags = flags]
  <2>1. flags \in SUBSET Flag
    BY <1>2 DEF Flag
  <2>2. row \in UserRow /\ row.password = copy[r].password /\ row.version = copy[r].version
    BY <1>2, <2>1, FlaggedRow
  <2>3. SetCodes(r, row)
    BY <1>5 DEF MFASetup
  <2> HIDE DEF row
  <2>4. QED
    BY <1>1, <2>2, <2>3, SetCodesKeeps
<1>6. CASE MFADisable(r)
  <2> DEFINE flags == copy[r].flags \ {"mfa"}
             row == [copy[r] EXCEPT !.flags = flags, !.codes = {}]
  <2>1. flags \in SUBSET Flag
    BY <1>2
  <2>2. /\ row \in UserRow /\ row.password = copy[r].password
        /\ row.version = copy[r].version /\ row.codes = {}
    <3> HIDE DEF flags
    <3>1. QED
      BY <1>2, <2>1 DEF UserRow
  <2>3. /\ Persist(r, row) /\ Keep(r, "idle", None) /\ held' = [held EXCEPT ![r] = None]
        /\ UNCHANGED <<issued, sessions, changes, sets, accepted>>
    BY <1>6 DEF MFADisable, End
  <2> HIDE DEF row
  <2>4. QED
    BY <1>1, <2>2, <2>3, FlagsWritten
<1>7. CASE Deactivate(r)
  <2> DEFINE flags == copy[r].flags \ {"active"}
             row == [copy[r] EXCEPT !.flags = flags]
  <2>1. flags \in SUBSET Flag
    BY <1>2
  <2>2. /\ row \in UserRow /\ row.password = copy[r].password
        /\ row.version = copy[r].version /\ row.codes = copy[r].codes
    BY <1>2, <2>1, FlaggedRow
  <2>3. /\ Persist(r, row) /\ Keep(r, "revoke", None) /\ held' = held
        /\ UNCHANGED <<issued, sessions, changes, sets, accepted>>
    BY <1>7 DEF Deactivate
  <2> HIDE DEF row
  <2>4. QED
    BY <1>1, <2>2, <2>3, FlagsWritten
<1>8. CASE Activate(r)
  <2> DEFINE flags == copy[r].flags \cup {"active"}
             row == [copy[r] EXCEPT !.flags = flags]
  <2>1. flags \in SUBSET Flag
    BY <1>2 DEF Flag
  <2>2. /\ row \in UserRow /\ row.password = copy[r].password
        /\ row.version = copy[r].version /\ row.codes = copy[r].codes
    BY <1>2, <2>1, FlaggedRow
  <2>3. /\ Persist(r, row) /\ Keep(r, "idle", None) /\ held' = [held EXCEPT ![r] = None]
        /\ UNCHANGED <<issued, sessions, changes, sets, accepted>>
    BY <1>8 DEF Activate, End
  <2> HIDE DEF row
  <2>4. QED
    BY <1>1, <2>2, <2>3, FlagsWritten
<1>9. CASE AdminUpdatePlatformRole(r)
  <2>1. /\ Persist(r, copy[r]) /\ Keep(r, "idle", None) /\ held' = [held EXCEPT ![r] = None]
        /\ UNCHANGED <<issued, sessions, changes, sets, accepted>>
    BY <1>9 DEF AdminUpdatePlatformRole, End
  <2>2. QED
    BY <1>1, <1>2, <2>1, FlagsWritten
<1>10. QED
  BY <1>3, <1>4, <1>5, <1>6, <1>7, <1>8, <1>9

-----------------------------------------------------------------------------
(* Sessions and time *)

\* A session has the version and the password of the copy it was issued for.
LEMMA IssueKeeps ==
  ASSUME AInv, NEW r \in Request, NEW s \in Session, IssueSession(r, s)
  PROVE  AInv'
<1>1. copy[r] \in Pass /\ copy[r] # None
  BY AccountsAssumption DEF IssueSession, AInv, Holds, PassSteps
<1>2. /\ issued' = [issued EXCEPT ![s] = copy[r]] /\ issued[s] = None
      /\ sessions' = sessions \cup {s} /\ user' = user /\ changes' = changes /\ sets' = sets
      /\ accepted' = accepted /\ undone' = undone
      /\ doing' = [doing EXCEPT ![r] = "idle"] /\ copy' = [copy EXCEPT ![r] = None]
      /\ held' = [held EXCEPT ![r] = None]
  BY DEF IssueSession, End, Keep, Goto, accountNotes
<1>3. AccountsTypeOK'
  BY <1>1, <1>2 DEF AInv, AccountsTypeOK, Step
<1>4. \A t \in Session : issued[t] # None => issued'[t] # None
  BY <1>1, <1>2 DEF AInv, AccountsTypeOK
<1>5. ASSUME NEW q \in Request PROVE Holds(q)'
  <2>1. CASE q = r
    BY <1>2, <2>1 DEF AInv, AccountsTypeOK, Holds, RowSteps, PassSteps, SessionSteps
  <2>2. CASE q # r
    BY <1>2, <1>4, <2>2 DEF AInv, AccountsTypeOK, Holds
  <2>3. QED
    BY <2>1, <2>2
<1>6. VersionsFit'
  BY <1>2 DEF AInv, AccountsTypeOK, VersionsFit
<1>7. VersionIsPassword'
  BY <1>1, <1>2 DEF AInv, AccountsTypeOK, VersionIsPassword
<1>8. CodesAreMade' /\ CodesWorkOnce'
  BY <1>2 DEF AInv, AccountsTypeOK, CodesAreMade, CodesWorkOnce, CodesMade, RowSteps
<1>9. QED
  BY <1>3, <1>5, <1>6, <1>7, <1>8 DEF AInv

LEMMA LockEndsKeeps ==
  ASSUME AInv, LockEnds
  PROVE  AInv'
<1> DEFINE flags == user.flags \ {"locked"}
           row == [user EXCEPT !.flags = flags]
<1>1. user \in UserRow /\ flags \in SUBSET Flag
  BY DEF AInv, AccountsTypeOK, UserRow
<1>2. /\ row \in UserRow /\ row.password = user.password
      /\ row.version = user.version /\ row.codes = user.codes
  BY <1>1, FlaggedRow
<1>3. user' = row /\ UNCHANGED <<issued, sessions, requests, accountNotes>>
  BY DEF LockEnds
<1> HIDE DEF row
<1>4. AccountsTypeOK' /\ \A r \in Request : Holds(r)'
  BY <1>2, <1>3 DEF AInv, AccountsTypeOK, Holds, requests, accountNotes
<1>5. VersionsFit' /\ VersionIsPassword'
  BY <1>2, <1>3 DEF AInv, VersionsFit, VersionIsPassword, requests, accountNotes
<1>6. CodesAreMade' /\ CodesWorkOnce'
  BY <1>2, <1>3 DEF AInv, CodesAreMade, CodesWorkOnce, CodesMade, requests, accountNotes
<1>7. QED
  BY <1>4, <1>5, <1>6 DEF AInv

LEMMA SessionExpiresKeeps ==
  ASSUME AInv, NEW s \in Session, SessionExpires(s)
  PROVE  AInv'
BY DEF SessionExpires, AInv, AccountsTypeOK, Holds, VersionsFit, VersionIsPassword, CodesAreMade,
       CodesWorkOnce, CodesMade, requests, accountNotes

LEMMA StutterKeeps ==
  ASSUME AInv, UNCHANGED accountVars
  PROVE  AInv'
BY DEF accountVars, userRows, AInv, AccountsTypeOK, Holds, VersionsFit, VersionIsPassword,
       CodesAreMade, CodesWorkOnce, CodesMade, requests, accountNotes

-----------------------------------------------------------------------------

LEMMA AInvInitially == AccountsInit => AInv
<1> SUFFICES ASSUME AccountsInit PROVE AInv
  OBVIOUS
<1>1. /\ sets \in {0, 1} /\ changes = 0 /\ accepted = {} /\ undone = {}
      /\ issued = [s \in Session |-> None] /\ sessions = {}
      /\ doing = [r \in Request |-> "idle"] /\ copy = [r \in Request |-> None]
      /\ held = [r \in Request |-> None]
  BY DEF AccountsInit
<1>2. user \in [password : {0}, version : {0}, failed : {0},
                flags : {IF sets = 0 THEN {"active"} ELSE {"active", "mfa"}},
                codes : {IF sets = 0 THEN {} ELSE CodeSet(1)},
                legacy : IF sets = 0 THEN {{}} ELSE SUBSET Legacy]
  BY DEF AccountsInit
<1>3. /\ MaxChanges \in Nat /\ MaxSets \in Nat \ {0} /\ MaxFailedLogins \in Nat \ {0}
      /\ CodesPerSet \in Nat \ {0}
  BY AccountsAssumption
<1>4. CodeSet(1) \subseteq Code /\ CodeSet(1) \subseteq 1..(1 * CodesPerSet)
  <2>1. CodeSet(0 + 1) \subseteq Code /\ CodeSet(0 + 1) \subseteq 1..((0 + 1) * CodesPerSet)
    <3>1. 0 \in Nat /\ 0 < MaxSets
      BY <1>3
    <3>2. QED
      BY <3>1, NextCodes
  <2>2. 0 + 1 = 1
    OBVIOUS
  <2>3. QED
    BY <2>1, <2>2
<1>5. user.password = 0 /\ user.version = 0 /\ user.codes = IF sets = 0 THEN {} ELSE CodeSet(1)
  BY <1>2
<1>6. user \in UserRow
  <2>1. 0 \in 0..MaxChanges /\ 0 \in 0..(MaxFailedLogins - 1)
    BY <1>3
  <2>2. QED
    BY <1>2, <1>4, <2>1 DEF UserRow, Flag, Legacy
<1>7. AccountsTypeOK
  BY <1>1, <1>3, <1>6 DEF AccountsTypeOK, Step
<1>8. \A r \in Request : Holds(r)
  BY <1>1 DEF Holds, RowSteps, PassSteps, SessionSteps
<1>9. VersionsFit /\ VersionIsPassword
  BY <1>1, <1>5 DEF VersionsFit, VersionIsPassword
<1>10. CodesAreMade
  BY <1>1, <1>4, <1>5 DEF CodesAreMade, CodesMade, RowSteps
<1>11. CodesWorkOnce
  BY <1>1 DEF CodesWorkOnce
<1>12. QED
  BY <1>7, <1>8, <1>9, <1>10, <1>11 DEF AInv

LEMMA AInvStep == AInv /\ [AccountsNext]_accountVars => AInv'
<1> SUFFICES ASSUME AInv, [AccountsNext]_accountVars PROVE AInv'
  OBVIOUS
<1>1. CASE UNCHANGED accountVars
  BY <1>1, StutterKeeps
<1>2. ASSUME NEW r \in Request,
             \/ Leave(r) \/ Login(r) \/ Enter(r) \/ LoadUser(r) \/ LoadMembership(r)
             \/ NoMembership(r) \/ Logout(r) \/ SwitchTenant(r) \/ SaveSession(r)
             \/ AdminRead(r) \/ RevokeUserSessions(r)
      PROVE  AInv'
  BY <1>2, LeaveKeeps, LoginKeeps, EnterKeeps, LoadUserKeeps, LoadMembershipKeeps, SessionGoes,
     SwitchTenantKeeps, SaveSessionKeeps, AdminReadKeeps, RevokeKeeps
<1>3. ASSUME NEW r \in Request,
             \/ Hydrate(r) \/ WrongPassword(r)
             \/ PasswordPage(r) \/ AdminResetPassword(r)
             \/ MFASetup(r) \/ MFARegenerateRecoveryCodes(r) \/ MFADisable(r)
             \/ Deactivate(r) \/ Activate(r) \/ AdminUpdatePlatformRole(r)
      PROVE  AInv'
  BY <1>3, HydrateKeeps, WrongPasswordKeeps, PagesKeep
<1>4. ASSUME NEW r \in Request, NEW used \in SUBSET Code, RightPassword(r, used) PROVE AInv'
  BY <1>4, RightPasswordKeeps
<1>5. ASSUME NEW r \in Request, NEW s \in Session, IssueSession(r, s) \/ Arrive(r, s) PROVE AInv'
  BY <1>5, IssueKeeps, ArriveKeeps
<1>6. CASE LockEnds \/ \E s \in Session : SessionExpires(s)
  BY <1>6, LockEndsKeeps, SessionExpiresKeeps
<1>7. QED
  BY <1>1, <1>2, <1>3, <1>4, <1>5, <1>6 DEF AccountsNext

THEOREM AccountsInvariant == AccountsSpec => []AInv
<1>1. QED
  BY AInvInitially, AInvStep, PTL DEF AccountsSpec

\* A session that a page accepts was issued for the password that is in force,
\* as long as no copy with another password was written over the row.
THEOREM SessionsAreCurrent == AccountsSpec => []SessionsFollowThePassword
<1>1. AInv => SessionsFollowThePassword
  BY DEF AInv, AccountsTypeOK, VersionIsPassword, SessionsFollowThePassword, Usable
<1>2. QED
  BY <1>1, AccountsInvariant, PTL

\* A recovery code that has opened a login is not in the list any more, as long
\* as no copy with other codes was written over it.
THEOREM CodesAreUsedOnce == AccountsSpec => []CodesWorkOnce
<1>1. AInv => CodesWorkOnce
  BY DEF AInv
<1>2. QED
  BY <1>1, AccountsInvariant, PTL

\* The row, the copies and the sessions have their types.
THEOREM AccountsTypes == AccountsSpec => []AccountsTypeOK
<1>1. AInv => AccountsTypeOK
  BY DEF AInv
<1>2. QED
  BY <1>1, AccountsInvariant, PTL

-----------------------------------------------------------------------------
(* Migration *)

TxStage == {"aggregate", "backfill", "version11", "version12", "commit"}

Full(x) ==
  /\ x.made = Made(Current)
  /\ x.indexed = Indexable /\ x.searched = Indexable
  /\ Distinct(x.jobs)

KeepsRows(x) == \A t \in Table : RowsBefore(t) \subseteq x.records[t] \cup deleted[t]

StandsFor(k, j) == k = j \/ (SameDocument(j, k) /\ JobRank[k.state] <= JobRank[j.state])
KeepsJobs(x) == \A j \in before.jobs : \E k \in x.jobs \cup finished : StandsFor(k, j)

\* What the release of the first database had made.
BeforeFits ==
  /\ before.version >= Relational =>
       "unique_jobs" \in before.made /\ before.indexed = Indexable /\ Distinct(before.jobs)
  /\ before.version >= Current - 1 => "job_history" \in before.made

\* The database is the first one, untouched, or a current and complete one.
DbFits ==
  /\ db.version = Current => before.version <= Current /\ Full(db) /\ KeepsRows(db)
  /\ db.version # Current =>
       db = before /\ finished = {} /\ \A t \in Table : deleted[t] = {}
  /\ KeepsJobs(db)

\* One process has the lock; those that serve have found a current database.
StagesFit ==
  /\ \A p \in Process : stage[p] \in TxStage <=> writer = p
  /\ writer = None <=> tx = None
  /\ \A p \in Process :
       /\ stage[p] = "serving" => db.version = Current
       /\ stage[p] \in TxStage \cup {"begin"} => read[p] = before.version /\ before.version < Current
       /\ stage[p] \in {"aggregate", "backfill"} => before.version < Relational

\* What the transaction has made, stage by stage.
TxFits ==
  tx # None =>
    /\ KeepsJobs(tx)
    /\ \A p \in Process :
         /\ stage[p] \in {"aggregate", "backfill"} => KeepsRows(tx) \/ tx.records = before.records
         /\ stage[p] \in {"version11", "version12", "commit"} => KeepsRows(tx)
         /\ stage[p] \in {"backfill", "version11", "version12", "commit"} =>
              "unique_jobs" \in tx.made /\ tx.indexed = Indexable /\ Distinct(tx.jobs)
         /\ stage[p] \in {"version12", "commit"} => "job_history" \in tx.made
         /\ stage[p] = "commit" => "tender_search" \in tx.made /\ tx.searched = Indexable

\* Before backfills run nothing has been deleted, unless a process was late.
DeletedIsGone ==
  late = {} =>
    /\ \A t \in Table : deleted[t] \cap db.records[t] = {}
    /\ tx # None => \A t \in Table : deleted[t] \cap tx.records[t] = {}
    /\ \A p \in Process : stage[p] \in {"aggregate", "backfill"} => \A t \in Table : deleted[t] = {}

MInv ==
  /\ MigrationTypeOK
  /\ BeforeFits /\ DbFits /\ StagesFit /\ TxFits /\ DeletedIsGone

-----------------------------------------------------------------------------
(* Versions, jobs and records *)

LEMMA AllMade == Made(Current) = {"unique_jobs", "job_history", "tender_search"}
BY DEF Made, Current, Relational

LEMMA Versions ==
  ASSUME NEW v \in Version
  PROVE  /\ v \in Int /\ Made(v) \subseteq Made(Current)
         /\ v >= Relational => "unique_jobs" \in Made(v)
         /\ v >= Current - 1 => "job_history" \in Made(v)
         /\ v = Current => Made(v) = Made(Current)
BY DEF Version, Made, Current, Relational

LEMMA Ranks ==
  ASSUME NEW a \in JobState
  PROVE  JobRank[a] \in Int
BY DEF JobState, JobRank

LEMMA StandsForIsTransitive ==
  ASSUME NEW i, NEW j, NEW k, i.state \in JobState, j.state \in JobState, k.state \in JobState,
         StandsFor(j, i), StandsFor(k, j)
  PROVE  StandsFor(k, i)
<1>1. JobRank[i.state] \in Int /\ JobRank[j.state] \in Int /\ JobRank[k.state] \in Int
  BY Ranks
<1>2. QED
  BY <1>1 DEF StandsFor, SameDocument

LEMMA JobsHaveStates ==
  ASSUME NEW x \in Database, NEW j \in x.jobs
  PROVE  j.state \in JobState
BY MigrationAssumption DEF Database

\* Deduplication keeps a job that stands for each it removes.
LEMMA DeduplicationKeeps ==
  ASSUME MigrationTypeOK, tx \in Database, KeepsJobs(tx), NEW kept, Deduplicated(kept, tx.jobs)
  PROVE  \A j \in before.jobs : \E k \in kept \cup finished : StandsFor(k, j)
<1> SUFFICES ASSUME NEW j \in before.jobs PROVE \E k \in kept \cup finished : StandsFor(k, j)
  OBVIOUS
<1>1. PICK i \in tx.jobs \cup finished : StandsFor(i, j)
  BY DEF KeepsJobs
<1>2. CASE i \in kept \cup finished
  BY <1>1, <1>2
<1>3. CASE i \in tx.jobs \ kept
  <2>1. PICK k \in kept : SameDocument(i, k) /\ JobRank[k.state] <= JobRank[i.state]
    BY <1>3 DEF Deduplicated
  <2>2. k \in tx.jobs
    BY DEF Deduplicated
  <2>3. i.state \in JobState /\ j.state \in JobState /\ k.state \in JobState
    BY <1>3, <2>2, JobsHaveStates DEF MigrationTypeOK
  <2>4. StandsFor(k, i)
    BY <2>1 DEF StandsFor
  <2>5. StandsFor(k, j)
    BY <1>1, <2>3, <2>4, StandsForIsTransitive
  <2>6. QED
    BY <2>5
<1>4. QED
  BY <1>1, <1>2, <1>3

LEMMA AggregatedTx ==
  ASSUME NEW x \in Database, NEW kept \in SUBSET x.jobs
  PROVE  LET y == [x EXCEPT !.indexed = Indexable, !.jobs = kept, !.made = @ \cup {"unique_jobs"}]
         IN /\ y \in Database /\ y.records = x.records /\ y.jobs = kept
            /\ y.indexed = Indexable /\ "unique_jobs" \in y.made
<1> DEFINE made == x.made \cup {"unique_jobs"}
<1>1. made \in SUBSET Made(Current) /\ kept \in SUBSET UNION JobTables
  BY AllMade DEF Database
<1>2. "unique_jobs" \in made
  OBVIOUS
<1> HIDE DEF made
<1>3. LET y == [x EXCEPT !.indexed = Indexable, !.jobs = kept, !.made = made]
      IN /\ y \in Database /\ y.records = x.records /\ y.jobs = kept
         /\ y.indexed = Indexable /\ "unique_jobs" \in y.made
  BY <1>1, <1>2 DEF Database
<1>4. QED
  BY <1>3 DEF made

LEMMA RecordedDb ==
  ASSUME NEW x \in Database, NEW records \in [Table -> SUBSET Item]
  PROVE  LET y == [x EXCEPT !.records = records]
         IN /\ y \in Database /\ y.records = records /\ y.jobs = x.jobs /\ y.made = x.made
            /\ y.version = x.version /\ y.indexed = x.indexed /\ y.searched = x.searched
BY DEF Database

LEMMA CommittedDb ==
  ASSUME NEW x \in Database
  PROVE  LET y == [x EXCEPT !.version = Current]
         IN /\ y \in Database /\ y.records = x.records /\ y.jobs = x.jobs /\ y.made = x.made
            /\ y.version = Current /\ y.indexed = x.indexed /\ y.searched = x.searched
BY DEF Database, Version

LEMMA FinishedDb ==
  ASSUME NEW x \in Database, NEW j
  PROVE  LET y == [x EXCEPT !.jobs = @ \ {j}]
         IN /\ y \in Database /\ y.records = x.records /\ y.jobs = x.jobs \ {j} /\ y.made = x.made
            /\ y.version = x.version /\ y.indexed = x.indexed /\ y.searched = x.searched
<1> DEFINE jobs == x.jobs \ {j}
<1>1. jobs \in SUBSET UNION JobTables
  BY DEF Database
<1> HIDE DEF jobs
<1>2. LET y == [x EXCEPT !.jobs = jobs]
      IN /\ y \in Database /\ y.records = x.records /\ y.jobs = jobs /\ y.made = x.made
         /\ y.version = x.version /\ y.indexed = x.indexed /\ y.searched = x.searched
  BY <1>1 DEF Database
<1>3. QED
  BY <1>2 DEF jobs

-----------------------------------------------------------------------------
(* Opening and the beginning of a transaction *)

LEMMA MInvInitially == MigrationInit => MInv
<1> SUFFICES ASSUME MigrationInit PROVE MInv
  OBVIOUS
<1>1. PICK version \in Version :
        db \in [version : {version}, made : {Made(version)}, records : [Table -> SUBSET Item],
                jobs : {jobs \in JobTables : version >= Relational => Distinct(jobs)},
                indexed : IF version >= Relational THEN {Indexable} ELSE SUBSET Indexable,
                searched : {IF version >= Current THEN Indexable ELSE {}}]
  BY DEF MigrationInit
<1>2. /\ db.version = version /\ db.made = Made(version) /\ db.records \in [Table -> SUBSET Item]
      /\ db.jobs \in JobTables /\ (version >= Relational => Distinct(db.jobs))
      /\ db.indexed \in SUBSET Indexable /\ (version >= Relational => db.indexed = Indexable)
      /\ db.searched \in SUBSET Indexable /\ (version >= Current => db.searched = Indexable)
  BY <1>1
<1>3. db = [version |-> db.version, made |-> db.made, records |-> db.records, jobs |-> db.jobs,
            indexed |-> db.indexed, searched |-> db.searched]
  BY <1>1
<1>4. db.made \in SUBSET Made(Current) /\ db.jobs \in SUBSET UNION JobTables
  BY <1>2, Versions
<1>5. db \in Database
  BY <1>2, <1>3, <1>4 DEF Database
<1>6. MigrationTypeOK
  BY <1>5 DEF MigrationInit, MigrationTypeOK
<1>7. BeforeFits
  BY <1>2, Versions DEF MigrationInit, BeforeFits
<1>8. KeepsJobs(db)
  BY DEF MigrationInit, KeepsJobs, StandsFor
<1>9. ASSUME db.version = Current
      PROVE  before.version <= Current /\ Full(db) /\ KeepsRows(db)
  <2>1. Current >= Relational /\ Current >= Current /\ Current <= Current /\ ~(Current < Relational)
    BY DEF Current, Relational
  <2>2. Full(db)
    BY <1>2, <1>9, <2>1, Versions DEF Full
  <2>3. KeepsRows(db)
    BY <1>9, <2>1 DEF MigrationInit, KeepsRows, RowsBefore
  <2>4. QED
    BY <1>9, <2>1, <2>2, <2>3 DEF MigrationInit
<1>10. DbFits
  BY <1>8, <1>9 DEF MigrationInit, DbFits
<1>11. StagesFit /\ TxFits /\ DeletedIsGone
  <2>1. None \notin Process
    BY MigrationAssumption
  <2>2. QED
    BY <2>1 DEF MigrationInit, StagesFit, TxFits, DeletedIsGone, TxStage
<1>12. QED
  BY <1>6, <1>7, <1>10, <1>11 DEF MInv

LEMMA OpenKeepsMInv ==
  ASSUME MInv, NEW p \in Process, Open(p)
  PROVE  MInv'
<1> USE DEF MInv
<1>1. /\ db.version \in Version /\ db.version \in Int /\ db.version <= Current
      /\ stage[p] = "down" /\ writer # p
      /\ stage' = [stage EXCEPT ![p] = IF db.version = Current THEN "serving" ELSE "begin"]
      /\ read' = [read EXCEPT ![p] = db.version]
      /\ UNCHANGED <<db, tx, writer, before, deleted, finished, late>>
  BY Versions DEF Open, To, databaseNotes, MigrationTypeOK, Database, StagesFit, TxStage
<1>2. MigrationTypeOK'
  BY <1>1 DEF MigrationTypeOK
<1>3. \A q \in Process : stage'[q] \in TxStage => stage'[q] = stage[q] /\ q # p
  BY <1>1 DEF MigrationTypeOK, TxStage
<1>4. StagesFit'
  <2>1. \A q \in Process : stage'[q] \in TxStage <=> writer' = q
    BY <1>1 DEF MigrationTypeOK, StagesFit, TxStage
  <2>2. db.version # Current => db.version = before.version /\ db.version < Current
    BY <1>1 DEF DbFits, Current
  <2>3. ASSUME NEW q \in Process
        PROVE  /\ stage'[q] = "serving" => db.version = Current
               /\ stage'[q] \in TxStage \cup {"begin"} => read'[q] = before.version /\ before.version < Current
               /\ stage'[q] \in {"aggregate", "backfill"} => before.version < Relational
    <3>1. CASE q = p
      BY <1>1, <2>2, <3>1 DEF MigrationTypeOK, TxStage
    <3>2. CASE q # p
      BY <1>1, <3>2 DEF MigrationTypeOK, StagesFit
    <3>3. QED
      BY <3>1, <3>2
  <2>4. QED
    BY <1>1, <2>1, <2>3 DEF StagesFit
<1>5. TxFits'
  BY <1>1, <1>3 DEF TxFits, KeepsJobs, KeepsRows, RowsBefore, TxStage
<1>6. DeletedIsGone'
  BY <1>1, <1>3 DEF DeletedIsGone, TxStage
<1>7. BeforeFits' /\ DbFits'
  BY <1>1 DEF BeforeFits, DbFits, KeepsJobs, KeepsRows, RowsBefore, Full
<1>8. QED
  BY <1>2, <1>4, <1>5, <1>6, <1>7

LEMMA BeginKeepsMInv ==
  ASSUME MInv, NEW p \in Process, Begin(p)
  PROVE  MInv'
<1> USE DEF MInv
<1> DEFINE s == Path(read[p])
<1>1. /\ writer = None /\ stage[p] = "begin" /\ stage' = [stage EXCEPT ![p] = s]
      /\ writer' = p /\ tx' = db
      /\ late' = IF read[p] < Relational /\ db.version > read[p] THEN late \cup {p} ELSE late
      /\ UNCHANGED <<db, read, before, deleted, finished>>
  BY DEF Begin, To
<1>2. read[p] = before.version /\ before.version < Current
  BY <1>1 DEF StagesFit
<1>3. /\ before.version \in Int /\ db.version \in Int
      /\ db \in Database /\ db # None /\ p # None
  BY Versions, MigrationAssumption DEF MigrationTypeOK, Database
<1>4. /\ s \in {"aggregate", "version11", "version12"}
      /\ s = "aggregate" <=> before.version < Relational
      /\ s = "version12" => before.version >= Current - 1
  <2>1. before.version \in Version
    BY DEF MigrationTypeOK, Database
  <2>2. QED
    BY <1>2, <2>1 DEF Path, Version, Current, Relational
<1> HIDE DEF s
<1>5. MigrationTypeOK'
  BY <1>1, <1>3, <1>4 DEF MigrationTypeOK
<1>6. \A q \in Process : stage'[q] = IF q = p THEN s ELSE stage[q]
  BY <1>1 DEF MigrationTypeOK
<1>7. \A q \in Process : stage[q] \notin TxStage
  BY <1>1, MigrationAssumption DEF StagesFit
<1>8. StagesFit'
  <2>1. \A q \in Process : stage'[q] \in TxStage <=> writer' = q
    BY <1>1, <1>4, <1>6, <1>7 DEF TxStage
  <2>2. ASSUME NEW q \in Process
        PROVE  /\ stage'[q] = "serving" => db.version = Current
               /\ stage'[q] \in TxStage \cup {"begin"} => read'[q] = before.version /\ before.version < Current
               /\ stage'[q] \in {"aggregate", "backfill"} => before.version < Relational
    <3>1. CASE q = p
      BY <1>1, <1>2, <1>4, <1>6, <3>1
    <3>2. CASE q # p
      BY <1>1, <1>6, <3>2 DEF StagesFit
    <3>3. QED
      BY <3>1, <3>2
  <2>3. QED
    BY <1>1, <1>3, <2>1, <2>2 DEF StagesFit
<1>9. db.version = Current \/ (db = before /\ \A t \in Table : deleted[t] = {})
  BY DEF DbFits
<1>10. KeepsRows(db) \/ db.records = before.records
  BY <1>9 DEF DbFits
<1>11. s # "aggregate" =>
         KeepsRows(db) /\ "unique_jobs" \in db.made /\ db.indexed = Indexable /\ Distinct(db.jobs)
  <2>1. CASE db.version = Current
    BY <2>1, AllMade DEF DbFits, Full
  <2>2. CASE db = before
    BY <1>3, <1>4, <2>2 DEF BeforeFits, KeepsRows, RowsBefore, Relational
  <2>3. QED
    BY <1>9, <2>1, <2>2
<1>12. s = "version12" => "job_history" \in db.made
  BY <1>4, <1>9, AllMade DEF DbFits, BeforeFits, Full
<1>13. TxFits'
  <2>1. KeepsJobs(db)
    BY DEF DbFits
  <2>2. KeepsJobs(tx)' /\ (KeepsRows(db) => KeepsRows(tx)')
    BY <1>1, <2>1 DEF KeepsJobs, KeepsRows, RowsBefore
  <2>3. \A q \in Process : stage'[q] \in TxStage => q = p /\ stage'[q] = s
    BY <1>6, <1>7
  <2>4. QED
    BY <1>1, <1>4, <1>10, <1>11, <1>12, <2>2, <2>3 DEF TxFits, TxStage
<1>14. DeletedIsGone'
  <2> SUFFICES ASSUME late' = {} PROVE DeletedIsGone'
    BY DEF DeletedIsGone
  <2>1. late = {} /\ (before.version < Relational => db.version <= before.version)
    BY <1>1, <1>2, <1>3
  <2>2. before.version < Relational => \A t \in Table : deleted[t] = {}
    BY <1>3, <1>9, <2>1 DEF Relational, Current
  <2>3. \A q \in Process : stage'[q] \in {"aggregate", "backfill"} => before.version < Relational
    BY <1>4, <1>6, <1>7 DEF TxStage
  <2>4. QED
    BY <1>1, <2>1, <2>2, <2>3 DEF DeletedIsGone
<1>15. BeforeFits' /\ DbFits'
  BY <1>1 DEF BeforeFits, DbFits, KeepsJobs, KeepsRows, RowsBefore, Full
<1>16. QED
  BY <1>5, <1>8, <1>13, <1>14, <1>15

-----------------------------------------------------------------------------
(* The statements of a transaction: what holds outside it is left as it is, *)
(* and its process, which alone has the lock, goes from stage to stage.     *)

InTx(p) ==
  /\ writer = p /\ writer' = p /\ tx \in Database /\ tx' \in Database /\ tx # None /\ tx' # None
  /\ UNCHANGED <<db, writer, read, databaseNotes>>

LEMMA StatementKeepsMInv ==
  ASSUME MInv, NEW p \in Process, InTx(p), NEW s \in TxStage,
         stage' = [stage EXCEPT ![p] = s],
         s \in {"aggregate", "backfill"} => stage[p] \in {"aggregate", "backfill"},
         KeepsJobs(tx'),
         s \in {"aggregate", "backfill"} => KeepsRows(tx') \/ tx'.records = before.records,
         s \in {"version11", "version12", "commit"} => KeepsRows(tx'),
         s \in {"backfill", "version11", "version12", "commit"} =>
           "unique_jobs" \in tx'.made /\ tx'.indexed = Indexable /\ Distinct(tx'.jobs),
         s \in {"version12", "commit"} => "job_history" \in tx'.made,
         s = "commit" => "tender_search" \in tx'.made /\ tx'.searched = Indexable,
         late = {} => \A t \in Table : deleted[t] \cap tx'.records[t] = {}
  PROVE  MInv'
<1> USE DEF MInv
<1>1. /\ writer = p /\ writer' = p /\ tx # None /\ tx' # None /\ tx' \in Database
      /\ UNCHANGED <<db, read, before, deleted, finished, late>>
  BY DEF InTx, databaseNotes
<1>2. MigrationTypeOK'
  BY <1>1 DEF MigrationTypeOK, TxStage
<1>3. \A q \in Process : stage'[q] = IF q = p THEN s ELSE stage[q]
  BY DEF MigrationTypeOK
<1>4. stage[p] \in TxStage /\ p # None
  BY <1>1, MigrationAssumption DEF StagesFit
<1>5. \A q \in Process : stage'[q] \in TxStage <=> q = p
  BY <1>1, <1>3 DEF StagesFit
<1>6. StagesFit'
  <2>1. ASSUME NEW q \in Process
        PROVE  /\ stage'[q] = "serving" => db.version = Current
               /\ stage'[q] \in TxStage \cup {"begin"} => read'[q] = before.version /\ before.version < Current
               /\ stage'[q] \in {"aggregate", "backfill"} => before.version < Relational
    <3>1. CASE q = p
      BY <1>1, <1>3, <1>4, <3>1 DEF StagesFit, TxStage
    <3>2. CASE q # p
      BY <1>1, <1>3, <3>2 DEF StagesFit
    <3>3. QED
      BY <3>1, <3>2
  <2>2. QED
    BY <1>1, <1>4, <1>5, <2>1 DEF StagesFit
<1>7. TxFits'
  <2>1. KeepsJobs(tx)' /\ (KeepsRows(tx') => KeepsRows(tx)')
    BY <1>1 DEF KeepsJobs, KeepsRows, RowsBefore
  <2>2. \A q \in Process : stage'[q] \in TxStage => stage'[q] = s
    BY <1>3, <1>5
  <2>3. QED
    BY <1>1, <2>1, <2>2 DEF TxFits, TxStage
<1>8. DeletedIsGone'
  <2> SUFFICES ASSUME late = {} PROVE DeletedIsGone'
    BY <1>1 DEF DeletedIsGone
  <2>1. s \in {"aggregate", "backfill"} => \A t \in Table : deleted[t] = {}
    BY DEF DeletedIsGone
  <2>2. \A q \in Process : stage'[q] \in {"aggregate", "backfill"} => \A t \in Table : deleted[t] = {}
    BY <1>3, <1>5, <2>1 DEF TxStage
  <2>3. QED
    BY <1>1, <2>2 DEF DeletedIsGone
<1>9. BeforeFits' /\ DbFits'
  BY <1>1 DEF BeforeFits, DbFits, KeepsJobs, KeepsRows, RowsBefore, Full
<1>10. QED
  BY <1>2, <1>6, <1>7, <1>8, <1>9

\* The process that takes a stage of a transaction has the lock, and what TxFits
\* says of its stage holds of the transaction.
LEMMA InItsTx ==
  ASSUME MInv, NEW p \in Process, stage[p] \in TxStage
  PROVE  writer = p /\ tx \in Database /\ tx # None /\ KeepsJobs(tx)
<1>1. writer = p /\ p # None
  BY MigrationAssumption DEF MInv, StagesFit
<1>2. tx # None
  BY <1>1 DEF MInv, StagesFit
<1>3. QED
  BY <1>1, <1>2 DEF MInv, MigrationTypeOK, TxFits

LEMMA AggregateStatementsKeepMInv ==
  ASSUME MInv, NEW p \in Process, AggregateStatements(p)
  PROVE  MInv'
<1>1. stage[p] = "aggregate" /\ stage' = [stage EXCEPT ![p] = "backfill"]
      /\ UNCHANGED <<db, writer, read, databaseNotes>>
  BY DEF AggregateStatements, To
<1>2. PICK kept \in SUBSET tx.jobs :
        /\ Deduplicated(kept, tx.jobs)
        /\ tx' = [tx EXCEPT !.indexed = Indexable, !.jobs = kept, !.made = @ \cup {"unique_jobs"}]
  BY DEF AggregateStatements
<1>3. writer = p /\ tx \in Database /\ tx # None /\ KeepsJobs(tx)
  BY <1>1, InItsTx DEF TxStage
<1>4. /\ tx' \in Database /\ tx'.records = tx.records /\ tx'.jobs = kept
      /\ tx'.indexed = Indexable /\ "unique_jobs" \in tx'.made
  BY <1>2, <1>3, AggregatedTx
<1>5. InTx(p)
  BY <1>1, <1>3, <1>4, MigrationAssumption DEF InTx
<1>6. KeepsJobs(tx')
  BY <1>2, <1>3, <1>4, DeduplicationKeeps DEF KeepsJobs, MInv
<1>7. KeepsRows(tx') \/ tx'.records = before.records
  BY <1>1, <1>3, <1>4 DEF MInv, TxFits, KeepsRows
<1>8. Distinct(tx'.jobs)
  BY <1>2, <1>4 DEF Deduplicated
<1>9. late = {} => \A t \in Table : deleted[t] \cap tx'.records[t] = {}
  BY <1>3, <1>4 DEF MInv, DeletedIsGone
<1>10. QED
  BY <1>1, <1>4, <1>5, <1>6, <1>7, <1>8, <1>9, StatementKeepsMInv DEF TxStage

LEMMA BackfillsKeepMInv ==
  ASSUME MInv, NEW p \in Process, migrateRelationalTables(p)
  PROVE  MInv'
<1> DEFINE records == [t \in Table |-> Backfilled(t)]
<1>1. /\ stage[p] = "backfill" /\ stage' = [stage EXCEPT ![p] = "version11"]
      /\ tx' = [tx EXCEPT !.records = records]
      /\ UNCHANGED <<db, writer, read, databaseNotes>>
  BY DEF migrateRelationalTables, To
<1>2. writer = p /\ tx \in Database /\ tx # None /\ KeepsJobs(tx)
  BY <1>1, InItsTx DEF TxStage
<1>3. records \in [Table -> SUBSET Item]
  BY <1>2, MigrationAssumption DEF Backfilled, Database
<1>4. \A t \in Table : records[t] = IF tx.records[t] = {} THEN JSONRows[t] ELSE tx.records[t]
  BY DEF Backfilled
<1> HIDE DEF records
<1>5. /\ tx' \in Database /\ tx'.records = records /\ tx'.jobs = tx.jobs /\ tx'.made = tx.made
      /\ tx'.indexed = tx.indexed
  BY <1>1, <1>2, <1>3, RecordedDb
<1>6. InTx(p)
  BY <1>1, <1>2, <1>5, MigrationAssumption DEF InTx
<1>7. KeepsJobs(tx')
  BY <1>2, <1>5 DEF KeepsJobs
<1>8. KeepsRows(tx')
  <2>1. CASE KeepsRows(tx)
    BY <1>4, <1>5, <2>1 DEF KeepsRows
  <2>2. CASE tx.records = before.records
    <3>1. before.version < Relational
      BY <1>1 DEF MInv, StagesFit
    <3>2. QED
      BY <1>4, <1>5, <2>2, <3>1 DEF KeepsRows, RowsBefore
  <2>3. QED
    BY <1>1, <1>2, <2>1, <2>2 DEF MInv, TxFits
<1>9. "unique_jobs" \in tx'.made /\ tx'.indexed = Indexable /\ Distinct(tx'.jobs)
  BY <1>1, <1>2, <1>5 DEF MInv, TxFits
<1>10. late = {} => \A t \in Table : deleted[t] \cap tx'.records[t] = {}
  BY <1>1 DEF MInv, DeletedIsGone
<1>11. QED
  BY <1>1, <1>6, <1>7, <1>8, <1>9, <1>10, StatementKeepsMInv DEF TxStage

LEMMA Version11KeepsMInv ==
  ASSUME MInv, NEW p \in Process, Version11(p)
  PROVE  MInv'
<1> DEFINE made == tx.made \cup {"job_history"}
<1>1. /\ stage[p] = "version11" /\ stage' = [stage EXCEPT ![p] = "version12"]
      /\ tx' = [tx EXCEPT !.made = made]
      /\ UNCHANGED <<db, writer, read, databaseNotes>>
  BY DEF Version11, To
<1>2. writer = p /\ tx \in Database /\ tx # None /\ KeepsJobs(tx)
  BY <1>1, InItsTx DEF TxStage
<1>3. made \in SUBSET Made(Current) /\ tx.made \subseteq made /\ "job_history" \in made
  BY <1>2, AllMade DEF Database
<1> HIDE DEF made
<1>4. /\ tx' \in Database /\ tx'.records = tx.records /\ tx'.jobs = tx.jobs /\ tx'.made = made
      /\ tx'.indexed = tx.indexed
  BY <1>1, <1>2, <1>3 DEF Database
<1>5. InTx(p)
  BY <1>1, <1>2, <1>4, MigrationAssumption DEF InTx
<1>6. KeepsJobs(tx') /\ KeepsRows(tx')
  BY <1>1, <1>2, <1>4 DEF KeepsJobs, KeepsRows, MInv, TxFits
<1>7. /\ "unique_jobs" \in tx'.made /\ tx'.indexed = Indexable /\ Distinct(tx'.jobs)
      /\ "job_history" \in tx'.made
  BY <1>1, <1>2, <1>3, <1>4 DEF MInv, TxFits
<1>8. late = {} => \A t \in Table : deleted[t] \cap tx'.records[t] = {}
  BY <1>2, <1>4 DEF MInv, DeletedIsGone
<1>9. QED
  BY <1>1, <1>5, <1>6, <1>7, <1>8, StatementKeepsMInv DEF TxStage

LEMMA Version12KeepsMInv ==
  ASSUME MInv, NEW p \in Process, Version12(p)
  PROVE  MInv'
<1> DEFINE made == tx.made \cup {"tender_search"}
<1>1. /\ stage[p] = "version12" /\ stage' = [stage EXCEPT ![p] = "commit"]
      /\ tx' = [tx EXCEPT !.made = made, !.searched = Indexable]
      /\ UNCHANGED <<db, writer, read, databaseNotes>>
  BY DEF Version12, To
<1>2. writer = p /\ tx \in Database /\ tx # None /\ KeepsJobs(tx)
  BY <1>1, InItsTx DEF TxStage
<1>3. made \in SUBSET Made(Current) /\ tx.made \subseteq made /\ "tender_search" \in made
  BY <1>2, AllMade DEF Database
<1> HIDE DEF made
<1>4. /\ tx' \in Database /\ tx'.records = tx.records /\ tx'.jobs = tx.jobs
      /\ tx'.indexed = tx.indexed /\ tx'.made = made
      /\ tx'.searched = Indexable
  BY <1>1, <1>2, <1>3 DEF Database
<1>5. InTx(p)
  BY <1>1, <1>2, <1>4, MigrationAssumption DEF InTx
<1>6. KeepsJobs(tx') /\ KeepsRows(tx')
  BY <1>1, <1>2, <1>4 DEF KeepsJobs, KeepsRows, MInv, TxFits
<1>7. /\ "unique_jobs" \in tx'.made /\ tx'.indexed = Indexable /\ Distinct(tx'.jobs)
      /\ "job_history" \in tx'.made /\ "tender_search" \in tx'.made
  BY <1>1, <1>2, <1>3, <1>4 DEF MInv, TxFits
<1>8. late = {} => \A t \in Table : deleted[t] \cap tx'.records[t] = {}
  BY <1>2, <1>4 DEF MInv, DeletedIsGone
<1>9. QED
  BY <1>1, <1>4, <1>5, <1>6, <1>7, <1>8, StatementKeepsMInv DEF TxStage

-----------------------------------------------------------------------------
(* The end of a transaction, and the writes of those who serve *)

LEMMA CommitKeepsMInv ==
  ASSUME MInv, NEW p \in Process, Commit(p)
  PROVE  MInv'
<1> USE DEF MInv
<1>1. /\ stage[p] = "commit" /\ stage' = [stage EXCEPT ![p] = "serving"]
      /\ db' = [tx EXCEPT !.version = Current] /\ tx' = None /\ writer' = None
      /\ UNCHANGED <<read, before, deleted, finished, late>>
  BY DEF Commit, To, databaseNotes
<1>2. writer = p /\ tx \in Database /\ tx # None /\ KeepsJobs(tx)
  BY <1>1, InItsTx DEF TxStage
<1>3. /\ db' \in Database /\ db'.records = tx.records /\ db'.jobs = tx.jobs /\ db'.made = tx.made
      /\ db'.version = Current /\ db'.indexed = tx.indexed /\ db'.searched = tx.searched
  BY <1>1, <1>2, CommittedDb
<1>4. MigrationTypeOK'
  BY <1>1, <1>3 DEF MigrationTypeOK
<1>5. \A q \in Process : stage'[q] = IF q = p THEN "serving" ELSE stage[q]
  BY <1>1 DEF MigrationTypeOK
<1>6. \A q \in Process : stage'[q] \notin TxStage
  BY <1>2, <1>5 DEF StagesFit, TxStage
<1>7. before.version < Current
  BY <1>1 DEF StagesFit, TxStage
<1>8. DbFits'
  <2>1. /\ KeepsRows(tx) /\ "unique_jobs" \in tx.made /\ "job_history" \in tx.made
        /\ "tender_search" \in tx.made /\ tx.indexed = Indexable /\ tx.searched = Indexable
        /\ Distinct(tx.jobs)
    BY <1>1, <1>2 DEF TxFits
  <2>2. tx.made = Made(Current)
    BY <1>2, <2>1, AllMade DEF Database
  <2>3. Full(db)'
    BY <1>3, <2>1, <2>2 DEF Full
  <2>4. KeepsRows(db)' /\ KeepsJobs(db)'
    BY <1>1, <1>2, <1>3, <2>1 DEF KeepsRows, KeepsJobs, RowsBefore
  <2>5. before'.version <= Current
    <3>1. before.version \in Int /\ Current \in Int
      BY Versions DEF MigrationTypeOK, Database, Current
    <3>2. QED
      BY <1>1, <1>7, <3>1
  <2>6. QED
    BY <1>3, <2>3, <2>4, <2>5 DEF DbFits
<1>9. StagesFit'
  <2>1. \A q \in Process : stage'[q] \in TxStage <=> writer' = q
    BY <1>1, <1>6, MigrationAssumption
  <2>2. \A q \in Process : stage'[q] = "begin" => read'[q] = before.version
    BY <1>1, <1>5 DEF StagesFit
  <2>3. \A q \in Process : stage'[q] \notin {"aggregate", "backfill"}
    BY <1>6 DEF TxStage
  <2>4. \A q \in Process : stage'[q] \in TxStage \cup {"begin"} => stage'[q] = "begin"
    BY <1>6
  <2>5. QED
    BY <1>1, <1>3, <1>7, <2>1, <2>2, <2>3, <2>4 DEF StagesFit
<1>10. TxFits' /\ DeletedIsGone'
  <2>1. \A q \in Process : stage'[q] \notin {"aggregate", "backfill"}
    BY <1>6 DEF TxStage
  <2>2. QED
    BY <1>1, <1>2, <1>3, <2>1 DEF TxFits, DeletedIsGone
<1>11. BeforeFits'
  BY <1>1 DEF BeforeFits
<1>12. QED
  BY <1>4, <1>8, <1>9, <1>10, <1>11

LEMMA StopKeepsMInv ==
  ASSUME MInv, NEW p \in Process, Stop(p)
  PROVE  MInv'
<1> USE DEF MInv
<1>1. /\ stage' = [stage EXCEPT ![p] = "down"] /\ read' = [read EXCEPT ![p] = 0]
      /\ writer' = (IF writer = p THEN None ELSE writer)
      /\ tx' = (IF writer = p THEN None ELSE tx)
      /\ UNCHANGED <<db, before, deleted, finished, late>>
  BY DEF Stop, databaseNotes
<1>2. MigrationTypeOK'
  BY <1>1 DEF MigrationTypeOK
<1>3. \A q \in Process : stage'[q] = (IF q = p THEN "down" ELSE stage[q])
                         /\ read'[q] = (IF q = p THEN 0 ELSE read[q])
  BY <1>1 DEF MigrationTypeOK
<1>4. StagesFit'
  <2>1. \A q \in Process : stage'[q] \in TxStage <=> writer' = q
    BY <1>1, <1>3, MigrationAssumption DEF StagesFit, TxStage
  <2>2. writer' = None <=> tx' = None
    BY <1>1 DEF StagesFit
  <2>3. ASSUME NEW q \in Process
        PROVE  /\ stage'[q] = "serving" => db.version = Current
               /\ stage'[q] \in TxStage \cup {"begin"} => read'[q] = before.version /\ before.version < Current
               /\ stage'[q] \in {"aggregate", "backfill"} => before.version < Relational
    <3>1. CASE q = p
      BY <1>3, <3>1 DEF TxStage
    <3>2. CASE q # p
      BY <1>3, <3>2 DEF StagesFit
    <3>3. QED
      BY <3>1, <3>2
  <2>4. QED
    BY <1>1, <2>1, <2>2, <2>3 DEF StagesFit
<1>5. \A q \in Process : stage'[q] \in TxStage => stage'[q] = stage[q]
  BY <1>3 DEF TxStage
<1>6. TxFits'
  BY <1>1, <1>5 DEF TxFits, KeepsJobs, KeepsRows, RowsBefore, TxStage
<1>7. DeletedIsGone'
  BY <1>1, <1>5 DEF DeletedIsGone, TxStage
<1>8. BeforeFits' /\ DbFits'
  BY <1>1 DEF BeforeFits, DbFits, KeepsJobs, KeepsRows, RowsBefore, Full
<1>9. QED
  BY <1>2, <1>4, <1>6, <1>7, <1>8

\* A write to a current database, with no transaction under way.
LEMMA ServingKeepsMInv ==
  ASSUME MInv, Serves, UNCHANGED <<tx, processes, before, late>>,
         db' \in Database, db'.version = db.version, db'.made = db.made,
         db'.indexed = db.indexed, db'.searched = db.searched, Distinct(db'.jobs),
         deleted' \in [Table -> SUBSET Item], finished' \subseteq UNION JobTables,
         KeepsRows(db)', KeepsJobs(db)',
         late = {} => \A t \in Table : deleted'[t] \cap db'.records[t] = {}
  PROVE  MInv'
<1> USE DEF MInv
<1>1. /\ writer = None /\ db.version = Current /\ tx = None
      /\ UNCHANGED <<tx, writer, stage, read, before, late>>
  BY DEF Serves, processes, StagesFit
<1>2. \A q \in Process : stage[q] \notin TxStage
  BY <1>1, MigrationAssumption DEF StagesFit
<1>3. MigrationTypeOK'
  BY <1>1 DEF MigrationTypeOK
<1>4. DbFits'
  BY <1>1 DEF DbFits, Full
<1>5. StagesFit' /\ TxFits'
  BY <1>1 DEF StagesFit, TxFits
<1>6. DeletedIsGone'
  BY <1>1, <1>2 DEF DeletedIsGone, TxStage
<1>7. BeforeFits'
  BY <1>1 DEF BeforeFits
<1>8. QED
  BY <1>3, <1>4, <1>5, <1>6, <1>7

LEMMA AddRowKeepsMInv ==
  ASSUME MInv, NEW t \in Table, NEW i \in Item, AddRow(t, i)
  PROVE  MInv'
<1> DEFINE records == [db.records EXCEPT ![t] = @ \cup {i}]
<1>1. /\ Serves /\ i \notin deleted[t] /\ db' = [db EXCEPT !.records = records]
      /\ UNCHANGED <<tx, processes, before, deleted, finished, late>>
  BY DEF AddRow, databaseNotes
<1>2. /\ db \in Database /\ records \in [Table -> SUBSET Item]
      /\ \A u \in Table : records[u] = IF u = t THEN db.records[u] \cup {i} ELSE db.records[u]
  BY DEF MInv, MigrationTypeOK, Database
<1> HIDE DEF records
<1>3. /\ db' \in Database /\ db'.records = records /\ db'.jobs = db.jobs /\ db'.made = db.made
      /\ db'.version = db.version /\ db'.indexed = db.indexed /\ db'.searched = db.searched
  BY <1>1, <1>2, RecordedDb
<1>4. db.version = Current
  BY <1>1 DEF Serves, MInv, StagesFit
<1>5. Distinct(db'.jobs)
  BY <1>3, <1>4 DEF MInv, DbFits, Full
<1>6. KeepsRows(db)' /\ KeepsJobs(db)'
  BY <1>1, <1>2, <1>3, <1>4 DEF MInv, DbFits, KeepsRows, KeepsJobs, RowsBefore
<1>7. late = {} => \A u \in Table : deleted'[u] \cap db'.records[u] = {}
  BY <1>1, <1>2, <1>3 DEF MInv, DeletedIsGone
<1>8. deleted' \in [Table -> SUBSET Item] /\ finished' \subseteq UNION JobTables
  BY <1>1 DEF MInv, MigrationTypeOK
<1>9. QED
  BY <1>1, <1>3, <1>5, <1>6, <1>7, <1>8, ServingKeepsMInv

LEMMA DeleteRowKeepsMInv ==
  ASSUME MInv, NEW t \in Table, NEW i \in Item, DeleteRow(t, i)
  PROVE  MInv'
<1> DEFINE records == [db.records EXCEPT ![t] = @ \ {i}]
<1>1. /\ Serves /\ db' = [db EXCEPT !.records = records]
      /\ deleted' = [deleted EXCEPT ![t] = @ \cup {i}]
      /\ UNCHANGED <<tx, processes, before, finished, late>>
  BY DEF DeleteRow
<1>2. /\ db \in Database /\ records \in [Table -> SUBSET Item]
      /\ \A u \in Table : records[u] = IF u = t THEN db.records[u] \ {i} ELSE db.records[u]
  BY DEF MInv, MigrationTypeOK, Database
<1> HIDE DEF records
<1>3. /\ db' \in Database /\ db'.records = records /\ db'.jobs = db.jobs /\ db'.made = db.made
      /\ db'.version = db.version /\ db'.indexed = db.indexed /\ db'.searched = db.searched
  BY <1>1, <1>2, RecordedDb
<1>4. db.version = Current
  BY <1>1 DEF Serves, MInv, StagesFit
<1>5. Distinct(db'.jobs)
  BY <1>3, <1>4 DEF MInv, DbFits, Full
<1>6. /\ deleted' \in [Table -> SUBSET Item] /\ finished' \subseteq UNION JobTables
      /\ \A u \in Table : deleted'[u] = IF u = t THEN deleted[u] \cup {i} ELSE deleted[u]
  BY <1>1 DEF MInv, MigrationTypeOK
<1>7. KeepsRows(db)' /\ KeepsJobs(db)'
  BY <1>1, <1>2, <1>3, <1>4, <1>6 DEF MInv, DbFits, KeepsRows, KeepsJobs, RowsBefore
<1>8. late = {} => \A u \in Table : deleted'[u] \cap db'.records[u] = {}
  BY <1>1, <1>2, <1>3, <1>6 DEF MInv, DeletedIsGone
<1>9. QED
  BY <1>1, <1>3, <1>5, <1>6, <1>7, <1>8, ServingKeepsMInv

LEMMA FinishJobKeepsMInv ==
  ASSUME MInv, NEW j \in UNION JobTables, FinishJob(j)
  PROVE  MInv'
<1>1. /\ Serves /\ db' = [db EXCEPT !.jobs = @ \ {j}] /\ finished' = finished \cup {j}
      /\ UNCHANGED <<tx, processes, before, deleted, late>>
  BY DEF FinishJob
<1>2. db \in Database /\ db.version = Current
  BY <1>1 DEF Serves, MInv, MigrationTypeOK, StagesFit
<1>3. /\ db' \in Database /\ db'.records = db.records /\ db'.jobs = db.jobs \ {j}
      /\ db'.made = db.made /\ db'.version = db.version /\ db'.indexed = db.indexed
      /\ db'.searched = db.searched
  BY <1>1, <1>2, FinishedDb
<1>4. Distinct(db'.jobs)
  BY <1>2, <1>3 DEF MInv, DbFits, Full, Distinct
<1>5. KeepsRows(db)' /\ KeepsJobs(db)'
  BY <1>1, <1>2, <1>3 DEF MInv, DbFits, KeepsRows, KeepsJobs, RowsBefore
<1>6. late = {} => \A u \in Table : deleted'[u] \cap db'.records[u] = {}
  BY <1>1, <1>3 DEF MInv, DeletedIsGone
<1>7. deleted' \in [Table -> SUBSET Item] /\ finished' \subseteq UNION JobTables
  BY <1>1 DEF MInv, MigrationTypeOK
<1>8. QED
  BY <1>1, <1>3, <1>4, <1>5, <1>6, <1>7, ServingKeepsMInv

-----------------------------------------------------------------------------
(* The theorems *)

LEMMA MInvStep == MInv /\ [MigrationNext]_databaseVars => MInv'
<1> SUFFICES ASSUME MInv, [MigrationNext]_databaseVars PROVE MInv'
  OBVIOUS
<1>1. CASE \E p \in Process :
             \/ Open(p) \/ Begin(p) \/ AggregateStatements(p) \/ migrateRelationalTables(p)
             \/ Version11(p) \/ Version12(p) \/ Commit(p) \/ Stop(p)
  BY <1>1, OpenKeepsMInv, BeginKeepsMInv, AggregateStatementsKeepMInv, BackfillsKeepMInv,
     Version11KeepsMInv, Version12KeepsMInv, CommitKeepsMInv, StopKeepsMInv
<1>2. CASE \E t \in Table, i \in Item : AddRow(t, i) \/ DeleteRow(t, i)
  BY <1>2, AddRowKeepsMInv, DeleteRowKeepsMInv
<1>3. CASE \E j \in UNION JobTables : FinishJob(j)
  BY <1>3, FinishJobKeepsMInv
<1>4. CASE UNCHANGED databaseVars
  BY <1>4 DEF databaseVars, processes, databaseNotes, MInv, MigrationTypeOK, BeforeFits, DbFits,
              StagesFit, TxFits, DeletedIsGone, KeepsJobs, KeepsRows, RowsBefore, Full
<1>5. QED
  BY <1>1, <1>2, <1>3, <1>4 DEF MigrationNext

\* The database, the transaction under way and what each process has read fit
\* together in every state.
THEOREM MigrationInvariant == MigrationSpec => []MInv
BY MInvInitially, MInvStep, PTL DEF MigrationSpec

\* What those who serve have deleted is not replayed from the old tables of JSON
\* rows by any migration, unless one was late for the lock.
THEOREM DeletionsAreFinal == MigrationSpec => []DeletedStaysDeleted
<1>1. MInv => DeletedStaysDeleted
  BY DEF MInv, DeletedIsGone, DeletedStaysDeleted
<1>2. QED
  BY <1>1, MigrationInvariant, PTL

\* Migrations lose no row and no job, and whoever serves finds the whole schema,
\* however many processes migrate and wherever they were stopped.
THEOREM MigrationsAreComplete == MigrationSpec => []MigrationIsComplete
<1>1. ASSUME MInv PROVE MigrationIsComplete
  <2>1. db.version = Current =>
          \A t \in Table : RowsBefore(t) \subseteq db.records[t] \cup deleted[t]
    BY <1>1 DEF MInv, DbFits, KeepsRows
  <2>2. \A j \in before.jobs : \E k \in db.jobs \cup finished :
          \/ k = j
          \/ SameDocument(j, k) /\ JobRank[k.state] <= JobRank[j.state]
    BY <1>1 DEF MInv, DbFits, KeepsJobs, StandsFor
  <2>3. (\E p \in Process : stage[p] = "serving") =>
          /\ db.version = Current /\ db.made = Made(Current)
          /\ db.indexed = Indexable /\ db.searched = Indexable
          /\ Distinct(db.jobs)
    BY <1>1 DEF MInv, StagesFit, DbFits, Full
  <2>4. before.version > Current => db = before
    <3>1. before.version \in Int /\ Current \in Int
      BY <1>1, Versions DEF MInv, MigrationTypeOK, Database, Current
    <3>2. QED
      BY <1>1, <3>1 DEF MInv, DbFits
  <2>5. QED
    BY <2>1, <2>2, <2>3, <2>4 DEF MigrationIsComplete
<1>2. QED
  BY <1>1, MigrationInvariant, PTL

\* The variables keep their types.
THEOREM MigrationTypes == MigrationSpec => []MigrationTypeOK
<1>1. MInv => MigrationTypeOK
  BY DEF MInv
<1>2. QED
  BY <1>1, MigrationInvariant, PTL

-----------------------------------------------------------------------------
(* Side by side *)

\* The components of MCRecords are those of their modules: what is proved of each
\* holds where they are checked together.
THEOREM RecordsAreComponents ==
  MCSpec => AccountsSpec /\ MembershipSpec /\ MigrationSpec /\ LimiterSpec
<1>1. MCInit => AccountsInit /\ MembershipInit /\ MigrationInit /\ LimiterInit
  BY DEF MCInit
<1>2. [MCNext]_<<accountVars, memberVars, databaseVars, limiterVars, part>>
        => /\ [AccountsNext]_accountVars /\ [MembershipNext]_memberVars
           /\ [MigrationNext]_databaseVars /\ [LimiterNext \/ Forget]_limiterVars
  BY DEF MCNext
<1>3. QED
  BY <1>1, <1>2, PTL DEF MCSpec, AccountsSpec, MembershipSpec, MigrationSpec, LimiterSpec

\* RecordsTypeOK: accounts, memberships, databases and the limiter have their types.
THEOREM RecordsTypes == MCSpec => []RecordsTypeOK
<1>1. AccountsTypeOK /\ MembershipTypeOK /\ MigrationTypeOK /\ LimiterTypeOK => RecordsTypeOK
  BY DEF RecordsTypeOK
<1>2. QED
  BY <1>1, RecordsAreComponents, AccountsTypes, MembershipTypes, MigrationTypes, LimiterTypes, PTL

=============================================================================
