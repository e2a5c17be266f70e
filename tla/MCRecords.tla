------------------------------ MODULE MCRecords ------------------------------
(***************************************************************************)
(* Four components that share no state, checked side by side: the first    *)
(* state says which of them moves, and the others stay where they are.     *)
(* They also share model values: a session is the same value as a user and *)
(* an address, and the requests of all are the same, so that one set of    *)
(* permutations serves all of them.                                        *)
(* Bounds: an account moves no more once a copy was written over a change  *)
(* of another, for then one of its properties says nothing; an old         *)
(* database has no other tenants than the one the configuration names.     *)
(***************************************************************************)
EXTENDS Accounts, Membership, Migration, LoginRateLimiter, TLC

CONSTANTS tenant1, tenant2, tenant3, tender1

VARIABLE part

MCRank == (tenant1 :> 1) @@ (tenant2 :> 2) @@ (tenant3 :> 3)
MCSlug == (tenant1 :> "home") @@ (tenant2 :> "new") @@ (tenant3 :> "new")

MCJSONRows == [t \in Table |-> {"old"}]
MCJob(id, document, state) ==
  [id |-> id, tender |-> IF document = 0 THEN None ELSE tender1,
   document |-> document, state |-> state]
MCJobTables ==
  {{MCJob(1, 1, "queued"), MCJob(2, 1, "completed")},
   {MCJob(1, 1, "processing"), MCJob(2, 1, "retry"), MCJob(3, 0, "failed"), MCJob(4, 0, "failed")},
   {MCJob(1, 1, "queued"), MCJob(2, 2, "queued")}}

MCSymmetry == Permutations(Request) \cup Permutations(Session)

\* Members of the first tenant, in all roles of old releases.
MCMembers == {[m \in Member |-> IF m[2] = Home THEN old[m[1]] ELSE None] :
                old \in [User -> {None} \cup [id : {1}, role : OldRole]]}

MCInit ==
  /\ part \in {"accounts", "members", "migration", "limiter"}
  /\ AccountsInit /\ LimiterInit
  /\ part # "accounts" => sets = 0
  /\ members \in IF part = "members" THEN MCMembers ELSE {[m \in Member |-> None]}
  /\ tenants \in SUBSET {Home}
  /\ MembershipInit
  /\ part # "members" => tenants = {} /\ \A u \in User : role[u] = None
  /\ MigrationInit
  /\ part # "migration" =>
       /\ db.version > Current
       /\ \A t \in Table : db.records[t] = {}

MCNext ==
  \/ part = "accounts" /\ undone = {} /\ AccountsNext
       /\ UNCHANGED <<memberVars, databaseVars, limiterVars, part>>
  \/ part = "members" /\ MembershipNext
       /\ UNCHANGED <<accountVars, databaseVars, limiterVars, part>>
  \/ part = "migration" /\ MigrationNext
       /\ UNCHANGED <<accountVars, memberVars, limiterVars, part>>
  \/ part = "limiter" /\ (LimiterNext \/ Forget)
       /\ UNCHANGED <<accountVars, memberVars, databaseVars, part>>

RecordsTypeOK == AccountsTypeOK /\ MembershipTypeOK /\ MigrationTypeOK /\ LimiterTypeOK

MCSpec == MCInit /\ [][MCNext]_<<accountVars, memberVars, databaseVars, limiterVars, part>>

=============================================================================
