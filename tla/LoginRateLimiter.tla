-------------------------- MODULE LoginRateLimiter --------------------------
(***************************************************************************)
(* LoginRateLimiter of the app and the calls the Login handler makes: an   *)
(* attempt first asks Allow for its address, works for a while and then    *)
(* registers its outcome, and attempts from one address overlap.  Times    *)
(* are ages in ticks; all ages beyond the window are one.                  *)
(***************************************************************************)
EXTENDS Absent, Integers, Sequences, FiniteSets

CONSTANTS
  Attempt,      \* requests to log in that overlap
  Key,          \* the addresses they come from
  Window,       \* the window of the limiter
  MaxAttempts,  \* failures in a window that block an address
  MaxBlocks     \* bound: throttle events in a window

ASSUME LimiterAssumption ==
  /\ Window \in Nat \ {0} /\ MaxAttempts \in Nat \ {0}
  /\ MaxBlocks \in Nat \ {0} /\ None \notin Key

VARIABLES
  entries,    \* per address: failures, age of windowStarted, time left to blockedUntil
  blockedAt,  \* the ages of the throttle events
  trying,     \* the address of an attempt that was allowed, or None
  failed      \* history: the ages of an address's failures since it succeeded or was blocked

limiterVars == <<entries, blockedAt, trying, failed>>

NoEntry == [failures |-> 0, started |-> Window + 1, left |-> 0]
Blocked(k) == entries[k].left > 0

LimiterInit ==
  /\ entries = [k \in Key |-> NoEntry]
  /\ blockedAt = <<>>
  /\ trying = [a \in Attempt |-> None]
  /\ failed = [k \in Key |-> <<>>]

\* Events are in the order of their times: the loop that keeps those younger than
\* a limit drops the first ones.
Younger(ages, limit) ==
  SubSeq(ages, Cardinality({i \in DOMAIN ages : ages[i] >= limit}) + 1, Len(ages))

\* pruneLocked, the start of every call: an address stays while it is blocked or
\* within its window, an event while it is younger than the window.
Kept == [k \in Key |-> IF Blocked(k) \/ entries[k].started <= Window THEN entries[k] ELSE NoEntry]
Recent == Younger(blockedAt, Window)

\* One tick later; what is beyond the window is forgotten.
Later(ages) == Younger([i \in DOMAIN ages |-> ages[i] + 1], Window + 1)

\* Mutant: ages are not capped.
TickOn ==
  /\ entries' = [k \in Key |->
       [entries[k] EXCEPT !.started = @ + 1, !.left = IF @ > 0 THEN @ - 1 ELSE 0]]
  /\ blockedAt' = Later(blockedAt)
  /\ failed' = [k \in Key |-> Later(failed[k])]
  /\ UNCHANGED trying

Tick ==
  /\ entries' = [k \in Key |->
       [entries[k] EXCEPT !.started = IF @ > Window THEN @ ELSE @ + 1,
                          !.left = IF @ > 0 THEN @ - 1 ELSE 0]]
  /\ blockedAt' = Later(blockedAt)
  /\ failed' = [k \in Key |-> Later(failed[k])]
  /\ UNCHANGED trying

\* Login asks for its address and goes on, or is refused and ends.
Allow(a, k) ==
  /\ trying[a] = None
  /\ entries' = Kept /\ blockedAt' = Recent
  /\ trying' = [trying EXCEPT ![a] = IF Blocked(k) THEN None ELSE k]
  /\ UNCHANGED failed

\* Mutant: a block does not reset the count.
RegisterFailureCounting(k) ==
  LET old == Kept[k]
      started == IF old.started > Window THEN 0 ELSE old.started
      count == (IF old.started > Window THEN 0 ELSE old.failures) + 1
  IN /\ blockedAt' = IF count >= MaxAttempts THEN Append(Recent, 0) ELSE Recent
     /\ entries' = [Kept EXCEPT ![k] =
          IF count >= MaxAttempts THEN [failures |-> count, started |-> 0, left |-> Window]
          ELSE [failures |-> count, started |-> started, left |-> old.left]]

\* RegisterFailure: the failure that is one too many blocks the address.
RegisterFailure(k) ==
  LET old == Kept[k]
      started == IF old.started > Window THEN 0 ELSE old.started
      count == (IF old.started > Window THEN 0 ELSE old.failures) + 1
  IN /\ blockedAt' = IF count >= MaxAttempts THEN Append(Recent, 0) ELSE Recent
     /\ entries' = [Kept EXCEPT ![k] =
          IF count >= MaxAttempts THEN [failures |-> 0, started |-> 0, left |-> Window]
          ELSE [failures |-> count, started |-> started, left |-> old.left]]

Fail(a) ==
  LET k == trying[a] IN
  /\ k # None /\ Len(blockedAt) < MaxBlocks
  /\ RegisterFailure(k)
  /\ trying' = [trying EXCEPT ![a] = None]
  /\ failed' = [failed EXCEPT ![k] = IF Len(blockedAt') > Len(Recent) THEN <<>> ELSE Append(@, 0)]

\* RegisterSuccess forgets the address without pruning the others.
Succeed(a) ==
  LET k == trying[a] IN
  /\ k # None
  /\ entries' = [entries EXCEPT ![k] = NoEntry]
  /\ trying' = [trying EXCEPT ![a] = None]
  /\ failed' = [failed EXCEPT ![k] = <<>>]
  /\ UNCHANGED blockedAt

\* An attempt may also end without registering: a locked account, a store error.
GiveUp(a) ==
  /\ trying[a] # None
  /\ trying' = [trying EXCEPT ![a] = None]
  /\ UNCHANGED <<entries, blockedAt, failed>>

\* The alerts and the pages that show them ask for the throttle events.
Snapshot ==
  /\ entries' = Kept /\ blockedAt' = Recent
  /\ UNCHANGED <<trying, failed>>

\* The app is started again: the limiter lives in memory.
Forget ==
  /\ entries' = [k \in Key |-> NoEntry]
  /\ blockedAt' = <<>>
  /\ trying' = [a \in Attempt |-> None]
  /\ failed' = [k \in Key |-> <<>>]

LoginAttempt ==
  \E a \in Attempt :
    \/ \E k \in Key : Allow(a, k)
    \/ Fail(a) \/ Succeed(a) \/ GiveUp(a)

LimiterNext == Tick \/ LoginAttempt \/ Snapshot

LimiterSpec == LimiterInit /\ [][LimiterNext \/ Forget]_limiterVars

-----------------------------------------------------------------------------
(* Properties *)

LimiterTypeOK ==
  /\ entries \in [Key -> [failures : 0..(MaxAttempts - 1), started : 0..(Window + 1), left : 0..Window]]
  /\ blockedAt \in Seq(0..Window) /\ Len(blockedAt) <= MaxBlocks
  /\ trying \in [Attempt -> Key \cup {None}]
  /\ failed \in [Key -> Seq(0..Window)]

\* An address is blocked only after MaxAttempts failures of its own within the
\* window, all of them since it last succeeded or was blocked; and failures are
\* not lost to the window, to pruning or to overlapping attempts: an address
\* that goes on failing is blocked before the failures of any one window reach
\* twice the limit.
BlocksFollowFailures ==
  /\ [][\A k \in Key :
          entries[k].left < Window /\ entries'[k].left = Window
          => Len(failed[k]) >= MaxAttempts - 1]_limiterVars
  /\ [](\A k \in Key : Len(failed[k]) <= 2 * (MaxAttempts - 1))

=============================================================================
