----------------------- MODULE LoginRateLimiterProofs -----------------------
(***************************************************************************)
(* The login rate limiter, for any number of addresses and overlapping     *)
(* attempts, any window and any limit: what it counts, and that a block    *)
(* follows the failures of its own address.                                *)
(***************************************************************************)
EXTENDS LoginRateLimiter, TLAPS, SequenceTheorems, FiniteSetTheorems, WellFoundedInduction

-----------------------------------------------------------------------------
(* Ages in the order of their events *)

InOrder(ages) == \A i, j \in DOMAIN ages : i <= j => ages[i] >= ages[j]

\* Of ages in order, those not below a limit come first.
LEMMA OlderFirst ==
  ASSUME NEW ages \in Seq(Nat), InOrder(ages), NEW limit \in Nat
  PROVE  \E n \in 0..Len(ages) : {i \in DOMAIN ages : ages[i] >= limit} = 1..n
<1> DEFINE stays == {i \in 1..(Len(ages) + 1) : i = Len(ages) + 1 \/ ages[i] < limit}
<1>1. /\ Len(ages) \in Nat /\ DOMAIN ages = 1..Len(ages)
      /\ \A i \in DOMAIN ages : ages[i] \in Nat
  OBVIOUS
<1>2. stays # {} /\ stays \subseteq Nat
  <2>1. Len(ages) + 1 \in stays
    BY <1>1
  <2> QED
    BY <1>1, <2>1
<1>3. PICK first \in stays : \A i \in stays : ~ <<i, first>> \in OpToRel(<, Nat)
  <2> HIDE DEF stays
  <2>1. IsWellFoundedOn(OpToRel(<, Nat), Nat)
    BY NatLessThanWellFounded
  <2> QED
    BY <1>2, <2>1, WFMin
<1>4. \A i \in stays : first <= i
  <2> TAKE i \in stays
  <2>1. i \in Nat /\ first \in Nat
    BY <1>2, <1>3
  <2>2. ~ (i < first)
    BY <1>3, <2>1 DEF OpToRel
  <2> QED
    BY <2>1, <2>2
<1>5. \A i \in 1..Len(ages) : ages[i] >= limit <=> i <= first - 1
  <2> TAKE i \in 1..Len(ages)
  <2>1. first \in 1..(Len(ages) + 1) /\ (first = Len(ages) + 1 \/ ages[first] < limit)
    BY <1>3
  <2>2. CASE i <= first - 1
    <3>1. i \notin stays
      BY <1>1, <1>4, <2>1, <2>2
    <3>2. ages[i] \in Nat
      BY <1>1
    <3> QED
      BY <1>1, <2>2, <3>1, <3>2
  <2>3. CASE ~ (i <= first - 1)
    <3>1. first \in DOMAIN ages /\ first <= i /\ ages[first] < limit
      BY <1>1, <2>1, <2>3
    <3>2. ages[first] >= ages[i] /\ ages[i] \in Nat /\ ages[first] \in Nat
      BY <1>1, <3>1 DEF InOrder
    <3> QED
      BY <2>3, <3>1, <3>2
  <2> QED
    BY <2>2, <2>3
<1>6. first - 1 \in 0..Len(ages)
  <2>1. first \in 1..(Len(ages) + 1)
    BY <1>3
  <2> QED
    BY <1>1, <2>1
<1>7. {i \in DOMAIN ages : ages[i] >= limit} = 1..(first - 1)
  <2> HIDE DEF stays
  <2>1. \A i : i \in 1..(first - 1) => i \in 1..Len(ages) /\ i <= first - 1
    BY <1>1, <1>6
  <2>2. \A i \in 1..Len(ages) : i <= first - 1 => i \in 1..(first - 1)
    BY <1>1, <1>6
  <2> QED
    BY <1>1, <1>5, <2>1, <2>2
<1> QED
  BY <1>6, <1>7

\* Younger keeps what is below the limit, in order.
LEMMA YoungerKeeps ==
  ASSUME NEW ages \in Seq(Nat), InOrder(ages), NEW limit \in Nat \ {0}
  PROVE  \E n \in 0..Len(ages) :
           /\ Younger(ages, limit) \in Seq(0..(limit - 1))
           /\ Len(Younger(ages, limit)) = Len(ages) - n
           /\ \A i \in 1..(Len(ages) - n) : Younger(ages, limit)[i] = ages[n + i]
           /\ \A i \in 1..Len(ages) : ages[i] >= limit <=> i <= n
           /\ InOrder(Younger(ages, limit))
<1>1. PICK n \in 0..Len(ages) : {i \in DOMAIN ages : ages[i] >= limit} = 1..n
  BY OlderFirst
<1>2. /\ Len(ages) \in Nat /\ DOMAIN ages = 1..Len(ages)
      /\ \A i \in DOMAIN ages : ages[i] \in Nat
  OBVIOUS
<1>3. \A i \in 1..Len(ages) : ages[i] >= limit <=> i <= n
  <2> TAKE i \in 1..Len(ages)
  <2>1. ages[i] >= limit <=> i \in 1..n
    BY <1>1, <1>2
  <2> QED
    BY <1>2, <2>1
<1>4. Cardinality(1..n) = n
  <2>1. 1 \in Int /\ n \in Int /\ n \in Nat
    BY <1>2
  <2>2. Cardinality(1..n) = IF 1 > n THEN 0 ELSE n - 1 + 1
    BY <2>1, FS_Interval
  <2> QED
    BY <2>1, <2>2
<1>5. Younger(ages, limit) = SubSeq(ages, n + 1, Len(ages))
  BY <1>1, <1>4 DEF Younger
<1>6. \A i \in (n + 1)..Len(ages) : ages[i] \in 0..(limit - 1)
  <2> TAKE i \in (n + 1)..Len(ages)
  <2>1. i \in 1..Len(ages) /\ ~ (i <= n)
    BY <1>2
  <2>2. ages[i] \in Nat /\ ~ (ages[i] >= limit)
    BY <1>2, <1>3, <2>1
  <2> QED
    BY <2>2
<1>7. /\ Younger(ages, limit) \in Seq(0..(limit - 1))
      /\ Len(Younger(ages, limit)) = IF n + 1 <= Len(ages) THEN Len(ages) - (n + 1) + 1 ELSE 0
      /\ \A i \in 1..(Len(ages) - (n + 1) + 1) : Younger(ages, limit)[i] = ages[n + 1 + i - 1]
  <2>1. n + 1 \in Int /\ Len(ages) \in Int
    BY <1>2
  <2> QED
    BY <1>5, <1>6, <2>1, SubSeqProperties
<1>8. Len(Younger(ages, limit)) = Len(ages) - n
  <2>1. n \in Nat /\ n <= Len(ages) /\ Len(ages) \in Nat
    BY <1>1, <1>2
  <2>2. CASE n + 1 <= Len(ages)
    BY <1>7, <2>1, <2>2
  <2>3. CASE ~ (n + 1 <= Len(ages))
    <3>1. n = Len(ages)
      BY <2>1, <2>3
    <3> QED
      BY <1>7, <2>1, <2>3, <3>1
  <2> QED
    BY <2>2, <2>3
<1>9. \A i \in 1..(Len(ages) - n) : Younger(ages, limit)[i] = ages[n + i]
  <2> TAKE i \in 1..(Len(ages) - n)
  <2>1. n + 1 + i - 1 = n + i /\ i \in 1..(Len(ages) - (n + 1) + 1)
    BY <1>2
  <2> QED
    BY <1>7, <2>1
<1>10. InOrder(Younger(ages, limit))
  <2>1. DOMAIN Younger(ages, limit) = 1..(Len(ages) - n)
    BY <1>7, <1>8
  <2> SUFFICES ASSUME NEW i \in 1..(Len(ages) - n), NEW j \in 1..(Len(ages) - n), i <= j
               PROVE  Younger(ages, limit)[i] >= Younger(ages, limit)[j]
    BY <2>1 DEF InOrder
  <2>2. n + i \in DOMAIN ages /\ n + j \in DOMAIN ages /\ n + i <= n + j
    BY <1>2
  <2> QED
    BY <1>9, <2>2 DEF InOrder
<1> QED
  BY <1>3, <1>7, <1>8, <1>9, <1>10

\* A tick makes ages one older and forgets the oldest.
LEMMA LaterKeeps ==
  ASSUME NEW ages \in Seq(0..Window), InOrder(ages)
  PROVE  \E n \in 0..Len(ages) :
           /\ Later(ages) \in Seq(0..Window)
           /\ Len(Later(ages)) = Len(ages) - n
           /\ \A i \in 1..(Len(ages) - n) : Later(ages)[i] = ages[n + i] + 1
           /\ \A i \in 1..Len(ages) : ages[i] >= Window <=> i <= n
           /\ InOrder(Later(ages))
<1> USE LimiterAssumption
<1> DEFINE older == [i \in DOMAIN ages |-> ages[i] + 1]
<1>1. /\ Len(ages) \in Nat /\ DOMAIN ages = 1..Len(ages)
      /\ \A i \in DOMAIN ages : ages[i] \in 0..Window
  OBVIOUS
<1>2. /\ older \in Seq(Nat) /\ Len(older) = Len(ages) /\ DOMAIN older = DOMAIN ages
      /\ \A i \in DOMAIN ages : older[i] = ages[i] + 1
  <2>1. older = [i \in 1..Len(ages) |-> ages[i] + 1] /\ \A i \in 1..Len(ages) : ages[i] + 1 \in Nat
    BY <1>1
  <2>2. older \in Seq(Nat)
    BY <1>1, <2>1, IsASeq
  <2>3. DOMAIN older = DOMAIN ages
    OBVIOUS
  <2>4. DOMAIN older = 1..Len(older) /\ Len(older) \in Nat
    BY <2>2, LenProperties
  <2>5. Len(older) = Len(ages)
    BY <1>1, <2>3, <2>4
  <2> QED
    BY <2>2, <2>3, <2>5
<1>3. InOrder(older)
  <2> HIDE DEF older
  <2>1. \A i, j \in DOMAIN ages : i <= j => ages[i] + 1 >= ages[j] + 1
    BY <1>1 DEF InOrder
  <2> QED
    BY <1>2, <2>1 DEF InOrder
<1> DEFINE limit == Window + 1
<1>4. Later(ages) = Younger(older, limit) /\ limit \in Nat \ {0}
  BY DEF Later
<1>6. limit = Window + 1 /\ limit - 1 = Window
  OBVIOUS
<1> HIDE DEF older, limit
<1>5. PICK n \in 0..Len(ages) :
        /\ Later(ages) \in Seq(0..(limit - 1))
        /\ Len(Later(ages)) = Len(ages) - n
        /\ \A i \in 1..(Len(ages) - n) : Later(ages)[i] = older[n + i]
        /\ \A i \in 1..Len(ages) : older[i] >= limit <=> i <= n
        /\ InOrder(Later(ages))
  <2>1. \E n \in 0..Len(older) :
          /\ Younger(older, limit) \in Seq(0..(limit - 1))
          /\ Len(Younger(older, limit)) = Len(older) - n
          /\ \A i \in 1..(Len(older) - n) : Younger(older, limit)[i] = older[n + i]
          /\ \A i \in 1..Len(older) : older[i] >= limit <=> i <= n
          /\ InOrder(Younger(older, limit))
    BY <1>2, <1>3, <1>4, YoungerKeeps
  <2>2. Len(older) = Len(ages)
    BY <1>2
  <2> QED
    BY <1>4, <2>1, <2>2, Zenon
<1>7. \A i \in 1..(Len(ages) - n) : n + i \in DOMAIN ages
  BY <1>1, <1>5
<1>8. \A i \in 1..Len(ages) : ages[i] >= Window <=> older[i] >= Window + 1
  <2> TAKE i \in 1..Len(ages)
  <2>1. ages[i] \in 0..Window /\ older[i] = ages[i] + 1
    BY <1>1, <1>2
  <2> QED
    BY <2>1
<1> QED
  BY <1>1, <1>2, <1>5, <1>6, <1>7, <1>8

-----------------------------------------------------------------------------
(* The invariant *)

Entry == [failures : 0..(MaxAttempts - 1), started : 0..(Window + 1), left : 0..Window]
Ages == Seq(0..Window)

\* An entry counts the last failures of its address, those since its window has
\* started; the failures before belong to one window at most, and once the window
\* is over, its own are all that is left.
Counts(e, ages) ==
  /\ e.left > 0 => e.left = Window - e.started
  /\ e.started > Window => Len(ages) <= MaxAttempts - 1
  /\ e.started <= Window =>
       /\ e.failures <= Len(ages)
       /\ Len(ages) - e.failures <= MaxAttempts - 1
       /\ \A i \in 1..Len(ages) :
            IF i <= Len(ages) - e.failures THEN ages[i] >= e.started ELSE ages[i] <= e.started

LimiterInv ==
  /\ LimiterTypeOK
  /\ InOrder(blockedAt)
  /\ \A k \in Key : InOrder(failed[k]) /\ Counts(entries[k], failed[k])

LEMMA NothingCounted ==
  /\ NoEntry \in Entry /\ <<>> \in Ages
  /\ InOrder(<<>>) /\ Counts(NoEntry, <<>>)
BY LimiterAssumption DEF NoEntry, Entry, Ages, InOrder, Counts

\* Pruning an entry loses no failure that counts.
LEMMA PrunedCounts ==
  ASSUME NEW e \in Entry, NEW ages \in Ages, Counts(e, ages)
  PROVE  LET kept == IF e.left > 0 \/ e.started <= Window THEN e ELSE NoEntry
         IN kept \in Entry /\ Counts(kept, ages)
BY LimiterAssumption DEF Entry, Ages, Counts, NoEntry

\* So does a tick.
LEMMA OlderCounts ==
  ASSUME NEW e \in Entry, NEW ages \in Ages, InOrder(ages), Counts(e, ages)
  PROVE  LET older == [e EXCEPT !.started = IF @ > Window THEN @ ELSE @ + 1,
                                !.left = IF @ > 0 THEN @ - 1 ELSE 0]
         IN older \in Entry /\ Counts(older, Later(ages))
<1> USE LimiterAssumption
<1> DEFINE older == [e EXCEPT !.started = IF @ > Window THEN @ ELSE @ + 1,
                              !.left = IF @ > 0 THEN @ - 1 ELSE 0]
<1>1. /\ older.failures = e.failures
      /\ older.started = IF e.started > Window THEN e.started ELSE e.started + 1
      /\ older.left = IF e.left > 0 THEN e.left - 1 ELSE 0
      /\ older \in Entry
  <2>1. ASSUME NEW started \in 0..(Window + 1), NEW left \in 0..Window,
               older = [e EXCEPT !.started = started, !.left = left]
        PROVE  /\ older \in Entry
               /\ older.failures = e.failures /\ older.started = started /\ older.left = left
    <3> HIDE DEF older
    <3> QED
      BY <2>1 DEF Entry
  <2>2. CASE e.started > Window /\ e.left > 0
    <3>1. /\ older = [e EXCEPT !.started = e.started, !.left = e.left - 1]
          /\ e.started \in 0..(Window + 1) /\ e.left - 1 \in 0..Window
      BY <2>2 DEF Entry
    <3> HIDE DEF older
    <3> QED
      BY <2>1, <2>2, <3>1
  <2>3. CASE e.started > Window /\ ~ (e.left > 0)
    <3>1. /\ older = [e EXCEPT !.started = e.started, !.left = 0]
          /\ e.started \in 0..(Window + 1) /\ 0 \in 0..Window
      BY <2>3 DEF Entry
    <3> HIDE DEF older
    <3> QED
      BY <2>1, <2>3, <3>1
  <2>4. CASE ~ (e.started > Window) /\ e.left > 0
    <3>1. /\ older = [e EXCEPT !.started = e.started + 1, !.left = e.left - 1]
          /\ e.started + 1 \in 0..(Window + 1) /\ e.left - 1 \in 0..Window
      BY <2>4 DEF Entry
    <3> HIDE DEF older
    <3> QED
      BY <2>1, <2>4, <3>1
  <2>5. CASE ~ (e.started > Window) /\ ~ (e.left > 0)
    <3>1. /\ older = [e EXCEPT !.started = e.started + 1, !.left = 0]
          /\ e.started + 1 \in 0..(Window + 1) /\ 0 \in 0..Window
      BY <2>5 DEF Entry
    <3> HIDE DEF older
    <3> QED
      BY <2>1, <2>5, <3>1
  <2> QED
    BY <2>2, <2>3, <2>4, <2>5, Zenon
<1>2. e.failures \in 0..(MaxAttempts - 1) /\ e.started \in 0..(Window + 1) /\ e.left \in 0..Window
  BY DEF Entry
<1>3. /\ Len(ages) \in Nat /\ DOMAIN ages = 1..Len(ages)
      /\ \A i \in 1..Len(ages) : ages[i] \in 0..Window
  BY DEF Ages
<1> HIDE DEF older
<1>4. PICK n \in 0..Len(ages) :
        /\ Later(ages) \in Seq(0..Window)
        /\ Len(Later(ages)) = Len(ages) - n
        /\ \A i \in 1..(Len(ages) - n) : Later(ages)[i] = ages[n + i] + 1
        /\ \A i \in 1..Len(ages) : ages[i] >= Window <=> i <= n
  BY LaterKeeps DEF Ages
<1>5. older.left > 0 => older.left = Window - older.started
  BY <1>1, <1>2 DEF Counts
<1>6. n \in Nat /\ n <= Len(ages)
  BY <1>3, <1>4
<1>7. CASE e.started > Window
  <2>1. Len(ages) <= MaxAttempts - 1
    BY <1>7 DEF Counts
  <2>2. older.started > Window
    BY <1>1, <1>2, <1>7
  <2>3. Len(Later(ages)) <= MaxAttempts - 1 /\ ~ (older.started <= Window)
    BY <1>1, <1>2, <1>3, <1>4, <1>6, <2>1, <2>2
  <2>4. Counts(older, Later(ages))
    BY <1>5, <2>3 DEF Counts
  <2> QED
    BY <1>1, <2>4 DEF older
<1>8. CASE e.started = Window
  <2>1. /\ e.failures <= Len(ages)
        /\ \A i \in 1..Len(ages) : i <= Len(ages) - e.failures => ages[i] >= Window
    BY <1>8 DEF Counts
  <2>2. n >= Len(ages) - e.failures
    <3>1. CASE Len(ages) - e.failures = 0
      BY <1>6, <3>1
    <3>2. CASE Len(ages) - e.failures > 0
      <4>1. Len(ages) - e.failures \in 1..Len(ages)
        BY <1>2, <1>3, <2>1, <3>2
      <4>2. ages[Len(ages) - e.failures] >= Window
        BY <1>2, <1>3, <2>1, <4>1
      <4> QED
        BY <1>2, <1>3, <1>4, <1>6, <4>1, <4>2
    <3> QED
      BY <1>2, <1>3, <2>1, <3>1, <3>2
  <2>3. Len(Later(ages)) <= MaxAttempts - 1
    BY <1>2, <1>3, <1>4, <1>6, <2>2
  <2>4. ~ (older.started <= Window)
    BY <1>1, <1>2, <1>8
  <2>5. Counts(older, Later(ages))
    BY <1>5, <2>3, <2>4 DEF Counts
  <2> QED
    BY <1>1, <2>5 DEF older
<1>9. CASE e.started < Window
  <2>1. /\ e.failures <= Len(ages)
        /\ Len(ages) - e.failures <= MaxAttempts - 1
        /\ \A i \in 1..Len(ages) :
             IF i <= Len(ages) - e.failures THEN ages[i] >= e.started ELSE ages[i] <= e.started
    BY <1>2, <1>9 DEF Counts
  <2>2. n <= Len(ages) - e.failures
    <3> SUFFICES ASSUME ~ (n <= Len(ages) - e.failures) PROVE FALSE
      OBVIOUS
    <3>1. n \in 1..Len(ages) /\ ~ (n <= Len(ages) - e.failures)
      BY <1>2, <1>3, <1>6, <2>1
    <3>2. ages[n] <= e.started /\ ages[n] >= Window /\ ages[n] \in 0..Window
      BY <1>3, <1>4, <1>6, <2>1, <3>1
    <3> QED
      BY <1>2, <1>9, <3>2
  <2>3. older.started = e.started + 1 /\ older.started <= Window
    BY <1>1, <1>2, <1>9
  <2>4. /\ older.failures <= Len(Later(ages))
        /\ Len(Later(ages)) - older.failures <= MaxAttempts - 1
    BY <1>1, <1>2, <1>3, <1>4, <1>6, <2>1, <2>2
  <2>5. ASSUME NEW i \in 1..Len(Later(ages))
        PROVE  IF i <= Len(Later(ages)) - older.failures THEN Later(ages)[i] >= older.started
               ELSE Later(ages)[i] <= older.started
    <3>0. /\ i \in 1..(Len(ages) - n)
          /\ Len(Later(ages)) - older.failures = Len(ages) - n - e.failures
      BY <1>1, <1>4
    <3>1. /\ i \in 1..(Len(ages) - n) /\ n + i \in 1..Len(ages)
          /\ i <= Len(Later(ages)) - older.failures <=> n + i <= Len(ages) - e.failures
      BY <3>0, <1>2, <1>3, <1>6
    <3>2. Later(ages)[i] = ages[n + i] + 1 /\ ages[n + i] \in 0..Window
      BY <1>3, <1>4, <3>1
    <3>3. IF n + i <= Len(ages) - e.failures THEN ages[n + i] >= e.started
                                             ELSE ages[n + i] <= e.started
      BY <2>1, <3>1
    <3> QED
      BY <1>2, <2>3, <3>1, <3>2, <3>3, SMTT(20)
  <2>6. \A i \in 1..Len(Later(ages)) :
          IF i <= Len(Later(ages)) - older.failures THEN Later(ages)[i] >= older.started
          ELSE Later(ages)[i] <= older.started
    BY <2>5
  <2>7. ~ (older.started > Window)
    BY <1>2, <2>3
  <2>8. Counts(older, Later(ages))
    BY <1>5, <2>4, <2>6, <2>7 DEF Counts
  <2> QED
    BY <1>1, <2>8 DEF older
<1> QED
  BY <1>2, <1>7, <1>8, <1>9

\* A failure is counted, or blocks its address when it is one too many.
LEMMA FailureCounts ==
  ASSUME NEW e \in Entry, NEW ages \in Ages, Counts(e, ages)
  PROVE  LET old == IF e.left > 0 \/ e.started <= Window THEN e ELSE NoEntry
             started == IF old.started > Window THEN 0 ELSE old.started
             count == (IF old.started > Window THEN 0 ELSE old.failures) + 1
             blocked == [failures |-> 0, started |-> 0, left |-> Window]
             counted == [failures |-> count, started |-> started, left |-> old.left]
         IN /\ blocked \in Entry /\ Counts(blocked, <<>>)
            /\ count >= MaxAttempts => Len(ages) >= MaxAttempts - 1
            /\ ~ (count >= MaxAttempts) => counted \in Entry /\ Counts(counted, Append(ages, 0))
            /\ old.left = e.left
<1> USE LimiterAssumption
<1> DEFINE old == IF e.left > 0 \/ e.started <= Window THEN e ELSE NoEntry
           started == IF old.started > Window THEN 0 ELSE old.started
           count == (IF old.started > Window THEN 0 ELSE old.failures) + 1
           blocked == [failures |-> 0, started |-> 0, left |-> Window]
           counted == [failures |-> count, started |-> started, left |-> old.left]
<1>1. e.failures \in 0..(MaxAttempts - 1) /\ e.started \in 0..(Window + 1) /\ e.left \in 0..Window
  BY DEF Entry
<1>2. /\ Len(ages) \in Nat /\ \A i \in 1..Len(ages) : ages[i] \in 0..Window
  BY DEF Ages
<1>3. blocked \in Entry /\ Counts(blocked, <<>>)
  BY DEF Entry, Counts
<1>4. Len(Append(ages, 0)) = Len(ages) + 1 /\ Append(ages, 0)[Len(ages) + 1] = 0
      /\ \A i \in 1..Len(ages) : Append(ages, 0)[i] = ages[i]
  <2>1. ages \in Seq(0..Window) /\ 0 \in 0..Window
    BY DEF Ages
  <2> QED
    BY <2>1, AppendProperties
<1>5. CASE e.started > Window
  <2>1. e.left = 0 /\ Len(ages) <= MaxAttempts - 1
    BY <1>1, <1>5 DEF Counts
  <2>2. old.left = e.left /\ started = 0 /\ count = 1
    BY <1>1, <1>5, <2>1 DEF NoEntry
  <2>3. 1 >= MaxAttempts => Len(ages) >= MaxAttempts - 1
    BY <1>2
  <2>4. ASSUME ~ (1 >= MaxAttempts)
        PROVE  counted \in Entry /\ Counts(counted, Append(ages, 0))
    <3>1. /\ counted.failures = 1 /\ counted.started = 0 /\ counted.left = 0
          /\ counted = [failures |-> 1, started |-> 0, left |-> 0]
      BY <2>1, <2>2
    <3>2. counted \in Entry
      BY <2>4, <3>1 DEF Entry
    <3> HIDE DEF counted
    <3>3. \A i \in 1..(Len(ages) + 1) :
            IF i <= Len(ages) + 1 - 1 THEN Append(ages, 0)[i] >= 0 ELSE Append(ages, 0)[i] <= 0
      BY <1>2, <1>4
    <3>4. Len(ages) + 1 - 1 <= MaxAttempts - 1 /\ 1 <= Len(ages) + 1
      BY <1>2, <2>1
    <3>5. Counts(counted, Append(ages, 0))
      BY <1>4, <3>1, <3>3, <3>4 DEF Counts
    <3> QED
      BY <3>2, <3>5
  <2> HIDE DEF old, started, count, blocked, counted
  <2>5. ~ (count >= MaxAttempts) => counted \in Entry /\ Counts(counted, Append(ages, 0))
    BY <2>2, <2>4
  <2>6. count >= MaxAttempts => Len(ages) >= MaxAttempts - 1
    BY <2>2, <2>3
  <2> QED
    BY <1>3, <2>2, <2>5, <2>6 DEF old, started, count, blocked, counted
<1>6. CASE ~ (e.started > Window)
  <2>1. /\ e.failures <= Len(ages)
        /\ Len(ages) - e.failures <= MaxAttempts - 1
        /\ \A i \in 1..Len(ages) :
             IF i <= Len(ages) - e.failures THEN ages[i] >= e.started ELSE ages[i] <= e.started
        /\ e.left > 0 => e.left = Window - e.started
    BY <1>1, <1>6 DEF Counts
  <2>2. old = e /\ started = e.started /\ count = e.failures + 1
    BY <1>1, <1>6
  <2>3. count >= MaxAttempts => Len(ages) >= MaxAttempts - 1
    BY <1>1, <1>2, <2>1, <2>2
  <2>4. ASSUME ~ (count >= MaxAttempts)
        PROVE  counted \in Entry /\ Counts(counted, Append(ages, 0))
    <3>1. /\ counted.failures = e.failures + 1 /\ counted.started = e.started
          /\ counted.left = e.left
          /\ counted = [failures |-> e.failures + 1, started |-> e.started, left |-> e.left]
      BY <2>2
    <3>2. counted \in Entry
      BY <1>1, <2>2, <2>4, <3>1 DEF Entry
    <3> HIDE DEF counted
    <3>3. \A i \in 1..(Len(ages) + 1) :
            IF i <= Len(ages) + 1 - (e.failures + 1) THEN Append(ages, 0)[i] >= e.started
            ELSE Append(ages, 0)[i] <= e.started
      <4> TAKE i \in 1..(Len(ages) + 1)
      <4>1. CASE i = Len(ages) + 1
        BY <1>1, <1>2, <1>4, <4>1
      <4>2. CASE i \in 1..Len(ages)
        <5>1. i <= Len(ages) + 1 - (e.failures + 1) <=> i <= Len(ages) - e.failures
          BY <1>1, <1>2, <4>2
        <5> QED
          BY <1>4, <2>1, <4>2, <5>1
      <4> QED
        BY <1>2, <4>1, <4>2
    <3>4. /\ Len(ages) + 1 - (e.failures + 1) <= MaxAttempts - 1
          /\ e.failures + 1 <= Len(ages) + 1
      BY <1>1, <1>2, <2>1
    <3>5. Counts(counted, Append(ages, 0))
      BY <1>1, <1>4, <1>6, <2>1, <3>1, <3>3, <3>4, SMTT(20) DEF Counts
    <3> QED
      BY <3>2, <3>5
  <2> HIDE DEF old, started, count, blocked, counted
  <2> QED
    BY <1>3, <2>2, <2>3, <2>4 DEF old, started, count, blocked, counted
<1> QED
  BY <1>5, <1>6

-----------------------------------------------------------------------------
(* The steps of the limiter *)

LEMMA LimiterBegins == LimiterInit => LimiterInv
<1> SUFFICES ASSUME LimiterInit PROVE LimiterInv
  OBVIOUS
<1>1. /\ entries \in [Key -> Entry] /\ failed \in [Key -> Ages]
      /\ \A k \in Key : entries[k] = NoEntry /\ failed[k] = <<>>
  BY NothingCounted DEF LimiterInit
<1>2. blockedAt \in Seq(0..Window) /\ Len(blockedAt) <= MaxBlocks
  BY LimiterAssumption DEF LimiterInit
<1>3. trying \in [Attempt -> Key \cup {None}]
  BY DEF LimiterInit
<1> QED
  BY <1>1, <1>2, <1>3, NothingCounted DEF LimiterInit, LimiterInv, LimiterTypeOK, Entry, Ages

LEMMA Unfolded ==
  ASSUME LimiterInv
  PROVE  /\ entries \in [Key -> Entry] /\ failed \in [Key -> Ages]
         /\ blockedAt \in Ages /\ Len(blockedAt) \in Nat /\ Len(blockedAt) <= MaxBlocks
         /\ InOrder(blockedAt)
         /\ trying \in [Attempt -> Key \cup {None}]
         /\ \A k \in Key : InOrder(failed[k]) /\ Counts(entries[k], failed[k])
BY DEF LimiterInv, LimiterTypeOK, Entry, Ages

LEMMA Folded ==
  ASSUME entries' \in [Key -> Entry], failed' \in [Key -> Ages],
         blockedAt' \in Ages, Len(blockedAt') <= MaxBlocks, InOrder(blockedAt'),
         trying' \in [Attempt -> Key \cup {None}],
         \A k \in Key : InOrder(failed'[k]) /\ Counts(entries'[k], failed'[k])
  PROVE  LimiterInv'
BY DEF LimiterInv, LimiterTypeOK, Entry, Ages

\* Throttle events stay in order when they are pruned.
LEMMA RecentKeeps ==
  ASSUME LimiterInv
  PROVE  /\ Recent \in Ages /\ InOrder(Recent)
         /\ Len(Recent) \in Nat /\ Len(Recent) <= Len(blockedAt)
         /\ \A i \in DOMAIN Recent : Recent[i] >= 0
<1> USE LimiterAssumption
<1>1. blockedAt \in Seq(0..Window) /\ blockedAt \in Seq(Nat) /\ Len(blockedAt) \in Nat
      /\ InOrder(blockedAt)
  <2>1. blockedAt \in Seq(0..Window) /\ InOrder(blockedAt)
    BY Unfolded DEF Ages
  <2>2. Seq(0..Window) \subseteq Seq(Nat)
    BY SeqMonotonic
  <2> QED
    BY <2>1, <2>2
<1>2. Window \in Nat \ {0}
  OBVIOUS
<1>3. PICK n \in 0..Len(blockedAt) :
        /\ Recent \in Seq(0..(Window - 1)) /\ Len(Recent) = Len(blockedAt) - n
        /\ InOrder(Recent)
  BY <1>1, <1>2, YoungerKeeps DEF Recent
<1>4. Seq(0..(Window - 1)) \subseteq Seq(0..Window)
  <2>1. 0..(Window - 1) \subseteq 0..Window
    OBVIOUS
  <2> QED
    BY <2>1, SeqMonotonic
<1>5. \A i \in DOMAIN Recent : Recent[i] >= 0
  BY <1>3
<1> QED
  BY <1>1, <1>3, <1>4, <1>5 DEF Ages

\* ... and when a new one is added.
LEMMA NewestKeeps ==
  ASSUME NEW ages \in Ages, InOrder(ages)
  PROVE  /\ Append(ages, 0) \in Ages /\ InOrder(Append(ages, 0))
         /\ Len(Append(ages, 0)) = Len(ages) + 1 /\ Len(ages) \in Nat
<1> USE LimiterAssumption
<1>1. /\ ages \in Seq(0..Window) /\ 0 \in 0..Window /\ Len(ages) \in Nat
      /\ \A i \in 1..Len(ages) : ages[i] \in 0..Window
      /\ DOMAIN ages = 1..Len(ages)
  BY DEF Ages
<1>2. /\ Append(ages, 0) \in Seq(0..Window) /\ Len(Append(ages, 0)) = Len(ages) + 1
      /\ \A i \in 1..Len(ages) : Append(ages, 0)[i] = ages[i]
      /\ Append(ages, 0)[Len(ages) + 1] = 0
  BY <1>1, AppendProperties
<1>3. DOMAIN Append(ages, 0) = 1..(Len(ages) + 1)
  BY <1>2
<1>4. InOrder(Append(ages, 0))
  <2> SUFFICES ASSUME NEW i \in 1..(Len(ages) + 1), NEW j \in 1..(Len(ages) + 1), i <= j
               PROVE  Append(ages, 0)[i] >= Append(ages, 0)[j]
    BY <1>3 DEF InOrder
  <2>1. CASE j = Len(ages) + 1
    <3>1. i \in 1..Len(ages) \/ i = Len(ages) + 1
      BY <1>1
    <3> QED
      BY <1>1, <1>2, <2>1, <3>1
  <2>2. CASE j \in 1..Len(ages)
    <3>1. i \in 1..Len(ages)
      BY <1>1, <2>2
    <3> QED
      BY <1>1, <1>2, <2>2, <3>1 DEF InOrder
  <2> QED
    BY <1>1, <2>1, <2>2
<1> QED
  BY <1>1, <1>2, <1>4 DEF Ages

LEMMA LaterAges ==
  ASSUME NEW ages \in Ages, InOrder(ages)
  PROVE  /\ Later(ages) \in Ages /\ InOrder(Later(ages))
         /\ Len(Later(ages)) \in Nat /\ Len(Later(ages)) <= Len(ages)
<1>1. ages \in Seq(0..Window) /\ Len(ages) \in Nat
  BY DEF Ages
<1>2. PICK n \in 0..Len(ages) :
        /\ Later(ages) \in Seq(0..Window) /\ InOrder(Later(ages))
        /\ Len(Later(ages)) = Len(ages) - n
  BY <1>1, LaterKeeps
<1> QED
  BY <1>1, <1>2 DEF Ages

LEMMA TickKeeps == LimiterInv /\ Tick => LimiterInv'
<1> SUFFICES ASSUME LimiterInv, Tick PROVE LimiterInv'
  OBVIOUS
<1>1. ASSUME NEW k \in Key
      PROVE  /\ entries'[k] \in Entry /\ failed'[k] \in Ages /\ InOrder(failed'[k])
             /\ Counts(entries'[k], failed'[k])
  <2> DEFINE e == entries[k]
             older == [e EXCEPT !.started = IF @ > Window THEN @ ELSE @ + 1,
                                !.left = IF @ > 0 THEN @ - 1 ELSE 0]
  <2>1. entries'[k] = older /\ failed'[k] = Later(failed[k])
    BY DEF Tick
  <2>2. e \in Entry /\ failed[k] \in Ages /\ InOrder(failed[k]) /\ Counts(e, failed[k])
    BY Unfolded
  <2> HIDE DEF e
  <2>3. older \in Entry /\ Counts(older, Later(failed[k]))
    BY <2>2, OlderCounts
  <2>4. Later(failed[k]) \in Ages /\ InOrder(Later(failed[k]))
    BY <2>2, LaterAges
  <2> HIDE DEF older
  <2> QED
    BY <2>1, <2>3, <2>4
<1>2. entries' \in [Key -> Entry] /\ failed' \in [Key -> Ages]
  <2>1. /\ entries' = [k \in Key |-> entries'[k]]
        /\ failed' = [k \in Key |-> failed'[k]]
    BY DEF Tick
  <2> QED
    BY <1>1, <2>1
<1>3. blockedAt' \in Ages /\ Len(blockedAt') <= MaxBlocks /\ InOrder(blockedAt')
  <2>1. blockedAt' = Later(blockedAt)
    BY DEF Tick
  <2>2. /\ Later(blockedAt) \in Ages /\ InOrder(Later(blockedAt))
        /\ Len(Later(blockedAt)) \in Nat /\ Len(Later(blockedAt)) <= Len(blockedAt)
    BY Unfolded, LaterAges
  <2>3. Len(Later(blockedAt)) <= MaxBlocks
    BY <2>2, Unfolded, LimiterAssumption
  <2> QED
    BY <2>1, <2>2, <2>3
<1>4. trying' \in [Attempt -> Key \cup {None}]
  BY Unfolded DEF Tick
<1> QED
  BY <1>1, <1>2, <1>3, <1>4, Folded

\* What pruning keeps of an address.
LEMMA KeptEntries ==
  ASSUME LimiterInv
  PROVE  /\ Kept \in [Key -> Entry]
         /\ \A k \in Key : Counts(Kept[k], failed[k])
<1>1. ASSUME NEW k \in Key PROVE Kept[k] \in Entry /\ Counts(Kept[k], failed[k])
  <2> DEFINE e == entries[k]
  <2>1. e \in Entry /\ failed[k] \in Ages /\ Counts(e, failed[k])
    BY Unfolded
  <2>2. Kept[k] = IF e.left > 0 \/ e.started <= Window THEN e ELSE NoEntry
    BY DEF Kept, Blocked
  <2> HIDE DEF e
  <2> QED
    BY <2>1, <2>2, PrunedCounts
<1>2. Kept = [k \in Key |-> Kept[k]]
  BY DEF Kept
<1> QED
  BY <1>1, <1>2

\* A call that only prunes.
LEMMA PruneKeeps ==
  ASSUME LimiterInv, entries' = Kept, blockedAt' = Recent, failed' = failed,
         trying' \in [Attempt -> Key \cup {None}]
  PROVE  LimiterInv'
<1>1. Len(blockedAt') <= MaxBlocks
  BY RecentKeeps, Unfolded, LimiterAssumption
<1> QED
  BY <1>1, KeptEntries, RecentKeeps, Unfolded, Folded

\* What the failure of an attempt leaves: the address is blocked, for failures of
\* its own, or counts one failure more.
LEMMA FailEffect ==
  ASSUME LimiterInv, NEW a \in Attempt, Fail(a)
  PROVE  \E k \in Key, e \in Entry :
           /\ trying[a] = k
           /\ entries' = [Kept EXCEPT ![k] = e]
           /\ trying' = [trying EXCEPT ![a] = None]
           /\ \/ /\ Len(failed[k]) >= MaxAttempts - 1
                 /\ blockedAt' = Append(Recent, 0) /\ failed' = [failed EXCEPT ![k] = <<>>]
                 /\ Counts(e, <<>>)
              \/ /\ e.left = entries[k].left
                 /\ blockedAt' = Recent /\ failed' = [failed EXCEPT ![k] = Append(@, 0)]
                 /\ Counts(e, Append(failed[k], 0))
           /\ Len(blockedAt) < MaxBlocks
<1> DEFINE k == trying[a]
           here == entries[k]
           old == IF here.left > 0 \/ here.started <= Window THEN here ELSE NoEntry
           started == IF old.started > Window THEN 0 ELSE old.started
           count == (IF old.started > Window THEN 0 ELSE old.failures) + 1
           blocked == [failures |-> 0, started |-> 0, left |-> Window]
           counted == [failures |-> count, started |-> started, left |-> old.left]
<1>1. k \in Key
  BY Unfolded DEF Fail
<1>2. here \in Entry /\ failed[k] \in Ages /\ Counts(here, failed[k])
  BY <1>1, Unfolded
<1>3. Kept[k] = old
  BY <1>1 DEF Kept, Blocked
<1>4. /\ blockedAt' = IF count >= MaxAttempts THEN Append(Recent, 0) ELSE Recent
      /\ entries' = [Kept EXCEPT ![k] = IF count >= MaxAttempts THEN blocked ELSE counted]
  BY <1>3 DEF Fail, RegisterFailure
<1>5. /\ trying' = [trying EXCEPT ![a] = None]
      /\ failed' = [failed EXCEPT ![k] = IF Len(blockedAt') > Len(Recent) THEN <<>> ELSE Append(@, 0)]
      /\ Len(blockedAt) < MaxBlocks
  BY DEF Fail
<1> HIDE DEF here
<1>6. /\ blocked \in Entry /\ Counts(blocked, <<>>)
      /\ count >= MaxAttempts => Len(failed[k]) >= MaxAttempts - 1
      /\ ~ (count >= MaxAttempts) => counted \in Entry /\ Counts(counted, Append(failed[k], 0))
      /\ old.left = here.left
  BY <1>2, FailureCounts
<1>7. counted.left = old.left
  OBVIOUS
<1>8. Len(Recent) \in Nat /\ Len(Append(Recent, 0)) = Len(Recent) + 1
  BY RecentKeeps, NewestKeeps
<1>9. k = trying[a]
  OBVIOUS
<1> HIDE DEF k, old, started, count, blocked, counted
<1>10. CASE count >= MaxAttempts
  <2>1. blockedAt' = Append(Recent, 0) /\ entries' = [Kept EXCEPT ![k] = blocked]
    BY <1>4, <1>10
  <2>2. failed' = [failed EXCEPT ![k] = <<>>]
    <3>1. Len(blockedAt') > Len(Recent)
      BY <1>8, <2>1
    <3> QED
      BY <1>5, <3>1, Zenon
  <2> QED
    BY <1>1, <1>5, <1>6, <1>9, <1>10, <2>1, <2>2
<1>11. CASE ~ (count >= MaxAttempts)
  <2>1. blockedAt' = Recent /\ entries' = [Kept EXCEPT ![k] = counted]
    BY <1>4, <1>11
  <2>2. failed' = [failed EXCEPT ![k] = Append(@, 0)]
    <3>1. ~ (Len(blockedAt') > Len(Recent))
      BY <1>8, <2>1
    <3> QED
      BY <1>5, <3>1, Zenon
  <2>3. counted.left = entries[k].left
    BY <1>6, <1>7 DEF here
  <2> QED
    BY <1>1, <1>5, <1>6, <1>9, <1>11, <2>1, <2>2, <2>3
<1> QED
  BY <1>10, <1>11

LEMMA FailKeeps ==
  ASSUME LimiterInv, NEW a \in Attempt, Fail(a)
  PROVE  LimiterInv'
<1>1. PICK k \in Key, e \in Entry :
        /\ entries' = [Kept EXCEPT ![k] = e]
        /\ trying' = [trying EXCEPT ![a] = None]
        /\ \/ /\ blockedAt' = Append(Recent, 0) /\ failed' = [failed EXCEPT ![k] = <<>>]
              /\ Counts(e, <<>>)
           \/ /\ blockedAt' = Recent /\ failed' = [failed EXCEPT ![k] = Append(@, 0)]
              /\ Counts(e, Append(failed[k], 0))
        /\ Len(blockedAt) < MaxBlocks
  BY FailEffect
<1>2. blockedAt' \in Ages /\ InOrder(blockedAt') /\ Len(blockedAt') <= MaxBlocks
  <2>1. /\ Recent \in Ages /\ InOrder(Recent) /\ Len(Recent) \in Nat
        /\ Len(Recent) <= Len(blockedAt) /\ Len(blockedAt) \in Nat /\ MaxBlocks \in Nat
        /\ Append(Recent, 0) \in Ages /\ InOrder(Append(Recent, 0))
        /\ Len(Append(Recent, 0)) = Len(Recent) + 1
    BY RecentKeeps, NewestKeeps, Unfolded, LimiterAssumption
  <2>2. Len(Recent) <= MaxBlocks /\ Len(Append(Recent, 0)) <= MaxBlocks
    BY <1>1, <2>1
  <2> QED
    BY <1>1, <2>1, <2>2
<1>3. PICK ages \in Ages : InOrder(ages) /\ Counts(e, ages) /\ failed' = [failed EXCEPT ![k] = ages]
  <2>1. /\ <<>> \in Ages /\ InOrder(<<>>)
        /\ Append(failed[k], 0) \in Ages /\ InOrder(Append(failed[k], 0))
    BY NothingCounted, NewestKeeps, Unfolded
  <2> QED
    BY <1>1, <2>1
<1>4. /\ entries' \in [Key -> Entry] /\ failed' \in [Key -> Ages]
      /\ \A q \in Key : InOrder(failed'[q]) /\ Counts(entries'[q], failed'[q])
  <2>1. /\ Kept \in [Key -> Entry] /\ failed \in [Key -> Ages]
        /\ \A q \in Key : InOrder(failed[q]) /\ Counts(Kept[q], failed[q])
    BY KeptEntries, Unfolded
  <2> QED
    BY <1>1, <1>3, <2>1
<1>5. trying' \in [Attempt -> Key \cup {None}]
  BY <1>1, Unfolded
<1> QED
  BY <1>2, <1>4, <1>5, Folded

LEMMA SucceedKeeps ==
  ASSUME LimiterInv, NEW a \in Attempt, Succeed(a)
  PROVE  LimiterInv'
<1>1. PICK k \in Key :
        /\ entries' = [entries EXCEPT ![k] = NoEntry] /\ failed' = [failed EXCEPT ![k] = <<>>]
        /\ trying' = [trying EXCEPT ![a] = None] /\ blockedAt' = blockedAt
  BY Unfolded DEF Succeed
<1>2. /\ entries' \in [Key -> Entry] /\ failed' \in [Key -> Ages]
      /\ \A q \in Key : InOrder(failed'[q]) /\ Counts(entries'[q], failed'[q])
  BY <1>1, Unfolded, NothingCounted
<1> QED
  BY <1>1, <1>2, Unfolded, Folded

LEMMA ForgetKeeps == Forget => LimiterInv'
<1> SUFFICES ASSUME Forget PROVE LimiterInv'
  OBVIOUS
<1>1. /\ entries' \in [Key -> Entry] /\ failed' \in [Key -> Ages]
      /\ \A k \in Key : InOrder(failed'[k]) /\ Counts(entries'[k], failed'[k])
  BY NothingCounted DEF Forget
<1>2. /\ blockedAt' \in Ages /\ Len(blockedAt') <= MaxBlocks /\ InOrder(blockedAt')
      /\ trying' \in [Attempt -> Key \cup {None}]
  BY NothingCounted, LimiterAssumption DEF Forget
<1> QED
  BY <1>1, <1>2, Folded

\* Every call of the limiter, and a restart of the app, keeps its invariant.
LEMMA LimiterKeeps == LimiterInv /\ [LimiterNext \/ Forget]_limiterVars => LimiterInv'
<1> SUFFICES ASSUME LimiterInv, [LimiterNext \/ Forget]_limiterVars PROVE LimiterInv'
  OBVIOUS
<1>1. CASE Tick
  BY <1>1, TickKeeps
<1>2. ASSUME NEW a \in Attempt, NEW k \in Key, Allow(a, k) PROVE LimiterInv'
  <2>1. /\ entries' = Kept /\ blockedAt' = Recent /\ failed' = failed
        /\ trying' \in [Attempt -> Key \cup {None}]
    BY <1>2, Unfolded DEF Allow
  <2> QED
    BY <2>1, PruneKeeps
<1>3. ASSUME NEW a \in Attempt, Fail(a) PROVE LimiterInv'
  BY <1>3, FailKeeps
<1>4. ASSUME NEW a \in Attempt, Succeed(a) PROVE LimiterInv'
  BY <1>4, SucceedKeeps
<1>5. ASSUME NEW a \in Attempt, GiveUp(a) PROVE LimiterInv'
  <2>1. trying' \in [Attempt -> Key \cup {None}]
    BY <1>5, Unfolded DEF GiveUp
  <2> QED
    BY <1>5, <2>1, Unfolded, Folded DEF GiveUp
<1>6. CASE Snapshot
  <2>1. trying' \in [Attempt -> Key \cup {None}]
    BY <1>6, Unfolded DEF Snapshot
  <2> QED
    BY <1>6, <2>1, PruneKeeps DEF Snapshot
<1>7. CASE Forget
  BY <1>7, ForgetKeeps
<1>8. CASE UNCHANGED limiterVars
  BY <1>8, Unfolded, Folded DEF limiterVars
<1> QED
  BY <1>1, <1>2, <1>3, <1>4, <1>5, <1>6, <1>7, <1>8 DEF LimiterNext, LoginAttempt

\* A step that blocks an address blocks it for failures of its own.
BlocksAreEarned ==
  \A k \in Key :
    entries[k].left < Window /\ entries'[k].left = Window => Len(failed[k]) >= MaxAttempts - 1

LEMMA BlocksEarned == LimiterInv /\ [LimiterNext \/ Forget]_limiterVars => [BlocksAreEarned]_limiterVars
<1> SUFFICES ASSUME LimiterInv, LimiterNext \/ Forget,
                    NEW k \in Key, entries[k].left < Window, entries'[k].left = Window
             PROVE  Len(failed[k]) >= MaxAttempts - 1
  BY DEF BlocksAreEarned
<1> USE LimiterAssumption
<1>1. entries[k] \in Entry /\ Window \in Nat \ {0} /\ NoEntry.left = 0
  BY Unfolded DEF NoEntry
<1>2. Kept[k].left # Window
  <2>1. Kept[k] = entries[k] \/ Kept[k] = NoEntry
    BY DEF Kept
  <2> QED
    BY <1>1, <2>1
<1>3. CASE Tick
  <2>1. entries'[k].left = IF entries[k].left > 0 THEN entries[k].left - 1 ELSE 0
    BY <1>1, <1>3 DEF Tick, Entry
  <2> QED
    BY <1>1, <2>1 DEF Entry
<1>4. CASE entries' = Kept \/ entries' = entries
  BY <1>1, <1>2, <1>4
<1>5. ASSUME NEW a \in Attempt, Fail(a) PROVE Len(failed[k]) >= MaxAttempts - 1
  <2>1. PICK q \in Key, e \in Entry :
          /\ entries' = [Kept EXCEPT ![q] = e]
          /\ Len(failed[q]) >= MaxAttempts - 1 \/ e.left = entries[q].left
    BY <1>5, FailEffect
  <2>2. Kept \in [Key -> Entry]
    BY KeptEntries
  <2> QED
    BY <1>1, <1>2, <2>1, <2>2
<1>6. ASSUME NEW a \in Attempt, Succeed(a) PROVE Len(failed[k]) >= MaxAttempts - 1
  <2>1. entries'[k] = entries[k] \/ entries'[k] = NoEntry
    BY <1>6, Unfolded DEF Succeed
  <2> QED
    BY <1>1, <2>1
<1>7. CASE Forget
  BY <1>1, <1>7 DEF Forget
<1> QED
  BY <1>3, <1>4, <1>5, <1>6, <1>7 DEF LimiterNext, LoginAttempt, Allow, GiveUp, Snapshot

-----------------------------------------------------------------------------
(* Theorems *)

\* The invariant holds whatever addresses and attempts there are, with restarts.
THEOREM LimiterInvariant == LimiterSpec => []LimiterInv
BY LimiterBegins, LimiterKeeps, PTL DEF LimiterSpec

\* The entries of LoginRateLimiter are within their window and limit.
THEOREM LimiterTypes == LimiterSpec => []LimiterTypeOK
<1>1. LimiterInv => LimiterTypeOK
  BY DEF LimiterInv
<1> QED
  BY <1>1, LimiterInvariant, PTL

\* RegisterFailure blocks an address for failures of its own within a window, and
\* neither the edge of a window nor pruning nor overlapping attempts lets an address
\* fail twice the limit in one window.
THEOREM BlocksAreDeserved == LimiterSpec => BlocksFollowFailures
<1> DEFINE Few == \A k \in Key : Len(failed[k]) <= 2 * (MaxAttempts - 1)
<1>1. LimiterInv => Few
  <2> SUFFICES ASSUME LimiterInv, NEW k \in Key PROVE Len(failed[k]) <= 2 * (MaxAttempts - 1)
    OBVIOUS
  <2>1. entries[k] \in Entry /\ failed[k] \in Ages /\ Counts(entries[k], failed[k])
    BY Unfolded
  <2>2. /\ entries[k].failures \in 0..(MaxAttempts - 1) /\ entries[k].started \in 0..(Window + 1)
        /\ Len(failed[k]) \in Nat /\ MaxAttempts \in Nat \ {0} /\ Window \in Nat
    BY <2>1, LimiterAssumption DEF Entry, Ages
  <2> QED
    BY <2>1, <2>2 DEF Counts
<1>2. LimiterInv /\ [LimiterNext \/ Forget]_limiterVars => [BlocksAreEarned]_limiterVars
  BY BlocksEarned
<1>3. LimiterSpec => []Few
  BY <1>1, LimiterInvariant, PTL
<1>4. LimiterSpec => [][BlocksAreEarned]_limiterVars
  BY <1>2, LimiterInvariant, PTL DEF LimiterSpec
<1> QED
  BY <1>3, <1>4 DEF BlocksFollowFailures, BlocksAreEarned

=============================================================================
