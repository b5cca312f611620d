------------------------- MODULE RateLimiter_proofs -------------------------
(***************************************************************************)
(* Proofs about RateLimiter: its type invariant, the capacity bound, that  *)
(* a denied check consumes nothing, that a restart gives back the counts   *)
(* in force, and how much is served in a window.                           *)
(***************************************************************************)
EXTENDS RateLimiterHistory, FiniteSetTheorems, SequenceTheorems, TLAPS

(* Counters of the profile p that respect its capacities.                  *)
Sound(b, p) ==
  /\ b \in Counters /\ b.profile = p
  /\ \A r \in Periods : b.count[r] <= Cap[p][r]

(* The pieces the handlers build counters from keep them sound.            *)
LEMMA FreshSound ==
  ASSUME now \in Nat, NEW p \in Profiles
  PROVE  Sound(Fresh(p), p)
BY RateAssumption DEF RateAssumption, Sound, Fresh, Counters

LEMMA RefreshedSound ==
  ASSUME now \in Nat, NEW p \in Profiles, NEW b, Sound(b, p), NEW S
  PROVE  Sound(Refreshed(b, S), p)
<1> DEFINE over == {r \in S : WindowOver(b.start[r], r)}
           cnt == [r \in Periods |-> IF r \in over THEN 0 ELSE b.count[r]]
           st == [r \in Periods |-> IF r \in over THEN now ELSE b.start[r]]
<1>1. cnt \in [Periods -> Nat] /\ st \in [Periods -> Nat]
  BY DEF Sound, Counters
<1>2. \A r \in Periods : cnt[r] <= Cap[p][r]
  BY RateAssumption DEF RateAssumption, Sound
<1>3. Refreshed(b, S) = [b EXCEPT !.count = cnt, !.start = st]
  BY DEF Refreshed, Sound, Counters
<1> HIDE DEF cnt, st
<1> QED
  BY <1>1, <1>2, <1>3 DEF Sound, Counters

LEMMA CarryOverSound ==
  ASSUME now \in Nat, NEW p \in Profiles, NEW q \in Profiles,
         NEW b, Sound(b, q)
  PROVE  Sound(CarryOver(b, p), p)
<1>1. \A r \in Periods : Used(b, r) \in Nat
  BY DEF Sound, Counters, Used
<1>2. \A r \in Periods : Smaller(Used(b, r), Cap[p][r]) \in Nat
                         /\ Smaller(Used(b, r), Cap[p][r]) <= Cap[p][r]
  BY <1>1, RateAssumption DEF RateAssumption, Smaller
<1> QED
  BY <1>2, FreshSound DEF Sound, CarryOver, Counters, Fresh

LEMMA WarningsSound ==
  ASSUME NEW p \in Profiles, NEW b, Sound(b, p)
  PROVE  Sound(WarningsAfter(b), p)
BY DEF Sound, WarningsAfter, Counters

LEMMA TouchedSound ==
  ASSUME RateInv, NEW u \in Users
  PROVE  /\ ProfileOf(u) \in Profiles
         /\ Sound(Touched(u), ProfileOf(u))
         /\ Remaining \in [Users -> Counters \cup {None}]
<1>1. ProfileOf(u) \in Profiles
  BY RateAssumption DEF RateInv, TypeOK, ProfileOf, RateAssumption
<1>2. Remaining \in [Users -> Counters \cup {None}]
  <2>1. buckets \in [Users -> Counters \cup {None}]
    BY DEF RateInv, TypeOK
  <2> QED
    BY <2>1 DEF Remaining
<1>3. CASE Remaining[u] = None
  <2>1. now \in Nat
    BY DEF RateInv, TypeOK
  <2>2. Sound(Fresh(ProfileOf(u)), ProfileOf(u))
    BY <1>1, <2>1, FreshSound
  <2>3. Touched(u) = Fresh(ProfileOf(u))
    BY <1>3 DEF Touched
  <2> QED
    BY <1>1, <1>2, <2>2, <2>3
<1>4. CASE Remaining[u] # None
  <2>1. Remaining[u] = buckets[u] /\ buckets[u] # None
    BY <1>4 DEF Remaining
  <2>2. Sound(buckets[u], ProfileOf(u))
    BY <2>1 DEF RateInv, TypeOK, WithinCapacity, BucketsFollowProfile, Sound
  <2>3. Touched(u) = [buckets[u] EXCEPT !.lastActivity = now]
    BY <1>4, <2>1 DEF Touched
  <2> QED
    BY <1>1, <1>2, <2>2, <2>3 DEF Sound, Counters, RateInv, TypeOK
<1> QED
  BY <1>1, <1>2, <1>3, <1>4

(* The counters of every user, and how a step may change them.             *)
Book(m, f) ==
  /\ f \in [Users -> Counters \cup {None}]
  /\ \A u \in Users : f[u] # None =>
       Sound(f[u], IF m[u] = None THEN Default ELSE m[u])

LEMMA BookOfInv ==
  ASSUME RateInv
  PROVE  Book(profiles, buckets)
BY DEF RateInv, TypeOK, WithinCapacity, BucketsFollowProfile, Book, Sound,
       ProfileOf

(* Rows fit to be saved.                                                   *)
Fit(w) ==
  /\ w \in ProfileRows \cup StateRows
  /\ w.table = "state" => w.row.count <= Cap[w.profile][w.period]

LEMMA PersistFit ==
  ASSUME NEW u \in Users, NEW p \in Profiles, NEW b, Sound(b, p)
  PROVE  /\ Persist(u, b) \in Seq(ProfileRows \cup StateRows)
         /\ \A i \in 1..Len(Persist(u, b)) : Fit(Persist(u, b)[i])
         /\ Len(Persist(u, b)) = 3
<1>1. ASSUME NEW r \in Periods
      PROVE  StateRow(u, b, r) \in StateRows /\ Fit(StateRow(u, b, r))
  BY <1>1 DEF Sound, Counters, StateRow, StateRows, Saved, Fit, ProfileRows
<1> DEFINE x == StateRow(u, b, "minute")
           y == StateRow(u, b, "hour")
           z == StateRow(u, b, "day")
<1>2. x \in StateRows /\ y \in StateRows /\ z \in StateRows
      /\ Fit(x) /\ Fit(y) /\ Fit(z)
  BY <1>1 DEF Periods
<1>3. Persist(u, b) = <<x, y, z>>
  BY DEF Persist
<1> HIDE DEF x, y, z
<1> QED
  BY <1>2, <1>3

(* Rest is what is left of the invariant when the counters are set aside.  *)
Disk(db, st) ==
  /\ db \in [Users -> Profiles \cup {None}]
  /\ st \in [Users -> [Profiles -> [Periods -> Saved \cup {None}]]]
  /\ \A u \in Users, p \in Profiles, r \in Periods :
       st[u][p][r] # None => st[u][p][r].count <= Cap[p][r]

Queue(ws) ==
  /\ ws \in Seq(ProfileRows \cup StateRows)
  /\ \A i \in 1..Len(ws) : Fit(ws[i])

Plain ==
  /\ up \in BOOLEAN /\ jsonl \in BOOLEAN
  /\ profiles \in [Users -> Profiles \cup {None}]
  /\ settings \in [Users -> Profiles \cup {None}]
  /\ serving \in Users \cup {None}
  /\ reply \in {None, "allowed", "denied"}
  /\ now \in Nat

LEMMA Parts ==
  RateInv <=> /\ Plain /\ Book(profiles, buckets)
              /\ Disk(profileDb, stateDb) /\ Queue(writes)
<1>1. ASSUME RateInv
      PROVE  Plain /\ Disk(profileDb, stateDb)
  BY <1>1 DEF RateInv, TypeOK, WithinCapacity, Plain, Disk
<1>2. ASSUME RateInv
      PROVE  Queue(writes)
  <2>1. /\ writes \in Seq(ProfileRows \cup StateRows)
        /\ \A i \in 1..Len(writes) : writes[i].table = "state" =>
             writes[i].row.count <= Cap[writes[i].profile][writes[i].period]
    BY <1>2 DEF RateInv, TypeOK, WithinCapacity
  <2>2. \A i \in 1..Len(writes) : writes[i] \in ProfileRows \cup StateRows
    BY <2>1
  <2> QED
    BY <2>1, <2>2 DEF Queue, Fit
<1>3. ASSUME Plain, Book(profiles, buckets), Disk(profileDb, stateDb),
             Queue(writes)
      PROVE  RateInv
  <2>1. TypeOK
    BY <1>3 DEF Plain, Book, Disk, Queue, TypeOK
  <2>2. BucketsFollowProfile
    BY <1>3 DEF Book, Sound, BucketsFollowProfile, ProfileOf
  <2>3. \A u \in Users : buckets[u] # None =>
          \A r \in Periods : buckets[u].count[r] <= Cap[buckets[u].profile][r]
    BY <1>3 DEF Book, Sound
  <2>4. WithinCapacity
    BY <1>3, <2>3 DEF Disk, Queue, Fit, WithinCapacity
  <2> QED
    BY <2>1, <2>2, <2>4 DEF RateInv
<1> QED
  BY <1>1, <1>2, <1>3, BookOfInv

-----------------------------------------------------------------------------
(* The steps                                                               *)

LEMMA InitInv == Init => RateInv
<1> SUFFICES ASSUME Init
             PROVE  RateInv
  OBVIOUS
<1>1. Plain /\ Book(profiles, buckets) /\ Disk(profileDb, stateDb)
  BY DEF Init, Plain, Book, Disk
<1>2. Queue(writes)
  BY DEF Init, Queue
<1> QED
  BY <1>1, <1>2, Parts

(* A check replaces the counters of one user and evicts some others.       *)
LEMMA CheckBook ==
  ASSUME RateInv, NEW u \in Users, NEW b, Sound(b, ProfileOf(u))
  PROVE  Book(profiles, [Remaining EXCEPT ![u] = b])
<1>1. Remaining \in [Users -> Counters \cup {None}]
  BY TouchedSound
<1>2. \A v \in Users : Remaining[v] # None => Remaining[v] = buckets[v]
  BY DEF Remaining
<1>3. Book(profiles, buckets)
  BY BookOfInv
<1> QED
  BY <1>1, <1>2, <1>3 DEF Book, Sound, ProfileOf

LEMMA ConsumedSound ==
  ASSUME NEW p \in Profiles, NEW b, Sound(b, p), NEW S,
         \A r \in S \cap Periods : b.count[r] < Cap[p][r]
  PROVE  Sound(Consumed(b, S), p)
<1> DEFINE cnt == [r \in Periods |-> b.count[r] + (IF r \in S THEN 1 ELSE 0)]
<1>1. cnt \in [Periods -> Nat] /\ \A r \in Periods : cnt[r] <= Cap[p][r]
  BY RateAssumption DEF RateAssumption, Sound, Counters
<1>2. Consumed(b, S) = [b EXCEPT !.count = cnt]
  BY DEF Consumed, Sound, Counters
<1> HIDE DEF cnt
<1> QED
  BY <1>1, <1>2 DEF Sound, Counters

(* Rolling back what was just consumed gives back the counters.            *)
LEMMA RollBackUndoes ==
  ASSUME NEW b \in Counters, NEW S
  PROVE  RolledBack(Consumed(b, S), S) = b
<1> DEFINE cnt == [r \in Periods |-> b.count[r] + (IF r \in S THEN 1 ELSE 0)]
           c == [b EXCEPT !.count = cnt]
           back == [r \in Periods |->
                      IF r \in S /\ cnt[r] > 0 THEN cnt[r] - 1 ELSE cnt[r]]
<1>1. b.count \in [Periods -> Nat]
  BY DEF Counters
<1>2. back = b.count
  BY <1>1
<1>3. Consumed(b, S) = c /\ c.count = cnt
  BY DEF Consumed, Counters
<1>4. RolledBack(c, S) = [c EXCEPT !.count = back]
  BY <1>3 DEF RolledBack, Counters
<1> HIDE DEF cnt, back
<1>5. [c EXCEPT !.count = b.count] = b
  BY DEF Counters
<1> QED
  BY <1>2, <1>3, <1>4, <1>5

LEMMA RoomAfterRefresh ==
  ASSUME NEW b \in Counters, NEW S, NEW r \in S \cap Periods, HasRoom(b, r)
  PROVE  Refreshed(b, S).count[r] < Cap[b.profile][r]
BY DEF HasRoom, Refreshed, Counters

LEMMA AllowedSound ==
  ASSUME RateInv, NEW u \in Users,
         \A r \in Periods : HasRoom(Touched(u), r)
  PROVE  Sound(WarningsAfter(Consumed(Refreshed(Touched(u), Periods), Periods)),
               ProfileOf(u))
<1> DEFINE p == ProfileOf(u)
           t == Touched(u)
           f == Refreshed(t, Periods)
<1>1. p \in Profiles /\ Sound(t, p) /\ now \in Nat
  BY TouchedSound DEF RateInv, TypeOK
<1>2. Sound(f, p)
  BY <1>1, RefreshedSound
<1>3. \A r \in Periods : f.count[r] < Cap[p][r]
  BY <1>1, RoomAfterRefresh DEF Sound
<1>4. Sound(Consumed(f, Periods), p)
  BY <1>1, <1>2, <1>3, ConsumedSound
<1> QED
  BY <1>1, <1>4, WarningsSound

(* What a denied check leaves: the windows it looked at, refreshed.        *)
LEMMA DeniedCounters ==
  ASSUME RateInv, NEW u \in Users, CheckDenied(u)
  PROVE  \E S : /\ buckets' = [Remaining EXCEPT ![u] = Refreshed(Touched(u), S)]
                /\ Sound(Refreshed(Touched(u), S), ProfileOf(u))
<1>1. PICK i \in 1..3 :
        buckets' = [Remaining EXCEPT ![u] =
          RolledBack(Consumed(Refreshed(Touched(u), Upto(i)), Before(i)),
                     Before(i))]
  BY DEF CheckDenied
<1>2. ProfileOf(u) \in Profiles /\ Sound(Touched(u), ProfileOf(u)) /\ now \in Nat
  BY TouchedSound DEF RateInv, TypeOK
<1>3. Sound(Refreshed(Touched(u), Upto(i)), ProfileOf(u))
  BY <1>2, RefreshedSound
<1>4. Refreshed(Touched(u), Upto(i)) \in Counters
  BY <1>3 DEF Sound
<1> QED
  BY <1>1, <1>3, <1>4, RollBackUndoes

LEMMA RefreshKeepsUsage ==
  ASSUME now \in Nat, NEW b \in Counters, NEW S, NEW r \in Periods
  PROVE  Used(Refreshed(b, S), r) = Used(b, r)
<1>1. CASE r \in S /\ WindowOver(b.start[r], r)
  <2>1. Refreshed(b, S).start[r] = now /\ Refreshed(b, S).count[r] = 0
    BY <1>1 DEF Refreshed, Counters
  <2> QED
    BY <1>1, <2>1 DEF Used
<1>2. CASE ~(r \in S /\ WindowOver(b.start[r], r))
  <2>1. /\ Refreshed(b, S).start[r] = b.start[r]
        /\ Refreshed(b, S).count[r] = b.count[r]
    BY <1>2 DEF Refreshed, Counters
  <2> QED
    BY <2>1 DEF Used
<1> QED
  BY <1>1, <1>2

(* The counters read from the tables are sound for the stored profile.     *)
LEMMA RestoredSound ==
  ASSUME Disk(profileDb, stateDb), now \in Nat, NEW u \in Users,
         Restored(u) # None
  PROVE  Sound(Restored(u), IF profileDb[u] = None THEN Default ELSE profileDb[u])
<1> DEFINE p == IF profileDb[u] = None THEN Default ELSE profileDb[u]
           valid == {r \in Periods : /\ stateDb[u][p][r] # None
                                     /\ ~WindowOver(stateDb[u][p][r].start, r)}
           cnt == [r \in Periods |->
                     IF r \in valid THEN stateDb[u][p][r].count ELSE 0]
           st == [r \in Periods |->
                     IF r \in valid THEN stateDb[u][p][r].start ELSE now]
<1>1. p \in Profiles
  BY RateAssumption DEF RateAssumption, Disk
<1>2. \A r \in valid : stateDb[u][p][r] \in Saved
                       /\ stateDb[u][p][r].count <= Cap[p][r]
  BY <1>1 DEF Disk
<1>3. /\ cnt \in [Periods -> Nat] /\ st \in [Periods -> Nat]
      /\ \A r \in Periods : cnt[r] <= Cap[p][r]
  <2> HIDE DEF valid, p
  <2> QED
    BY <1>1, <1>2, RateAssumption DEF RateAssumption, Saved
<1>4. Restored(u) = [Fresh(p) EXCEPT !.count = cnt, !.start = st]
  BY DEF Restored
<1>5. Sound(Fresh(p), p)
  BY <1>1, FreshSound
<1> HIDE DEF p, cnt, st
<1>6. Sound(Restored(u), p)
  BY <1>3, <1>4, <1>5 DEF Sound, Counters
<1> QED
  BY <1>6 DEF p

LEMMA MigrationFit ==
  ASSUME NEW w \in Migration
  PROVE  Queue(w)
<1> DEFINE named == {u \in Users : Legacy[u] # None}
           rows == {ProfileRow(u, Legacy[u]) : u \in named}
           n == Cardinality(named)
<1>1. n \in Nat
  BY RateAssumption, FS_Subset, FS_CardinalityType DEF RateAssumption
<1>2. \A x \in rows : x \in ProfileRows /\ Fit(x)
  BY RateAssumption DEF RateAssumption, ProfileRow, ProfileRows, Fit
<1>3. CASE w = <<>>
  BY <1>3 DEF Queue
<1>4. CASE w \in [1..n -> rows]
  <2> HIDE DEF n, rows
  <2>1. w \in Seq(rows) /\ Len(w) = n
    BY <1>1, <1>4
  <2>2. \A i \in 1..Len(w) : w[i] \in rows
    BY <1>4, <2>1
  <2>3. w \in Seq(ProfileRows \cup StateRows)
    BY <1>1, <1>2, <1>4
  <2> QED
    BY <1>2, <2>2, <2>3 DEF Queue
<1> QED
  BY <1>3, <1>4 DEF Migration

(* Saving a row keeps the tables and what is left to save in order.        *)
LEMMA SaveRowKeeps ==
  ASSUME Disk(profileDb, stateDb), Queue(writes), SaveRow
  PROVE  Disk(profileDb', stateDb') /\ Queue(writes')
<1> DEFINE w == Head(writes)
<1>1. writes # <<>> /\ writes \in Seq(ProfileRows \cup StateRows)
  BY DEF SaveRow, Queue
<1>2. w = writes[1] /\ 1 \in 1..Len(writes)
  BY <1>1
<1>3. Fit(w)
  BY <1>2 DEF Queue
<1>4. Queue(writes')
  <2>1. writes' = Tail(writes)
    BY DEF SaveRow
  <2>2. /\ Tail(writes) \in Seq(ProfileRows \cup StateRows)
        /\ Len(Tail(writes)) = Len(writes) - 1
        /\ \A i \in 1..Len(Tail(writes)) : Tail(writes)[i] = writes[i + 1]
    BY <1>1
  <2>3. \A i \in 1..Len(Tail(writes)) : i + 1 \in 1..Len(writes)
    BY <1>1, <2>2
  <2> QED
    BY <2>1, <2>2, <2>3 DEF Queue
<1>5. CASE w.table = "profile"
  <2>1. w \in ProfileRows
    BY <1>3, <1>5 DEF Fit, StateRows
  <2> QED
    BY <1>4, <1>5, <2>1 DEF SaveRow, Disk, ProfileRows
<1>6. CASE w.table # "profile"
  <2>1. /\ w.user \in Users /\ w.profile \in Profiles /\ w.period \in Periods
        /\ w.row \in Saved /\ w.row.count <= Cap[w.profile][w.period]
    BY <1>3, <1>6 DEF Fit, ProfileRows, StateRows
  <2>2. /\ stateDb' = [stateDb EXCEPT ![w.user][w.profile][w.period] = w.row]
        /\ profileDb' = profileDb
    BY <1>6 DEF SaveRow
  <2> HIDE DEF w
  <2>3. stateDb' \in [Users -> [Profiles -> [Periods -> Saved \cup {None}]]]
    BY <2>1, <2>2 DEF Disk
  <2>4. \A u \in Users, p \in Profiles, r \in Periods :
          stateDb'[u][p][r] = IF u = w.user /\ p = w.profile /\ r = w.period
                              THEN w.row ELSE stateDb[u][p][r]
    BY <2>1, <2>2 DEF Disk
  <2>5. ASSUME NEW u \in Users, NEW p \in Profiles, NEW r \in Periods,
               stateDb'[u][p][r] # None
        PROVE  stateDb'[u][p][r].count <= Cap[p][r]
    <3>1. stateDb[u][p][r] # None => stateDb[u][p][r].count <= Cap[p][r]
      BY DEF Disk
    <3> QED
      BY <2>1, <2>4, <2>5, <3>1
  <2>6. profileDb' \in [Users -> Profiles \cup {None}]
    BY <2>2 DEF Disk
  <2> QED
    BY <1>4, <2>3, <2>5, <2>6 DEF Disk
<1> QED
  BY <1>5, <1>6

LEMMA StepInv == RateInv /\ [Next]_vars => RateInv'
<1> SUFFICES ASSUME RateInv, [Next]_vars
             PROVE  RateInv'
  OBVIOUS
<1> USE RateAssumption DEF RateAssumption
<1>0. /\ Plain /\ Book(profiles, buckets) /\ Disk(profileDb, stateDb)
      /\ Queue(writes)
  BY Parts
<1>P. ASSUME Plain', Book(profiles, buckets)', Disk(profileDb, stateDb)',
             Queue(writes)'
      PROVE  RateInv'
  BY <1>P, Parts, PTL
<1>1. ASSUME NEW u \in Users, CheckUnlimited(u)
      PROVE  RateInv'
  <2>1. Plain'
    BY <1>0, <1>1 DEF CheckUnlimited, Plain, disk
  <2>2. ProfileOf(u) \in Profiles /\ Sound(Touched(u), ProfileOf(u))
    BY TouchedSound
  <2>3. Book(profiles, buckets)'
    BY <1>1, <2>2, CheckBook DEF CheckUnlimited
  <2>4. Disk(profileDb, stateDb)'
    BY <1>0, <1>1 DEF CheckUnlimited, disk
  <2>5. Queue(writes)'
    BY <1>1, <2>2, PersistFit DEF CheckUnlimited, Queue
  <2> QED
    BY <1>P, <2>1, <2>3, <2>4, <2>5
<1>2. ASSUME NEW u \in Users, CheckAllowed(u)
      PROVE  RateInv'
  <2> DEFINE b == WarningsAfter(Consumed(Refreshed(Touched(u), Periods), Periods))
  <2>1. Plain'
    BY <1>0, <1>2 DEF CheckAllowed, Plain, disk
  <2>2. ProfileOf(u) \in Profiles /\ Sound(b, ProfileOf(u))
    BY <1>2, TouchedSound, AllowedSound DEF CheckAllowed
  <2>3. /\ buckets' = [Remaining EXCEPT ![u] = b] /\ profiles' = profiles
        /\ writes' = Persist(u, b)
        /\ profileDb' = profileDb /\ stateDb' = stateDb
    BY <1>2 DEF CheckAllowed, disk
  <2> HIDE DEF b
  <2>4. Book(profiles, buckets)'
    BY <2>2, <2>3, CheckBook
  <2>5. Disk(profileDb, stateDb)'
    BY <1>0, <2>3
  <2>6. Queue(writes)'
    BY <2>2, <2>3, PersistFit DEF Queue
  <2> QED
    BY <1>P, <2>1, <2>4, <2>5, <2>6
<1>3. ASSUME NEW u \in Users, CheckDenied(u)
      PROVE  RateInv'
  <2>1. Plain'
    BY <1>0, <1>3 DEF CheckDenied, Plain, disk
  <2>0. PICK S : /\ buckets' = [Remaining EXCEPT ![u] = Refreshed(Touched(u), S)]
                 /\ Sound(Refreshed(Touched(u), S), ProfileOf(u))
    BY <1>3, DeniedCounters
  <2>2. Book(profiles, buckets)'
    <3>1. profiles' = profiles
      BY <1>3 DEF CheckDenied
    <3> QED
      BY <2>0, <3>1, CheckBook
  <2>3. Disk(profileDb, stateDb)' /\ Queue(writes)'
    BY <1>0, <1>3 DEF CheckDenied, disk
  <2> QED
    BY <1>P, <2>1, <2>2, <2>3
<1>4. ASSUME NEW u \in Users, GetUsage(u)
      PROVE  RateInv'
  <2>1. Plain'
    BY <1>0, <1>4 DEF GetUsage, Plain, disk
  <2>2. ProfileOf(u) \in Profiles /\ Sound(buckets[u], ProfileOf(u))
    BY <1>0, <1>4 DEF GetUsage, Plain, Book, ProfileOf
  <2>3. Sound(Refreshed(buckets[u], Periods), ProfileOf(u))
    BY <1>0, <2>2, RefreshedSound DEF Plain
  <2>4. buckets' = [buckets EXCEPT ![u] = Refreshed(buckets[u], Periods)]
        /\ profiles' = profiles
    BY <1>4 DEF GetUsage
  <2>5. Book(profiles, buckets)'
    BY <1>0, <2>3, <2>4 DEF Book, Sound, ProfileOf
  <2>6. Disk(profileDb, stateDb)' /\ Queue(writes)'
    BY <1>0, <1>4 DEF GetUsage, disk
  <2> QED
    BY <1>P, <2>1, <2>5, <2>6
<1>5. ASSUME NEW u \in Users, NEW p \in Profiles, SetUserProfile(u, p)
      PROVE  RateInv'
  <2> DEFINE b == IF buckets[u] = None THEN Fresh(p) ELSE CarryOver(buckets[u], p)
  <2>1. Plain'
    BY <1>0, <1>5 DEF SetUserProfile, Plain, disk
  <2>2. Sound(b, p)
    <3>1. CASE buckets[u] = None
      BY <1>0, <3>1, FreshSound DEF Plain
    <3>2. CASE buckets[u] # None
      <4>1. PICK q \in Profiles : Sound(buckets[u], q)
        BY <1>0, <3>2 DEF Plain, Book
      <4> QED
        BY <1>0, <3>2, <4>1, CarryOverSound DEF Plain
    <3> QED
      BY <3>1, <3>2
  <2>3. /\ buckets' = [buckets EXCEPT ![u] = b]
        /\ profiles' = [profiles EXCEPT ![u] = p]
        /\ writes' = <<ProfileRow(u, p)>> \o Persist(u, b)
    BY <1>5 DEF SetUserProfile
  <2> HIDE DEF b
  <2>4. Book(profiles, buckets)'
    BY <1>0, <2>2, <2>3 DEF Plain, Book, Sound
  <2>5. Disk(profileDb, stateDb)'
    BY <1>0, <1>5 DEF SetUserProfile, disk
  <2>6. Queue(writes)'
    <3>1. /\ Persist(u, b) \in Seq(ProfileRows \cup StateRows)
          /\ \A i \in 1..Len(Persist(u, b)) : Fit(Persist(u, b)[i])
      BY <2>2, PersistFit
    <3>2. ProfileRow(u, p) \in ProfileRows /\ Fit(ProfileRow(u, p))
      BY DEF ProfileRow, ProfileRows, Fit
    <3> DEFINE s == Persist(u, b)
               x == ProfileRow(u, p)
    <3> HIDE DEF s, x
    <3>3. /\ <<x>> \o s \in Seq(ProfileRows \cup StateRows)
          /\ Len(<<x>> \o s) = Len(s) + 1
          /\ \A i \in 1..(Len(s) + 1) :
               (<<x>> \o s)[i] = IF i = 1 THEN x ELSE s[i - 1]
      BY <3>1, <3>2 DEF s, x
    <3>4. \A i \in 1..(Len(s) + 1) : Fit((<<x>> \o s)[i])
      BY <3>1, <3>2, <3>3 DEF s, x
    <3> QED
      BY <2>3, <3>3, <3>4 DEF Queue, s, x
  <2> QED
    BY <1>P, <2>1, <2>4, <2>5, <2>6
<1>6. ASSUME NEW u \in Users, NEW p \in MenuProfiles, SetRateLimit(u, p)
      PROVE  RateInv'
  <2>1. Plain'
    BY <1>0, <1>6 DEF SetRateLimit, Plain, memory
  <2>2. Book(profiles, buckets)' /\ Disk(profileDb, stateDb)' /\ Queue(writes)'
    BY <1>0, <1>6 DEF SetRateLimit, memory
  <2> QED
    BY <1>P, <2>1, <2>2
<1>7. CASE SaveRow
  <2>1. Plain'
    BY <1>0, <1>7 DEF SaveRow, Plain, memory
  <2>2. Book(profiles, buckets)'
    BY <1>0, <1>7 DEF SaveRow, memory
  <2> QED
    BY <1>0, <1>7, <1>P, <2>1, <2>2, SaveRowKeeps
<1>8. CASE SaveFails
  <2>1. Plain' /\ Book(profiles, buckets)' /\ Disk(profileDb, stateDb)'
    BY <1>0, <1>8 DEF SaveFails, Plain, memory, disk
  <2>2. Queue(writes)'
    BY <1>8 DEF SaveFails, Queue
  <2> QED
    BY <1>P, <2>1, <2>2
<1>9. CASE Crash
  <2>1. Plain' /\ Book(profiles, buckets)' /\ Disk(profileDb, stateDb)'
    BY <1>0, <1>9 DEF Crash, Plain, Book, disk
  <2>2. Queue(writes)'
    BY <1>9 DEF Crash, Queue
  <2> QED
    BY <1>P, <2>1, <2>2
<1>10. CASE Start
  <2>1. Plain' /\ Disk(profileDb, stateDb)'
    BY <1>0, <1>10 DEF Start, Plain, Disk, disk
  <2>2. Book(profiles, buckets)'
    BY <1>0, <1>10, RestoredSound DEF Start, Book, Plain, Sound
  <2>3. Queue(writes)'
    BY <1>10, MigrationFit DEF Start
  <2> QED
    BY <1>P, <2>1, <2>2, <2>3
<1>11. CASE Tick
  <2>1. Plain' /\ Book(profiles, buckets)' /\ Disk(profileDb, stateDb)'
        /\ Queue(writes)'
    BY <1>0, <1>11 DEF Tick, Plain, memory, disk
  <2> QED
    BY <1>P, <2>1
<1>12. CASE UNCHANGED vars
  <2>1. Plain' /\ Book(profiles, buckets)' /\ Disk(profileDb, stateDb)'
        /\ Queue(writes)'
    BY <1>0, <1>12 DEF vars, Plain, memory, disk
  <2> QED
    BY <1>P, <2>1
<1> QED
  BY <1>1, <1>2, <1>3, <1>4, <1>5, <1>6, <1>7, <1>8, <1>9, <1>10, <1>11, <1>12
  DEF Next, Check

(* The invariant holds in every reachable state.                           *)
LEMMA Invariance == Spec => []RateInv
BY InitInv, StepInv, PTL DEF Spec

(* Every reachable state of the limiter and of its tables is well typed.   *)
THEOREM TypeCorrect == Spec => []TypeOK
<1>1. RateInv => TypeOK
  BY DEF RateInv
<1> QED
  BY Invariance, <1>1, PTL

(* No counter of check_and_consume, and no row of it, passes the capacity  *)
(* of its profile.                                                         *)
THEOREM CountersWithinCapacity == Spec => []WithinCapacity
<1>1. RateInv => WithinCapacity
  BY DEF RateInv
<1> QED
  BY Invariance, <1>1, PTL

(* The branch of check_and_consume for counters of another profile is      *)
(* never taken.                                                            *)
THEOREM CountersFollowProfile == Spec => []BucketsFollowProfile
<1>1. RateInv => BucketsFollowProfile
  BY DEF RateInv
<1> QED
  BY Invariance, <1>1, PTL

(* Both at once: what is counted is of the profile in force and within it. *)
THEOREM CountersAreSound == Spec => []CountersSound
<1>1. RateInv => CountersSound
  BY DEF RateInv, CountersSound
<1> QED
  BY Invariance, <1>1, PTL

(* A denied check leaves the usage of every window as it found it.         *)
THEOREM DenialIsFree == Spec => DeniedConsumesNothing
<1>1. ASSUME RateInv, NEW u \in Users, CheckDenied(u), NEW r \in Periods
      PROVE  Used(buckets'[u], r) = Used(Touched(u), r)
  <2>1. PICK S : buckets' = [Remaining EXCEPT ![u] = Refreshed(Touched(u), S)]
    BY <1>1, DeniedCounters
  <2>2. /\ Remaining \in [Users -> Counters \cup {None}]
        /\ Touched(u) \in Counters /\ now \in Nat
    BY <1>1, TouchedSound DEF Sound, RateInv, TypeOK
  <2>3. buckets'[u] = Refreshed(Touched(u), S)
    BY <2>1, <2>2
  <2> QED
    BY <2>2, <2>3, RefreshKeepsUsage
<1>2. RateInv => [\A u \in Users : CheckDenied(u) =>
                    \A r \in Periods :
                      Used(buckets'[u], r) = Used(Touched(u), r)]_vars
  BY <1>1
<1> QED
  BY <1>2, Invariance, PTL DEF DeniedConsumesNothing

-----------------------------------------------------------------------------
(* A restart gives every user the counts that were in force: the invariant *)
(* RestartInv relates the counters in memory, the rows still to be saved   *)
(* and the tables.                                                         *)

(* PROFILES gives every profile but "unlimited" positive capacities.       *)
PositiveCaps ==
  \A p \in Profiles \ {Unlimited}, r \in Periods : Cap[p][r] > 0

(* The old file names nothing but the default: with another profile the    *)
(* limiter, which reads the table before the migration, differs from the   *)
(* table until the next start.                                             *)
PlainLegacy == \A u \in Users : Legacy[u] \in {None, Default}

Stored(u) == IF profileDb[u] = None THEN Default ELSE profileDb[u]

Exact(u, r) ==
  stateDb[u][buckets[u].profile][r] =
    [count |-> buckets[u].count[r], start |-> buckets[u].start[r]]

StoredUse(u, p, r) ==
  IF stateDb[u][p][r] = None THEN 0
  ELSE IF WindowOver(stateDb[u][p][r].start, r) THEN 0
  ELSE stateDb[u][p][r].count

(* The row of period r is the counter, or neither counts anything.         *)
Matches(u, r) ==
  \/ Exact(u, r)
  \/ buckets[u].count[r] = 0 /\ StoredUse(u, buckets[u].profile, r) = 0

HasRow(u) == \E p \in Profiles, r \in Periods : stateDb[u][p][r] # None

KeptProfile(u) == <<u, "profile">> \notin torn => Stored(u) = ProfileOf(u)

KeptState(u) ==
  <<u, "state">> \notin torn /\ buckets[u] # None =>
    HasRow(u) /\ \A r \in Periods : Matches(u, r)

Kept(u) == KeptProfile(u) /\ KeptState(u)

(* What is left to save is a part of the migration.                        *)
Migrating ==
  /\ \A u \in Users : profiles[u] = None
  /\ \A i \in 1..Len(writes) : \E u \in Users : writes[i] = ProfileRow(u, Default)

(* What is left to save are the last rows of a handler for v.              *)
Saving(v) ==
  LET m == StateRow(v, buckets[v], "minute")
      h == StateRow(v, buckets[v], "hour")
      d == StateRow(v, buckets[v], "day")
  IN /\ buckets[v] # None
     /\ \/ writes = <<ProfileRow(v, ProfileOf(v)), m, h, d>>
        \/ /\ KeptProfile(v)
           /\ \/ writes = <<m, h, d>>
              \/ Exact(v, "minute") /\ writes = <<h, d>>
              \/ Exact(v, "minute") /\ Exact(v, "hour") /\ writes = <<d>>

Settled == (writes = <<>> \/ Migrating) /\ \A u \in Users : Kept(u)

Busy == \E v \in Users : Saving(v) /\ \A u \in Users \ {v} : Kept(u)

RestartInv == RateInv /\ (up => Settled \/ Busy)

-----------------------------------------------------------------------------
(* From the invariant to the property                                      *)

LEMMA RestartOfInv == RestartInv => RestartIsFaithful
<1> SUFFICES ASSUME RestartInv, NEW u \in Users,
                    Idle, buckets[u] # None, torn = {}
             PROVE  /\ Restored(u) # None
                    /\ Restored(u).profile = buckets[u].profile
                    /\ \A r \in Periods :
                         Used(Restored(u), r) = Used(buckets[u], r)
  BY DEF RestartIsFaithful
<1> DEFINE p == Stored(u)
           b == buckets[u]
<1>1. ~Busy
  BY DEF Idle, Busy, Saving
<1>2. Kept(u)
  BY <1>1 DEF RestartInv, Idle, Settled
<1>3. /\ Stored(u) = ProfileOf(u) /\ HasRow(u)
      /\ \A r \in Periods : Matches(u, r)
  BY <1>2 DEF Kept, KeptProfile, KeptState
<1>4. /\ b \in Counters /\ b.profile = p /\ p \in Profiles /\ now \in Nat
      /\ \A r \in Periods : stateDb[u][p][r] \in Saved \cup {None}
  BY <1>3, TouchedSound
  DEF RestartInv, RateInv, TypeOK, BucketsFollowProfile
<1> DEFINE valid == {r \in Periods : /\ stateDb[u][p][r] # None
                                     /\ ~WindowOver(stateDb[u][p][r].start, r)}
           cnt == [r \in Periods |->
                     IF r \in valid THEN stateDb[u][p][r].count ELSE 0]
           st == [r \in Periods |->
                     IF r \in valid THEN stateDb[u][p][r].start ELSE now]
<1>5. Restored(u) = [Fresh(p) EXCEPT !.count = cnt, !.start = st]
  BY <1>3 DEF Restored, HasRow, Stored
<1>6. /\ Restored(u).profile = p /\ Restored(u).count = cnt
      /\ Restored(u).start = st /\ Restored(u) # None
  <2>1. Restored(u).profile = p /\ Restored(u).count = cnt
        /\ Restored(u).start = st
    BY <1>5 DEF Fresh
  <2>2. Restored(u) # None
    <3>1. Disk(profileDb, stateDb)
      BY Parts DEF RestartInv
    <3>2. Fresh(p) \in Counters
      BY <1>4, FreshSound DEF Sound
    <3>3. cnt \in [Periods -> Nat] /\ st \in [Periods -> Nat]
      BY <1>4 DEF Saved
    <3> HIDE DEF cnt, st, p
    <3>4. Restored(u) \in Counters
      BY <1>5, <3>2, <3>3 DEF Counters
    <3> QED
      BY <3>4, RateAssumption DEF RateAssumption, Counters
  <2> QED
    BY <2>1, <2>2
<1>7. ASSUME NEW r \in Periods
      PROVE  Used(Restored(u), r) = Used(b, r)
  <2>1. CASE stateDb[u][p][r] = None \/ WindowOver(stateDb[u][p][r].start, r)
    <3>1. r \notin valid
      BY <2>1
    <3>2. Used(Restored(u), r) = 0
      BY <1>6, <3>1 DEF Used
    <3>3. Used(b, r) = 0
      <4>1. CASE Exact(u, r)
        <5>1. stateDb[u][p][r] = [count |-> b.count[r], start |-> b.start[r]]
          BY <1>4, <4>1 DEF Exact
        <5>2. [count |-> b.count[r], start |-> b.start[r]] # None
          BY <1>4, RateAssumption DEF RateAssumption, Counters
        <5> QED
          BY <2>1, <5>1, <5>2 DEF Used
      <4>2. CASE b.count[r] = 0
        BY <4>2 DEF Used
      <4> QED
        BY <1>3, <4>1, <4>2 DEF Matches
    <3> QED
      BY <3>2, <3>3
  <2>2. CASE stateDb[u][p][r] # None /\ ~WindowOver(stateDb[u][p][r].start, r)
    <3>1. r \in valid
      BY <2>2
    <3>2. Used(Restored(u), r) = stateDb[u][p][r].count
      BY <1>6, <2>2, <3>1 DEF Used
    <3>3. Used(b, r) = stateDb[u][p][r].count
      <4>1. CASE Exact(u, r)
        BY <1>4, <2>2, <4>1 DEF Exact, Used
      <4>2. CASE b.count[r] = 0 /\ StoredUse(u, p, r) = 0
        BY <2>2, <4>2 DEF StoredUse, Used
      <4> QED
        BY <1>3, <1>4, <4>1, <4>2 DEF Matches
    <3> QED
      BY <3>2, <3>3
  <2> QED
    BY <2>1, <2>2
<1> QED
  BY <1>4, <1>6, <1>7

-----------------------------------------------------------------------------
(* What a step leaves as it was                                            *)

LEMMA KeptStays ==
  ASSUME RateInv, NEW u \in Users, Kept(u),
         profiles'[u] = profiles[u], profileDb'[u] = profileDb[u],
         stateDb'[u] = stateDb[u],
         buckets'[u] = buckets[u] \/ buckets'[u] = None,
         <<u, "profile">> \in torn => <<u, "profile">> \in torn',
         <<u, "state">> \in torn => <<u, "state">> \in torn',
         now' \in Nat, now <= now'
  PROVE  Kept(u)'
<1>1. KeptProfile(u)'
  BY DEF Kept, KeptProfile, Stored, ProfileOf
<1>2. ASSUME (<<u, "state">> \notin torn /\ buckets[u] # None)'
      PROVE  HasRow(u)' /\ \A r \in Periods : Matches(u, r)'
  <2>1. buckets'[u] = buckets[u] /\ buckets[u] # None
    BY <1>2
  <2>2. HasRow(u) /\ \A r \in Periods : Matches(u, r)
    BY <1>2, <2>1 DEF Kept, KeptState
  <2>3. HasRow(u)'
    BY <2>2 DEF HasRow
  <2>4. ASSUME NEW r \in Periods
        PROVE  Matches(u, r)'
    <3>1. CASE Exact(u, r)
      BY <2>1, <3>1 DEF Matches, Exact
    <3>2. CASE /\ buckets[u].count[r] = 0
               /\ StoredUse(u, buckets[u].profile, r) = 0
      <4>1. buckets[u].profile \in Profiles /\ now \in Nat
        BY <2>1 DEF RateInv, TypeOK, Counters
      <4> DEFINE rec == stateDb[u][buckets[u].profile][r]
      <4>2. rec \in Saved \cup {None}
        BY <4>1 DEF RateInv, TypeOK
      <4>3. rec # None => rec.start \in Nat /\ Window[r] \in Nat
        BY <4>2, RateAssumption DEF RateAssumption, Saved
      <4>4. rec # None /\ now - rec.start >= Window[r] =>
              now' - rec.start >= Window[r]
        BY <4>1, <4>3
      <4>5. StoredUse(u, buckets[u].profile, r)' = 0
        BY <2>1, <3>2, <4>4 DEF StoredUse, WindowOver
      <4> QED
        BY <2>1, <3>2, <4>5 DEF Matches
    <3> QED
      BY <2>2, <3>1, <3>2 DEF Matches
  <2> QED
    BY <2>3, <2>4
<1>3. KeptState(u)'
  BY <1>2 DEF KeptState
<1> QED
  BY <1>1, <1>3 DEF Kept

LEMMA IdleKept ==
  ASSUME RestartInv, up, writes = <<>>
  PROVE  \A u \in Users : Kept(u)
BY DEF RestartInv, Settled, Busy, Saving

LEMMA TornStays ==
  ASSUME RecordFailures, up', writes = <<>> \/ ~up
  PROVE  torn' = torn
BY DEF RecordFailures, SaveFailed, SaveFails, SaveRow

(* Counters whose finished windows are reset still match their rows.       *)
LEMMA RefreshKept ==
  ASSUME RateInv, NEW u \in Users, Kept(u), buckets[u] # None, NEW t, NEW S,
         t \in Counters, t.profile = buckets[u].profile,
         t.count = buckets[u].count, t.start = buckets[u].start,
         buckets'[u] = Refreshed(t, S),
         profiles' = profiles, profileDb' = profileDb, stateDb' = stateDb,
         torn' = torn, now' = now
  PROVE  Kept(u)'
<1>1. KeptProfile(u)'
  BY DEF Kept, KeptProfile, Stored, ProfileOf
<1>2. ASSUME <<u, "state">> \notin torn, NEW r \in Periods
      PROVE  Matches(u, r)'
  <2>1. Matches(u, r)
    BY <1>2 DEF Kept, KeptState
  <2>2. buckets'[u].profile = buckets[u].profile
    BY DEF Refreshed, Counters
  <2>3. CASE r \in S /\ WindowOver(buckets[u].start[r], r)
    <3>1. buckets'[u].count[r] = 0
      BY <2>3 DEF Refreshed, Counters
    <3>2. StoredUse(u, buckets[u].profile, r) = 0
      BY <2>1, <2>3 DEF Matches, Exact, StoredUse
    <3>3. StoredUse(u, buckets[u].profile, r)' = 0
      BY <2>2, <3>2 DEF StoredUse, WindowOver
    <3> QED
      BY <3>1, <3>3 DEF Matches
  <2>4. CASE ~(r \in S /\ WindowOver(buckets[u].start[r], r))
    <3>1. /\ buckets'[u].count[r] = buckets[u].count[r]
          /\ buckets'[u].start[r] = buckets[u].start[r]
      BY <2>4 DEF Refreshed, Counters
    <3> QED
      BY <2>1, <2>2, <3>1 DEF Matches, Exact, StoredUse, WindowOver
  <2> QED
    BY <2>3, <2>4
<1>3. <<u, "state">> \notin torn => HasRow(u)'
  BY DEF Kept, KeptState, HasRow
<1> QED
  BY <1>1, <1>2, <1>3 DEF Kept, KeptState

-----------------------------------------------------------------------------
(* The steps                                                               *)

LEMMA InitRestart == HInit => RestartInv
BY InitInv DEF HInit, Init, RestartInv

(* A handler that changes the counters of u and saves all of them.         *)
LEMMA CheckBusy ==
  ASSUME RestartInv, RateInv', RecordFailures, Idle, NEW u \in Users, NEW b,
         b # None, buckets' = [Remaining EXCEPT ![u] = b],
         writes' = Persist(u, b), up' = up,
         profiles' = profiles, profileDb' = profileDb, stateDb' = stateDb,
         now' = now
  PROVE  Busy'
<1>1. /\ Remaining \in [Users -> Counters \cup {None}] /\ now \in Nat
      /\ torn' = torn /\ \A v \in Users : Kept(v)
  BY TouchedSound, IdleKept, TornStays DEF Idle, RestartInv, RateInv, TypeOK
<1>2. buckets'[u] = b
  BY <1>1
<1>3. ASSUME NEW v \in Users \ {u}
      PROVE  Kept(v)'
  <2>1. buckets'[v] = buckets[v] \/ buckets'[v] = None
    BY <1>1 DEF Remaining
  <2>2. /\ profiles'[v] = profiles[v] /\ profileDb'[v] = profileDb[v]
        /\ stateDb'[v] = stateDb[v] /\ now' \in Nat /\ now <= now'
        /\ Kept(v) /\ RateInv /\ torn' = torn /\ v \in Users
    BY <1>1 DEF RestartInv
  <2> QED
    BY <2>1, <2>2, KeptStays
<1>4. KeptProfile(u)'
  BY <1>1 DEF Kept, KeptProfile, Stored, ProfileOf
<1>5. Saving(u)'
  BY <1>2, <1>4 DEF Saving, Persist
<1> QED
  BY <1>3, <1>5 DEF Busy

LEMMA DeniedSettled ==
  ASSUME PositiveCaps, RestartInv, RecordFailures, NEW u \in Users,
         CheckDenied(u)
  PROVE  Settled'
<1>1. /\ Remaining \in [Users -> Counters \cup {None}] /\ now \in Nat
      /\ \A v \in Users : Kept(v)
      /\ RateInv /\ ProfileOf(u) \in Profiles /\ Sound(Touched(u), ProfileOf(u))
  BY TouchedSound, IdleKept DEF CheckDenied, Idle, RestartInv, RateInv, TypeOK
<1>2. /\ writes' = <<>> /\ profiles' = profiles /\ profileDb' = profileDb
      /\ stateDb' = stateDb /\ now' = now /\ torn' = torn
  BY TornStays DEF CheckDenied, Idle, disk
<1>3. PICK S : buckets' = [Remaining EXCEPT ![u] = Refreshed(Touched(u), S)]
  BY <1>1, DeniedCounters
<1>4. Remaining[u] # None
  <2>1. PICK i \in 1..3 : ~HasRoom(Touched(u), Order[i])
    BY DEF CheckDenied, Refuses
  <2>2. Order[i] \in Periods
    BY DEF Order, Periods
  <2>3. Cap[ProfileOf(u)][Order[i]] > 0
    BY <1>1, <2>2 DEF PositiveCaps, CheckDenied
  <2>4. SUFFICES ASSUME Remaining[u] = None
                 PROVE  FALSE
    OBVIOUS
  <2>5. Touched(u) = Fresh(ProfileOf(u))
    BY <2>4 DEF Touched
  <2>6. Refreshed(Fresh(ProfileOf(u)), {Order[i]}).count[Order[i]] = 0
    BY <2>2 DEF Refreshed, Fresh
  <2>7. Fresh(ProfileOf(u)).profile = ProfileOf(u)
    BY DEF Fresh
  <2> QED
    BY <2>1, <2>3, <2>5, <2>6, <2>7 DEF HasRoom
<1>5. Remaining[u] = buckets[u] /\ buckets[u] # None
  BY <1>4 DEF Remaining
<1>6. /\ Touched(u) \in Counters /\ Touched(u).profile = buckets[u].profile
      /\ Touched(u).count = buckets[u].count
      /\ Touched(u).start = buckets[u].start
  BY <1>1, <1>4, <1>5 DEF Touched, Sound, RateInv, TypeOK, Counters
<1>7. Kept(u)'
  BY <1>1, <1>2, <1>3, <1>5, <1>6, RefreshKept
<1>8. ASSUME NEW v \in Users \ {u}
      PROVE  Kept(v)'
  <2>1. buckets'[v] = buckets[v] \/ buckets'[v] = None
    BY <1>1, <1>3 DEF Remaining
  <2>2. /\ profiles'[v] = profiles[v] /\ profileDb'[v] = profileDb[v]
        /\ stateDb'[v] = stateDb[v] /\ now' \in Nat /\ now <= now'
        /\ Kept(v) /\ RateInv /\ torn' = torn /\ v \in Users
    BY <1>1, <1>2
  <2> QED
    BY <2>1, <2>2, KeptStays
<1> QED
  BY <1>2, <1>7, <1>8 DEF Settled

LEMMA StartSettled ==
  ASSUME PlainLegacy, RestartInv, RecordFailures, Start
  PROVE  Settled'
<1> USE RateAssumption DEF RateAssumption
<1>1. /\ profiles' = profileDb /\ profileDb' = profileDb /\ stateDb' = stateDb
      /\ torn' = torn /\ now' = now /\ now \in Nat /\ writes' \in Migration
      /\ buckets' = [u \in Users |-> Restored(u)]
      /\ Disk(profileDb, stateDb)
  BY TornStays, Parts DEF Start, disk, RestartInv, RateInv, TypeOK
<1>2. ASSUME NEW u \in Users
      PROVE  KeptProfile(u)'
  BY <1>1 DEF KeptProfile, Stored, ProfileOf
<1>3. ASSUME NEW u \in Users, Restored(u) # None
      PROVE  HasRow(u)' /\ \A r \in Periods : Matches(u, r)'
  <2>1. HasRow(u)'
    BY <1>1, <1>3 DEF Restored, HasRow
  <2> DEFINE p == Stored(u)
             valid == {r \in Periods :
                         /\ stateDb[u][p][r] # None
                         /\ ~WindowOver(stateDb[u][p][r].start, r)}
             cnt == [r \in Periods |->
                       IF r \in valid THEN stateDb[u][p][r].count ELSE 0]
             st == [r \in Periods |->
                       IF r \in valid THEN stateDb[u][p][r].start ELSE now]
  <2>2. Restored(u) = [Fresh(p) EXCEPT !.count = cnt, !.start = st]
    BY <1>3 DEF Restored, Stored
  <2>3. /\ buckets'[u].profile = p /\ buckets'[u].count = cnt
        /\ buckets'[u].start = st
    BY <1>1, <2>2 DEF Fresh
  <2>4. p \in Profiles /\ \A r \in Periods : stateDb[u][p][r] \in Saved \cup {None}
    BY <1>1 DEF Disk, Stored
  <2>5. ASSUME NEW r \in Periods
        PROVE  Matches(u, r)'
    <3>1. CASE r \in valid
      BY <1>1, <2>3, <2>4, <3>1 DEF Matches, Exact, Saved
    <3>2. CASE r \notin valid
      BY <1>1, <2>3, <3>2 DEF Matches, StoredUse, WindowOver
    <3> QED
      BY <3>1, <3>2
  <2> QED
    BY <2>1, <2>5
<1>4. (writes = <<>> \/ Migrating)'
  <2> DEFINE named == {u \in Users : Legacy[u] # None}
             rows == {ProfileRow(u, Legacy[u]) : u \in named}
             n == Cardinality(named)
  <2>1. CASE writes' = <<>>
    BY <2>1
  <2>2. CASE writes' # <<>>
    <3>1. (\A u \in Users : profileDb[u] = None) /\ writes' \in [1..n -> rows]
      BY <1>1, <2>2 DEF Migration
    <3>2. n \in Nat
      BY FS_Subset, FS_CardinalityType
    <3>3. \A x \in rows : \E u \in Users : x = ProfileRow(u, Default)
      BY DEF PlainLegacy
    <3>4. \A i \in 1..Len(writes') : writes'[i] \in rows
      <4> HIDE DEF n, rows
      <4> QED
        BY <3>1, <3>2
    <3> QED
      BY <1>1, <3>1, <3>3, <3>4 DEF Migrating
  <2> QED
    BY <2>1, <2>2
<1> QED
  BY <1>1, <1>2, <1>3, <1>4 DEF Settled, Kept, KeptState

(* One row of the migration gives a user the default profile.              *)
LEMMA MigrationSaves ==
  ASSUME RestartInv, RateInv', RecordFailures, SaveRow, Migrating,
         \A u \in Users : Kept(u)
  PROVE  Settled'
<1>1. /\ writes # <<>> /\ writes \in Seq(ProfileRows \cup StateRows)
      /\ writes' = Tail(writes) /\ RateInv
      /\ profiles' = profiles /\ buckets' = buckets /\ now' = now /\ up' = up
      /\ up /\ now \in Nat
      /\ profileDb \in [Users -> Profiles \cup {None}]
  BY DEF RestartInv, RateInv, TypeOK, SaveRow, memory
<1>2. PICK v \in Users : Head(writes) = ProfileRow(v, Default)
  BY <1>1 DEF Migrating
<1>3. /\ profileDb' = [profileDb EXCEPT ![v] = Default] /\ stateDb' = stateDb
      /\ torn' = torn \ {<<v, "profile">>}
  BY <1>1, <1>2 DEF SaveRow, ProfileRow, RecordFailures, SaveFailed
<1>4. Migrating'
  BY <1>1 DEF Migrating
<1>5. ASSUME NEW u \in Users
      PROVE  Kept(u)'
  <2>1. Stored(u)' = Stored(u) \/ (u = v /\ Stored(u)' = Default)
    BY <1>1, <1>3 DEF Stored
  <2>2. ProfileOf(u)' = Default /\ ProfileOf(u) = Default
    BY <1>1 DEF Migrating, ProfileOf
  <2>3. <<u, "profile">> \in torn /\ <<u, "profile">> \notin torn' => u = v
    BY <1>3
  <2>4. u = v => Stored(u)' = Default
    BY <1>1, <1>3, RateAssumption DEF Stored, RateAssumption
  <2>5. KeptProfile(u)'
    BY <2>1, <2>2, <2>3, <2>4 DEF Kept, KeptProfile
  <2>6. <<u, "state">> \in torn' <=> <<u, "state">> \in torn
    BY <1>3
  <2>7. HasRow(u) => HasRow(u)'
    BY <1>3 DEF HasRow
  <2>8. ASSUME NEW r \in Periods, Matches(u, r)
        PROVE  Matches(u, r)'
    BY <1>1, <1>3, <2>8 DEF Matches, Exact, StoredUse, WindowOver
  <2>9. KeptState(u)'
    BY <1>1, <2>6, <2>7, <2>8 DEF Kept, KeptState
  <2> QED
    BY <2>5, <2>9 DEF Kept
<1> QED
  BY <1>4, <1>5 DEF Settled

(* One row of a handler for v brings its tables nearer to its counters.    *)
LEMMA HandlerSaves ==
  ASSUME RestartInv, RateInv', RecordFailures, SaveRow, NEW v \in Users,
         Saving(v), \A u \in Users \ {v} : Kept(u)
  PROVE  Settled' \/ Busy'
<1> DEFINE b == buckets[v]
           p == ProfileOf(v)
           m == StateRow(v, b, "minute")
           h == StateRow(v, b, "hour")
           d == StateRow(v, b, "day")
<1>1. /\ writes' = Tail(writes) /\ RateInv /\ up' = up /\ up
      /\ profiles' = profiles /\ buckets' = buckets /\ now' = now
      /\ now \in Nat /\ b # None
  BY DEF RestartInv, RateInv, TypeOK, SaveRow, memory, Saving
<1>2. /\ b.profile = p /\ p \in Profiles /\ p # None
      /\ profileDb \in [Users -> Profiles \cup {None}]
      /\ stateDb \in [Users -> [Profiles -> [Periods -> Saved \cup {None}]]]
  BY <1>1, TouchedSound, RateAssumption
  DEF RateInv, TypeOK, BucketsFollowProfile, RateAssumption
<1>3. ASSUME NEW u \in Users \ {v}, profileDb'[u] = profileDb[u],
             stateDb'[u] = stateDb[u],
             torn' \in {torn, torn \ {<<v, "profile">>}, torn \ {<<v, "state">>}}
      PROVE  Kept(u)'
  <2>1. /\ <<u, "profile">> \in torn => <<u, "profile">> \in torn'
        /\ <<u, "state">> \in torn => <<u, "state">> \in torn'
    BY <1>3
  <2>2. /\ profiles'[u] = profiles[u] /\ buckets'[u] = buckets[u]
        /\ now' \in Nat /\ now <= now' /\ Kept(u) /\ u \in Users /\ RateInv
    BY <1>1
  <2> QED
    BY <1>3, <2>1, <2>2, KeptStays
<1>4. ASSUME NEW r \in Periods, Head(writes) = StateRow(v, b, r)
      PROVE  /\ stateDb' = [stateDb EXCEPT ![v][p][r] =
                               [count |-> b.count[r], start |-> b.start[r]]]
             /\ profileDb' = profileDb
             /\ torn' = IF writes' = <<>> THEN torn \ {<<v, "state">>} ELSE torn
             /\ Exact(v, r)'
             /\ \A q \in Periods : Exact(v, q) => Exact(v, q)'
             /\ \A u \in Users \ {v} : Kept(u)'
             /\ KeptProfile(v) => KeptProfile(v)'
  <2>1. /\ stateDb' = [stateDb EXCEPT ![v][p][r] =
                          [count |-> b.count[r], start |-> b.start[r]]]
        /\ profileDb' = profileDb
    BY <1>2, <1>4 DEF SaveRow, StateRow
  <2>2. torn' = IF writes' = <<>> THEN torn \ {<<v, "state">>} ELSE torn
    <3>1. Head(writes).user = v /\ Head(writes).table = "state"
      BY <1>4 DEF StateRow
    <3>2. ~SaveFailed /\ up'
      BY <1>1 DEF SaveFailed
    <3> QED
      BY <3>1, <3>2 DEF RecordFailures
  <2>3. Exact(v, r)' /\ \A q \in Periods : Exact(v, q) => Exact(v, q)'
    BY <1>1, <1>2, <2>1 DEF Exact
  <2>4. \A u \in Users \ {v} : stateDb'[u] = stateDb[u] /\ profileDb'[u] = profileDb[u]
    BY <2>1, <1>2
  <2>5. \A u \in Users \ {v} : Kept(u)'
    BY <1>3, <2>2, <2>4
  <2>6. KeptProfile(v) => KeptProfile(v)'
    BY <1>1, <2>1, <2>2 DEF KeptProfile, Stored, ProfileOf
  <2> QED
    BY <2>1, <2>2, <2>3, <2>5, <2>6
<1>5. CASE writes = <<ProfileRow(v, p), m, h, d>>
  <2> HIDE DEF m, h, d
  <2>1. Head(writes) = ProfileRow(v, p) /\ writes' = <<m, h, d>>
    BY <1>1, <1>5
  <2>2. /\ profileDb' = [profileDb EXCEPT ![v] = p] /\ stateDb' = stateDb
        /\ torn' = torn \ {<<v, "profile">>}
    BY <1>1, <2>1 DEF SaveRow, ProfileRow, RecordFailures, SaveFailed
  <2>3. KeptProfile(v)'
    BY <1>1, <1>2, <2>2 DEF KeptProfile, Stored, ProfileOf
  <2>4. Saving(v)'
    BY <1>1, <2>1, <2>3 DEF Saving, m, h, d, StateRow
  <2>5. \A u \in Users \ {v} : stateDb'[u] = stateDb[u] /\ profileDb'[u] = profileDb[u]
    BY <1>2, <2>2
  <2>6. \A u \in Users \ {v} : Kept(u)'
    BY <1>3, <2>2, <2>5
  <2> QED
    BY <2>4, <2>6 DEF Busy
<1>6. CASE KeptProfile(v) /\ writes = <<m, h, d>>
  <2> HIDE DEF m, h, d
  <2>1. Head(writes) = m /\ writes' = <<h, d>>
    BY <1>1, <1>6
  <2>2. /\ KeptProfile(v)' /\ Exact(v, "minute")'
        /\ \A u \in Users \ {v} : Kept(u)'
    BY <1>4, <1>6, <2>1 DEF m, Periods
  <2>3. Saving(v)'
    BY <1>1, <2>1, <2>2 DEF Saving, h, d, StateRow
  <2> QED
    BY <2>2, <2>3 DEF Busy
<1>7. CASE KeptProfile(v) /\ Exact(v, "minute") /\ writes = <<h, d>>
  <2> HIDE DEF m, h, d
  <2>1. Head(writes) = h /\ writes' = <<d>>
    BY <1>1, <1>7
  <2>2. /\ KeptProfile(v)' /\ Exact(v, "minute")' /\ Exact(v, "hour")'
        /\ \A u \in Users \ {v} : Kept(u)'
    BY <1>4, <1>7, <2>1 DEF h, Periods
  <2>3. Saving(v)'
    BY <1>1, <2>1, <2>2 DEF Saving, d, StateRow
  <2> QED
    BY <2>2, <2>3 DEF Busy
<1>8. CASE KeptProfile(v) /\ Exact(v, "minute") /\ Exact(v, "hour") /\ writes = <<d>>
  <2> HIDE DEF m, h, d
  <2>1. Head(writes) = d /\ writes' = <<>>
    BY <1>1, <1>8
  <2>2. /\ KeptProfile(v)' /\ \A r \in Periods : Exact(v, r)'
        /\ \A u \in Users \ {v} : Kept(u)'
    BY <1>4, <1>8, <2>1 DEF d, Periods
  <2>3. stateDb'[v][p]["day"] =
          [count |-> b.count["day"], start |-> b.start["day"]]
    BY <1>1, <1>2, <2>2 DEF Exact, Periods
  <2>4. [count |-> b.count["day"], start |-> b.start["day"]] # None
    <3>1. b \in Counters
      BY <1>1 DEF RateInv, TypeOK
    <3>2. b.count["day"] \in Nat /\ b.start["day"] \in Nat
      BY <3>1 DEF Counters, Periods
    <3>3. [count |-> b.count["day"], start |-> b.start["day"]]
            \in [count : Nat, start : Nat]
      BY <3>2
    <3> QED
      BY <3>3, RateAssumption DEF RateAssumption
  <2>5. HasRow(v)'
    BY <1>2, <2>3, <2>4 DEF HasRow, Periods
  <2>6. Kept(v)'
    BY <2>2, <2>5 DEF Kept, KeptState, Matches
  <2> QED
    BY <2>1, <2>2, <2>6 DEF Settled
<1> QED
  BY <1>2, <1>5, <1>6, <1>7, <1>8 DEF Saving

(* A failed save marks what the handler for v has left out.                *)
LEMMA FailureSettled ==
  ASSUME RestartInv, RecordFailures, SaveFails, ~SaveRow
  PROVE  Settled'
<1>1. /\ writes # <<>> /\ writes[Len(writes)].table = "state"
      /\ writes' = <<>> /\ up /\ up' = up
      /\ profiles' = profiles /\ buckets' = buckets /\ now' = now
      /\ profileDb' = profileDb /\ stateDb' = stateDb
      /\ writes \in Seq(ProfileRows \cup StateRows) /\ now \in Nat /\ RateInv
  BY DEF SaveFails, memory, disk, RestartInv, RateInv, TypeOK
<1>2. torn' = torn \cup {<<writes[i].user, writes[i].table>> : i \in DOMAIN writes}
  BY <1>1 DEF RecordFailures, SaveFailed
<1>3. ~Migrating
  <2>1. Len(writes) \in 1..Len(writes)
    BY <1>1
  <2>2. \A u \in Users : ProfileRow(u, Default).table = "profile"
    BY DEF ProfileRow
  <2> QED
    BY <1>1, <2>1, <2>2 DEF Migrating
<1>4. PICK v \in Users : Saving(v) /\ \A u \in Users \ {v} : Kept(u)
  BY <1>1, <1>3 DEF RestartInv, Settled, Busy
<1>5. ASSUME NEW u \in Users, Kept(u)
      PROVE  Kept(u)'
  <2>1. /\ profiles'[u] = profiles[u] /\ profileDb'[u] = profileDb[u]
        /\ stateDb'[u] = stateDb[u] /\ buckets'[u] = buckets[u]
        /\ now' \in Nat /\ now <= now'
        /\ <<u, "profile">> \in torn => <<u, "profile">> \in torn'
        /\ <<u, "state">> \in torn => <<u, "state">> \in torn'
    BY <1>1, <1>2
  <2> QED
    BY <1>1, <1>5, <2>1, KeptStays
<1>6. <<v, "state">> \in torn'
  <2>1. \E i \in DOMAIN writes : writes[i] = StateRow(v, buckets[v], "day")
    BY <1>4 DEF Saving
  <2> QED
    BY <1>2, <2>1 DEF StateRow
<1>7. KeptProfile(v)'
  <2>1. CASE KeptProfile(v)
    BY <1>1, <1>2, <2>1 DEF KeptProfile, Stored, ProfileOf
  <2>2. CASE ~KeptProfile(v)
    <3>1. \E i \in DOMAIN writes : writes[i] = ProfileRow(v, ProfileOf(v))
      BY <1>4, <2>2 DEF Saving
    <3> QED
      BY <1>2, <3>1 DEF ProfileRow, KeptProfile
  <2> QED
    BY <2>1, <2>2
<1>8. Kept(v)'
  BY <1>6, <1>7 DEF Kept, KeptState
<1> QED
  BY <1>1, <1>4, <1>5, <1>8 DEF Settled

LEMMA FourRows ==
  ASSUME NEW S, NEW x \in S, NEW m \in S, NEW h \in S, NEW d \in S
  PROVE  <<x>> \o <<m, h, d>> = <<x, m, h, d>>
<1>1. /\ <<x>> \o <<m, h, d>> \in Seq(S) /\ Len(<<x>> \o <<m, h, d>>) = 4
      /\ <<x, m, h, d>> \in Seq(S) /\ Len(<<x, m, h, d>>) = 4
  OBVIOUS
<1>2. \A i \in 1..4 : (<<x>> \o <<m, h, d>>)[i] = <<x, m, h, d>>[i]
  OBVIOUS
<1> QED
  BY <1>1, <1>2, SeqEqual

LEMMA StepRestart ==
  ASSUME PositiveCaps, PlainLegacy, RestartInv,
         [Next /\ RecordFailures /\ UNCHANGED <<granted, told>>]_hvars
  PROVE  RestartInv'
<1>1. RateInv'
  BY StepInv DEF RestartInv, hvars
<1> SUFFICES ASSUME up'
             PROVE  Settled' \/ Busy'
  BY <1>1 DEF RestartInv
<1>2. CASE UNCHANGED hvars
  <2>1. /\ up' = up /\ profiles' = profiles /\ buckets' = buckets
        /\ profileDb' = profileDb /\ stateDb' = stateDb /\ writes' = writes
        /\ now' = now /\ torn' = torn
    BY <1>2 DEF hvars, vars, memory, disk
  <2>2. ASSUME NEW u \in Users
        PROVE  /\ KeptProfile(u)' <=> KeptProfile(u)
               /\ KeptState(u)' <=> KeptState(u)
    BY <2>1 DEF KeptProfile, KeptState, HasRow, Matches, Exact, StoredUse,
       Stored, ProfileOf, WindowOver
  <2>3. ASSUME NEW u \in Users
        PROVE  Saving(u)' <=> Saving(u)
    BY <2>1, <2>2 DEF Saving, Exact, ProfileOf
  <2>4. Migrating' <=> Migrating
    BY <2>1 DEF Migrating
  <2> QED
    BY <2>1, <2>2, <2>3, <2>4 DEF RestartInv, Settled, Busy, Kept
<1>3. CASE Next /\ RecordFailures
  <2>1. ASSUME NEW u \in Users, CheckUnlimited(u)
        PROVE  Busy'
    <3>1. Touched(u) \in Counters /\ Touched(u) # None
      BY TouchedSound, RateAssumption
      DEF RestartInv, Sound, RateAssumption, Counters
    <3> QED
      BY <1>1, <1>3, <2>1, <3>1, CheckBusy DEF CheckUnlimited, disk
  <2>2. ASSUME NEW u \in Users, CheckAllowed(u)
        PROVE  Busy'
    <3> DEFINE b == WarningsAfter(Consumed(Refreshed(Touched(u), Periods), Periods))
    <3>1. b \in Counters
      BY <2>2, AllowedSound DEF RestartInv, CheckAllowed, Sound
    <3>2. b # None
      BY <3>1, RateAssumption DEF RateAssumption, Counters
    <3>3. /\ buckets' = [Remaining EXCEPT ![u] = b] /\ writes' = Persist(u, b)
          /\ up' = up /\ profiles' = profiles /\ profileDb' = profileDb
          /\ stateDb' = stateDb /\ now' = now /\ Idle
      BY <2>2 DEF CheckAllowed, disk
    <3> HIDE DEF b
    <3> QED
      BY <1>1, <1>3, <3>2, <3>3, CheckBusy
  <2>3. ASSUME NEW u \in Users, CheckDenied(u)
        PROVE  Settled'
    BY <1>3, <2>3, DeniedSettled
  <2>4. ASSUME NEW u \in Users, GetUsage(u)
        PROVE  Settled'
    <3>1. /\ writes' = <<>> /\ profiles' = profiles /\ profileDb' = profileDb
          /\ stateDb' = stateDb /\ now' = now /\ torn' = torn /\ now \in Nat
          /\ buckets' = [buckets EXCEPT ![u] = Refreshed(buckets[u], Periods)]
          /\ buckets[u] # None /\ RateInv /\ \A v \in Users : Kept(v)
          /\ buckets \in [Users -> Counters \cup {None}]
      BY <1>3, <2>4, TornStays, IdleKept
      DEF GetUsage, Idle, disk, RestartInv, RateInv, TypeOK
    <3>2. buckets'[u] = Refreshed(buckets[u], Periods) /\ buckets[u] \in Counters
      BY <3>1
    <3>3. Kept(u)'
      BY <3>1, <3>2, RefreshKept
    <3>4. ASSUME NEW v \in Users \ {u}
          PROVE  Kept(v)'
      <4>1. /\ profiles'[v] = profiles[v] /\ profileDb'[v] = profileDb[v]
            /\ stateDb'[v] = stateDb[v] /\ now' \in Nat /\ now <= now'
            /\ buckets'[v] = buckets[v] /\ Kept(v) /\ torn' = torn /\ v \in Users
        BY <3>1
      <4> QED
        BY <3>1, <4>1, KeptStays
    <3> QED
      BY <3>1, <3>3, <3>4 DEF Settled
  <2>5. ASSUME NEW u \in Users, NEW p \in Profiles, SetUserProfile(u, p)
        PROVE  Busy'
    <3> DEFINE b == IF buckets[u] = None THEN Fresh(p) ELSE CarryOver(buckets[u], p)
    <3>1. /\ torn' = torn /\ now' = now /\ profileDb' = profileDb
          /\ stateDb' = stateDb /\ now \in Nat
          /\ buckets' = [buckets EXCEPT ![u] = b]
          /\ profiles' = [profiles EXCEPT ![u] = p]
          /\ writes' = <<ProfileRow(u, p)>> \o Persist(u, b)
          /\ RateInv /\ \A v \in Users : Kept(v)
          /\ buckets \in [Users -> Counters \cup {None}]
          /\ profiles \in [Users -> Profiles \cup {None}]
      BY <1>3, <2>5, TornStays, IdleKept
      DEF SetUserProfile, Idle, disk, RestartInv, RateInv, TypeOK
    <3>2. b # None
      <4>1. Fresh(p) \in Counters
        BY <3>1, FreshSound DEF Sound
      <4>2. Fresh(p) # None
        BY <4>1, RateAssumption DEF RateAssumption, Counters
      <4>3. CASE buckets[u] = None
        BY <4>2, <4>3
      <4>4. CASE buckets[u] # None
        <5>1. Sound(buckets[u], ProfileOf(u)) /\ ProfileOf(u) \in Profiles
          BY <3>1, <4>4, TouchedSound DEF RateInv, TypeOK, WithinCapacity,
             BucketsFollowProfile, Sound
        <5>2. CarryOver(buckets[u], p) \in Counters
          BY <3>1, <5>1, CarryOverSound DEF Sound
        <5> QED
          BY <4>4, <5>2, RateAssumption DEF RateAssumption, Counters
      <4> QED
        BY <4>3, <4>4
    <3> HIDE DEF b
    <3>3. buckets'[u] = b /\ ProfileOf(u)' = p
      BY <3>1, RateAssumption DEF ProfileOf, RateAssumption
    <3>4. writes' = <<ProfileRow(u, p), StateRow(u, b, "minute"),
                      StateRow(u, b, "hour"), StateRow(u, b, "day")>>
      <4> DEFINE x == ProfileRow(u, p)
                 m == StateRow(u, b, "minute")
                 h == StateRow(u, b, "hour")
                 d == StateRow(u, b, "day")
      <4>1. writes' = <<x>> \o <<m, h, d>>
        BY <3>1 DEF Persist
      <4> HIDE DEF x, m, h, d
      <4>2. <<x>> \o <<m, h, d>> = <<x, m, h, d>>
        <5> DEFINE S == {x, m, h, d}
        <5>1. x \in S /\ m \in S /\ h \in S /\ d \in S
          OBVIOUS
        <5> HIDE DEF S
        <5> QED
          BY <5>1, FourRows
      <4> QED
        BY <4>1, <4>2 DEF x, m, h, d
    <3>5. Saving(u)'
      BY <3>2, <3>3, <3>4 DEF Saving
    <3>6. ASSUME NEW v \in Users \ {u}
          PROVE  Kept(v)'
      <4>1. /\ profiles'[v] = profiles[v] /\ profileDb'[v] = profileDb[v]
            /\ stateDb'[v] = stateDb[v] /\ now' \in Nat /\ now <= now'
            /\ buckets'[v] = buckets[v] /\ Kept(v) /\ torn' = torn /\ v \in Users
        BY <3>1
      <4> QED
        BY <3>1, <4>1, KeptStays
    <3> QED
      BY <3>5, <3>6 DEF Busy
  <2>6. ASSUME NEW u \in Users, NEW p \in MenuProfiles, SetRateLimit(u, p)
        PROVE  Settled'
    <3>1. /\ writes' = <<>> /\ profiles' = profiles /\ profileDb' = profileDb
          /\ stateDb' = stateDb /\ now' = now /\ torn' = torn /\ now \in Nat
          /\ buckets' = buckets /\ RateInv /\ \A v \in Users : Kept(v)
      BY <1>3, <2>6, TornStays, IdleKept
      DEF SetRateLimit, Idle, memory, RestartInv, RateInv, TypeOK
    <3>2. ASSUME NEW v \in Users
          PROVE  Kept(v)'
      <4>1. /\ profiles'[v] = profiles[v] /\ profileDb'[v] = profileDb[v]
            /\ stateDb'[v] = stateDb[v] /\ now' \in Nat /\ now <= now'
            /\ buckets'[v] = buckets[v] /\ Kept(v)
        BY <3>1
      <4> QED
        BY <3>1, <4>1, KeptStays
    <3> QED
      BY <3>1, <3>2 DEF Settled
  <2>7. CASE SaveRow
    <3>1. CASE Busy
      BY <1>1, <1>3, <2>7, <3>1, HandlerSaves DEF Busy
    <3>2. CASE Settled
      BY <1>1, <1>3, <2>7, <3>2, MigrationSaves DEF Settled, SaveRow
    <3> QED
      BY <2>7, <3>1, <3>2 DEF RestartInv, SaveRow
  <2>8. CASE SaveFails /\ ~SaveRow
    BY <1>3, <2>8, FailureSettled
  <2>9. CASE Crash
    BY <2>9 DEF Crash
  <2>10. CASE Start
    BY <1>3, <2>10, StartSettled
  <2>11. CASE Tick
    <3>1. /\ writes' = <<>> /\ profiles' = profiles /\ profileDb' = profileDb
          /\ stateDb' = stateDb /\ now' \in Nat /\ now <= now' /\ torn' = torn
          /\ buckets' = buckets /\ RateInv /\ \A v \in Users : Kept(v)
      BY <1>3, <2>11, TornStays, IdleKept
      DEF Tick, memory, disk, RestartInv, RateInv, TypeOK
    <3> QED
      BY <3>1, KeptStays DEF Settled
  <2> QED
    BY <1>3, <2>1, <2>2, <2>3, <2>4, <2>5, <2>6, <2>7, <2>8, <2>9, <2>10, <2>11
    DEF Next, Check
<1> QED
  BY <1>2, <1>3

(* For any number of users and any windows: a restart, after any crash,    *)
(* eviction, roll back or switch of profile, gives every user the counts   *)
(* that were in force, unless a save has failed.  The old file may name no *)
(* profile but the default, or the migration, which runs after the limiter *)
(* has read the table, would make the two differ.                          *)
THEOREM RestartsAreFaithful ==
  ASSUME PositiveCaps, PlainLegacy
  PROVE  HSpec => []RestartIsFaithful
<1>1. HInit => RestartInv
  BY InitRestart
<1>2. RestartInv /\ [Next /\ RecordFailures /\ UNCHANGED <<granted, told>>]_hvars
        => RestartInv'
  BY StepRestart
<1> QED
  BY <1>1, <1>2, RestartOfInv, PTL DEF HSpec

-----------------------------------------------------------------------------
(* How much is served in a window: no more than twice the capacity in any  *)
(* interval of a window's length.  The invariant QuotaInv says that the    *)
(* counters in memory, the rows still to be saved and the tables all count *)
(* what was served since some moment, and that what was served in the      *)
(* window before that moment was within the capacity.                      *)

(* One profile is in force: a switch to a smaller capacity and back loses  *)
(* counts (SwitchKeepsUsage, the claim that it does not, is false).        *)
OneProfile == Profiles = {Default} /\ Unlimited # Default

(* The periods eviction does not cut short.                                *)
Short == {r \in Periods : Window[r] <= TTL}

Earlier(t, w) == IF t >= w THEN t - w ELSE 0

(* G is what granted says of one user.                                     *)
Until(G, t) == G[Smaller(t, MaxNow + 1)]

Total(G) == G[MaxNow + 1]

Counted(G, n) ==
  /\ G \in [0..(MaxNow + 1) -> Nat]
  /\ \A s, t \in 0..(MaxNow + 1) : s <= t => G[s] <= G[t]
  /\ n \in 0..MaxNow
  /\ \A t \in (n + 1)..(MaxNow + 1) : G[t] = Total(G)

(* At time n a count c of a window of period r that began at s covers what *)
(* was served since some g, and k requests that are going to be; before g  *)
(* the period's capacity was kept, and nothing was served after the window.*)
Covers(G, n, r, c, s, k) ==
  /\ \E g \in 0..s :
       /\ Total(G) + k <= c + Until(G, g)
       /\ Until(G, g) <= Cap[Default][r] + Until(G, Earlier(g, Window[r]))
  /\ Until(G, s + Window[r]) = Total(G)
  /\ s <= n
  /\ k > 0 => n < s + Window[r]

(* Serving one more request at time n.                                     *)
Grant(G, n) == [t \in 0..(MaxNow + 1) |-> G[t] + (IF t > n THEN 1 ELSE 0)]

LEMMA UntilGrows ==
  ASSUME NEW G, NEW n, Counted(G, n), NEW s \in Nat, NEW t \in Nat
  PROVE  /\ Until(G, s) \in Nat /\ Total(G) \in Nat
         /\ Until(G, s) <= Total(G)
         /\ s <= t => Until(G, s) <= Until(G, t)
         /\ s > n => Until(G, s) = Total(G)
<1> DEFINE a == Smaller(s, MaxNow + 1)
           b == Smaller(t, MaxNow + 1)
<1>1. /\ a \in 0..(MaxNow + 1) /\ b \in 0..(MaxNow + 1) /\ MaxNow + 1 \in 0..(MaxNow + 1)
      /\ s <= t => a <= b
      /\ a <= MaxNow + 1
      /\ n \in 0..MaxNow /\ (s > n => a \in (n + 1)..(MaxNow + 1))
  BY RateAssumption DEF RateAssumption, Smaller, Counted
<1>2. Until(G, s) = G[a] /\ Until(G, t) = G[b] /\ Total(G) = G[MaxNow + 1]
  BY DEF Until, Total
<1> HIDE DEF a, b
<1> QED
  BY <1>1, <1>2 DEF Counted

(* Counters that begin now cover what was served, when nothing was in the  *)
(* last window.                                                            *)
LEMMA FreshCovers ==
  ASSUME NEW G, NEW n, Counted(G, n), NEW r \in Periods,
         Until(G, Earlier(n, Window[r])) = Total(G)
  PROVE  Covers(G, n, r, 0, n, 0)
<1>1. n \in Nat /\ Window[r] \in Nat /\ Window[r] > 0 /\ Cap[Default][r] \in Nat
  BY RateAssumption DEF RateAssumption, Counted
<1>2. Earlier(n, Window[r]) \in Nat /\ Earlier(n, Window[r]) <= n
  BY <1>1 DEF Earlier
<1>3. Until(G, n) = Total(G) /\ Until(G, n + Window[r]) = Total(G) /\ Total(G) \in Nat
  <2>1. Until(G, n) <= Total(G) /\ Until(G, n) \in Nat /\ Total(G) \in Nat
        /\ Until(G, Earlier(n, Window[r])) <= Until(G, n)
    BY <1>1, <1>2, UntilGrows
  <2>2. n + Window[r] \in Nat /\ n + Window[r] > n
    BY <1>1
  <2> QED
    BY <2>1, <2>2, UntilGrows
<1> QED
  BY <1>1, <1>3 DEF Covers

(* So do counters whose window is over, once they are reset.               *)
LEMMA ResetCovers ==
  ASSUME NEW G, NEW n, Counted(G, n), NEW r \in Periods, NEW c \in Nat, NEW s \in Nat,
         NEW k \in {0, 1}, Covers(G, n, r, c, s, k), c <= Cap[Default][r], n - s >= Window[r]
  PROVE  Covers(G, n, r, 0, n, 0)
<1> DEFINE w == Window[r]
           C == Cap[Default][r]
<1>1. n \in Nat /\ w \in Nat /\ w > 0 /\ C \in Nat
  BY RateAssumption DEF RateAssumption, Counted
<1>2. PICK g \in 0..s : Total(G) + k <= c + Until(G, g)
  BY DEF Covers
<1>3. s + w \in Nat /\ s + w <= n /\ n - w \in Nat /\ g <= n - w /\ Earlier(n, w) = n - w
      /\ g \in Nat /\ n + w \in Nat /\ n + w > n
  BY <1>1, <1>2 DEF Earlier
<1>4. /\ Until(G, s + w) <= Until(G, n) /\ Until(G, n) <= Total(G)
      /\ Until(G, g) <= Until(G, n - w) /\ Until(G, n + w) = Total(G)
      /\ Total(G) \in Nat /\ Until(G, n) \in Nat /\ Until(G, n - w) \in Nat
      /\ Until(G, g) \in Nat /\ Until(G, s + w) = Total(G)
  BY <1>1, <1>3, UntilGrows DEF Covers
<1>5. Until(G, n) = Total(G)
  BY <1>4
<1>6. Total(G) <= C + Until(G, n - w)
  BY <1>1, <1>2, <1>4
<1> QED
  BY <1>1, <1>3, <1>4, <1>5, <1>6 DEF Covers

(* A count that is carried into a window of its own, is consumed from, or  *)
(* waits, still covers.                                                    *)
LEMMA StillCovers ==
  ASSUME NEW G, NEW n, Counted(G, n), NEW r \in Periods, NEW c \in Nat, NEW s \in Nat,
         NEW k \in {0, 1}, Covers(G, n, r, c, s, k)
  PROVE  /\ Covers(G, n, r, c, s, 0)
         /\ Covers(G, n, r, c, n, 0)
         /\ k = 0 /\ n < s + Window[r] => Covers(G, n, r, c + 1, s, 1)
         /\ k = 0 /\ n < MaxNow => Covers(G, n + 1, r, c, s, 0)
<1>1. n \in Nat /\ Window[r] \in Nat /\ Window[r] > 0 /\ s <= n
  BY RateAssumption DEF RateAssumption, Counted, Covers
<1>2. PICK g \in 0..s : /\ Total(G) + k <= c + Until(G, g)
                        /\ Until(G, g) <= Cap[Default][r] + Until(G, Earlier(g, Window[r]))
  BY DEF Covers
<1>3. g \in 0..n /\ Until(G, g) \in Nat /\ Total(G) \in Nat
      /\ Until(G, n + Window[r]) = Total(G)
  <2>1. g \in Nat /\ n + Window[r] \in Nat /\ n + Window[r] > n
    BY <1>1, <1>2
  <2> QED
    BY <1>1, <1>2, <2>1, UntilGrows
<1>4. Total(G) + 0 <= c + Until(G, g) /\ (k = 0 => Total(G) + 1 <= (c + 1) + Until(G, g))
  BY <1>2, <1>3
<1> QED
  BY <1>1, <1>2, <1>3, <1>4 DEF Covers

LEMMA GrantCounted ==
  ASSUME NEW G, NEW n, Counted(G, n)
  PROVE  /\ Counted(Grant(G, n), n) /\ Total(Grant(G, n)) = Total(G) + 1
         /\ \A t \in Nat : Until(Grant(G, n), t) = Until(G, t) + (IF t > n THEN 1 ELSE 0)
<1> DEFINE D == 0..(MaxNow + 1)
           H == Grant(G, n)
<1>1. MaxNow \in Nat /\ n \in 0..MaxNow /\ G \in [D -> Nat]
  BY RateAssumption DEF RateAssumption, Counted
<1>2. H \in [D -> Nat] /\ \A t \in D : H[t] = G[t] + (IF t > n THEN 1 ELSE 0)
  BY <1>1 DEF Grant
<1>3. Total(H) = Total(G) + 1
  BY <1>1, <1>2 DEF Total
<1>4. \A t \in Nat : Until(H, t) = Until(G, t) + (IF t > n THEN 1 ELSE 0)
  BY <1>1, <1>2 DEF Until, Smaller
<1>5. \A s, t \in D : s <= t => H[s] <= H[t]
  <2> SUFFICES ASSUME NEW s \in D, NEW t \in D, s <= t PROVE H[s] <= H[t]
    OBVIOUS
  <2>1. G[s] <= G[t] /\ G[s] \in Nat /\ G[t] \in Nat
    BY <1>1 DEF Counted
  <2>2. s \in Nat /\ t \in Nat /\ n \in Nat
    BY <1>1
  <2> HIDE DEF H, D
  <2>3. /\ H[s] = G[s] + (IF s > n THEN 1 ELSE 0)
        /\ H[t] = G[t] + (IF t > n THEN 1 ELSE 0)
    BY <1>2
  <2>4. s > n => t > n
    BY <2>2
  <2> QED
    BY <2>1, <2>3, <2>4
<1>6. \A t \in (n + 1)..(MaxNow + 1) : H[t] = Total(H)
  <2> SUFFICES ASSUME NEW t \in (n + 1)..(MaxNow + 1) PROVE H[t] = Total(H)
    OBVIOUS
  <2>1. G[t] = Total(G) /\ t \in D /\ t > n
    BY <1>1 DEF Counted
  <2> HIDE DEF H
  <2> QED
    BY <1>2, <1>3, <2>1
<1> QED
  BY <1>1, <1>2, <1>3, <1>4, <1>5, <1>6 DEF Counted

(* The request that was counted is served.                                 *)
LEMMA GrantCovers ==
  ASSUME NEW G, NEW n, Counted(G, n), NEW r \in Periods, NEW c \in Nat, NEW s \in Nat,
         Covers(G, n, r, c, s, 1)
  PROVE  Covers(Grant(G, n), n, r, c, s, 0)
<1> DEFINE H == Grant(G, n)
           w == Window[r]
<1>1. PICK g \in 0..s : /\ Total(G) + 1 <= c + Until(G, g)
                        /\ Until(G, g) <= Cap[Default][r] + Until(G, Earlier(g, w))
  BY DEF Covers
<1>2. n \in Nat /\ w \in Nat /\ s <= n /\ n < s + w /\ g \in Nat /\ g <= n
      /\ Earlier(g, w) \in Nat /\ Earlier(g, w) <= n /\ s + w \in Nat
  BY <1>1, RateAssumption DEF RateAssumption, Counted, Covers, Earlier
<1>3. /\ Until(H, g) = Until(G, g) + 0 /\ Until(H, Earlier(g, w)) = Until(G, Earlier(g, w)) + 0
      /\ Until(H, s + w) = Until(G, s + w) + 1 /\ Total(H) = Total(G) + 1
  <2>1. ~(g > n) /\ ~(Earlier(g, w) > n) /\ s + w > n
    BY <1>2
  <2> QED
    BY <1>2, <2>1, GrantCounted
<1>4. Until(G, g) \in Nat /\ Until(G, Earlier(g, w)) \in Nat /\ Total(G) \in Nat
  BY <1>2, UntilGrows
<1> QED
  BY <1>1, <1>2, <1>3, <1>4 DEF Covers

(* It keeps the bound on every interval of a window's length.              *)
LEMMA GrantKeepsQuota ==
  ASSUME NEW G, NEW n, Counted(G, n), NEW r \in Periods, NEW c \in Nat, NEW s \in Nat,
         Covers(G, n, r, c, s, 1), c <= Cap[Default][r], NEW t \in 0..MaxNow,
         Until(G, t + Window[r]) <= 2 * Cap[Default][r] + Until(G, t)
  PROVE  Until(Grant(G, n), t + Window[r]) <= 2 * Cap[Default][r] + Until(Grant(G, n), t)
<1> DEFINE H == Grant(G, n)
           w == Window[r]
           C == Cap[Default][r]
           D == 2 * C
<1>1. PICK g \in 0..s : /\ Total(G) + 1 <= c + Until(G, g)
                        /\ Until(G, g) <= C + Until(G, Earlier(g, w))
  BY DEF Covers
<1>2. /\ n \in Nat /\ w \in Nat /\ C \in Nat /\ s <= n /\ g \in Nat /\ g <= n
      /\ t \in Nat /\ t + w \in Nat
  <2>1. n \in Nat /\ w \in Nat /\ C \in Nat /\ t \in Nat
    BY RateAssumption DEF RateAssumption, Counted
  <2>2. s <= n /\ n \in Nat
    BY <2>1 DEF Covers
  <2> HIDE DEF w, C
  <2> QED
    BY <1>1, <2>1, <2>2
<1> HIDE DEF w
<1>3. Earlier(g, w) \in Nat /\ (n < t + w => Earlier(g, w) <= t)
  BY <1>2 DEF Earlier
<1>4. D = C + C
  BY <1>2
<1> HIDE DEF C, D
<1>5. /\ Until(G, g) \in Nat /\ Until(G, t) \in Nat /\ Until(G, Earlier(g, w)) \in Nat
      /\ Total(G) \in Nat /\ Until(G, t + w) \in Nat /\ Until(G, t + w) <= Total(G)
      /\ g <= t => Until(G, g) <= Until(G, t)
      /\ Earlier(g, w) <= t => Until(G, Earlier(g, w)) <= Until(G, t)
  BY <1>2, <1>3, UntilGrows
<1>6. /\ Until(H, t) = Until(G, t) + (IF t > n THEN 1 ELSE 0)
      /\ Until(H, t + w) = Until(G, t + w) + (IF t + w > n THEN 1 ELSE 0)
  BY <1>2, GrantCounted
<1>7. Until(G, t + w) <= D + Until(G, t) /\ c <= C
  BY DEF C, D, w
<1> HIDE DEF H
<1>8. CASE t > n
  <2>1. t + w > n
    BY <1>2, <1>8
  <2>2. Until(H, t) = Until(G, t) + 1 /\ Until(H, t + w) = Until(G, t + w) + 1
    BY <1>6, <1>8, <2>1
  <2> QED
    BY <1>2, <1>4, <1>5, <1>7, <2>2 DEF C, D, w, H
<1>9. CASE t + w <= n
  <2>1. ~(t > n) /\ ~(t + w > n)
    BY <1>2, <1>9
  <2>2. Until(H, t) = Until(G, t) + 0 /\ Until(H, t + w) = Until(G, t + w) + 0
    BY <1>6, <2>1
  <2>3. Until(H, t) = Until(G, t) /\ Until(H, t + w) = Until(G, t + w)
    BY <1>5, <2>2
  <2> QED
    BY <1>7, <2>3 DEF C, D, w, H
<1>10. CASE t <= n /\ n < t + w
  <2>1. Total(G) + 1 <= D + Until(G, t)
    <3>1. CASE g <= t
      BY <1>1, <1>2, <1>4, <1>5, <1>7, <3>1
    <3>2. CASE t < g
      BY <1>1, <1>2, <1>3, <1>4, <1>5, <1>7, <1>10, <3>2
    <3> QED
      BY <1>2, <3>1, <3>2
  <2>2. Until(H, t) = Until(G, t) + 0 /\ Until(H, t + w) = Until(G, t + w) + 1
    BY <1>2, <1>6, <1>10
  <2>3. Until(H, t + w) <= D + Until(H, t)
    <3> HIDE DEF w
    <3> QED
      BY <1>2, <1>4, <1>5, <2>1, <2>2
  <2> QED
    BY <2>3 DEF C, D, w, H
<1> QED
  BY <1>2, <1>8, <1>9, <1>10

(* The counters of a user, or that there are none, cover G.                *)
CountersCover(G, n, b, k) ==
  /\ Until(G, b.lastActivity + 1) = Total(G)
  /\ \A r \in Short : Covers(G, n, r, b.count[r], b.start[r], k)

NothingRecent(G, n) ==
  \A r \in Short : Until(G, Earlier(n, Window[r])) = Total(G)

Remembers(G, n, b, k) ==
  IF b = None THEN NothingRecent(G, n) ELSE CountersCover(G, n, b, k)

(* The request of u that is counted and not served yet.                    *)
Debt(u) == IF serving = u THEN 1 ELSE 0

Limits ==
  /\ granted \in [Users -> [0..(MaxNow + 1) -> Nat]]
  /\ \A u \in Users : Counted(granted[u], now)

MemoryCovers ==
  up => \A u \in Users : Remembers(granted[u], now, buckets[u], Debt(u))

(* The row of the default profile for period r in the table st.            *)
RowCovers(G, n, st, r) ==
  IF st[Default][r] = None THEN Total(G) = 0
  ELSE Covers(G, n, r, st[Default][r].count, st[Default][r].start, 0)

TablesCover ==
  \A u \in Users, r \in Short : RowCovers(granted[u], now, stateDb[u], r)

WriteCovers(w) ==
  w.table = "state" /\ w.period \in Short =>
    Covers(granted[w.user], now, w.period, w.row.count, w.row.start, Debt(w.user))

RowsCover == \A i \in 1..Len(writes) : WriteCovers(writes[i])

(* The rows still to be saved, and those saved, are the counters of the    *)
(* user whose request they let through.                                    *)
OwnRows ==
  /\ buckets[serving] # None
  /\ buckets[serving].lastActivity = now
  /\ \A i \in 1..Len(writes) :
       \E r \in Periods : writes[i] = StateRow(serving, buckets[serving], r)
  /\ \A r \in Periods :
       \/ \E i \in 1..Len(writes) :
            writes[i] = StateRow(serving, buckets[serving], r)
       \/ stateDb[serving][Default][r] =
            [count |-> buckets[serving].count[r], start |-> buckets[serving].start[r]]

ServingSaves ==
  /\ ~up => writes = <<>>
  /\ writes = <<>> => serving = None
  /\ serving # None => reply = None /\ OwnRows

QuotaInv ==
  /\ RateInv
  /\ Limits /\ QuotaKept
  /\ MemoryCovers /\ TablesCover /\ RowsCover /\ ServingSaves

(* Every user has the one profile.                                         *)
LEMMA OnlyDefault ==
  ASSUME OneProfile, RateInv
  PROVE  /\ \A u \in Users : /\ ProfileOf(u) = Default /\ profileDb[u] \in {Default, None}
                             /\ buckets[u] # None => Sound(buckets[u], Default)
         /\ \A b, p : Sound(b, p) /\ p \in Profiles => p = Default
<1>1. \A u \in Users : profiles[u] \in {Default, None} /\ profileDb[u] \in {Default, None}
  BY DEF OneProfile, RateInv, TypeOK
<1>2. \A u \in Users : ProfileOf(u) = Default
  BY <1>1 DEF ProfileOf
<1>3. \A u \in Users : buckets[u] # None => Sound(buckets[u], Default)
  BY <1>2 DEF RateInv, TypeOK, WithinCapacity, BucketsFollowProfile, Sound
<1> QED
  BY <1>1, <1>2, <1>3 DEF OneProfile

LEMMA RecentOfNone ==
  ASSUME NEW G, NEW n, Counted(G, n), Total(G) = 0
  PROVE  NothingRecent(G, n)
<1> SUFFICES ASSUME NEW r \in Short PROVE Until(G, Earlier(n, Window[r])) = Total(G)
  BY DEF NothingRecent
<1>1. Earlier(n, Window[r]) \in Nat
  BY RateAssumption DEF RateAssumption, Counted, Short, Earlier
<1> QED
  BY <1>1, UntilGrows

(* New counters of a user nothing was served to recently.                  *)
LEMMA FreshRemembers ==
  ASSUME now \in Nat, NEW G, Counted(G, now), NothingRecent(G, now)
  PROVE  CountersCover(G, now, Fresh(Default), 0)
<1>1. \A r \in Short : r \in Periods /\ Covers(G, now, r, 0, now, 0)
  BY FreshCovers DEF NothingRecent, Short
<1>2. Until(G, now + 1) = Total(G)
  BY UntilGrows
<1> QED
  BY <1>1, <1>2 DEF CountersCover, Fresh

(* Counters evicted are those of a user nothing was served to recently.    *)
LEMMA EvictedRemembers ==
  ASSUME now \in Nat, NEW G, Counted(G, now), NEW b \in Counters, NEW k,
         CountersCover(G, now, b, k), now - b.lastActivity > TTL
  PROVE  NothingRecent(G, now)
<1> SUFFICES ASSUME NEW r \in Short PROVE Until(G, Earlier(now, Window[r])) = Total(G)
  BY DEF NothingRecent
<1> DEFINE e == Earlier(now, Window[r])
           a == b.lastActivity + 1
<1>1. Window[r] \in Nat /\ Window[r] <= TTL /\ TTL \in Nat /\ b.lastActivity \in Nat
  BY RateAssumption DEF RateAssumption, Short, Counters
<1>2. e \in Nat /\ a \in Nat /\ a <= e
  BY <1>1 DEF Earlier
<1>3. Until(G, a) = Total(G)
  BY DEF CountersCover
<1> HIDE DEF e, a
<1>4. Until(G, a) <= Until(G, e) /\ Until(G, e) <= Total(G)
      /\ Until(G, e) \in Nat /\ Total(G) \in Nat
  BY <1>2, UntilGrows
<1> QED
  BY <1>3, <1>4 DEF e

(* A refresh of some windows.                                              *)
LEMMA RefreshRemembers ==
  ASSUME now \in Nat, NEW G, Counted(G, now), NEW b, Sound(b, Default), NEW S,
         CountersCover(G, now, b, 0)
  PROVE  CountersCover(G, now, Refreshed(b, S), 0)
<1> DEFINE f == Refreshed(b, S)
<1>1. ASSUME NEW r \in Short
      PROVE  Covers(G, now, r, f.count[r], f.start[r], 0)
  <2>1. r \in Periods /\ b.count[r] \in Nat /\ b.start[r] \in Nat
        /\ b.count[r] <= Cap[Default][r] /\ Covers(G, now, r, b.count[r], b.start[r], 0)
    BY <1>1 DEF Short, Sound, Counters, CountersCover
  <2>2. CASE r \in S /\ WindowOver(b.start[r], r)
    <3>1. f.count[r] = 0 /\ f.start[r] = now
      BY <2>1, <2>2 DEF Refreshed, Sound, Counters
    <3>2. Covers(G, now, r, 0, now, 0)
      BY <2>1, <2>2, ResetCovers DEF WindowOver
    <3> QED
      BY <3>1, <3>2
  <2>3. CASE ~(r \in S /\ WindowOver(b.start[r], r))
    <3>1. f.count[r] = b.count[r] /\ f.start[r] = b.start[r]
      BY <2>1, <2>3 DEF Refreshed, Sound, Counters
    <3> QED
      BY <2>1, <3>1
  <2> QED
    BY <2>2, <2>3
<1>2. f.lastActivity = b.lastActivity
  BY DEF Refreshed, Sound, Counters
<1> QED
  BY <1>1, <1>2 DEF CountersCover

(* What a check finds, when no handler is running.                         *)
LEMMA FoundRemembers ==
  ASSUME OneProfile, QuotaInv, Idle
  PROVE  \A v \in Users : /\ Remembers(granted[v], now, Remaining[v], 0)
                          /\ CountersCover(granted[v], now, Touched(v), 0)
                          /\ Touched(v).lastActivity = now
                          /\ Sound(Touched(v), Default)
<1> SUFFICES ASSUME NEW v \in Users
             PROVE  /\ Remembers(granted[v], now, Remaining[v], 0)
                    /\ CountersCover(granted[v], now, Touched(v), 0)
                    /\ Touched(v).lastActivity = now
                    /\ Sound(Touched(v), Default)
  OBVIOUS
<1> DEFINE G == granted[v]
<1>1. now \in Nat /\ Counted(G, now) /\ RateInv /\ up /\ serving = None
      /\ buckets \in [Users -> Counters \cup {None}]
  BY DEF QuotaInv, RateInv, TypeOK, Limits, Idle, ServingSaves
<1>2. Remembers(G, now, buckets[v], 0)
  BY <1>1, RateAssumption DEF QuotaInv, MemoryCovers, Debt, RateAssumption
<1>3. Remembers(G, now, Remaining[v], 0)
  <2>1. CASE buckets[v] # None /\ now - buckets[v].lastActivity > TTL
    <3>1. Remaining[v] = None /\ buckets[v] \in Counters
      BY <1>1, <2>1 DEF Remaining
    <3>2. NothingRecent(G, now)
      BY <1>1, <1>2, <2>1, <3>1, EvictedRemembers DEF Remembers
    <3> QED
      BY <3>1, <3>2 DEF Remembers
  <2>2. CASE ~(buckets[v] # None /\ now - buckets[v].lastActivity > TTL)
    BY <1>2, <2>2 DEF Remaining
  <2> QED
    BY <2>1, <2>2
<1>4. Sound(Touched(v), Default)
  BY <1>1, TouchedSound, OnlyDefault
<1>5. ProfileOf(v) = Default
  BY <1>1, OnlyDefault
<1> HIDE DEF G
<1>6. CASE Remaining[v] = None
  <2>1. Touched(v) = Fresh(Default)
    BY <1>5, <1>6 DEF Touched
  <2>2. CountersCover(G, now, Fresh(Default), 0)
    BY <1>1, <1>3, <1>6, FreshRemembers DEF Remembers
  <2> QED
    BY <1>3, <1>4, <2>1, <2>2 DEF Fresh, G
<1>7. CASE Remaining[v] # None
  <2>1. Remaining[v] \in Counters
    BY <1>1, <1>7, TouchedSound
  <2>2. Touched(v) = [Remaining[v] EXCEPT !.lastActivity = now]
    BY <1>7 DEF Touched
  <2>3. /\ Touched(v).lastActivity = now
        /\ Touched(v).count = Remaining[v].count /\ Touched(v).start = Remaining[v].start
    BY <2>1, <2>2 DEF Counters
  <2>4. Until(G, now + 1) = Total(G)
    BY <1>1, UntilGrows
  <2>5. CountersCover(G, now, Touched(v), 0)
    BY <1>3, <1>7, <2>3, <2>4 DEF Remembers, CountersCover
  <2> QED
    BY <1>3, <1>4, <2>3, <2>5 DEF G
<1> QED
  BY <1>6, <1>7

(* A request that is admitted: its counters cover it before it is served.  *)
LEMMA AllowedRemembers ==
  ASSUME OneProfile, QuotaInv, Idle, NEW u \in Users,
         \A r \in Periods : HasRoom(Touched(u), r),
         NEW b, b = WarningsAfter(Consumed(Refreshed(Touched(u), Periods), Periods))
  PROVE  /\ CountersCover(granted[u], now, b, 1)
         /\ b.lastActivity = now
         /\ Sound(b, Default)
<1> DEFINE G == granted[u]
           t == Touched(u)
           f == Refreshed(t, Periods)
<1>1. now \in Nat /\ Counted(G, now) /\ RateInv
  BY DEF QuotaInv, RateInv, TypeOK, Limits
<1>2. CountersCover(G, now, t, 0) /\ t.lastActivity = now /\ Sound(t, Default)
  BY FoundRemembers
<1> HIDE DEF G
<1>3. CountersCover(G, now, f, 0)
  BY <1>1, <1>2, RefreshRemembers
<1>4. Sound(f, Default)
  BY <1>1, <1>2, RateAssumption, RefreshedSound DEF RateAssumption
<1>5. ASSUME NEW r \in Short
      PROVE  now < f.start[r] + Window[r]
  <2>1. r \in Periods /\ f.start[r] \in Nat /\ Window[r] \in Nat /\ Window[r] > 0
    BY <1>4, RateAssumption DEF Short, Sound, Counters, RateAssumption
  <2>2. CASE WindowOver(t.start[r], r)
    <3>1. f.start[r] = now
      BY <1>2, <2>1, <2>2 DEF Refreshed, Sound, Counters
    <3> QED
      BY <1>1, <2>1, <3>1
  <2>3. CASE ~WindowOver(t.start[r], r)
    <3>1. f.start[r] = t.start[r] /\ t.start[r] \in Nat
      BY <1>2, <2>1, <2>3 DEF Refreshed, Sound, Counters
    <3> QED
      BY <1>1, <2>1, <2>3, <3>1 DEF WindowOver
  <2> QED
    BY <2>2, <2>3
<1>6. /\ b.lastActivity = now /\ b.start = f.start
      /\ \A r \in Periods : b.count[r] = f.count[r] + 1
  <2>1. f.lastActivity = now
    BY <1>2 DEF Refreshed, Sound, Counters
  <2> HIDE DEF f
  <2>2. f \in Counters
    BY <1>4 DEF Sound
  <2>3. Consumed(f, Periods) = [f EXCEPT !.count = [r \in Periods |-> f.count[r] + 1]]
    BY <2>2 DEF Consumed, Counters
  <2> DEFINE c == Consumed(f, Periods)
  <2>4. c.lastActivity = now /\ c.start = f.start
        /\ c.count = [r \in Periods |-> f.count[r] + 1]
    BY <2>1, <2>2, <2>3 DEF Counters
  <2>5. /\ WarningsAfter(c).lastActivity = c.lastActivity
        /\ WarningsAfter(c).start = c.start /\ WarningsAfter(c).count = c.count
    <3>1. c \in [profile : Profiles, count : [Periods -> Nat], start : [Periods -> Nat],
                 lastActivity : Nat, warned : [Periods -> BOOLEAN]]
      BY <2>2, <2>3 DEF Counters
    <3> HIDE DEF c
    <3> QED
      BY <3>1 DEF WarningsAfter
  <2> QED
    BY <2>4, <2>5 DEF f
<1>7. Until(G, now + 1) = Total(G)
  BY <1>1, UntilGrows
<1>8. ASSUME NEW r \in Short
      PROVE  Covers(G, now, r, b.count[r], b.start[r], 1)
  <2>1. r \in Periods /\ f.count[r] \in Nat /\ f.start[r] \in Nat
    BY <1>4 DEF Short, Sound, Counters
  <2>2. Covers(G, now, r, f.count[r], f.start[r], 0)
    BY <1>3, <1>8 DEF CountersCover
  <2> HIDE DEF f
  <2>3. Covers(G, now, r, f.count[r] + 1, f.start[r], 1)
    BY <1>1, <1>5, <1>8, <2>1, <2>2, StillCovers
  <2> QED
    BY <1>6, <2>1, <2>3
<1>9. Sound(b, Default)
  BY <1>1, AllowedSound, OnlyDefault
<1> QED
  BY <1>6, <1>7, <1>8, <1>9 DEF CountersCover, G

(* A switch to the profile in force begins windows that keep the counts.   *)
LEMMA SwitchRemembers ==
  ASSUME OneProfile, QuotaInv, Idle, NEW u \in Users,
         NEW b, b = IF buckets[u] = None THEN Fresh(Default)
                    ELSE CarryOver(buckets[u], Default)
  PROVE  /\ CountersCover(granted[u], now, b, 0)
         /\ Sound(b, Default)
<1> DEFINE G == granted[u]
           o == buckets[u]
<1>1. now \in Nat /\ Counted(G, now) /\ RateInv /\ up /\ serving = None
  BY DEF QuotaInv, RateInv, TypeOK, Limits, Idle, ServingSaves
<1>2. Remembers(G, now, o, 0)
  BY <1>1, RateAssumption DEF QuotaInv, MemoryCovers, Debt, RateAssumption
<1>3. Default \in Profiles
  BY RateAssumption DEF RateAssumption
<1> HIDE DEF G
<1>4. CASE o = None
  <2>1. CountersCover(G, now, Fresh(Default), 0) /\ Sound(Fresh(Default), Default)
    BY <1>1, <1>2, <1>3, <1>4, FreshRemembers, FreshSound DEF Remembers
  <2> QED
    BY <1>4, <2>1 DEF G
<1>5. CASE o # None
  <2>1. Sound(o, Default) /\ CountersCover(G, now, o, 0)
    BY <1>1, <1>2, <1>5, OnlyDefault DEF Remembers
  <2>2. b = CarryOver(o, Default)
    BY <1>5
  <2> HIDE DEF o
  <2>3. Sound(b, Default)
    BY <1>1, <1>3, <2>1, <2>2, CarryOverSound
  <2>4. b.lastActivity = now /\ \A r \in Periods : b.start[r] = now /\ b.count[r] = Used(o, r)
    <3>1. ASSUME NEW r \in Periods
          PROVE  Smaller(Used(o, r), Cap[Default][r]) = Used(o, r)
      BY <2>1, <1>3, RateAssumption DEF Smaller, Used, Sound, Counters, RateAssumption
    <3> QED
      BY <2>2, <3>1 DEF CarryOver, Fresh
  <2>5. ASSUME NEW r \in Short
        PROVE  Covers(G, now, r, b.count[r], b.start[r], 0)
    <3>1. r \in Periods /\ o.count[r] \in Nat /\ o.start[r] \in Nat
          /\ o.count[r] <= Cap[Default][r] /\ Covers(G, now, r, o.count[r], o.start[r], 0)
      BY <2>1, <2>5 DEF Short, Sound, Counters, CountersCover
    <3>2. CASE WindowOver(o.start[r], r)
      <4>1. Covers(G, now, r, 0, now, 0)
        BY <1>1, <3>1, <3>2, ResetCovers DEF WindowOver
      <4> QED
        BY <2>4, <3>1, <3>2, <4>1 DEF Used
    <3>3. CASE ~WindowOver(o.start[r], r)
      <4>1. Covers(G, now, r, o.count[r], now, 0)
        BY <1>1, <3>1, StillCovers
      <4> QED
        BY <2>4, <3>1, <3>3, <4>1 DEF Used
    <3> QED
      BY <3>2, <3>3
  <2>6. Until(G, now + 1) = Total(G)
    BY <1>1, UntilGrows
  <2> QED
    BY <2>3, <2>4, <2>5, <2>6 DEF CountersCover, G
<1> QED
  BY <1>4, <1>5

(* The counters read from the tables.                                      *)
LEMMA RestoredRemembers ==
  ASSUME OneProfile, QuotaInv, NEW u \in Users
  PROVE  Remembers(granted[u], now, Restored(u), 0)
<1> DEFINE G == granted[u]
           row(r) == stateDb[u][Default][r]
<1>1. now \in Nat /\ Counted(G, now) /\ RateInv
  BY DEF QuotaInv, RateInv, TypeOK, Limits
<1>2. \A r \in Short : RowCovers(G, now, stateDb[u], r)
  BY DEF QuotaInv, TablesCover
<1>3. \A r \in Periods : row(r) # None => row(r) \in Saved /\ row(r).count <= Cap[Default][r]
  BY <1>1, RateAssumption DEF RateInv, TypeOK, WithinCapacity, RateAssumption
<1>4. (IF profileDb[u] = None THEN Default ELSE profileDb[u]) = Default
  BY <1>1, OnlyDefault
<1> DEFINE valid == {r \in Periods : row(r) # None /\ ~WindowOver(row(r).start, r)}
           b == [Fresh(Default) EXCEPT
                   !.count = [r \in Periods |-> IF r \in valid THEN row(r).count ELSE 0],
                   !.start = [r \in Periods |-> IF r \in valid THEN row(r).start ELSE now]]
<1>5. Restored(u) = IF \A q \in Profiles, r \in Periods : stateDb[u][q][r] = None
                    THEN None ELSE b
  BY <1>4 DEF Restored
<1> HIDE DEF G
<1>6. ASSUME NEW r \in Short
      PROVE  Covers(G, now, r, b.count[r], b.start[r], 0)
  <2>1. r \in Periods
    BY <1>6 DEF Short
  <2>2. CASE row(r) = None
    <3>1. NothingRecent(G, now)
      BY <1>1, <1>2, <1>6, <2>2, RecentOfNone DEF RowCovers
    <3>2. Covers(G, now, r, 0, now, 0)
      BY <1>1, <1>6, <2>1, <3>1, FreshCovers DEF NothingRecent
    <3> QED
      BY <2>1, <2>2, <3>2 DEF Fresh
  <2>3. CASE row(r) # None
    <3>1. row(r).count \in Nat /\ row(r).start \in Nat /\ row(r).count <= Cap[Default][r]
          /\ Covers(G, now, r, row(r).count, row(r).start, 0)
      BY <1>2, <1>3, <1>6, <2>1, <2>3 DEF RowCovers, Saved
    <3>2. CASE WindowOver(row(r).start, r)
      <4>1. Covers(G, now, r, 0, now, 0)
        BY <1>1, <2>1, <3>1, <3>2, ResetCovers DEF WindowOver
      <4> QED
        BY <2>1, <3>2, <4>1 DEF Fresh
    <3>3. CASE ~WindowOver(row(r).start, r)
      BY <2>1, <2>3, <3>1, <3>3 DEF Fresh
    <3> QED
      BY <3>2, <3>3
  <2> QED
    BY <2>2, <2>3
<1>7. b.lastActivity = now
  BY DEF Fresh
<1>8. CountersCover(G, now, b, 0)
  <2>1. Until(G, now + 1) = Total(G)
    BY <1>1, UntilGrows
  <2> HIDE DEF b
  <2> QED
    BY <1>6, <1>7, <2>1 DEF CountersCover
<1> QED
  <2>1. CASE Restored(u) # None
    BY <1>5, <1>8, <2>1 DEF Remembers, G
  <2>2. CASE Restored(u) = None
    <3>1. \A r \in Periods : row(r) = None
      <4>1. b # None
        <5>1. b \in Counters
          BY <1>1, <1>3, RateAssumption DEF Fresh, Counters, Saved, RateAssumption
        <5> QED
          BY <5>1, RateAssumption DEF RateAssumption, Counters
      <4> QED
        BY <1>5, <2>2, <4>1 DEF OneProfile
    <3>2. NothingRecent(G, now)
      <4> SUFFICES ASSUME NEW r \in Short PROVE NothingRecent(G, now)
        BY DEF NothingRecent
      <4>1. Total(G) = 0
        BY <1>2, <3>1 DEF RowCovers, Short
      <4> QED
        BY <1>1, <4>1, RecentOfNone
    <3> QED
      BY <2>2, <3>2 DEF Remembers, G
  <2> QED
    BY <2>1, <2>2

LEMMA InitQuota ==
  ASSUME OneProfile, HInit
  PROVE  QuotaInv
<1>1. RateInv
  BY InitInv DEF HInit
<1>2. now = 0 /\ MaxNow \in Nat /\ 0 \in 0..MaxNow /\ \A r \in Periods : Cap[Default][r] \in Nat
  BY RateAssumption DEF HInit, Init, RateAssumption
<1>3. ASSUME NEW u \in Users
      PROVE  Counted(granted[u], now) /\ Total(granted[u]) = 0
             /\ \A t \in 0..(MaxNow + 1) : granted[u][t] = 0
  <2>1. granted[u] = [t \in 0..(MaxNow + 1) |-> 0]
    BY DEF HInit
  <2> QED
    BY <1>2, <2>1 DEF Counted, Total
<1>4. Limits
  BY <1>3 DEF Limits, HInit
<1>5. QuotaKept
  <2> SUFFICES ASSUME NEW u \in Users, NEW r \in Periods, NEW t \in 0..MaxNow
               PROVE  ServedFrom(u, r, t) <= 2 * Cap[Default][r]
    BY DEF QuotaKept, AtMostTwice
  <2>1. Smaller(t + Window[r], MaxNow + 1) \in 0..(MaxNow + 1) /\ t \in 0..(MaxNow + 1)
    BY <1>2, RateAssumption DEF Smaller, RateAssumption
  <2>2. ServedFrom(u, r, t) = 0
    BY <1>3, <2>1 DEF ServedFrom
  <2>3. Cap[Default][r] \in Nat
    BY <1>2
  <2> QED
    BY <2>2, <2>3
<1>6. TablesCover
  BY <1>3, RateAssumption DEF TablesCover, RowCovers, HInit, Init, RateAssumption, Short
<1>7. MemoryCovers /\ RowsCover /\ ServingSaves
  BY DEF MemoryCovers, RowsCover, ServingSaves, HInit, Init
<1> QED
  BY <1>1, <1>4, <1>5, <1>6, <1>7 DEF QuotaInv

LEMMA PersistRows ==
  ASSUME NEW u, NEW b
  PROVE  /\ \A i \in 1..Len(Persist(u, b)) :
              \E r \in Periods : Persist(u, b)[i] = StateRow(u, b, r)
         /\ \A r \in Periods :
              \E i \in 1..Len(Persist(u, b)) : Persist(u, b)[i] = StateRow(u, b, r)
<1>1. Len(Persist(u, b)) = 3 /\ 1..3 = {1, 2, 3}
  BY DEF Persist
<1>2. /\ Persist(u, b)[1] = StateRow(u, b, "minute")
      /\ Persist(u, b)[2] = StateRow(u, b, "hour")
      /\ Persist(u, b)[3] = StateRow(u, b, "day")
  BY DEF Persist
<1>3. Periods = {"minute", "hour", "day"}
  BY DEF Periods
<1> QED
  BY <1>1, <1>2, <1>3

(* A step that serves nothing and saves nothing.                           *)
LEMMA NothingServed ==
  ASSUME QuotaInv, RecordGrants, \A u \in Users : ~Served(u)
  PROVE  /\ granted' = granted
         /\ UNCHANGED now => Limits' /\ QuotaKept'
         /\ UNCHANGED <<now, stateDb>> => TablesCover'
<1>1. granted' = [u \in Users |-> granted[u]]
  BY DEF RecordGrants
<1>2. granted' = granted
  BY <1>1 DEF QuotaInv, Limits
<1>3. UNCHANGED now => Limits'
  BY <1>2 DEF QuotaInv, Limits
<1>4. QuotaKept'
  BY <1>2 DEF QuotaInv, QuotaKept, AtMostTwice, ServedFrom
<1>5. UNCHANGED <<now, stateDb>> => TablesCover'
  BY <1>2 DEF QuotaInv, TablesCover
<1> QED
  BY <1>2, <1>3, <1>4, <1>5

(* A handler that has run: what it leaves in memory, and the rows it saves.*)
LEMMA HandlerQuota ==
  ASSUME OneProfile, QuotaInv, RateInv', Idle, up', UNCHANGED <<stateDb, now, granted>>,
         Limits', QuotaKept', TablesCover',
         NEW u \in Users, NEW b, Sound(b, Default), buckets'[u] = b,
         NEW k \in {0, 1}, CountersCover(granted[u], now, b, k),
         \A v \in Users \ {u} : Remembers(granted[v], now, buckets'[v], 0),
         \/ writes' = <<>> /\ serving' = None /\ k = 0
         \/ /\ writes' = Persist(u, b) /\ serving' = u /\ reply' = None /\ k = 1
            /\ b.lastActivity = now
         \/ writes' = <<ProfileRow(u, Default)>> \o Persist(u, b) /\ serving' = None /\ k = 0
  PROVE  QuotaInv'
<1>1. None \notin Users /\ b # None
  BY RateAssumption DEF RateAssumption, Sound, Counters
<1>2. \A v \in Users : Debt(v)' = IF v = u THEN k ELSE 0
  BY <1>1 DEF Debt
<1>3. MemoryCovers'
  <2> SUFFICES ASSUME NEW v \in Users
               PROVE  Remembers(granted[v], now, buckets'[v], Debt(v)')
    BY DEF MemoryCovers
  <2>1. CASE v = u
    BY <1>1, <1>2, <2>1 DEF Remembers
  <2>2. CASE v # u
    BY <1>2, <2>2
  <2> QED
    BY <2>1, <2>2
<1>4. ASSUME NEW r \in Periods
      PROVE  WriteCovers(StateRow(u, b, r))'
  <2>1. /\ StateRow(u, b, r).table = "state" /\ StateRow(u, b, r).period = r
        /\ StateRow(u, b, r).user = u /\ StateRow(u, b, r).row.count = b.count[r]
        /\ StateRow(u, b, r).row.start = b.start[r]
    BY DEF StateRow
  <2>2. r \in Short => Covers(granted[u], now, r, b.count[r], b.start[r], k)
    BY DEF CountersCover
  <2> QED
    BY <1>2, <2>1, <2>2 DEF WriteCovers
<1>5. \A i \in 1..Len(Persist(u, b)) : WriteCovers(Persist(u, b)[i])'
  BY <1>4, PersistRows
<1>6. CASE writes' = <<>> /\ serving' = None /\ k = 0
  <2>1. RowsCover' /\ ServingSaves'
    BY <1>6 DEF RowsCover, ServingSaves
  <2> QED
    BY <1>3, <2>1 DEF QuotaInv
<1>7. CASE /\ writes' = Persist(u, b) /\ serving' = u /\ reply' = None /\ k = 1
           /\ b.lastActivity = now
  <2>1. RowsCover'
    BY <1>5, <1>7 DEF RowsCover
  <2>2. OwnRows'
    BY <1>1, <1>7, PersistRows DEF OwnRows
  <2>3. writes' # <<>>
    BY <1>7 DEF Persist
  <2>4. ServingSaves'
    BY <1>7, <2>2, <2>3 DEF ServingSaves
  <2> QED
    BY <1>3, <2>1, <2>4 DEF QuotaInv
<1>8. CASE /\ writes' = <<ProfileRow(u, Default)>> \o Persist(u, b)
           /\ serving' = None /\ k = 0
  <2> DEFINE x == Persist(u, b)
             y == ProfileRow(u, Default)
  <2>1. x \in Seq(ProfileRows \cup StateRows) /\ Len(x) = 3
    BY RateAssumption, PersistFit DEF RateAssumption
  <2>2. writes' = <<y>> \o x
    BY <1>8
  <2> HIDE DEF x, y
  <2>3. y \in ProfileRows \cup StateRows
    BY RateAssumption DEF y, ProfileRow, ProfileRows, RateAssumption
  <2>4. writes'[1] = y /\ Len(writes') = 4 /\ \A i \in 2..4 : writes'[i] = x[i - 1]
    <3> DEFINE z == <<y>>
    <3>1. z \in Seq(ProfileRows \cup StateRows) /\ Len(z) = 1 /\ z[1] = y
      BY <2>3
    <3> HIDE DEF z
    <3>2. /\ Len(z \o x) = 4 /\ (z \o x)[1] = z[1]
          /\ \A i \in 2..4 : (z \o x)[i] = x[i - 1]
      <4>1. \A i \in 1 .. Len(z) + Len(x) :
              (z \o x)[i] = IF i <= Len(z) THEN z[i] ELSE x[i - Len(z)]
        BY <2>1, <3>1, ConcatProperties
      <4>2. Len(z \o x) = Len(z) + Len(x)
        BY <2>1, <3>1, ConcatProperties
      <4>3. \A i \in 2..4 : i \in 1..4 /\ ~(i <= 1)
        OBVIOUS
      <4>4. (z \o x)[1] = z[1]
        BY <2>1, <3>1, <4>1
      <4> QED
        BY <2>1, <3>1, <4>1, <4>2, <4>3, <4>4
    <3> QED
      BY <2>2, <3>1, <3>2 DEF z
  <2>5. WriteCovers(writes[1])'
    BY <2>4 DEF WriteCovers, ProfileRow, y
  <2>6. ASSUME NEW i \in 2..4
        PROVE  WriteCovers(writes[i])'
    <3>1. WriteCovers(x[i - 1])'
      BY <1>5, <2>1 DEF x
    <3> QED
      BY <2>4, <3>1 DEF WriteCovers
  <2>7. RowsCover'
    BY <2>4, <2>5, <2>6 DEF RowsCover
  <2>8. ServingSaves'
    BY <1>8 DEF ServingSaves
  <2> QED
    BY <1>3, <2>7, <2>8 DEF QuotaInv
<1> QED
  BY <1>6, <1>7, <1>8

(* What a saved row leaves in the tables, before the request is served.    *)
LEMMA SavedRowCovers ==
  ASSUME OneProfile, QuotaInv, SaveRow
  PROVE  \A u \in Users, r \in Short : RowCovers(granted[u], now, stateDb'[u], r)
<1> DEFINE w == writes[1]
<1>1. /\ writes \in Seq(ProfileRows \cup StateRows) /\ writes # <<>>
      /\ stateDb \in [Users -> [Profiles -> [Periods -> Saved \cup {None}]]]
      /\ 1 \in 1..Len(writes) /\ Head(writes) = w /\ w \in ProfileRows \cup StateRows
  BY DEF QuotaInv, RateInv, TypeOK, SaveRow
<1> SUFFICES ASSUME NEW u \in Users, NEW r \in Short
             PROVE  RowCovers(granted[u], now, stateDb'[u], r)
  OBVIOUS
<1>2. RowCovers(granted[u], now, stateDb[u], r) /\ r \in Periods
  BY DEF QuotaInv, TablesCover, Short
<1>3. CASE w.table = "profile"
  <2>1. stateDb' = stateDb
    BY <1>1, <1>3 DEF SaveRow
  <2> QED
    BY <1>2, <2>1
<1>4. CASE w.table # "profile"
  <2>1. w \in StateRows /\ w.table = "state"
    BY <1>1, <1>4 DEF ProfileRows, StateRows
  <2>2. w.user \in Users /\ w.profile = Default /\ w.period \in Periods /\ w.row \in Saved
    BY <2>1 DEF StateRows, OneProfile
  <2>3. stateDb' = [stateDb EXCEPT ![w.user][Default][w.period] = w.row]
    BY <1>1, <1>4, <2>2 DEF SaveRow
  <2>4. Default \in Profiles
    BY RateAssumption DEF RateAssumption
  <2>5. CASE w.user = u /\ w.period = r
    <3>1. stateDb'[u][Default][r] = w.row
      BY <1>1, <1>2, <2>2, <2>3, <2>4, <2>5
    <3>2. Covers(granted[u], now, r, w.row.count, w.row.start, Debt(u))
      BY <1>1, <2>1, <2>5 DEF QuotaInv, RowsCover, WriteCovers
    <3>3. w.row.count \in Nat /\ w.row.start \in Nat /\ Debt(u) \in {0, 1} /\ w.row # None
      BY <2>2, RateAssumption DEF Saved, Debt, RateAssumption
    <3>4. Counted(granted[u], now)
      BY DEF QuotaInv, Limits
    <3>5. Covers(granted[u], now, r, w.row.count, w.row.start, 0)
      BY <1>2, <3>2, <3>3, <3>4, StillCovers
    <3> QED
      BY <3>1, <3>3, <3>5 DEF RowCovers
  <2>6. CASE ~(w.user = u /\ w.period = r)
    <3>1. stateDb'[u][Default][r] = stateDb[u][Default][r]
      BY <1>1, <1>2, <2>2, <2>3, <2>4, <2>6
    <3> QED
      BY <1>2, <3>1 DEF RowCovers
  <2> QED
    BY <2>5, <2>6
<1> QED
  BY <1>3, <1>4

(* The rows left, and those saved, are still those of the user served.     *)
LEMMA OwnRowsStay ==
  ASSUME OneProfile, QuotaInv, SaveRow, serving # None
  PROVE  /\ \A i \in 1..Len(writes') : writes'[i] = writes[i + 1] /\ i + 1 \in 1..Len(writes)
         /\ \A r \in Periods :
              \/ \E i \in 1..Len(writes') :
                   writes'[i] = StateRow(serving, buckets[serving], r)
              \/ stateDb'[serving][Default][r] =
                   [count |-> buckets[serving].count[r],
                    start |-> buckets[serving].start[r]]
<1> DEFINE w == writes[1]
           b == buckets[serving]
           row(r) == [count |-> b.count[r], start |-> b.start[r]]
<1>1. /\ writes \in Seq(ProfileRows \cup StateRows) /\ writes # <<>>
      /\ stateDb \in [Users -> [Profiles -> [Periods -> Saved \cup {None}]]]
      /\ Head(writes) = w /\ writes' = Tail(writes) /\ serving \in Users
  BY DEF QuotaInv, RateInv, TypeOK, SaveRow
<1>2. /\ Len(writes') = Len(writes) - 1 /\ Len(writes) \in Nat /\ 1 \in 1..Len(writes)
      /\ \A i \in 1..Len(writes') : writes'[i] = writes[i + 1] /\ i + 1 \in 1..Len(writes)
  BY <1>1
<1>3. OwnRows
  BY DEF QuotaInv, ServingSaves
<1>4. PICK p \in Periods : w = StateRow(serving, b, p)
  BY <1>2, <1>3 DEF OwnRows
<1>5. b # None /\ Sound(b, Default)
  BY <1>1, <1>3, OnlyDefault DEF OwnRows, QuotaInv
<1>6. stateDb' = [stateDb EXCEPT ![serving][Default][p] = row(p)]
  <2>1. w.table = "state" /\ w.user = serving /\ w.profile = Default /\ w.period = p
        /\ w.row = row(p)
    BY <1>4, <1>5 DEF StateRow, Sound
  <2> QED
    BY <1>1, <2>1 DEF SaveRow
<1> HIDE DEF w, b
<1>7. ASSUME NEW r \in Periods
      PROVE  \/ \E i \in 1..Len(writes') : writes'[i] = StateRow(serving, b, r)
             \/ stateDb'[serving][Default][r] = row(r)
  <2>1. CASE r = p
    BY <1>1, <1>6, <2>1, RateAssumption DEF RateAssumption
  <2>2. CASE r # p
    <3>1. stateDb'[serving][Default][r] = stateDb[serving][Default][r]
      BY <1>1, <1>6, <2>2, RateAssumption DEF RateAssumption
    <3>2. CASE stateDb[serving][Default][r] = row(r)
      BY <3>1, <3>2
    <3>3. CASE \E i \in 1..Len(writes) : writes[i] = StateRow(serving, b, r)
      <4>1. PICK i \in 1..Len(writes) : writes[i] = StateRow(serving, b, r)
        BY <3>3
      <4>2. i # 1
        <5>1. StateRow(serving, b, r).period = r /\ StateRow(serving, b, p).period = p
          BY DEF StateRow
        <5> QED
          BY <1>4, <2>2, <4>1, <5>1 DEF w
      <4>3. i - 1 \in 1..Len(writes') /\ (i - 1) + 1 = i
        BY <1>2, <4>2
      <4> QED
        BY <1>2, <4>1, <4>3
    <3> QED
      BY <1>3, <3>2, <3>3 DEF OwnRows, b
  <2> QED
    BY <2>1, <2>2
<1> QED
  BY <1>2, <1>7 DEF b

(* A row is saved and the request waits for the others.                    *)
LEMMA WaitQuota ==
  ASSUME OneProfile, QuotaInv, RateInv', SaveRow, RecordGrants,
         ~(serving # None /\ Tail(writes) = <<>>)
  PROVE  QuotaInv'
<1>1. /\ UNCHANGED <<now, buckets>> /\ up /\ up' /\ serving' = serving /\ writes' = Tail(writes)
      /\ Tail(writes) # <<>> => reply' = reply
      /\ writes \in Seq(ProfileRows \cup StateRows) /\ writes # <<>>
      /\ serving = None => reply' = reply
  BY DEF SaveRow, memory, QuotaInv, RateInv, TypeOK
<1>2. \A u \in Users : ~Served(u)
  BY <1>1, RateAssumption DEF Served, QuotaInv, ServingSaves, RateAssumption
<1>3. granted' = granted /\ Limits' /\ QuotaKept'
  BY <1>1, <1>2, NothingServed
<1>4. TablesCover'
  BY <1>1, <1>3, SavedRowCovers DEF TablesCover
<1>5. \A u \in Users : Debt(u)' = Debt(u)
  BY <1>1 DEF Debt
<1>6. MemoryCovers'
  BY <1>1, <1>3, <1>5 DEF MemoryCovers, QuotaInv
<1>7. RowsCover'
  <2>1. \A i \in 1..Len(writes') : writes'[i] = writes[i + 1] /\ i + 1 \in 1..Len(writes)
    BY <1>1
  <2> SUFFICES ASSUME NEW i \in 1..Len(writes') PROVE WriteCovers(writes[i])'
    BY DEF RowsCover
  <2> DEFINE x == writes[i + 1]
  <2>2. WriteCovers(x) /\ writes'[i] = x
    BY <2>1 DEF QuotaInv, RowsCover
  <2>3. x.user \in Users \/ x.table # "state"
    <3>1. x \in ProfileRows \cup StateRows
      BY <1>1, <2>1
    <3> HIDE DEF x
    <3> QED
      BY <3>1 DEF ProfileRows, StateRows
  <2> HIDE DEF x
  <2> QED
    BY <1>1, <1>3, <1>5, <2>2, <2>3 DEF WriteCovers
<1>8. ServingSaves'
  <2>1. CASE serving = None
    BY <1>1, <2>1 DEF ServingSaves
  <2>2. CASE serving # None
    <3>1. writes' # <<>> /\ reply' = None
      BY <1>1, <2>2 DEF QuotaInv, ServingSaves
    <3>2. OwnRows'
      <4>1. OwnRows
        BY <2>2 DEF QuotaInv, ServingSaves
      <4>2. \A i \in 1..Len(writes') :
              \E r \in Periods : writes'[i] = StateRow(serving, buckets[serving], r)
        BY <2>2, <4>1, OwnRowsStay DEF OwnRows
      <4> QED
        BY <1>1, <2>2, <4>1, <4>2, OwnRowsStay DEF OwnRows
    <3> QED
      BY <1>1, <3>1, <3>2 DEF ServingSaves
  <2> QED
    BY <2>1, <2>2
<1> QED
  BY <1>3, <1>4, <1>6, <1>7, <1>8 DEF QuotaInv

(* The last row is saved and the request served.                           *)
LEMMA ServeQuota ==
  ASSUME OneProfile, QuotaInv, RateInv', SaveRow, RecordGrants,
         serving # None, Tail(writes) = <<>>
  PROVE  QuotaInv'
<1> DEFINE u == serving
           G == granted[u]
           H == Grant(G, now)
           b == buckets[u]
<1>1. /\ UNCHANGED <<now, buckets, profiles>> /\ up /\ up' /\ serving' = None /\ writes' = <<>>
      /\ reply' = "allowed" /\ u \in Users /\ now \in Nat
  BY DEF SaveRow, memory, QuotaInv, RateInv, TypeOK
<1>2. Counted(G, now) /\ b # None /\ b.lastActivity = now /\ Sound(b, Default)
  BY <1>1, OnlyDefault DEF QuotaInv, Limits, ServingSaves, OwnRows
<1>3. ProfileOf(u) # Unlimited
  BY <1>1, OnlyDefault DEF OneProfile, QuotaInv
<1>4. granted' = [v \in Users |-> IF v = u THEN H ELSE granted[v]]
  BY <1>1, <1>3 DEF RecordGrants, Served, Grant
<1>5. CountersCover(G, now, b, 1)
  BY <1>1, <1>2 DEF QuotaInv, MemoryCovers, Remembers, Debt
<1> HIDE DEF u, G, b
<1>6. ASSUME NEW r \in Short
      PROVE  /\ r \in Periods /\ b.count[r] \in Nat /\ b.start[r] \in Nat
             /\ b.count[r] <= Cap[Default][r]
             /\ Covers(G, now, r, b.count[r], b.start[r], 1)
             /\ Covers(H, now, r, b.count[r], b.start[r], 0)
  <2>1. /\ r \in Periods /\ b.count[r] \in Nat /\ b.start[r] \in Nat
        /\ b.count[r] <= Cap[Default][r]
    BY <1>2, <1>6 DEF Short, Sound, Counters
  <2>2. Covers(G, now, r, b.count[r], b.start[r], 1)
    BY <1>5, <1>6 DEF CountersCover
  <2> QED
    BY <1>2, <2>1, <2>2, GrantCovers
<1>7. /\ Counted(H, now) /\ Until(H, now + 1) = Total(H) /\ granted'[u] = H
      /\ \A v \in Users \ {u} : granted'[v] = granted[v]
  <2>1. Counted(H, now)
    BY <1>2, GrantCounted
  <2> HIDE DEF H
  <2>2. Until(H, now + 1) = Total(H)
    BY <1>1, <2>1, UntilGrows
  <2> QED
    BY <1>1, <1>4, <2>1, <2>2
<1> HIDE DEF H
<1>8. Limits'
  BY <1>1, <1>4, <1>7 DEF Limits, QuotaInv, Counted
<1>9. MemoryCovers'
  <2> SUFFICES ASSUME NEW v \in Users
               PROVE  Remembers(granted'[v], now, buckets[v], 0)
    BY <1>1, RateAssumption DEF MemoryCovers, Debt, RateAssumption
  <2>1. CASE v = u
    BY <1>2, <1>6, <1>7, <2>1 DEF Remembers, CountersCover, b
  <2>2. CASE v # u
    BY <1>1, <1>7, <2>2 DEF QuotaInv, MemoryCovers, Debt, u
  <2> QED
    BY <2>1, <2>2
<1>10. TablesCover'
  <2> SUFFICES ASSUME NEW v \in Users, NEW r \in Short
               PROVE  RowCovers(granted'[v], now, stateDb'[v], r)
    BY <1>1 DEF TablesCover
  <2>1. CASE v = u
    <3>1. stateDb'[u][Default][r] = [count |-> b.count[r], start |-> b.start[r]]
      BY <1>1, <1>6, OwnRowsStay DEF u, b
    <3>2. stateDb'[u][Default][r] # None
      BY <1>6, <3>1, RateAssumption DEF RateAssumption
    <3> QED
      BY <1>6, <1>7, <2>1, <3>1, <3>2 DEF RowCovers
  <2>2. CASE v # u
    BY <1>7, <2>2, SavedRowCovers
  <2> QED
    BY <2>1, <2>2
<1>11. QuotaKept'
  <2> SUFFICES ASSUME NEW v \in Users, NEW r \in Short, NEW t \in 0..MaxNow
               PROVE  ServedFrom(v, r, t)' <= 2 * Cap[Default][r]
    BY DEF QuotaKept, AtMostTwice, Short
  <2>1. ServedFrom(v, r, t) <= 2 * Cap[Default][r] /\ r \in Periods
    BY DEF QuotaInv, QuotaKept, AtMostTwice, Short
  <2>2. CASE v = u
    <3> DEFINE w == Window[r]
               D == 2 * Cap[Default][r]
    <3>1. MaxNow \in Nat /\ w \in Nat /\ t \in Nat /\ t + w \in Nat /\ D \in Nat
          /\ Smaller(t, MaxNow + 1) = t
      BY <2>1, RateAssumption DEF RateAssumption, Smaller
    <3>2. granted[v] = G /\ granted'[v] = H
      BY <1>7, <2>2 DEF G
    <3>3. /\ ServedFrom(v, r, t) = Until(G, t + w) - Until(G, t)
          /\ ServedFrom(v, r, t)' = Until(H, t + w) - Until(H, t)
      BY <3>1, <3>2 DEF ServedFrom, Until
    <3> HIDE DEF w, D
    <3>4. /\ Until(G, t + w) \in Nat /\ Until(G, t) \in Nat
          /\ Until(H, t + w) \in Nat /\ Until(H, t) \in Nat
      BY <1>2, <1>7, <3>1, UntilGrows
    <3>5. ServedFrom(v, r, t) <= D
      BY <2>1 DEF D
    <3>6. Until(G, t + w) <= D + Until(G, t)
      BY <3>1, <3>3, <3>4, <3>5
    <3>7. Until(H, t + w) <= D + Until(H, t)
      BY <1>2, <1>6, <3>6, GrantKeepsQuota DEF H, D, w
    <3>8. ServedFrom(v, r, t)' <= D
      BY <3>1, <3>3, <3>4, <3>7
    <3> QED
      BY <3>8 DEF D
  <2>3. CASE v # u
    <3>1. granted'[v] = granted[v]
      BY <1>7, <2>3
    <3>2. ServedFrom(v, r, t)' = ServedFrom(v, r, t)
      BY <3>1 DEF ServedFrom
    <3> QED
      BY <2>1, <3>2
  <2> QED
    BY <2>2, <2>3
<1>12. RowsCover' /\ ServingSaves'
  BY <1>1 DEF RowsCover, ServingSaves
<1> QED
  BY <1>8, <1>9, <1>10, <1>11, <1>12 DEF QuotaInv

(* What is left by steps that change neither the counters nor the rows.    *)
LEMMA TickQuota ==
  ASSUME OneProfile, QuotaInv, RateInv', Tick, RecordGrants
  PROVE  QuotaInv'
<1>1. /\ UNCHANGED <<up, buckets, stateDb, writes, serving, reply>> /\ writes = <<>>
      /\ now' = now + 1 /\ now < MaxNow /\ now \in Nat /\ serving = None /\ MaxNow \in Nat
  BY RateAssumption DEF Tick, memory, disk, QuotaInv, RateInv, TypeOK, ServingSaves, RateAssumption
<1>2. \A u \in Users : ~Served(u)
  BY <1>1, RateAssumption DEF Served, RateAssumption
<1>3. granted' = granted /\ QuotaKept'
  <2>1. granted' = granted
    BY <1>2, NothingServed
  <2> QED
    BY <2>1 DEF QuotaInv, QuotaKept, AtMostTwice, ServedFrom
<1>4. ASSUME NEW u \in Users
      PROVE  Counted(granted[u], now) /\ Counted(granted[u], now + 1)
  <2>1. Counted(granted[u], now)
    BY DEF QuotaInv, Limits
  <2>2. now + 1 \in 0..MaxNow
    BY <1>1
  <2>3. \A t \in ((now + 1) + 1)..(MaxNow + 1) : t \in (now + 1)..(MaxNow + 1)
    BY <1>1
  <2> QED
    BY <2>1, <2>2, <2>3 DEF Counted
<1>5. Limits'
  BY <1>1, <1>3, <1>4 DEF Limits, QuotaInv
<1>6. ASSUME NEW u \in Users, NEW r \in Short, NEW c \in Nat, NEW s \in Nat,
             Covers(granted[u], now, r, c, s, 0)
      PROVE  Covers(granted[u], now + 1, r, c, s, 0)
  <2>1. r \in Periods
    BY DEF Short
  <2> QED
    BY <1>1, <1>4, <1>6, <2>1, StillCovers
<1>7. MemoryCovers'
  <2> SUFFICES ASSUME up, NEW u \in Users
               PROVE  Remembers(granted[u], now + 1, buckets[u], 0)
    BY <1>1, <1>3, RateAssumption DEF MemoryCovers, Debt, RateAssumption
  <2>1. Remembers(granted[u], now, buckets[u], 0)
    BY <1>1, RateAssumption DEF QuotaInv, MemoryCovers, Debt, RateAssumption
  <2>2. CASE buckets[u] = None
    <3> SUFFICES ASSUME NEW r \in Short
                 PROVE  Until(granted[u], Earlier(now + 1, Window[r])) = Total(granted[u])
      BY <2>2 DEF Remembers, NothingRecent
    <3> DEFINE e == Earlier(now, Window[r])
               f == Earlier(now + 1, Window[r])
    <3>1. e \in Nat /\ f \in Nat /\ e <= f
      BY <1>1, RateAssumption DEF RateAssumption, Short, Earlier
    <3>2. Until(granted[u], e) = Total(granted[u])
      BY <2>1, <2>2 DEF Remembers, NothingRecent
    <3> HIDE DEF e, f
    <3>3. /\ Until(granted[u], e) <= Until(granted[u], f)
          /\ Until(granted[u], f) <= Total(granted[u])
          /\ Until(granted[u], f) \in Nat /\ Total(granted[u]) \in Nat
      BY <1>4, <3>1, UntilGrows
    <3> QED
      BY <3>2, <3>3 DEF f
  <2>3. CASE buckets[u] # None
    <3>1. Sound(buckets[u], Default)
      BY <2>3, OnlyDefault DEF QuotaInv
    <3>2. \A r \in Short : buckets[u].count[r] \in Nat /\ buckets[u].start[r] \in Nat
      BY <3>1 DEF Sound, Counters, Short
    <3> QED
      BY <1>6, <2>1, <2>3, <3>2 DEF Remembers, CountersCover
  <2> QED
    BY <2>2, <2>3
<1>8. TablesCover'
  <2> SUFFICES ASSUME NEW u \in Users, NEW r \in Short
               PROVE  RowCovers(granted[u], now + 1, stateDb[u], r)
    BY <1>1, <1>3 DEF TablesCover
  <2>1. RowCovers(granted[u], now, stateDb[u], r)
    BY DEF QuotaInv, TablesCover
  <2>2. stateDb[u][Default][r] \in Saved \cup {None}
    BY RateAssumption DEF QuotaInv, RateInv, TypeOK, RateAssumption, Short
  <2> QED
    BY <1>6, <2>1, <2>2 DEF RowCovers, Saved
<1>9. RowsCover' /\ ServingSaves'
  BY <1>1 DEF RowsCover, ServingSaves
<1> QED
  BY <1>3, <1>5, <1>7, <1>8, <1>9 DEF QuotaInv

LEMMA FailureQuota ==
  ASSUME OneProfile, QuotaInv, RateInv', SaveFails, RecordGrants
  PROVE  QuotaInv'
<1>1. /\ UNCHANGED <<up, now, buckets, stateDb, reply>> /\ writes' = <<>> /\ serving' = None
      /\ up
  BY DEF SaveFails, memory, disk
<1>2. \A u \in Users : ~Served(u)
  BY <1>1, RateAssumption DEF Served, QuotaInv, ServingSaves, RateAssumption
<1>3. granted' = granted /\ Limits' /\ QuotaKept' /\ TablesCover'
  BY <1>1, <1>2, NothingServed
<1>4. MemoryCovers'
  <2> SUFFICES ASSUME NEW u \in Users
               PROVE  Remembers(granted[u], now, buckets[u], 0)
    BY <1>1, <1>3, RateAssumption DEF MemoryCovers, Debt, RateAssumption
  <2>1. Remembers(granted[u], now, buckets[u], Debt(u)) /\ Debt(u) \in {0, 1}
        /\ Counted(granted[u], now)
    BY <1>1 DEF QuotaInv, MemoryCovers, Debt, Limits
  <2>2. CASE buckets[u] = None
    BY <2>1, <2>2 DEF Remembers
  <2>3. CASE buckets[u] # None
    <3>1. Sound(buckets[u], Default)
      BY <2>3, OnlyDefault DEF QuotaInv
    <3>2. \A r \in Short : r \in Periods /\ buckets[u].count[r] \in Nat
                           /\ buckets[u].start[r] \in Nat
      BY <3>1 DEF Sound, Counters, Short
    <3>3. \A r \in Short :
            Covers(granted[u], now, r, buckets[u].count[r], buckets[u].start[r], 0)
      BY <2>1, <2>3, <3>2, StillCovers DEF Remembers, CountersCover
    <3> QED
      BY <2>1, <2>3, <3>3 DEF Remembers, CountersCover
  <2> QED
    BY <2>2, <2>3
<1>5. RowsCover' /\ ServingSaves'
  BY <1>1 DEF RowsCover, ServingSaves
<1> QED
  BY <1>3, <1>4, <1>5 DEF QuotaInv

LEMMA RestartQuota ==
  ASSUME OneProfile, QuotaInv, RateInv', Crash \/ Start, RecordGrants
  PROVE  QuotaInv'
<1>1. UNCHANGED <<now, stateDb>> /\ serving' = None
  BY DEF Crash, Start, disk, QuotaInv, ServingSaves
<1>2. \A u \in Users : ~Served(u)
  BY RateAssumption DEF Crash, Start, Served, QuotaInv, ServingSaves, RateAssumption
<1>3. granted' = granted /\ Limits' /\ QuotaKept' /\ TablesCover'
  BY <1>1, <1>2, NothingServed
<1>4. CASE Crash
  <2>1. ~up' /\ writes' = <<>>
    BY <1>4 DEF Crash
  <2>2. MemoryCovers' /\ RowsCover' /\ ServingSaves'
    BY <1>1, <2>1 DEF MemoryCovers, RowsCover, ServingSaves
  <2> QED
    BY <1>3, <2>2 DEF QuotaInv
<1>5. CASE Start
  <2>1. up' /\ buckets' = [u \in Users |-> Restored(u)] /\ writes' \in Migration
    BY <1>5 DEF Start
  <2>2. MemoryCovers'
    <3>1. \A u \in Users : Debt(u)' = 0
      BY <1>1, RateAssumption DEF Debt, RateAssumption
    <3> QED
      BY <1>1, <1>3, <2>1, <3>1, RestoredRemembers DEF MemoryCovers
  <2>3. \A i \in 1..Len(writes') : writes'[i].table = "profile"
    <3>1. CASE writes' = <<>>
      BY <3>1
    <3>2. CASE writes' # <<>>
      <4> DEFINE named == {u \in Users : Legacy[u] # None}
                 rows == {ProfileRow(u, Legacy[u]) : u \in named}
      <4>1. writes' \in [1..Cardinality(named) -> rows]
        BY <2>1, <3>2 DEF Migration
      <4>2. Cardinality(named) \in Nat
        BY RateAssumption, FS_Subset, FS_CardinalityType DEF RateAssumption
      <4>3. \A x \in rows : x.table = "profile"
        BY DEF ProfileRow
      <4> HIDE DEF named, rows
      <4> QED
        BY <4>1, <4>2, <4>3
    <3> QED
      BY <3>1, <3>2
  <2>4. RowsCover' /\ ServingSaves'
    BY <1>1, <2>1, <2>3 DEF RowsCover, WriteCovers, ServingSaves
  <2> QED
    BY <1>3, <2>2, <2>4 DEF QuotaInv
<1> QED
  BY <1>4, <1>5

LEMMA StepQuota ==
  ASSUME OneProfile, QuotaInv, [Next /\ RecordGrants /\ UNCHANGED <<told, torn>>]_hvars
  PROVE  QuotaInv'
<1>1. RateInv'
  BY StepInv DEF QuotaInv, hvars
<1>2. CASE UNCHANGED hvars
  <2>1. UNCHANGED <<up, buckets, stateDb, writes, serving, reply, now, granted>>
    BY <1>2 DEF hvars, vars, memory, disk
  <2>2. Limits' /\ QuotaKept'
    BY <2>1 DEF QuotaInv, Limits, QuotaKept, AtMostTwice, ServedFrom
  <2>3. MemoryCovers' /\ TablesCover'
    BY <2>1 DEF QuotaInv, MemoryCovers, TablesCover, Debt
  <2>4. RowsCover' /\ ServingSaves'
    BY <2>1 DEF QuotaInv, RowsCover, WriteCovers, Debt, ServingSaves, OwnRows
  <2> QED
    BY <1>1, <2>2, <2>3, <2>4 DEF QuotaInv
<1>3. CASE Idle /\ Next /\ RecordGrants
  <2>1. /\ up /\ writes = <<>> /\ serving = None /\ RateInv /\ now \in Nat
        /\ buckets \in [Users -> Counters \cup {None}]
        /\ None \notin Users
    BY <1>3, RateAssumption DEF Idle, QuotaInv, ServingSaves, RateInv, TypeOK, RateAssumption
  <2>2. \A u \in Users : ~Served(u)
    BY <2>1 DEF Served
  <2>3. granted' = granted /\ (UNCHANGED now => Limits' /\ QuotaKept')
        /\ (UNCHANGED <<now, stateDb>> => TablesCover')
    BY <1>3, <2>2, NothingServed
  <2>4. \A v \in Users : /\ Remembers(granted[v], now, buckets[v], 0)
                         /\ Remembers(granted[v], now, Remaining[v], 0)
    BY <1>3, <2>1, FoundRemembers DEF QuotaInv, MemoryCovers, Debt
  <2>5. ASSUME NEW u \in Users, CheckAllowed(u)
        PROVE  QuotaInv'
    <3> DEFINE b == WarningsAfter(Consumed(Refreshed(Touched(u), Periods), Periods))
    <3>1. CountersCover(granted[u], now, b, 1) /\ b.lastActivity = now /\ Sound(b, Default)
      BY <1>3, <2>5, AllowedRemembers DEF CheckAllowed
    <3>2. /\ up' /\ UNCHANGED <<stateDb, now>> /\ serving' = u /\ reply' = None
          /\ buckets' = [Remaining EXCEPT ![u] = b] /\ writes' = Persist(u, b)
      BY <2>1, <2>5 DEF CheckAllowed, disk
    <3> HIDE DEF b
    <3>3. buckets'[u] = b /\ \A v \in Users \ {u} : buckets'[v] = Remaining[v]
      BY <2>1, <3>2, TouchedSound
    <3> QED
      BY <1>1, <1>3, <2>3, <2>4, <3>1, <3>2, <3>3, HandlerQuota
  <2>6. ASSUME NEW u \in Users, CheckDenied(u)
        PROVE  QuotaInv'
    <3>1. PICK S : /\ buckets' = [Remaining EXCEPT ![u] = Refreshed(Touched(u), S)]
                   /\ Sound(Refreshed(Touched(u), S), ProfileOf(u))
      BY <2>1, <2>6, DeniedCounters
    <3> DEFINE b == Refreshed(Touched(u), S)
    <3>2. Sound(b, Default)
      BY <2>1, <3>1, OnlyDefault
    <3>3. CountersCover(granted[u], now, b, 0)
      BY <1>3, <2>1, FoundRemembers, RefreshRemembers DEF QuotaInv, Limits
    <3>4. up' /\ UNCHANGED <<stateDb, now>> /\ serving' = None /\ writes' = <<>>
      BY <2>1, <2>6 DEF CheckDenied, disk
    <3> HIDE DEF b
    <3>5. buckets'[u] = b /\ \A v \in Users \ {u} : buckets'[v] = Remaining[v]
      BY <2>1, <3>1, TouchedSound DEF b
    <3> QED
      BY <1>1, <1>3, <2>3, <2>4, <3>2, <3>3, <3>4, <3>5, HandlerQuota
  <2>7. ASSUME NEW u \in Users, NEW p \in Profiles, SetUserProfile(u, p)
        PROVE  QuotaInv'
    <3> DEFINE b == IF buckets[u] = None THEN Fresh(Default)
                    ELSE CarryOver(buckets[u], Default)
    <3>1. p = Default
      BY DEF OneProfile
    <3>2. CountersCover(granted[u], now, b, 0) /\ Sound(b, Default)
      BY <1>3, SwitchRemembers
    <3>3. /\ up' /\ UNCHANGED <<stateDb, now>> /\ serving' = None
          /\ buckets' = [buckets EXCEPT ![u] = b]
          /\ writes' = <<ProfileRow(u, Default)>> \o Persist(u, b)
      BY <2>1, <2>7, <3>1 DEF SetUserProfile, disk
    <3> HIDE DEF b
    <3>4. buckets'[u] = b /\ \A v \in Users \ {u} : buckets'[v] = buckets[v]
      BY <2>1, <3>3
    <3> QED
      BY <1>1, <1>3, <2>3, <2>4, <3>2, <3>3, <3>4, HandlerQuota
  <2>8. ASSUME NEW u \in Users, GetUsage(u)
        PROVE  QuotaInv'
    <3> DEFINE b == Refreshed(buckets[u], Periods)
    <3>1. /\ up' /\ UNCHANGED <<stateDb, now>> /\ serving' = None /\ writes' = <<>>
          /\ buckets' = [buckets EXCEPT ![u] = b] /\ buckets[u] # None
      BY <2>1, <2>8 DEF GetUsage, disk
    <3>2. Sound(buckets[u], Default) /\ CountersCover(granted[u], now, buckets[u], 0)
      BY <2>1, <2>4, <3>1, OnlyDefault DEF Remembers
    <3>3. CountersCover(granted[u], now, b, 0)
      BY <2>1, <3>2, RefreshRemembers DEF QuotaInv, Limits
    <3>4. Sound(b, Default)
      BY <2>1, <3>2, RefreshedSound, RateAssumption DEF RateAssumption
    <3> HIDE DEF b
    <3>5. buckets'[u] = b /\ \A v \in Users \ {u} : buckets'[v] = buckets[v]
      BY <2>1, <3>1
    <3> QED
      BY <1>1, <1>3, <2>3, <2>4, <3>1, <3>3, <3>4, <3>5, HandlerQuota
  <2>9. ASSUME NEW u \in Users, NEW p \in MenuProfiles, SetRateLimit(u, p)
        PROVE  QuotaInv'
    <3>1. UNCHANGED <<up, buckets, stateDb, writes, serving, now, granted>>
      BY <2>3, <2>9 DEF SetRateLimit, memory
    <3>2. MemoryCovers' /\ RowsCover' /\ ServingSaves'
      BY <2>1, <3>1 DEF QuotaInv, MemoryCovers, RowsCover, ServingSaves, Debt
    <3> QED
      BY <1>1, <2>3, <3>1, <3>2 DEF QuotaInv
  <2>10. ASSUME NEW u \in Users
         PROVE  ~CheckUnlimited(u)
    BY <2>1, OnlyDefault DEF CheckUnlimited, OneProfile
  <2>11. ~SaveRow /\ ~SaveFails /\ ~Start
    BY <2>1 DEF SaveRow, SaveFails, Start
  <2> QED
    BY <1>1, <1>3, <2>5, <2>6, <2>7, <2>8, <2>9, <2>10, <2>11, TickQuota, RestartQuota
       DEF Next, Check
<1>4. CASE ~Idle /\ Next /\ RecordGrants
  <2>1. SaveRow \/ SaveFails \/ Crash \/ Start \/ Tick
    BY <1>4 DEF Next, Check, CheckUnlimited, CheckAllowed, CheckDenied, GetUsage,
                SetUserProfile, SetRateLimit
  <2> QED
    BY <1>1, <1>4, <2>1, WaitQuota, ServeQuota, FailureQuota, RestartQuota, TickQuota
<1> QED
  BY <1>2, <1>3, <1>4

(* No interval of one window's length sees more than twice the capacity    *)
(* served, for the windows no longer than the eviction time and the users  *)
(* of one profile, across evictions, crashes and failed saves.             *)
THEOREM QuotaIsKept ==
  ASSUME OneProfile
  PROVE  QuotaSpec => []QuotaKept
<1>1. HInit => QuotaInv
  BY InitQuota
<1>2. QuotaInv /\ [Next /\ RecordGrants /\ UNCHANGED <<told, torn>>]_hvars => QuotaInv'
  BY StepQuota
<1>3. QuotaInv => QuotaKept
  BY DEF QuotaInv
<1> QED
  BY <1>1, <1>2, <1>3, PTL DEF QuotaSpec
=============================================================================
