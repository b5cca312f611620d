----------------------------- MODULE RateLimiter -----------------------------
(***************************************************************************)
(* The per-user rate limiter, src/bridge/application/rate_limiter.py, with *)
(* its SQLite tables, the start of the bot and the settings menu.          *)
(*                                                                         *)
(* Every user has a fixed-window counter per minute, hour and day.  A      *)
(* handler runs to its end without a suspension, so handlers do not        *)
(* interleave; but each row it saves is a transaction of its own           *)
(* (autocommit), and the program can die, or a write fail, between two.    *)
(* "writes" holds the rows the running handler has still to save.          *)
(***************************************************************************)
EXTENDS Naturals, Sequences, FiniteSets

CONSTANTS
  Users,
  Profiles,   (* names of PROFILES                                           *)
  Default,    (* DEFAULT_PROFILE                                             *)
  Unlimited,  (* the profile "unlimited"                                     *)
  Cap,        (* profile -> period -> requests per window                    *)
  Window,     (* period -> length of a window, in ticks                      *)
  TTL,        (* _EVICTION_TTL_SECONDS, in ticks                             *)
  MenuProfiles, (* profiles the /settings menu offers                        *)
  Legacy,     (* user -> profile named by data/user_profiles.jsonl, or None  *)
  MaxNow,     (* bound of the clock                                          *)
  None

Periods == {"minute", "hour", "day"}
Order == <<"minute", "hour", "day">>
Upto(i) == {Order[j] : j \in 1..i}
Before(i) == {Order[j] : j \in 1..(i - 1)}

ASSUME RateAssumption ==
  /\ IsFiniteSet(Users)
  /\ Default \in Profiles
  /\ Cap \in [Profiles -> [Periods -> Nat]]
  /\ \A r \in Periods : Unlimited \in Profiles => Cap[Unlimited][r] = 0
  /\ Window \in [Periods -> Nat \ {0}]
  /\ TTL \in Nat /\ MaxNow \in Nat
  /\ MenuProfiles \subseteq Profiles
  /\ Legacy \in [Users -> Profiles \cup {None}]
  /\ None \notin Users \cup Profiles \cup {"allowed", "denied"}
  /\ None \notin [profile : Profiles, count : [Periods -> Nat],
                  start : [Periods -> Nat], lastActivity : Nat,
                  warned : [Periods -> BOOLEAN]]
  /\ None \notin [count : Nat, start : Nat]

VARIABLES
  up,          (* the bot is running                                         *)
  profiles,    (* self._profiles                                             *)
  buckets,     (* self._users: user -> _UserBuckets, or None                 *)
  profileDb,   (* table user_profiles                                        *)
  stateDb,     (* table user_rate_limit_state                                *)
  settings,    (* user_settings.rate_limit_profile, None until it is set     *)
  jsonl,       (* data/user_profiles.jsonl exists                            *)
  writes,      (* rows the running handler, or the start, has still to save  *)
  serving,     (* the user whose request goes on once they are saved         *)
  reply,       (* what the last check told its caller                        *)
  now          (* time.monotonic() and time.time()                           *)

memory == <<profiles, buckets>>
disk == <<profileDb, stateDb, settings, jsonl>>
vars == <<up, memory, disk, writes, serving, reply, now>>

-----------------------------------------------------------------------------
(* Counters                                                                *)

ProfileOf(u) == IF profiles[u] = None THEN Default ELSE profiles[u]

Fresh(p) ==
  [profile |-> p, count |-> [r \in Periods |-> 0],
   start |-> [r \in Periods |-> now], lastActivity |-> now,
   warned |-> [r \in Periods |-> FALSE]]

WindowOver_Early(start, r) == now - start + 1 >= Window[r]
WindowOver(start, r) == now - start >= Window[r]

(* _maybe_reset_window on the counters of the periods S.                   *)
Refreshed(b, S) ==
  LET over == {r \in S : WindowOver(b.start[r], r)} IN
  [b EXCEPT !.count = [r \in Periods |-> IF r \in over THEN 0 ELSE @[r]],
            !.start = [r \in Periods |-> IF r \in over THEN now ELSE @[r]]]

Consumed(b, S) ==
  [b EXCEPT !.count = [r \in Periods |-> @[r] + (IF r \in S THEN 1 ELSE 0)]]

RolledBack_MinuteOnly(b, S) ==
  [b EXCEPT !.count = [r \in Periods |->
     IF r \in S \cap {"minute"} /\ @[r] > 0 THEN @[r] - 1 ELSE @[r]]]
RolledBack_Blind(b, S) ==
  [b EXCEPT !.count = [r \in Periods |-> @[r] - 1]]
RolledBack(b, S) ==
  [b EXCEPT !.count = [r \in Periods |->
     IF r \in S /\ @[r] > 0 THEN @[r] - 1 ELSE @[r]]]

Smaller(m, n) == IF m <= n THEN m ELSE n

(* consumed_count.                                                         *)
Used(b, r) == IF WindowOver(b.start[r], r) THEN 0 ELSE b.count[r]

(* New counters of profile p that keep the usage of the old ones.          *)
CarryOver_Uncapped(b, p) ==
  [Fresh(p) EXCEPT !.count = [r \in Periods |-> Used(b, r)]]
CarryOver(b, p) ==
  [Fresh(p) EXCEPT !.count = [r \in Periods |->
                                Smaller(Used(b, r), Cap[p][r])]]

(* The warning flags after a request was admitted: set at 70 %, taken back *)
(* below 50 %.                                                             *)
Warns(b, r) ==
  /\ ~b.warned[r] /\ Cap[b.profile][r] > 0
  /\ b.count[r] >= (7 * Cap[b.profile][r]) \div 10

WarningsAfter_Forgotten(b) ==
  [b EXCEPT !.warned = [r \in Periods |-> Warns(b, r)]]
WarningsAfter(b) ==
  [b EXCEPT !.warned = [r \in Periods |->
     /\ @[r] \/ Warns(b, r)
     /\ ~(b.count[r] < Cap[b.profile][r] \div 2)]]

-----------------------------------------------------------------------------
(* Rows                                                                    *)

ProfileRow(u, p) == [table |-> "profile", user |-> u, profile |-> p]

StateRow(u, b, r) ==
  [table |-> "state", user |-> u, profile |-> b.profile, period |-> r,
   row |-> [count |-> b.count[r], start |-> b.start[r]]]

(* _persist_user_state.                                                    *)
Persist(u, b) ==
  <<StateRow(u, b, "minute"), StateRow(u, b, "hour"), StateRow(u, b, "day")>>

-----------------------------------------------------------------------------
(* Handlers                                                                *)

Idle == up /\ writes = <<>>

(* _evict_stale.                                                           *)
Remaining ==
  [v \in Users |-> IF buckets[v] # None /\ now - buckets[v].lastActivity > TTL
                   THEN None ELSE buckets[v]]

(* The counters check_and_consume works on, touched.                       *)
Touched(u) ==
  IF Remaining[u] = None THEN Fresh(ProfileOf(u))
  ELSE [Remaining[u] EXCEPT !.lastActivity = now]

HasRoom(b, r) == Refreshed(b, {r}).count[r] < Cap[b.profile][r]

(* Period i is the first that refuses the request of u.                    *)
Refuses(u, i) ==
  /\ ~HasRoom(Touched(u), Order[i])
  /\ \A r \in Before(i) : HasRoom(Touched(u), r)

CheckUnlimited(u) ==
  /\ Idle /\ ProfileOf(u) = Unlimited
  /\ buckets' = [Remaining EXCEPT ![u] = Touched(u)]
  /\ writes' = Persist(u, Touched(u))
  /\ serving' = u /\ reply' = None
  /\ UNCHANGED <<up, profiles, disk, now>>

CheckAllowed(u) ==
  LET b == WarningsAfter(Consumed(Refreshed(Touched(u), Periods), Periods)) IN
  /\ Idle /\ ProfileOf(u) # Unlimited
  /\ \A r \in Periods : HasRoom(Touched(u), r)
  /\ buckets' = [Remaining EXCEPT ![u] = b]
  /\ writes' = Persist(u, b)
  /\ serving' = u /\ reply' = None
  /\ UNCHANGED <<up, profiles, disk, now>>

(* The periods before the one that refuses have consumed: they roll back.  *)
CheckDenied(u) ==
  /\ Idle /\ ProfileOf(u) # Unlimited
  /\ \E i \in 1..3 :
       /\ Refuses(u, i)
       /\ buckets' = [Remaining EXCEPT ![u] =
            RolledBack(Consumed(Refreshed(Touched(u), Upto(i)), Before(i)),
                       Before(i))]
  /\ reply' = "denied"
  /\ UNCHANGED <<up, profiles, disk, writes, serving, now>>

SetUserProfile(u, p) ==
  LET b == IF buckets[u] = None THEN Fresh(p) ELSE CarryOver(buckets[u], p) IN
  /\ Idle
  /\ profiles' = [profiles EXCEPT ![u] = p]
  /\ buckets' = [buckets EXCEPT ![u] = b]
  /\ writes' = <<ProfileRow(u, p)>> \o Persist(u, b)
  /\ UNCHANGED <<up, disk, serving, reply, now>>

(* consumed_count also resets the windows that are over.                   *)
GetUsage(u) ==
  /\ Idle /\ buckets[u] # None
  /\ buckets' = [buckets EXCEPT ![u] = Refreshed(@, Periods)]
  /\ UNCHANGED <<up, profiles, disk, writes, serving, reply, now>>

(* /settings, rate limit: only the row of user_settings is written.        *)
SetRateLimit(u, p) ==
  /\ Idle
  /\ settings' = [settings EXCEPT ![u] = p]
  /\ UNCHANGED <<up, memory, profileDb, stateDb, jsonl, writes, serving, reply,
                 now>>

-----------------------------------------------------------------------------
(* Saving                                                                  *)

(* One row is committed.  After the last one the request is served, or the *)
(* migrated file is renamed.                                               *)
SaveRow ==
  LET w == Head(writes) IN
  /\ up /\ writes # <<>>
  /\ IF w.table = "profile"
     THEN /\ profileDb' = [profileDb EXCEPT ![w.user] = w.profile]
          /\ UNCHANGED stateDb
     ELSE /\ stateDb' = [stateDb EXCEPT ![w.user][w.profile][w.period] = w.row]
          /\ UNCHANGED profileDb
  /\ writes' = Tail(writes)
  /\ IF Tail(writes) = <<>>
     THEN /\ jsonl' = (jsonl /\ w.table # "profile")
          /\ serving' = None
          /\ reply' = IF serving # None THEN "allowed" ELSE reply
     ELSE UNCHANGED <<jsonl, serving, reply>>
  /\ UNCHANGED <<up, memory, settings, now>>

(* SQLite raises: the handler ends, what it did in memory stays.  (In the  *)
(* migration, whose rows are profiles only, that is a Crash.)              *)
SaveFails ==
  /\ up /\ writes # <<>>
  /\ writes[Len(writes)].table = "state"
  /\ writes' = <<>> /\ serving' = None
  /\ UNCHANGED <<up, memory, disk, reply, now>>

-----------------------------------------------------------------------------
(* Crash and start                                                         *)

Crash ==
  /\ up
  /\ up' = FALSE
  /\ profiles' = [u \in Users |-> None]
  /\ buckets' = [u \in Users |-> None]
  /\ writes' = <<>> /\ serving' = None /\ reply' = None
  /\ UNCHANGED <<disk, now>>

(* _restore_from_storage: the counters of u as the tables give them.       *)
Restored_WindowRestarts(u) ==
  LET p == IF profileDb[u] = None THEN Default ELSE profileDb[u] IN
  IF \A q \in Profiles, r \in Periods : stateDb[u][q][r] = None THEN None
  ELSE [Fresh(p) EXCEPT
          !.count = [r \in Periods |->
             IF stateDb[u][p][r] = None THEN 0 ELSE stateDb[u][p][r].count]]
Restored(u) ==
  LET p == IF profileDb[u] = None THEN Default ELSE profileDb[u]
      valid == {r \in Periods :
                  /\ stateDb[u][p][r] # None
                  /\ ~WindowOver(stateDb[u][p][r].start, r)}
  IN IF \A q \in Profiles, r \in Periods : stateDb[u][q][r] = None THEN None
     ELSE [Fresh(p) EXCEPT
             !.count = [r \in Periods |->
                IF r \in valid THEN stateDb[u][p][r].count ELSE 0],
             !.start = [r \in Periods |->
                IF r \in valid THEN stateDb[u][p][r].start ELSE now]]

(* _migrate_profiles_to_sqlite: the profiles the file names, in any order, *)
(* if the table is empty.                                                  *)
Migration ==
  LET named == {u \in Users : Legacy[u] # None}
      rows == {ProfileRow(u, Legacy[u]) : u \in named}
  IN IF jsonl /\ \A u \in Users : profileDb[u] = None
     THEN {w \in [1..Cardinality(named) -> rows] :
             \A i, j \in DOMAIN w : w[i] = w[j] => i = j}
     ELSE {<<>>}

(* main: the limiter reads both tables, then the old file is migrated.     *)
Start ==
  /\ ~up
  /\ up' = TRUE
  /\ profiles' = profileDb
  /\ buckets' = [u \in Users |-> Restored(u)]
  /\ writes' \in Migration
  /\ UNCHANGED <<disk, serving, reply, now>>

Tick ==
  /\ now < MaxNow /\ writes = <<>>
  /\ now' = now + 1
  /\ UNCHANGED <<up, memory, disk, writes, serving, reply>>

-----------------------------------------------------------------------------

Init ==
  /\ up = FALSE
  /\ profiles = [u \in Users |-> None]
  /\ buckets = [u \in Users |-> None]
  /\ profileDb = [u \in Users |-> None]
  /\ stateDb = [u \in Users |-> [p \in Profiles |-> [r \in Periods |-> None]]]
  /\ settings = [u \in Users |-> None]
  /\ jsonl = (\E u \in Users : Legacy[u] # None)
  /\ writes = <<>> /\ serving = None /\ reply = None
  /\ now = 0

Check(u) == CheckUnlimited(u) \/ CheckAllowed(u) \/ CheckDenied(u)

Next ==
  \/ \E u \in Users :
       \/ Check(u)
       \/ GetUsage(u)
       \/ \E p \in Profiles : SetUserProfile(u, p)
       \/ \E p \in MenuProfiles : SetRateLimit(u, p)
  \/ SaveRow \/ SaveFails
  \/ Crash \/ Start
  \/ Tick

Spec == Init /\ [][Next]_vars
=============================================================================
