-------------------------- MODULE RateLimiterProps --------------------------
(***************************************************************************)
(* What must hold of the rate limiter, and claims of its source that do    *)
(* not hold.                                                               *)
(***************************************************************************)
EXTENDS RateLimiter

Counters ==
  [profile : Profiles, count : [Periods -> Nat], start : [Periods -> Nat],
   lastActivity : Nat, warned : [Periods -> BOOLEAN]]

Saved == [count : Nat, start : Nat]

ProfileRows == [table : {"profile"}, user : Users, profile : Profiles]

StateRows ==
  [table : {"state"}, user : Users, profile : Profiles, period : Periods,
   row : Saved]

(* Every variable has its type.                                            *)
TypeOK ==
  /\ up \in BOOLEAN /\ jsonl \in BOOLEAN
  /\ profiles \in [Users -> Profiles \cup {None}]
  /\ profileDb \in [Users -> Profiles \cup {None}]
  /\ settings \in [Users -> Profiles \cup {None}]
  /\ buckets \in [Users -> Counters \cup {None}]
  /\ stateDb \in [Users -> [Profiles -> [Periods -> Saved \cup {None}]]]
  /\ writes \in Seq(ProfileRows \cup StateRows)
  /\ serving \in Users \cup {None}
  /\ reply \in {None, "allowed", "denied"}
  /\ now \in Nat

(* No counter passes the capacity of its profile, in memory, in a row to   *)
(* be saved or on disk, through switches of profile, restores and rolled   *)
(* back checks.                                                            *)
WithinCapacity ==
  /\ \A u \in Users : buckets[u] # None =>
       \A r \in Periods : buckets[u].count[r] <= Cap[buckets[u].profile][r]
  /\ \A u \in Users, p \in Profiles, r \in Periods :
       stateDb[u][p][r] # None => stateDb[u][p][r].count <= Cap[p][r]
  /\ \A i \in 1..Len(writes) : writes[i].table = "state" =>
       writes[i].row.count <= Cap[writes[i].profile][writes[i].period]

(* "If any of them has no token, the request is denied.  Only when all     *)
(* three allow, one token is consumed from each" (561-563): what a denied  *)
(* check leaves in every window is what it found there.                    *)
DeniedConsumesNothing ==
  [][\A u \in Users : CheckDenied(u) =>
       \A r \in Periods :
         Used(buckets'[u], r) = Used(Touched(u), r)]_vars

(* The counters of a user are those of the user's current profile.         *)
BucketsFollowProfile ==
  \A u \in Users : buckets[u] # None => buckets[u].profile = ProfileOf(u)

(* Both, through every switch, restore, eviction and denied check: each    *)
(* count is one of the profile in force, and within its capacity.          *)
CountersSound == WithinCapacity /\ BucketsFollowProfile

RateInv == TypeOK /\ WithinCapacity /\ BucketsFollowProfile

-----------------------------------------------------------------------------
(* Claims of the source that the code does not keep                        *)

(* "a profile switch does not reset the user's counters to zero"           *)
(* (513-514).                                                              *)
SwitchKeepsUsage ==
  [][\A u \in Users, p \in Profiles :
       SetUserProfile(u, p) /\ buckets[u] # None =>
         \A r \in Periods :
           Used(buckets[u], r) > 0 => Used(buckets'[u], r) > 0]_vars

(* "Migrate JSONL profiles to SQLite (one-time, idempotent)" (main.py:363):*)
(* once the bot is up, every profile of the file is in the table.          *)
MigrationIsComplete ==
  Idle => \A u \in Users : Legacy[u] # None => profileDb[u] # None

(* "rate_limit_profile: overrides user_profiles when set explicitly via    *)
(* settings menu" (sqlite_storage.py:166).                                 *)
SettingsOverride ==
  \A u \in Users :
    settings[u] # None /\ buckets[u] # None => buckets[u].profile = settings[u]
=============================================================================
