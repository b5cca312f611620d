------------------------- MODULE RateLimiterHistory -------------------------
(***************************************************************************)
(* RateLimiter with what an observer remembers of it, and properties that  *)
(* need that memory.                                                       *)
(***************************************************************************)
EXTENDS RateLimiterProps

VARIABLES
  granted,   (* user -> time -> limited requests served before that time     *)
  told,      (* user -> period -> start of the window last warned about      *)
  torn       (* <<user, table>> of the rows a failed save has left out       *)

hvars == <<vars, granted, told, torn>>

Served(u) == serving = u /\ reply' = "allowed"

(* The check sets the flag of period r, and so warns.                      *)
WarnedNow(u, r) ==
  /\ serving = None /\ serving' = u
  /\ buckets'[u].warned[r]
  /\ ~Touched(u).warned[r]

HInit ==
  /\ Init
  /\ granted = [u \in Users |-> [t \in 0..(MaxNow + 1) |-> 0]]
  /\ told = [u \in Users |-> [r \in Periods |-> None]]
  /\ torn = {}

RecordGrants ==
  granted' = [u \in Users |->
    IF Served(u) /\ ProfileOf(u) # Unlimited
    THEN [t \in 0..(MaxNow + 1) |-> granted[u][t] + (IF t > now THEN 1 ELSE 0)]
    ELSE granted[u]]

(* A switch of profile opens windows of its own.                           *)
SwitchedNow(u) ==
  \E p \in Profiles : Idle /\ up' /\ writes' # <<>>
                     /\ Head(writes') = ProfileRow(u, p)

RecordWarnings ==
  told' = [u \in Users |-> [r \in Periods |->
    IF WarnedNow(u, r) THEN buckets'[u].start[r]
    ELSE IF SwitchedNow(u) THEN None ELSE told[u][r]]]

SaveFailed == SaveFails /\ ~SaveRow

RecordFailures ==
  LET w == Head(writes) IN
  torn' = IF ~up' THEN {}
          ELSE IF SaveFailed
          THEN torn \cup {<<writes[i].user, writes[i].table>> :
                            i \in DOMAIN writes}
          ELSE IF SaveRow /\ (w.table = "profile" \/ writes' = <<>>)
          THEN torn \ {<<w.user, w.table>>}
          ELSE torn

HSpec ==
  HInit /\ [][Next /\ RecordFailures /\ UNCHANGED <<granted, told>>]_hvars

QuotaSpec ==
  HInit /\ [][Next /\ RecordGrants /\ UNCHANGED <<told, torn>>]_hvars

WarnNext == Next /\ RecordWarnings /\ UNCHANGED <<granted, torn>>

WarnSpec == HInit /\ [][WarnNext]_hvars

(* A run of the bot without a crash or a failed save.                      *)
UndisturbedSpec == HInit /\ [][WarnNext /\ ~Crash /\ ~SaveFailed]_hvars

-----------------------------------------------------------------------------

(* A restart gives back, for every user with counters in memory, the       *)
(* counts that were in force, whatever windows have been reset, rolled     *)
(* back or evicted since the last save; only a failed save excuses a       *)
(* difference.                                                             *)
RestartIsFaithful ==
  \A u \in Users :
    Idle /\ buckets[u] # None /\ torn = {} =>
      /\ Restored(u) # None
      /\ Restored(u).profile = buckets[u].profile
      /\ \A r \in Periods : Used(Restored(u), r) = Used(buckets[u], r)

(* Requests of u served in the window of period r that begins at time t.   *)
ServedFrom(u, r, t) ==
  granted[u][Smaller(t + Window[r], MaxNow + 1)] - granted[u][t]

AtMostTwice(R) ==
  \A u \in Users, r \in R, t \in 0..MaxNow :
    ServedFrom(u, r, t) <= 2 * Cap[Default][r]

(* The bound of a fixed-window limiter, for the periods no longer than the *)
(* eviction time: no interval of one window's length sees more than twice  *)
(* the capacity served, across evictions, crashes in the middle of a save, *)
(* failed saves and restarts.                                              *)
QuotaKept == AtMostTwice({r \in Periods : Window[r] <= TTL})

(* "70% warning: once per window" (line 42).                               *)
WarnedOncePerWindow ==
  [][\A u \in Users, r \in Periods :
       WarnedNow(u, r) => told[u][r] # buckets'[u].start[r]]_hvars

-----------------------------------------------------------------------------
(* Claims of the source that the code does not keep                        *)

(* "Exactly capacity requests per window" (127-128), for the day too.      *)
DayQuotaKept == AtMostTwice(Periods)

(* "User profiles for rate limiting (persistent across bot restart)"       *)
(* (sqlite_storage.py:125): the profile in force is the one stored.        *)
StoredProfileInForce ==
  Idle /\ torn = {} => profiles = profileDb
=============================================================================
