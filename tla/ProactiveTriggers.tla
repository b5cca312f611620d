--------------------------- MODULE ProactiveTriggers ---------------------------
(***************************************************************************)
(* When an answer ends with an unasked remark: after a long absence, in    *)
(* the morning, late at night, on a Sunday, or because a memory mentions a *)
(* date.  Everything is kept in memory.  Time is counted in hours since a  *)
(* midnight.                                                               *)
(***************************************************************************)
EXTENDS Integers, Sequences, FiniteSets, FiniteSetsExt, SequencesExt

CONSTANTS
    TriggerUsers,           \* users, each in a chat of their own
    MAX_PROACTIVE_PER_DAY,
    MinForHours,            \* messages from which active hours are derived
    MinForPattern,          \* messages from which a habit is known
    MaxTimestamps           \* messages that are remembered

ASSUME TriggersAssumption == MAX_PROACTIVE_PER_DAY \in Nat /\ MaxTimestamps \in Nat \ {0}

VARIABLES
    clock,      \* the time in hours
    activity    \* _activity: the record of each user

triggerVars == <<clock, activity>>

\* No day and no hour.
Never == -1

\* No message is known of a user without record.
UserActivityRecord == [stamps |-> <<>>, pushes |-> 0, day |-> Never, reactive |-> Never]

TriggerInit(start) ==
    /\ clock = start
    /\ activity = [u \in TriggerUsers |-> UserActivityRecord]

TriggerTypeOK ==
    /\ clock \in Nat
    /\ \A u \in TriggerUsers :
         /\ activity[u].stamps \in Seq(0 .. clock) /\ Len(activity[u].stamps) <= MaxTimestamps
         /\ activity[u].pushes \in 0 .. MAX_PROACTIVE_PER_DAY
         /\ activity[u].reactive \in 0 .. clock \cup {Never}

-----------------------------------------------------------------------------

HourOf(t) == t % 24
DayOf(t) == t \div 24
Sunday(t) == DayOf(t) % 7 = 6

record_activity(r, t) ==
    [r EXCEPT !.stamps = IF Len(@) < MaxTimestamps THEN Append(@, t) ELSE Append(Tail(@), t)]

\* From the first to the last hour with two messages.
get_active_hours(r) ==
    LET Count(h) == Cardinality({i \in DOMAIN r.stamps : HourOf(r.stamps[i]) = h})
        hours == {h \in 0 .. 23 : Count(h) >= 2}
    IN  IF Len(r.stamps) < MinForHours \/ hours = {} THEN [start |-> 7, end |-> 23]
        ELSE [start |-> Min(hours), end |-> Max(hours)]

\* A user whose active hours begin and end with one hour has no quiet hours.
is_quiet_hours(r, t) ==
    LET active == get_active_hours(r)
    IN  active.start < active.end
        /\ (HourOf(t) >= active.end \/ HourOf(t) < active.start)

\* A new day begins with no push.
Today(r, t) == IF r.day = DayOf(t) THEN r ELSE [r EXCEPT !.pushes = 0, !.day = DayOf(t)]

can_push_proactive(r, t) == Today(r, t).pushes < MAX_PROACTIVE_PER_DAY

mark_proactive_push(r, t) == [Today(r, t) EXCEPT !.pushes = @ + 1]

\* The pause is the one before the message that was just recorded.
session_start(r, t) ==
    LET n == Len(r.stamps)
        gap == t - r.stamps[n - 1]
    IN  IF n < 2 THEN FALSE
        ELSE gap >= 72 \/ (gap >= 8 /\ HourOf(t) \in 5 .. 10)

LateNight(t) == HourOf(t) >= 23 \/ HourOf(t) < 5

\* Fewer than so many of a hundred earlier messages were like this one.
Unusual(r, Like(_), percent) ==
    LET n == Len(r.stamps) - 1
    IN  100 * Cardinality({i \in 1 .. n : Like(r.stamps[i])}) < percent * n

pattern_trigger(r, t) ==
    /\ Len(r.stamps) >= MinForPattern
    /\ \/ LateNight(t) /\ Unusual(r, LateNight, 10)
       \/ Sunday(t) /\ HourOf(t) \in 9 .. 18 /\ Unusual(r, Sunday, 5)

\* The decision with the record it leaves.
check_triggers(r, t) ==
    LET allowed == ~is_quiet_hours(r, t) /\ can_push_proactive(r, t)
        fires == allowed /\ (session_start(r, t) \/ pattern_trigger(r, t))
    IN  [fires |-> fires,
         record |-> IF fires THEN mark_proactive_push(r, t)
                    ELSE IF is_quiet_hours(r, t) THEN r ELSE Today(r, t)]

\* Asked only when memories went into the prompt; dated says that a recent
\* one mentions a date.
check_reactive_trigger(r, t, dated) ==
    LET fires == dated /\ (r.reactive = Never \/ t - r.reactive >= 2)
    IN  [fires |-> fires, record |-> IF fires THEN [r EXCEPT !.reactive = t] ELSE r]

\* A message with its effect on the record, and the remark it brings: the
\* reactive one is used up even when another remark takes its place.
Remarked(u, remembers, dated) ==
    LET seen == check_triggers(record_activity(activity[u], clock), clock)
        reactive == check_reactive_trigger(seen.record, clock, dated)
        asked == remembers /\ reactive.fires
    IN  [record |-> IF remembers THEN reactive.record ELSE seen.record,
         remark |-> IF seen.fires THEN "proactive" ELSE IF asked THEN "reactive" ELSE "none"]
=============================================================================
