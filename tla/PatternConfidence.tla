--------------------------- MODULE PatternConfidence ---------------------------
(***************************************************************************)
(* The estimators behind a learned pattern: how sure the bot is of it      *)
(* (bkt.py), how it fares in use (elo_rating.py) and whether it is still   *)
(* remembered (fsrs_decay.py).                                             *)
(*                                                                         *)
(* A probability is a number of Unit-ths and a weight one of Tenths;       *)
(* divisions round down, as no threshold lies that close.  Stabilities are *)
(* tenths of a day and times are days.  Where the source uses powers and   *)
(* exponentials, their result is any value within the bounds it enforces.  *)
(***************************************************************************)
EXTENDS Integers, SequencesExt

CONSTANTS
    MaxHistory,     \* reviews kept for the detection of seasons
    Stabilities     \* stabilities that may be computed

Unit == 10000

Clamped(p, low, high) == IF p < low THEN low ELSE IF p > high THEN high ELSE p

-----------------------------------------------------------------------------
(* Bayesian knowledge tracing, with its default parameters in tenths       *)

DEFAULT_P_INIT == 5000
DEFAULT_P_TRANSITION == 1
DEFAULT_P_SLIP == 1
DEFAULT_P_GUESS == 2

\* Bayes' theorem; the denominator is never zero with these parameters.
Posterior(p, positive) ==
    LET known == p * (IF positive THEN 10 - DEFAULT_P_SLIP ELSE DEFAULT_P_SLIP)
        unknown == (Unit - p) * (IF positive THEN DEFAULT_P_GUESS ELSE 10 - DEFAULT_P_GUESS)
    IN (known * Unit) \div (known + unknown)

apply_transition(p) == p + ((Unit - p) * DEFAULT_P_TRANSITION) \div 10

update_bkt(p, positive) == Clamped(apply_transition(Posterior(p, positive)), 10, 9990)

\* Mutant: the way is measured from the prior, not from the belief.
update_bkt_from_prior(p, positive, weight) ==
    Clamped(p + (weight * (update_bkt(p, positive) - DEFAULT_P_INIT)) \div 10, 10, 9990)

\* A weak signal goes only part of the way; weight is in tenths.
update_bkt_weighted(p, positive, weight) ==
    LET w == Clamped(weight, 0, 10)
    IN CASE w = 0 -> p
         [] w = 10 -> update_bkt(p, positive)
         [] OTHER -> Clamped(p + (w * (update_bkt(p, positive) - p)) \div 10, 10, 9990)

-----------------------------------------------------------------------------
(* Elo ratings.  The expectation lies strictly between a loss and a win,   *)
(* so a win raises a rating by at most K, a loss lowers it by at most K,   *)
(* and a draw moves it towards the opponent's by at most half of that.     *)

INITIAL_RATING == 1500
DEFAULT_K_FACTOR == 32

update_elo(rating, difficulty, outcome) ==
    CASE outcome = "wins" -> rating .. rating + DEFAULT_K_FACTOR
      [] outcome = "loses" -> rating - DEFAULT_K_FACTOR .. rating
      [] outcome = "draw" /\ difficulty >= rating -> rating .. rating + DEFAULT_K_FACTOR \div 2
      [] outcome = "draw" /\ difficulty < rating -> rating - DEFAULT_K_FACTOR \div 2 .. rating

-----------------------------------------------------------------------------
(* Forgetting.  R(t, S) = (1 + 19/81 t/S)^-1/2, so R < 0.2 is 19 t > 1944 S. *)

ARCHIVE_DAYS == 180
MIN_REVIEWS_FOR_SEASONAL == 3
NotReviewed == -1

DefaultState == [stability |-> 23, last |-> NotReviewed, reps |-> 0, lapses |-> 0, history |-> <<>>]

\* A missing date counts as no time at all, and so does one in the future.
elapsed_days(last, day) == IF last = NotReviewed \/ day < last THEN 0 ELSE day - last

is_archive_candidate(s, day) ==
    LET t == elapsed_days(s.last, day)
    IN t >= ARCHIVE_DAYS /\ 190 * t > 1944 * s.stability

initial_stability(rating) == <<2, 12, 23, 82>>[Clamped(rating, 1, 4)]

stability_after_success(stability) == {s \in Stabilities : s >= stability}

stability_after_failure(stability) == {s \in Stabilities : s >= 1 /\ s <= stability}

\* The history keeps the newest reviews only.
Reviewed(history, day) ==
    LET all == Append(history, day)
    IN IF Len(all) > MaxHistory THEN SubSeq(all, Len(all) - MaxHistory + 1, Len(all)) ELSE all

\* The states a review on this day may lead to; rating 1 is a failure.
update_fsrs(s, rating, day) ==
    LET r == Clamped(rating, 1, 4)
        first == s.reps = 0 /\ s.lapses = 0 /\ s.last = NotReviewed
    IN {[stability |-> new,
         last |-> day,
         reps |-> IF r = 1 THEN 0 ELSE s.reps + 1,
         lapses |-> IF r = 1 THEN s.lapses + 1 ELSE s.lapses,
         history |-> Reviewed(s.history, day)] :
        new \in IF first THEN {initial_stability(r)}
                ELSE IF r = 1 THEN stability_after_failure(s.stability)
                ELSE stability_after_success(s.stability)}

create_initial_fsrs_state(rating, day) ==
    [DefaultState EXCEPT !.stability = initial_stability(rating), !.last = day, !.history = <<day>>]

\* The intervals between reviews on different days.
Intervals(history) ==
    SelectSeq([i \in 1 .. Len(history) - 1 |-> elapsed_days(history[i], history[i + 1])],
              LAMBDA d : d > 0)

SumOf(s) == FoldSeq(LAMBDA x, y : x + y, 0, s)

\* std/mean < 0.35, squared and multiplied out.
seasonal_detected(s) ==
    LET intervals == Intervals(s.history)
        n == Len(intervals)
        total == SumOf(intervals)
        squares == SumOf([i \in 1 .. n |-> intervals[i] * intervals[i]])
    IN /\ Len(s.history) >= MIN_REVIEWS_FOR_SEASONAL
       /\ n >= MIN_REVIEWS_FOR_SEASONAL - 1
       /\ 400 * (n * squares - total * total) < 49 * total * total

apply_seasonal_boost(s) ==
    IF seasonal_detected(s) THEN [s EXCEPT !.stability = (@ * 3) \div 2] ELSE s
=============================================================================
