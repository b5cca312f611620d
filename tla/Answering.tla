------------------------------- MODULE Answering -------------------------------
(***************************************************************************)
(* A message answered without streaming: the providers of its task's chain *)
(* are asked one after the other until one answers, and the answer is      *)
(* completed with remarks and notices, kept in the right language and      *)
(* saved.  Or with streaming: one provider is asked, with the remark in    *)
(* its prompt.  The model is the user's choice (UserSettings).             *)
(*                                                                         *)
(* What a provider does is one of: it answers, with or without text;       *)
(* fails, being absent, late, limited, unreachable or reporting an error;  *)
(* or raises an exception nobody expects of a provider.                    *)
(***************************************************************************)
EXTENDS UserSettings, ProactiveTriggers

CONSTANTS
    Questions,       \* messages, as the task router reads them
    SlotPriority,    \* the slots, the first of equals first
    FallbackSlot,    \* the slot of what fits no other
    WordRange,       \* [slot -> word counts it is for]
    MinKeywords,     \* [slot -> keywords it takes without a pattern]
    Chains,          \* [slot -> AXOLENT_FALLBACK_CHAIN_<slot>, empty if not set]
    DefaultChain,    \* AXOLENT_FALLBACK_CHAIN_DEFAULT
    RouterDefault,   \* the router's default provider
    ProviderFamily,  \* [registered provider -> its models' family, or None]
    NoticeLevel,     \* user_notice_threshold
    Dates,           \* the hours at which messages come, in order
    MaxRequests      \* messages that are followed

ASSUME DatesAssumption == Dates \in Seq(Nat) \ {<<>>} /\ MaxRequests \in Nat

VARIABLES
    delivered,   \* what the last message of each user brought
    turns,       \* turns in the user's history
    requests     \* messages handled

answerVars == <<overrides, settings, clock, activity, delivered, turns, requests>>

Registered == DOMAIN ProviderFamily

\* The provider of every stream.
Streaming == "claude_persistent"

Outcomes == {"text", "empty", "failed", "raised"}

AnswerInit ==
    /\ SettingsInit
    /\ TriggerInit(Dates[1])
    /\ delivered = [u \in TriggerUsers |-> None]
    /\ turns = [u \in TriggerUsers |-> 0]
    /\ requests = 0

AnswerTypeOK ==
    /\ SettingsTypeOK /\ TriggerTypeOK
    /\ \A u \in TriggerUsers : delivered[u] # None =>
         /\ delivered[u].kind \in {"answer", "error"}
         /\ delivered[u].by \in Registered \cup {Streaming, None}
    /\ turns \in [TriggerUsers -> 0 .. 2 * MaxRequests]
    /\ requests \in 0 .. MaxRequests

-----------------------------------------------------------------------------
(* task_router.py.  A message is its number of words, the slot it begins   *)
(* with as a command (or None), the slots that know a code block in it,    *)
(* and how many patterns and keywords of each slot are found in it once    *)
(* its umlauts are restored, which the keywords are not.                   *)

SlotScore(m, s) ==
    (IF s \in m.fenced THEN 100 ELSE 0) + 3 * m.patterns[s] + m.keywords[s]

Fits(m, s) == /\ s # FallbackSlot
              /\ m.words \in WordRange[s]
              /\ m.keywords[s] >= MinKeywords[s] \/ m.patterns[s] > 0 \/ s \in m.fenced
              /\ SlotScore(m, s) > 0

classify(m) ==
    LET fitting == SelectSeq(SlotPriority, LAMBDA s : Fits(m, s))
        best == {i \in DOMAIN fitting : \A j \in DOMAIN fitting :
                    SlotScore(m, fitting[j]) <= SlotScore(m, fitting[i])}
    IN  IF m.words = 0 THEN FallbackSlot
        ELSE IF m.marker # None THEN m.marker
        ELSE IF best = {} THEN FallbackSlot ELSE fitting[Min(best)]

-----------------------------------------------------------------------------
(* fallback_resolver.py, provider_router.py *)

get_fallback_chain(slot) ==
    IF Chains[slot] # <<>> THEN Chains[slot]
    ELSE IF DefaultChain # <<>> THEN DefaultChain ELSE <<RouterDefault>>

\* A model nobody knows is let through, and so is any model for a provider
\* without a family.
model_compatible(m, p) == \/ ProviderFamily[p] = None
                          \/ m \notin VALID_MODEL_IDS
                          \/ Family[m] = ProviderFamily[p]

\* The model a provider is asked for; only the first one gets the user's.
effective_model(m, p, level) ==
    IF level = 1 /\ m # None /\ model_compatible(m, p) THEN m ELSE None

\* A name that is not registered raises at once.
OutcomeAt(chain, outcomes, i) == IF chain[i] \in Registered THEN outcomes[i] ELSE "raised"

\* The provider that did not fail ends the search, with what it did.
fallback_resolve(slot, m, outcomes) ==
    LET chain == get_fallback_chain(slot)
        ends == {i \in DOMAIN chain : OutcomeAt(chain, outcomes, i) # "failed"}
        i == Min(ends)
    IN  IF ends = {} THEN [outcome |-> "failed", by |-> None, model |-> None, notice |-> FALSE]
        ELSE IF OutcomeAt(chain, outcomes, i) = "raised"
        THEN [outcome |-> "raised", by |-> None, model |-> None, notice |-> FALSE]
        ELSE [outcome |-> outcomes[i], by |-> chain[i],
              model |-> effective_model(m, chain[i], i), notice |-> i - 1 >= NoticeLevel]

-----------------------------------------------------------------------------
(* chat_service.process_user_message *)

Failure == [kind |-> "error", by |-> None, model |-> None, notice |-> FALSE,
            remark |-> "none", text |-> None]

\* The answer's text may be replaced as a whole, remark and notice with it,
\* by the leakage guard or by a repair of its language.
Delivery(r, remark) ==
    {[kind |-> "answer", by |-> r.by, model |-> r.model, notice |-> r.notice,
      remark |-> remark, text |-> "own"],
     [kind |-> "answer", by |-> r.by, model |-> r.model, notice |-> FALSE,
      remark |-> "none", text |-> "replaced"]}

\* The model is resolved, and unusable rows are deleted, and the remark is
\* counted, before a provider is asked.
process_user_message(u, question, remembers, dated, outcomes) ==
    LET slot == classify(question)
        m == resolve_model(u, slot)
        r == fallback_resolve(slot, m, outcomes)
        said == Remarked(u, remembers, dated)
    IN  /\ requests < MaxRequests
        /\ requests' = requests + 1
        /\ ResolveForMessage(u, slot)
        /\ activity' = [activity EXCEPT ![u] = said.record]
        /\ IF r.outcome = "text"
           THEN /\ \E d \in Delivery(r, said.remark) : delivered' = [delivered EXCEPT ![u] = d]
                /\ turns' = [turns EXCEPT ![u] = @ + 2]
           ELSE /\ delivered' = [delivered EXCEPT ![u] = Failure]
                /\ UNCHANGED turns
        /\ UNCHANGED clock

\* The choice of the user is passed on whatever its family; the remark is
\* left to the provider to say.  Nothing comes after a stream that fails,
\* and one without text is not saved.
process_user_message_streaming(u, question, remembers, dated, streamed) ==
    LET slot == classify(question)
        said == Remarked(u, remembers, dated)
        r == [by |-> Streaming, model |-> resolve_model(u, slot), notice |-> FALSE]
    IN  /\ requests < MaxRequests
        /\ requests' = requests + 1
        /\ ResolveForMessage(u, slot)
        /\ activity' = [activity EXCEPT ![u] = said.record]
        /\ IF streamed
           THEN /\ \E d \in Delivery(r, "none") : delivered' = [delivered EXCEPT ![u] = d]
                /\ turns' = [turns EXCEPT ![u] = @ + 2]
           ELSE /\ delivered' = [delivered EXCEPT ![u] = Failure]
                /\ UNCHANGED turns
        /\ UNCHANGED clock

\* Time goes on to the next hour at which messages come.
TimePasses ==
    LET later == {i \in DOMAIN Dates : Dates[i] > clock}
    IN  /\ later # {}
        /\ clock' = Dates[Min(later)]
        /\ UNCHANGED <<overrides, settings, activity, delivered, turns, requests>>

\* A restart forgets the activity; what is stored stays.
RestartAnswering ==
    /\ activity' = [u \in TriggerUsers |-> UserActivityRecord]
    /\ UNCHANGED <<overrides, settings, clock, delivered, turns, requests>>

AnswerNext ==
    \/ \E u \in TriggerUsers, question \in Questions, remembers \in BOOLEAN, dated \in BOOLEAN,
         outcomes \in [1 .. Max({Len(get_fallback_chain(s)) : s \in Slots}) -> Outcomes] :
         process_user_message(u, question, remembers, dated, outcomes)
    \/ \E u \in TriggerUsers, question \in Questions, remembers \in BOOLEAN, dated \in BOOLEAN,
         streamed \in BOOLEAN :
         process_user_message_streaming(u, question, remembers, dated, streamed)
    \/ TimePasses
    \/ RestartAnswering

\* Between the messages users choose.
AnswerSpec ==
    AnswerInit /\ [][\/ AnswerNext
                     \/ SettingsNext /\ UNCHANGED <<clock, activity, delivered, turns, requests>>]_answerVars
=============================================================================
