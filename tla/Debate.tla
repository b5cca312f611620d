-------------------------------- MODULE Debate --------------------------------
(***************************************************************************)
(* /debate: one question to several providers at once, their answers       *)
(* checked for their language, weighed by a judge and summed up for the    *)
(* history.  Handlers run one at a time, so there is one debate at a time; *)
(* its queries run side by side.  Every query has a chat of its own, which *)
(* a provider with a process pool keeps a subprocess for.                  *)
(*                                                                         *)
(* Queries and responses are kept in the order of the providers.  They are *)
(* sets here, of providers and of their responses, as DEBATE_PROVIDERS     *)
(* names no provider twice; Earlier is their order.                        *)
(***************************************************************************)
EXTENDS Integers, Sequences, FiniteSets, FiniteSetsExt, SequencesExt

CONSTANTS
    RouterProviders,        \* the router's providers, in its order
    Configured,        \* DEBATE_PROVIDERS, empty if it is not set
    PROVIDER_GROUPS,   \* [provider in a group -> the group]
    Pooled,            \* providers that keep subprocesses
    JudgeCandidates,   \* the providers that may judge, the best first
    WeakJudge,         \* the one whose judgement bears a warning
    MaxDebates         \* debates that are followed

\* The router's providers are the keys of a dictionary; a provider that
\* DEBATE_PROVIDERS named twice would be asked twice.
ASSUME DebateAssumption ==
    /\ MaxDebates \in Nat
    /\ \A order \in {RouterProviders, Configured} :
          order \in Seq(ToSet(order)) /\ IsInjective(order)

VARIABLES
    debate,        \* the debate under way
    subprocesses,  \* <<provider, use>>: subprocesses of a debate's chats
    remembered,    \* what the history keeps of the last debate
    held           \* debates started

debateVars == <<debate, subprocesses, remembered, held>>

Providers == ToSet(RouterProviders)

NoVerdict == [winner |-> "none", synthesis |-> FALSE, weak |-> FALSE]

NoDebate == [phase |-> "idle", queried |-> {}, waiting |-> {}, responses |-> {},
             errors |-> {}, verdict |-> NoVerdict]

DebateInit ==
    /\ debate = NoDebate
    /\ subprocesses = {}
    /\ remembered = "none"
    /\ held = 0

\* A response is its provider and whether it is in the right language.
Response(p, fits) == [from |-> p, fits |-> fits]

HistoryTexts == {"synthesis", "comparison", "answer", "nothing"}

DebateTypeOK ==
    /\ debate.phase \in {"idle", "querying", "reviewing", "done"}
    /\ debate.queried \subseteq Providers
    /\ debate.waiting \subseteq debate.queried
    /\ debate.responses \subseteq [from : debate.queried, fits : BOOLEAN]
    /\ debate.errors \subseteq debate.queried
    /\ subprocesses \subseteq Pooled \X {"query", "judge"}
    /\ remembered \in HistoryTexts \cup {"none"}
    /\ held \in 0 .. MaxDebates

-----------------------------------------------------------------------------

\* The configured order, else the router's.
Order == IF Configured = <<>> THEN RouterProviders ELSE Configured

Earlier(p, q) == \E j \in DOMAIN Order : \E i \in 1 .. j - 1 : Order[i] = p /\ Order[j] = q

\* The first of every group, and all providers that are in none.
deduplicate_providers(ps) ==
    LET grouped == ps \cap DOMAIN PROVIDER_GROUPS
    IN  {p \in ps : p \in grouped =>
           \A q \in grouped : Earlier(q, p) => PROVIDER_GROUPS[q] # PROVIDER_GROUPS[p]}

select_providers(available) == deduplicate_providers(available \cap ToSet(Order))

\* The calls of a use of a pooled provider make it a subprocess.
Spawned(ps, use) == (ps \cap Pooled) \X {use}

\* The rate limiter let the question pass and its language is resolved.
StartDebate(available) ==
    /\ debate.phase \in {"idle", "done"} /\ held < MaxDebates
    /\ LET ps == select_providers(available)
       IN  IF ps = {}
           THEN /\ debate' = [NoDebate EXCEPT !.phase = "done"]
                /\ remembered' = "nothing"
                /\ UNCHANGED subprocesses
           ELSE /\ debate' = [NoDebate EXCEPT !.phase = "querying", !.queried = ps,
                                              !.waiting = ps]
                /\ subprocesses' = subprocesses \cup Spawned(ps, "query")
                /\ UNCHANGED remembered
    /\ held' = held + 1

ProviderAnswers(p, fits) ==
    /\ p \in debate.waiting
    /\ debate' = [debate EXCEPT !.waiting = @ \ {p},
                                !.responses = @ \cup {Response(p, fits)}]
    /\ UNCHANGED <<subprocesses, remembered, held>>

\* An error, an exception or a timeout, of one provider only.  A pool may
\* have given up the subprocess by then.
ProviderFails(p) ==
    /\ p \in debate.waiting
    /\ debate' = [debate EXCEPT !.waiting = @ \ {p}, !.errors = @ \cup {p}]
    /\ subprocesses' \in {subprocesses, subprocesses \ {<<p, "query">>}}
    /\ UNCHANGED <<remembered, held>>

\* One response after the other: a response in the wrong language goes while
\* another one is left, so the last of them stays when none is in the right
\* one.  What a repair makes of it is not used.
Excluded(responses) ==
    {r \in responses : ~r.fits /\ \E q \in responses : q.fits \/ Earlier(r.from, q.from)}

\* The responses that stay are compared; a comparison is never empty.
ExcludeAndCompare ==
    /\ debate.phase = "querying" /\ debate.waiting = {}
    /\ LET out == Excluded(debate.responses)
       IN  debate' = [debate EXCEPT !.phase = "reviewing", !.responses = @ \ out,
                                    !.errors = @ \cup {r.from : r \in out}]
    /\ UNCHANGED <<subprocesses, remembered, held>>

judge_provider(available) ==
    LET can == {i \in DOMAIN JudgeCandidates : JudgeCandidates[i] \in available}
    IN  IF can = {} THEN "nobody" ELSE JudgeCandidates[Min(can)]

\* The judge names an answer, a tie or something else, with or without a
\* synthesis; or it fails, is late or cannot be parsed.
Verdicts(judge) ==
    IF judge = "nobody" THEN {NoVerdict}
    ELSE {NoVerdict} \cup
         [winner : {r.from : r \in debate.responses} \cup {"tie", "unknown"},
          synthesis : BOOLEAN, weak : {judge = WeakJudge}]

Judged(available) ==
    IF Cardinality(debate.responses) < 2 THEN "nobody" ELSE judge_provider(available)

\* A bug for TLC to find: the providers that failed are forgotten.
cleanup_debate_subprocesses_Answered(subs, ps) ==
    subs \ ({r.from : r \in debate.responses} \X {"query"})

\* Only the chats of the queries, of every provider that was asked.
cleanup_debate_subprocesses(subs, ps) == subs \ (ps \X {"query"})

\* What the history gets: a synthesis, else the comparison, else an answer.
Remembered(verdict, responses) ==
    IF verdict.synthesis THEN "synthesis"
    ELSE IF responses # {} THEN "comparison" ELSE "nothing"

Conclude(available) ==
    LET judge == Judged(available)
    IN  /\ debate.phase = "reviewing"
        /\ \E verdict \in Verdicts(judge) :
              /\ debate' = [debate EXCEPT !.phase = "done", !.verdict = verdict]
              /\ remembered' = Remembered(verdict, debate.responses)
        /\ subprocesses' = cleanup_debate_subprocesses(
                subprocesses \cup Spawned({judge} \ {"nobody"}, "judge"), debate.queried)
        /\ UNCHANGED held

\* The pool lets go of a subprocess nobody has used for a while.
PoolDropsIdle(s) ==
    /\ s \in subprocesses /\ debate.phase \in {"idle", "done"}
    /\ subprocesses' = subprocesses \ {s}
    /\ UNCHANGED <<debate, remembered, held>>

DebateNext ==
    \/ \E available \in SUBSET Providers : StartDebate(available)
    \/ \E p \in Providers, fits \in BOOLEAN : ProviderAnswers(p, fits)
    \/ \E p \in Providers : ProviderFails(p)
    \/ ExcludeAndCompare
    \/ \E available \in SUBSET Providers : Conclude(available)
    \/ \E s \in subprocesses : PoolDropsIdle(s)

DebateSpec == DebateInit /\ [][DebateNext]_debateVars
=============================================================================
