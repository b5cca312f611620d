---------------------------- MODULE SkillContract ----------------------------
(***************************************************************************)
(* The value side of a skill contract: the metadata derived from its       *)
(* permissions, the rules that admit it to the store, the two places that  *)
(* decide what a running skill may touch, the permission gate and the      *)
(* capability broker, and how a text becomes one.  Pure definitions.       *)
(*                                                                         *)
(* A contract is abstracted to the fields these decisions read.  The       *)
(* SHA-256 checksum is the checked content itself, so it collides for no   *)
(* two contents.                                                           *)
(***************************************************************************)
EXTENDS Naturals

CONSTANTS
    None,     \* no value
    Star,     \* the wildcard "*"
    Power,    \* the scopes "*", "all", "all_chats", "root", "home"
    Learnable,       \* what /learn is given: [trigger, instruction]
    BadTriggers,     \* stopwords, commands, too short or too long
    Unsafe,          \* texts the privacy pipeline rejects
    Shortened        \* the first 40 characters of an instruction

ASSUME PowerAssumption == Star \in Power

ASSUME NoneAssumption == None \notin Nat

Off == [enabled |-> FALSE, scopes |-> {}]

NoPermissions == [tools |-> {}, memoryRead |-> {}, memoryWrite |-> {},
                  network |-> Off, file |-> Off, history |-> Off, secrets |-> FALSE]

-----------------------------------------------------------------------------
(* Derived metadata *)

HasPowerScope(scopes) == scopes \cap Power # {}

IsPlugin(p) == \/ p.network.enabled
               \/ p.file.enabled
               \/ Star \in p.tools

UsesData(p) == \/ p.memoryRead # {}
               \/ p.memoryWrite # {}
               \/ p.history.enabled

compute_package_type(p) ==
    CASE p.secrets                             -> "privileged_plugin"
      [] ~p.secrets /\ IsPlugin(p)             -> "code_plugin"
      [] ~p.secrets /\ ~IsPlugin(p) /\ p.tools # {} -> "tool_workflow"
      [] ~p.secrets /\ p.tools = {} /\ ~IsPlugin(p) /\ UsesData(p)
                                               -> "declarative_skill"
      [] OTHER                                 -> "local_skill"

IsHighRisk(p) == \/ p.secrets
                 \/ IsPlugin(p)
                 \/ p.history.enabled /\ HasPowerScope(p.history.scopes)

IsMediumRisk(p) == \/ p.tools # {}
                   \/ p.memoryWrite # {}
                   \/ Star \in p.memoryRead

compute_risk_level(p) == IF IsHighRisk(p) THEN "high"
                         ELSE IF IsMediumRisk(p) THEN "medium" ELSE "low"

\* The content a checksum covers: everything but the checksum itself.
compute_checksum(c) == [f \in DOMAIN c \ {"checksum"} |-> c[f]]

\* The fields computed just before a contract is stored.
finalize_security_metadata(c) ==
    LET derived == [c EXCEPT !.package = compute_package_type(c.permissions),
                             !.risk = compute_risk_level(c.permissions)]
    IN  [derived EXCEPT !.checksum = compute_checksum(derived)]

\* A contract as the dataclass defaults and a builder make it.
NewContract(id, name, trigger, instruction, status) ==
    [id |-> id, name |-> name, hypothesis |-> None, version |-> 1,
     mode |-> "exact_phrase", trigger |-> trigger, instruction |-> instruction,
     type |-> "llm_instruction", status |-> status, review |-> "unreviewed",
     origin |-> "local_learn", signed |-> FALSE, allowTools |-> FALSE,
     permissions |-> NoPermissions, risk |-> "unknown",
     package |-> "local_skill", checksum |-> None]

-----------------------------------------------------------------------------
(* Reading a contract from a file.  Every field of every section has a     *)
(* check that says which kinds of JSON values it admits; a field that is   *)
(* missing takes its default, and null empties a list and a section.       *)

Admits(check) ==
    CASE check = "str"         -> {"absent", "text"}
      [] check = "str or null" -> {"absent", "null", "text"}
      [] check = "bool"        -> {"absent", "bool"}
      [] check = "natural"     -> {"absent", "zero", "one", "many"}
      [] check = "positive"    -> {"absent", "one", "many"}
      [] check = "days"        -> {"absent", "null", "zero", "one", "many"}
      [] check = "unit"        -> {"absent", "zero", "half", "one"}
      [] check = "strings"     -> {"absent", "null", "strings"}
      [] check = "list"        -> {"absent", "null", "strings", "mixed"}
      [] check = "section"     -> {"absent", "null", "object"}

Root == [schema_version |-> "positive", contract_version |-> "positive", id |-> "str",
         name |-> "str", hypothesis_id |-> "str or null", created_by |-> "str",
         created_at |-> "str", updated_at |-> "str", migration_status |-> "str",
         review_status |-> "str", risk_level |-> "str", origin |-> "str",
         slots |-> "list", provider_hints |-> "list", tags |-> "strings"]

Activation == [section |-> "section", normalization |-> "section", case_fold |-> "bool",
               german_ss_equivalence |-> "bool", ignore_trailing_punctuation |-> "bool",
               phrases |-> "strings", conditions |-> "strings",
               cooldown_seconds |-> "natural", kind |-> "str", mode |-> "str",
               match_scope |-> "str"]

Intent == [section |-> "section", label |-> "str", positive_examples |-> "strings",
           negative_examples |-> "strings"]

Execution == [section |-> "section", type |-> "str", instruction |-> "str",
              timeout_seconds |-> "positive", max_tool_calls |-> "natural"]

MemoryPolicy == [section |-> "section", read |-> "section", write |-> "section",
                 allowed_stores |-> "strings", blocked_stores |-> "strings",
                 max_items |-> "positive", read_enabled |-> "bool", write_enabled |-> "bool",
                 target_store |-> "str or null", ttl_days |-> "days",
                 conflict_handling |-> "str"]

Confirmation == [section |-> "section", thresholds |-> "section", auto_execute |-> "unit",
                 ask_confirm |-> "unit", reject |-> "unit", mode |-> "str",
                 destructive_always_confirm |-> "bool"]

Safety == [section |-> "section", requires_secret_scan |-> "bool", pii_risk |-> "str",
           allow_tools |-> "bool", allowed_tools |-> "strings",
           max_tool_calls_per_execution |-> "natural", instruction_sanitized |-> "bool"]

Priority == [section |-> "section", rank |-> "natural", beats |-> "strings",
             loses_to |-> "strings"]

Scope == [section |-> "section", user_scope |-> "str", workspace |-> "str",
          channels |-> "strings", providers |-> "strings"]

Observability == [section |-> "section", track_success |-> "bool", track_declines |-> "bool",
                  last_triggered_at |-> "str or null", success_count |-> "natural",
                  decline_count |-> "natural", average_confidence |-> "unit"]

Lifecycle == [section |-> "section", status |-> "str", editable |-> "bool", decay |-> "str",
              last_schema_migration |-> "str or null"]

Trust == [section |-> "section", signature |-> "str or null",
          signature_algorithm |-> "str or null", checksum |-> "str or null",
          signed_at |-> "str or null", author_id |-> "str or null"]

Permissions == [section |-> "section", tools |-> "strings", memory_read |-> "strings",
                memory_write |-> "strings", network_access |-> "section",
                network_enabled |-> "bool", domains |-> "strings", file_access |-> "section",
                file_enabled |-> "bool", file_scopes |-> "strings",
                history_access |-> "section", history_enabled |-> "bool",
                history_scopes |-> "strings", secrets_access |-> "bool"]

StoreMeta == [section |-> "section", package_type |-> "str", license |-> "str",
              store_listing_id |-> "str or null", required_axolent_version |-> "str or null",
              manifest_version |-> "str or null", permissions_version |-> "str or null"]

Audit == [section |-> "section", capability_broker_enabled |-> "bool"]

\* A file is a contract with one field of some kind, named by its section.
Checks == [root |-> Root, activation |-> Activation, intent |-> Intent,
           execution |-> Execution, memory_policy |-> MemoryPolicy,
           confirmation |-> Confirmation, safety |-> Safety, priority |-> Priority,
           scope |-> Scope, observability |-> Observability, lifecycle |-> Lifecycle,
           trust |-> Trust, permissions |-> Permissions, store_meta |-> StoreMeta,
           audit |-> Audit]

Readable(file) == file.kind \in Admits(Checks[file.section][file.field])

\* What a field decides of a contract as it is abstracted here; the creation
\* time, which the rules ask for, is not part of it.
Decides(section, field) ==
    CASE section = "activation" /\ field = "section"  -> {"mode", "trigger"}
      [] section = "activation" /\ field = "mode"     -> {"mode"}
      [] section = "activation" /\ field = "phrases"  -> {"trigger"}
      [] section = "execution" /\ field = "section"   -> {"type", "instruction"}
      [] section = "execution" /\ field \in {"type", "instruction"} -> {field}
      [] section = "safety" /\ field \in {"section", "allow_tools"} -> {"allowTools"}
      [] section = "lifecycle" /\ field \in {"section", "status"}   -> {"status"}
      [] section = "trust" /\ field \in {"section", "signature"}    -> {"signed"}
      [] section = "permissions" /\ field = "section" -> {"permissions"}
      [] section = "root" /\ field \in {"id", "name", "origin"}     -> {field}
      [] section = "root" /\ field = "review_status"  -> {"review"}
      [] section = "root" /\ field = "hypothesis_id"  -> {"hypothesis"}
      [] section = "root" /\ field = "contract_version" -> {"version"}
      [] OTHER -> {}

\* Permissions with one of them at its default, which grants nothing.
Without(p, field) ==
    CASE field = "tools"           -> [p EXCEPT !.tools = {}]
      [] field = "memory_read"     -> [p EXCEPT !.memoryRead = {}]
      [] field = "memory_write"    -> [p EXCEPT !.memoryWrite = {}]
      [] field = "network_access"  -> [p EXCEPT !.network = Off]
      [] field = "network_enabled" -> [p EXCEPT !.network.enabled = FALSE]
      [] field = "domains"         -> [p EXCEPT !.network.scopes = {}]
      [] field = "file_access"     -> [p EXCEPT !.file = Off]
      [] field = "file_enabled"    -> [p EXCEPT !.file.enabled = FALSE]
      [] field = "file_scopes"     -> [p EXCEPT !.file.scopes = {}]
      [] field = "history_access"  -> [p EXCEPT !.history = Off]
      [] field = "history_enabled" -> [p EXCEPT !.history.enabled = FALSE]
      [] field = "history_scopes"  -> [p EXCEPT !.history.scopes = {}]
      [] field = "secrets_access"  -> [p EXCEPT !.secrets = FALSE]
      [] OTHER -> p

from_dict(file) ==
    LET default == NewContract(None, None, None, None, "confirmed")
        missing == file.kind \in {"absent", "null"}
        given   == IF missing /\ file.section = "permissions"
                   THEN [file.contract EXCEPT !.permissions = Without(@, file.field)]
                   ELSE file.contract
        reset   == IF missing THEN Decides(file.section, file.field) ELSE {}
    IN  [x \in DOMAIN default |-> IF x \in reset THEN default[x] ELSE given[x]]

-----------------------------------------------------------------------------
(* The rules a stored contract must satisfy.  V4 and V8 need the database, *)
(* V11 is the default of the permissions, V13 and the overlap in V7 only   *)
(* warn; type checks of single fields are left to the parser.              *)

Unfinished == {"draft", "needs_input"}

Matchable == {"confirmed", "active"}

Statuses == Unfinished \cup Matchable \cup {"paused", "needs_review"}

V1(c) == c.id # None /\ c.name # None /\ c.status \in Statuses

V3(c, old) == c.version >= 1 /\ (old # None => c.version >= old)

V5(c) == c.mode = "exact_phrase" => c.trigger # None

V6(c) == c.permissions.tools # {} => c.allowTools

V9(c) == c.instruction = None => c.status \in Unfinished

V14(c) == c.status \notin Unfinished => c.risk = compute_risk_level(c.permissions)

V15(c) == c.type = "llm_instruction"

V17(c) == c.origin = "store" => c.signed

validate(c, old) == /\ V1(c) /\ V3(c, old) /\ V5(c) /\ V6(c)
                    /\ V9(c) /\ V14(c) /\ V15(c) /\ V17(c)

-----------------------------------------------------------------------------
(* The permission gate, asked before a contract's skill block is used, and *)
(* about single accesses.                                                  *)

check_execution_allowed(c) == /\ c.type = "llm_instruction"
                              /\ c.review \notin {"blocked", "flagged"}
                              /\ compute_risk_level(c.permissions) # "high"

Covers(scopes, name) == Star \in scopes \/ name \in scopes

\* Network, file system and history share one shape: switched on, a concrete
\* target, an allowlist that is not empty and covers the target.
check_network_access(c, name) ==
    LET net == c.permissions.network
    IN  net.enabled /\ name # None /\ net.scopes # {} /\ Covers(net.scopes, name)

check_file_access(c, name) ==
    LET fa == c.permissions.file
    IN  fa.enabled /\ name # None /\ fa.scopes # {} /\ Covers(fa.scopes, name)

check_history_access(c, name) ==
    LET ha == c.permissions.history
    IN  ha.enabled /\ name # None /\ ha.scopes # {} /\ Covers(ha.scopes, name)

check_tool_access(c, name) == name \in c.permissions.tools

check_memory_access(c, name, operation) ==
    \/ operation = "read" /\ name \in c.permissions.memoryRead
    \/ operation = "write" /\ name \in c.permissions.memoryWrite

check_secrets_access(c) == c.permissions.secrets

-----------------------------------------------------------------------------
(* The capability broker: a token holds the permissions as they were when  *)
(* the execution started.                                                  *)

create_token(c) == [skill |-> c.id, granted |-> c.permissions]

ResourceTypes == {"tool", "memory_read", "memory_write", "network", "file",
                  "history", "secrets"}

Scoped(access, name) == /\ access.enabled
                        /\ name # None
                        /\ access.scopes # {}
                        /\ Covers(access.scopes, name)

check_access(token, kind, name) ==
    LET p == token.granted
    IN  \/ kind = "tool" /\ name # None /\ name \in p.tools
        \/ kind = "memory_read" /\ name # None /\ name \in p.memoryRead
        \/ kind = "memory_write" /\ name # None /\ name \in p.memoryWrite
        \/ kind = "network" /\ Scoped(p.network, name)
        \/ kind = "file" /\ Scoped(p.file, name)
        \/ kind = "history" /\ Scoped(p.history, name)
        \/ kind = "secrets" /\ p.secrets

-----------------------------------------------------------------------------
(* From a text given to /learn to a contract, and the edits of one; the    *)
(* safety gate that /learn, its edits and /installskill share.  A text is  *)
(* what the patterns extract from it: a trigger, None when there is none,  *)
(* and an instruction.                                                     *)

validate_trigger(t) == t # None /\ t \notin BadTriggers

derive_name(trigger, instruction) == <<trigger, Shortened[instruction]>>

NeedsInput(text) == ~validate_trigger(text.trigger)

build(id, text) ==
    IF NeedsInput(text)
    THEN NewContract(id, None, None, text.instruction, "needs_input")
    ELSE NewContract(id, derive_name(text.trigger, text.instruction),
                     text.trigger, text.instruction, "draft")

apply_trigger_edit(c, t) == [c EXCEPT !.trigger = t,
                                      !.name = derive_name(t, c.instruction)]

apply_instruction_edit(c, i) ==
    [c EXCEPT !.instruction = i,
              !.name = IF c.trigger = None THEN @ ELSE derive_name(c.trigger, i)]

\* The texts of a contract that a user controls, and the gate over them.
iter_user_text_fields_TriggerOnly(c) == {c.trigger}
iter_user_text_fields(c) == {c.trigger, c.instruction}

IsSafe(c) == iter_user_text_fields(c) \cap Unsafe = {}

\* What saving makes of a finished draft.
Confirmed(c) == [c EXCEPT !.status = "confirmed"]
=============================================================================
