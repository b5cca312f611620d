------------------------------- MODULE MCSkills -------------------------------
(***************************************************************************)
(* The skill modules checked side by side: only one of them takes steps,   *)
(* so the state spaces add up instead of multiplying.                      *)
(***************************************************************************)
EXTENDS SkillProps, TLC

CONSTANTS u1, e1, e2

Text(t, i) == [trigger |-> t, instruction |-> i]

\* No trigger, a good one, an unsafe instruction, and a stopword.
MCLearnable == {Text(None, "i1"), Text("t1", "i1"), Text("t1", "bad"), Text("stop", "i2")}

MCShortened == [i \in {"i1", "i2", "bad", "t1", "stop"} |-> i]

\* One hypothesis still to be asked about, one already in use.
MCLegacy == {[id |-> 101, owner |-> u1, status |-> "confirmed", pattern |-> "p1"],
             [id |-> 102, owner |-> u1, status |-> "active", pattern |-> "p2"]}

\* The imports 1 and 2 make 201, 203 and so on from the patterns.
MCHypId == [x \in (1 .. 2) \X {"p1", "p2", "p3"} |->
              190 + 10 * x[1] + (CASE x[2] = "p1" -> 1 [] x[2] = "p2" -> 2 [] OTHER -> 3)]

MCIds == {101, 102} \cup {MCHypId[x] : x \in DOMAIN MCHypId}

MCClaims == [h \in MCIds |-> IF h = 101 THEN Text("t1", "i1") ELSE Text(None, "i2")]

\* An upload that asks for every tool, which the permission gate refuses.
MCUpload == [NewContract(301, "up", "t2", "i2", "active")
               EXCEPT !.permissions.tools = {Star}, !.allowTools = TRUE]

\* The file as it is, and with a field that is missing, emptied or malformed.
MCUploads == {[contract |-> MCUpload, section |-> d[1], field |-> d[2], kind |-> d[3]] :
                d \in {<<"store_meta", "license", "text">>,
                       <<"permissions", "section", "null">>,
                       <<"lifecycle", "status", "absent">>,
                       <<"permissions", "tools", "absent">>,
                       <<"activation", "phrases", "null">>,
                       <<"safety", "allow_tools", "text">>,
                       <<"execution", "instruction", "absent">>}}

MCAlias == {<<101, "t1">>, <<102, "t2">>}

MCSimilar == {<<101, "t2">>, <<102, "t2">>, <<203, "t1">>}

MCScopeOf == [h \in MCIds |-> [client |-> FALSE, project |-> h # 203, tags |-> 0]]

MCFolders == [f \in {"f1"} |-> {{"p1", "p3"}}]

MCGrants == {{}, {Star}}

\* Of SkillNext one part takes the uses of skills, the other the imports
\* with one question at most.
UseParts == \/ part = "use" /\ UseNext /\ UNCHANGED importVars
            \/ /\ part = "import"
               /\ AskNext
               /\ sent' = sent \/ (sent = 0 /\ imports <= 1)
               /\ UNCHANGED importVars
            \/ part = "import" /\ ImportNext /\ UNCHANGED <<contracts, useVars>>
            \/ part \in {"use", "import"} /\ RestartUse /\ RestartImport

\* The rest is SkillsNext.
Next == /\ UNCHANGED part
        /\ \/ part = "learn" /\ LearnNext /\ UNCHANGED <<skillOnly, editVars>>
           \/ UseParts /\ UNCHANGED <<learnOnly, editVars>>
           \/ part = "edit" /\ EditNext /\ UNCHANGED <<learnOnly, skillOnly>>

Spec == SkillsInit /\ [][Next]_<<part, learnVars, skillOnly, editVars>>
=============================================================================
