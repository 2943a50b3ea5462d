------------------------------- MODULE MCEvidence -------------------------------
(* EvidenceTools with up to three commands, and what happens around them *)
EXTENDS EvidenceTools

CONSTANTS one, two, three

SmallCases == [common |-> 10, rare |-> 12]

Hits(n, m, p) ==
    [common |-> [top1 |-> n, top10 |-> n + 1], rare |-> [top1 |-> m, top10 |-> m],
     protected |-> [top1 |-> p, top10 |-> p]]

\* Runs at the bounds: a candidate may lose one hit of a category, and one in all
SmallScore ==
    [base |-> Hits(8, 8, 2), near |-> Hits(7, 8, 2), below |-> Hits(7, 7, 2),
     unsafe |-> Hits(8, 8, 1)]

\* What a suite shows that ran as it should; the recovery counts as it likes
Record(producer, id) ==
    [producer |-> producer, orchestrator |-> "fixed", exit |-> 0,
     conversions |-> SuiteRequirements[id].conversions,
     cycles |-> SuiteRequirements[id].cycles,
     counts |-> SuiteRequirements[id].counts @@ [helpers |-> 4]]

Records(executable) ==
    [id \in SuiteIds |-> Record(IF id = "adapter" THEN executable ELSE "fixed", id)]

\* A candidate at the bounds, or beyond one of them; suites run with either
\* executable, cut short, with a residue, by another orchestrator, or left out;
\* runs that were measured or others
SmallObserved ==
    LET fair == [wins |-> 3, losses |-> 3, bothBad |-> 12, latency |-> <<5, 10>>,
                 pss |-> <<5, 4>>, records |-> Records("fixed"),
                 reviewed |-> [hazkey |-> "base", mozc |-> "near"]]
    IN {fair, [fair EXCEPT !.losses = 4], [fair EXCEPT !.latency = <<6, 10>>],
        [fair EXCEPT !.reviewed["mozc"] = "below"],
        [fair EXCEPT !.records = Records("edited")],
        [fair EXCEPT !.records["soak"].conversions = 149999],
        [fair EXCEPT !.records["recovery"].counts.residues = 1],
        [fair EXCEPT !.records["steady"].orchestrator = "edited"],
        [fair EXCEPT !.records = [id \in SuiteIds \ {"lifecycle"} |-> @[id]]]}

SmallMetrics ==
    [latency : {<<>>, <<5, 10>>, <<6, 10>>}, pss : {<<5, 4>>},
     stability : {"none", "passed", "failed"}]

\* Two categories with an odd number of cases
SmallCategory ==
    [k1 |-> "common", k2 |-> "common", k3 |-> "common", k4 |-> "rare"]

SmallPreferences ==
    {[k1 |-> "hazkey", k2 |-> "mozc", k3 |-> "mozc", k4 |-> p] :
        p \in {"hazkey", "mozc", "tie", "both_bad"}}
    \cup {[k1 |-> "hazkey", k2 |-> "mozc", k3 |-> "mozc"]}

Scenario(k, l, m, n, revisions, exercised) ==
    [kinds |-> one :> k @@ two :> l @@ three :> m,
     faults |-> n, revision |-> revisions, exercised |-> exercised]

Ready(mandatory) ==
    [evidence |-> "not_ready", protected |-> "ready", mixed |-> "ready",
     authorization |-> "ready", precondition |-> "none", mandatory |-> mandatory]

\* The policy as it is, and as a revision might make it
Revisions ==
    {CurrentRevision, Ready({<<"interaction", "mixed">>}), Ready({<<"top1">>}),
     [Ready({}) EXCEPT !.evidence = "ready"],
     [CurrentRevision EXCEPT !.evidence = "ready"]}

\* Commands differ in nothing but what they run
Interchangeable == Permutations(Commands)

Alone == {"objective", "measure", "seal", "prepare"}

SmallScenarios ==
    {Scenario(k, "none", "none", IF k = "measure" THEN 2 ELSE 3, CurrentRevision, FALSE) :
        k \in Alone}
    \cup {Scenario(k, k, "none", 1, CurrentRevision, FALSE) : k \in Alone}
    \cup {Scenario("authorize", "b1", "none", 2, r, e) : r \in Revisions, e \in BOOLEAN}
    \cup {Scenario("authorize", "b1", "b1", 1, CurrentRevision, TRUE),
          Scenario("measure", "gate", "none", 2, CurrentRevision, FALSE),
          Scenario("prepare", "score", "none", 2, CurrentRevision, FALSE)}
    \cup {Scenario(s[1], "none", "none", s[2], CurrentRevision, FALSE) :
              s \in {<<"adapter", 1>>, <<"steady", 0>>, <<"recovery", 1>>}}
    \cup {Scenario("collect", "none", "none", 2, CurrentRevision, FALSE),
          Scenario("collect", "collect", "none", 1, CurrentRevision, FALSE)}
    \cup {Scenario("formal", "formal", "none", 0, r, TRUE) : r \in Revisions}
=============================================================================
