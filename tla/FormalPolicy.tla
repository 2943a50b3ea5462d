------------------------------ MODULE FormalPolicy ------------------------------
(***************************************************************************)
(* parse_policy of evaluate_mozc_adoption_v2_gate.py: the formal policy as *)
(* its constants spell it out.  Every section is compared with them, so    *)
(* that no edit of the file relaxes a bound, declares an input protocol    *)
(* ready or accepts other evidence; a revision takes a change of the code. *)
(* Schemas, names and paths are left out, and of a hash what it names.     *)
(***************************************************************************)
EXTENDS Integers, FiniteSets

\* QUALITY_CATEGORIES
FormalCategories ==
    [technical_mixed |-> 240, proper_noun |-> 200, colloquial |-> 200,
     homophone_context |-> 200, long_structural |-> 200, grimodex_regression |-> 220]

FormalQuality == 1260
FormalProtected == 100
FormalTotal == 1360

\* What _validate_b1_authorization_check_sets and the evaluators know by their ids
DiagnosticChecks(categories) ==
    {<<"top1">>, <<"top10">>, <<"protected">>} \cup {<<"category", g>> : g \in categories}

------------------------------------------------------------------------------
(* The document, section by section                                        *)

FrozenCorpus ==
    [manifest |-> "fixed", aggregate |-> "fixed", source |-> "fixed",
     total |-> FormalTotal, quality |-> FormalQuality,
     categories |-> FormalCategories,
     protected |-> [cases |-> FormalProtected, inQuality |-> FALSE],
     pilotCounted |-> FALSE]

\* The protected input is to be shown by three suites nobody has reviewed; the one
\* probe that was run typed it in another way
FrozenProtected ==
    [status |-> "not_ready",
     legacy |-> [cases |-> FormalProtected, eligible |-> FALSE, result |-> "invalid"],
     suites |-> [context |-> "pending_review", reconversion |-> "pending_review",
                 width |-> "pending_review"],
     superseded |-> [policy |-> "fixed", authorization |-> "fixed", b1 |-> "fixed",
                     eligible |-> FALSE]]

\* Of each category how many readings hold ASCII, and how these are typed
FrozenMixed ==
    LET scope(present, free) == [present |-> present, free |-> free]
    IN [status |-> "not_ready",
        scope |-> [technical_mixed |-> scope(239, 1), proper_noun |-> scope(4, 196),
                   colloquial |-> scope(2, 198), homophone_context |-> scope(0, 200),
                   long_structural |-> scope(0, 200),
                   grimodex_regression |-> scope(220, 0), protected |-> scope(100, 0)],
        totals |-> scope(565, 795), quality |-> scope(465, 795),
        shapes |-> [single |-> 431, several |-> 134],
        metadata |-> "absent",
        recalculation |-> [cases |-> 795, eligible |-> FALSE]]

FrozenArtifacts == [candidates |-> <<"B0", "B1">>, B0 |-> "fixed", B1 |-> "fixed"]

FrozenSequence ==
    [first |-> "B0", then |-> "verified_raw_early_formal_fail",
     binding |-> "authorization", b2 |-> FALSE, later |-> "new_holdout"]

FrozenRule ==
    [dictionary |-> "fixed", status |-> "blocked", decision |-> "any_mandatory_failed",
     precondition |-> "new_revision",
     diagnostic |-> DiagnosticChecks(DOMAIN FormalCategories), mandatory |-> {},
     runs |-> <<"H0", "B0">>, sharedRoot |-> TRUE, opensHistorical |-> FALSE]

FrozenTrust ==
    [manifest |-> "fixed", tree |-> "fixed", raw |-> [H0 |-> "fixed", B0 |-> "fixed"],
     producer |-> "fixed", sources |-> "fixed"]

\* A bound in basis points and the same in hits
Bound(points, hits) == [points |-> points, hits |-> hits]

FrozenGates ==
    [preference |-> Bound(-300, -37), top1 |-> Bound(-800, -100),
     top10 |-> Bound(-1200, -151),
     category |-> Bound(-1000,
        [technical_mixed |-> -24, proper_noun |-> -20, colloquial |-> -20,
         homophone_context |-> -20, long_structural |-> -20,
         grimodex_regression |-> -22]),
     protected |-> [hits |-> FormalProtected, eligible |-> FALSE, suites |-> "not_ready"],
     bothBad |-> 59, latency |-> 5000, pss |-> 12500,
     stability |-> {"adapter", "steady", "recovery", "soak", "lifecycle"}]

FrozenApi == [evidence |-> "not_ready", metricsAreEvidence |-> FALSE, adoption |-> FALSE,
              blocking |-> {"raw", "stability", "protected", "mixed"}]

FrozenFormal ==
    [corpus |-> FrozenCorpus, protected |-> FrozenProtected, mixed |-> FrozenMixed,
     artifacts |-> FrozenArtifacts, sequence |-> FrozenSequence, rule |-> FrozenRule,
     trust |-> FrozenTrust, gates |-> FrozenGates, api |-> FrozenApi]

\* The policy as its file may be edited: laid out anew, with the protected cases
\* counted as quality, with a protocol declared ready, with a legacy check made
\* mandatory, with a bound relaxed in points and in hits alike
Formal ==
    [fixed |-> FrozenFormal,
     reformatted |-> FrozenFormal,
     corpus |-> [FrozenFormal EXCEPT !.corpus.protected.inQuality = TRUE],
     protocols |-> [FrozenFormal EXCEPT !.mixed.status = "ready"],
     rejection |-> [FrozenFormal EXCEPT !.rule.mandatory = {<<"top1">>}],
     gates |-> [FrozenFormal EXCEPT !.gates.top1 = Bound(-900, -113)]]

------------------------------------------------------------------------------
(* Its sections, in the order in which they are read                       *)

\* Mutant: rounded down
CeilFraction_Floor(numerator, denominator) == numerator \div denominator

\* _ceil_fraction: rounded up, so that a delta reaches the bound in basis points when
\* it reaches the bound in hits
CeilFraction(numerator, denominator) == -((-numerator) \div denominator)

CorpusBinding(p) == p.corpus = FrozenCorpus

ProtectedProtocol(p) == p.protected = FrozenProtected

MixedProtocol(p) == p.mixed = FrozenMixed

CandidateArtifacts(p) == p.artifacts = FrozenArtifacts

CandidateSequence(p) == p.sequence = FrozenSequence

\* _validate_b1_authorization_check_sets: what is mandatory is about an interaction
CheckSetsValid(diagnostic, mandatory) ==
    /\ mandatory \cap diagnostic = {}
    /\ \A id \in mandatory : id[1] = "interaction"

RejectionRule(p) ==
    /\ p.rule.status = FrozenRule.status
    /\ p.rule.decision = FrozenRule.decision
    /\ p.rule.precondition = FrozenRule.precondition
    /\ CheckSetsValid(p.rule.diagnostic, p.rule.mandatory)
    /\ p.rule = FrozenRule

TrustedAcquisition(p) == p.trust = FrozenTrust

Tied(bound, cases) == CeilFraction(bound.points * cases, 10000) = bound.hits

\* The two forms of a bound must agree
GateLimits(p) ==
    /\ p.gates = FrozenGates
    /\ Tied(p.gates.preference, FormalQuality)
    /\ Tied(p.gates.top1, FormalQuality)
    /\ Tied(p.gates.top10, FormalQuality)
    /\ \A g \in DOMAIN FormalCategories :
          Tied(Bound(p.gates.category.points, p.gates.category.hits[g]),
               FormalCategories[g])

ApiContract(p) == p.api = FrozenApi

ParsePolicy(p) ==
    /\ CorpusBinding(p) /\ ProtectedProtocol(p) /\ MixedProtocol(p)
    /\ CandidateArtifacts(p) /\ CandidateSequence(p) /\ RejectionRule(p)
    /\ TrustedAcquisition(p) /\ GateLimits(p) /\ ApiContract(p)
=============================================================================
