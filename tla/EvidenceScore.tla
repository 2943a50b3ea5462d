----------------------------- MODULE EvidenceScore -----------------------------
(***************************************************************************)
(* What the evaluation commands compute: how a raw run scores against the  *)
(* corpus, the objective checks of a candidate against the baseline H0,    *)
(* the pilot gate, and the formal gate.                                    *)
(***************************************************************************)
EXTENDS Integers, FiniteSets, Functions, PilotPolicy, FormalPolicy

CONSTANTS
    Cases,        \* quality category -> number of cases
    Score         \* raw run -> category -> [top1, top10]: its hits; "base" is the baseline's

QualityCategories == DOMAIN Cases

ASSUME ScoreAssumption ==
    /\ IsFiniteSet(QualityCategories) /\ "base" \in DOMAIN Score
    /\ \A c \in QualityCategories : Cases[c] \in Nat \ {0}
    /\ \A run \in DOMAIN Score : \A c \in QualityCategories \cup {"protected"} :
          Score[run][c].top1 \in Nat /\ Score[run][c].top10 \in Nat

QualityCases == SumFunction(Cases)

ProtectedCases == 2

Top1(run) == SumFunction([c \in QualityCategories |-> Score[run][c].top1])
Top10(run) == SumFunction([c \in QualityCategories |-> Score[run][c].top10])

MinimumTop1 == CeilFraction(-800 * QualityCases, 10000)
MinimumTop10 == CeilFraction(-1200 * QualityCases, 10000)
MinimumCategory(c) == CeilFraction(-1000 * Cases[c], 10000)

------------------------------------------------------------------------------
(* The objective checks                                                    *)

DiagnosticIds == DiagnosticChecks(QualityCategories)

Passes(h0, candidate, id) ==
    CASE id = <<"top1">> -> Top1(candidate) - Top1(h0) >= MinimumTop1
      [] id = <<"top10">> -> Top10(candidate) - Top10(h0) >= MinimumTop10
      [] id = <<"protected">> ->
            Score[candidate]["protected"].top1 = ProtectedCases
      [] OTHER ->
            Score[candidate][id[2]].top1 - Score[h0][id[2]].top1
                >= MinimumCategory(id[2])

FailedChecks(h0, candidate) ==
    {id \in DiagnosticIds : ~Passes(h0, candidate, id)}

ObjectivePassed(h0, candidate) == FailedChecks(h0, candidate) = {}

------------------------------------------------------------------------------
(* The pilot gate of B0, which multiplies out instead of rounding          *)

PilotCases == QualityCases + ProtectedCases

PilotCategories == QualityCategories \cup {"protected"}

PilotCount(g) == IF g = "protected" THEN ProtectedCases ELSE Cases[g]

PilotTop1(run) == SumFunction([g \in PilotCategories |-> Score[run][g].top1])
PilotTop10(run) == SumFunction([g \in PilotCategories |-> Score[run][g].top10])

\* _rational_check
RationalCheck(numerator, denominator, minimum) ==
    numerator * 10000 >= minimum * denominator

\* _ratio_check
RatioCheck(candidate, baseline, maximum) == candidate * 10000 <= baseline * maximum

Delta(candidate, baseline, count) == candidate * count - baseline * count

\* Each category, the protected cases among them, has a bound of its own
CategoriesHold(base, run) ==
    \A g \in PilotCategories :
        RationalCheck(Delta(Score[run][g].top1, Score[base][g].top1, PilotCount(g)),
                      PilotCount(g) * PilotCount(g), PilotLimits.category)

AllStable(stable) == \A id \in DOMAIN stable : stable[id]

\* evaluate_metrics.  Human preference, latency and memory are what was observed
\* besides the raw runs, `stable` what each suite came to
PilotChecks(base, run, observed, stable) ==
    LET net == observed.wins - observed.losses
    IN <<RationalCheck(net, PilotCases, PilotLimits.preference),
         net >= PilotLimits.net,
         RationalCheck(Delta(PilotTop1(run), PilotTop1(base), PilotCases),
                       PilotCases * PilotCases, PilotLimits.top1),
         RationalCheck(Delta(PilotTop10(run), PilotTop10(base), PilotCases),
                       PilotCases * PilotCases, PilotLimits.top10),
         CategoriesHold(base, run),
         Score[run]["protected"].top1 = ProtectedCases,
         observed.bothBad <= PilotLimits.bothBad,
         RatioCheck(observed.latency[1], observed.latency[2], PilotLimits.latency),
         RatioCheck(observed.pss[1], observed.pss[2], PilotLimits.pss),
         AllStable(stable)>>

\* derive_pilot_result
PilotResult(checks) ==
    IF \A i \in DOMAIN checks : checks[i] THEN "pilot_pass" ELSE "pilot_fail"

------------------------------------------------------------------------------
(* The formal gate of B0 and B1, over normalized metrics.  A ratio is a pair *)

Verdict(passed) == IF passed THEN "passed" ELSE "failed"

\* _evaluate_checks: of human preference, the deltas, the protected input and
\* the cases both got wrong, nothing passes or fails while the corpus does not
\* model the interaction
FormalChecks(m) ==
    [interaction |-> "none",
     latency |-> IF m.latency = <<>> THEN "none"
                 ELSE Verdict(RatioCheck(m.latency[1], m.latency[2], 5000)),
     pss |-> IF m.pss = <<>> THEN "none"
             ELSE Verdict(RatioCheck(m.pss[1], m.pss[2], 12500)),
     stability |-> m.stability]

\* derive_formal_result
FormalResult(checks) ==
    IF \E i \in DOMAIN checks : checks[i] = "failed" THEN "formal_fail"
    ELSE IF \A i \in DOMAIN checks : checks[i] = "passed" THEN "formal_pass"
    ELSE "inconclusive"

\* _result_base
GateResult(revision, m) ==
    IF revision.protected # "ready" \/ revision.mixed # "ready" THEN "inconclusive"
    ELSE FormalResult(FormalChecks(m))

------------------------------------------------------------------------------
(* What a policy says of its own readiness                                 *)

\* The fields of a parsed policy that decide whether anything may go on under it
Revision(p) ==
    [evidence |-> p.api.evidence, protected |-> p.protected.status,
     mixed |-> p.mixed.status, authorization |-> p.rule.status,
     precondition |-> p.rule.precondition, mandatory |-> p.rule.mandatory]

\* The revision that the constants of the code spell out
CurrentRevision == Revision(FrozenFormal)

\* _require_formal_acquisition_ready
AcquisitionReady(revision) ==
    /\ revision.protected = "ready" /\ revision.mixed = "ready"
    /\ revision.authorization = "ready"
    /\ revision.mandatory # {}
    /\ revision.mandatory \cap DiagnosticIds = {}
    /\ revision.precondition # "new_revision"

\* The authorizer's policy_revision_ready
RevisionReady(revision) ==
    /\ revision.protected = "ready" /\ revision.mixed = "ready"
    /\ revision.authorization = "ready"
    /\ revision.precondition # "new_revision"
    /\ revision.mandatory # {}
=============================================================================
