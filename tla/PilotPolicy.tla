------------------------------ MODULE PilotPolicy ------------------------------
(***************************************************************************)
(* parse_policy of evaluate_mozc_b0_gate.py: what the frozen policy of the *)
(* pilot must say before anything is measured or judged under it.  Most of *)
(* it the code spells out again; for itself the policy pins the executable,*)
(* the artifacts, the producers and the snapshots of the stability suites. *)
(* Schemas, names and the shape of a hash are left out: what is not in its *)
(* place makes the document another one, and that is refused.              *)
(***************************************************************************)
EXTENDS Integers, TLC

\* SUITE_REQUIREMENTS and native_schema.  A count that is null is not there
SuiteRequirements ==
    LET steady(helpers, servers) ==
            [helpers |-> helpers, servers |-> servers, helperRecoveries |-> 0,
             serverRecoveries |-> 0, residues |-> 0]
        suite(artifact, producer, conversions, cycles, counts, swift) ==
            [artifact |-> artifact, producer |-> producer, conversions |-> conversions,
             cycles |-> cycles, counts |-> counts, swift |-> swift]
    IN [adapter |-> suite("b0", "executable", 150000, 1, steady(1, 1), FALSE),
        steady |-> suite("b0", "benchmark", 1500, 1, steady(1, 2), TRUE),
        recovery |-> suite("fixture", "tests", 0, 4, [residues |-> 0], TRUE),
        soak |-> suite("b0", "harness", 150000, 1, steady(1, 1), FALSE),
        lifecycle |-> suite("b0", "harness", 300, 3, steady(3, 3), FALSE)]

SuiteIds == DOMAIN SuiteRequirements

FcitxSuites == {"soak", "lifecycle"}

\* What the code has constants for
SuitePins ==
    [total |-> 256, cases |-> [ajimee |-> 100, curated |-> 140, protected |-> 16]]

PilotLimits ==
    [preference |-> -300, net |-> -7, top1 |-> -800, top10 |-> -1200,
     category |-> -1000, bothBad |-> 12, latency |-> 5000, pss |-> 12500]

MeasurementRules ==
    [runs |-> 4, warmups |-> 5, iterations |-> 20, topK |-> 10, cases |-> 256]

------------------------------------------------------------------------------
(* The document                                                            *)

\* A check of the policy: what the suite must show, and what it is pinned to
FrozenCheck(id) ==
    [shows |-> SuiteRequirements[id], status |-> "ready", sha |-> "fixed",
     package |-> IF SuiteRequirements[id].swift THEN "fixed" ELSE "null",
     fixture |-> IF id = "recovery" THEN "fixed" ELSE "null",
     snapshot |-> IF id \in FcitxSuites THEN "fixed" ELSE "null"]

FrozenPilot ==
    [tier |-> "pilot", adoption |-> FALSE,
     candidate |-> [id |-> "B0", source |-> "fixed", resource |-> "fixed",
                    runner |-> "fixed", artifacts |-> "fixed"],
     baseline |-> [id |-> "hazkey", resource |-> "fixed"],
     sequence |-> [first |-> "B0", afterFailure |-> TRUE],
     suite |-> SuitePins, component |-> "fixed", derived |-> "fixed",
     limits |-> PilotLimits,
     frozen |-> TRUE, checks |-> [id \in SuiteIds |-> FrozenCheck(id)],
     measurement |-> [status |-> "ready", producer |-> "fixed",
                      rules |-> MeasurementRules],
     stability |-> [status |-> "ready", orchestrator |-> "fixed"],
     binding |-> [pilot |-> TRUE, formal |-> FALSE, status |-> "ready",
                  manifest |-> "fixed"],
     enabled |-> TRUE, formal |-> FALSE, blockers |-> {}]

\* The policy as its file may be edited: for another build, before a producer is
\* ready, with a limit relaxed, with the Fcitx suites bound to two snapshots
Pilot ==
    [fixed |-> FrozenPilot,
     repinned |-> [FrozenPilot EXCEPT !.candidate.runner = "edited",
                                      !.checks["adapter"].sha = "edited"],
     pending |-> [FrozenPilot EXCEPT !.checks["recovery"].status = "pending",
                                     !.checks["recovery"].sha = "null"],
     relaxed |-> [FrozenPilot EXCEPT !.limits.top1 = -900],
     split |-> [FrozenPilot EXCEPT !.checks["lifecycle"].snapshot = "edited"]]

------------------------------------------------------------------------------
(* Its sections, in the order in which they are read                       *)

\* What is compared with constants; any executable and any artifacts may be pinned
CandidatePinned(p) ==
    /\ p.tier = "pilot" /\ ~p.adoption
    /\ p.candidate.id = "B0"
    /\ p.candidate.source = "fixed"
    /\ p.candidate.resource = "fixed"
    /\ p.baseline.id = "hazkey"
    /\ p.sequence = [first |-> "B0", afterFailure |-> TRUE]

\* The derived part of the corpus is named twice
SuitePinned(p) == p.suite = SuitePins /\ p.derived = p.component

LimitsPinned(p) == p.limits = PilotLimits

\* A suite that runs the product executable is pinned to the one of the candidate
ProducerPinned(p, check) ==
    /\ check.status = "ready" => check.sha # "null"
    /\ check.status = "pending" => check.sha = "null"
    /\ check.status = "ready" /\ check.shows.producer = "executable" =>
          check.sha = p.candidate.runner

\* Each check asks for something, and says by what it is to be produced and run
ChecksFrozen(p) ==
    IF p.frozen
    THEN \A id \in DOMAIN p.checks :
            LET check == p.checks[id]
            IN /\ \/ check.shows.conversions > 0 \/ check.shows.cycles > 0
                  \/ \E count \in DOMAIN check.shows.counts : check.shows.counts[count] > 0
               /\ ProducerPinned(p, check)
    ELSE DOMAIN p.checks = {}

\* The checks are those of the code, at its minima; the fixture belongs to the
\* recovery, and both Fcitx suites run what one snapshot holds
RequirementsPinned(p) ==
    p.frozen =>
        /\ DOMAIN p.checks = SuiteIds
        /\ \A id \in SuiteIds :
              LET check == p.checks[id]
              IN /\ check.shows = SuiteRequirements[id]
                 /\ check.package # "null" <=> SuiteRequirements[id].swift
                 /\ check.fixture # "null" <=> id = "recovery"
                 /\ check.snapshot # "null" <=> id \in FcitxSuites
        /\ p.checks["soak"].snapshot = p.checks["lifecycle"].snapshot

\* A producer may be pending while the policy is drafted
ContractsReady(p) ==
    /\ p.measurement.rules = MeasurementRules
    /\ p.measurement.status = "ready" /\ p.stability.status = "ready"
    /\ \A id \in DOMAIN p.checks : p.checks[id].sha # "null"

BindingReady(p) ==
    /\ p.binding.pilot /\ ~p.binding.formal
    /\ p.binding.status = "ready"
    /\ p.binding.manifest # "null"

PilotReady(p) == p.frozen /\ p.enabled /\ ~p.formal /\ p.blockers = {}

ParsePilot(p) ==
    /\ CandidatePinned(p) /\ SuitePinned(p) /\ LimitsPinned(p) /\ ChecksFrozen(p)
    /\ RequirementsPinned(p) /\ ContractsReady(p) /\ BindingReady(p) /\ PilotReady(p)
=============================================================================
