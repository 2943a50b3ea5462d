----------------------------- MODULE GateEvaluation -----------------------------
(***************************************************************************)
(* The two gates.  evaluate_mozc_b0_gate.py reads the measurement with the *)
(* evidence on review, stability and memory, and writes the pilot verdict  *)
(* on B0.  evaluate_mozc_adoption_v2_gate.py derives a formal result from  *)
(* metrics a caller has normalized, for B1 only after B0 has failed; its   *)
(* command line refuses to run, so its callers are its tests.              *)
(***************************************************************************)
EXTENDS MeasurementAcquisition

CONSTANTS
    Observed,      \* what review, stability and memory may have come to
    Metrics        \* normalized metrics a caller may pass

\* Latency and memory of the candidate and of the baseline
ASSUME ObservedAssumption ==
    \A observed \in Observed, i \in {1, 2} :
        observed.latency[i] \in Nat /\ observed.pss[i] \in Nat

Evaluates(c, from) ==
    /\ At(c, "gate", from)
    /\ UNCHANGED <<scenario, inputs, moved, late>>

------------------------------------------------------------------------------
(* The pilot gate                                                          *)

\* The evidence names the policy it was put together for; the corpus is built from
\* its components once more, and the artifacts are read
CorpusManifestValid(policy) == inputs["corpus"] = policy.binding.manifest

ArtifactsPinned(policy) == inputs["resource"] = policy.candidate.artifacts

ReadContract(c) ==
    /\ Evaluates(c, "idle")
    /\ \E named \in Versions["pilot"] :
          LET policy == Pilot[inputs["pilot"]]
          IN IF /\ ParsePilot(policy) /\ named = inputs["pilot"]
                /\ CorpusManifestValid(policy) /\ ArtifactsPinned(policy)
             THEN Goes(c, "ruled") /\ Holds(c, [policy |-> named])
             ELSE Goes(c, "error") /\ UNCHANGED my
    /\ UNCHANGED <<dirVars, faults>>

Measurements == {a \in Commands : kind[a] = "measure" /\ Published(a)}

PolicyOf(c) == Pilot[my[c].held.policy]

\* A raw run names the corpus and the resource it was made with
RunsPinned_AnyResource(policy, raw) ==
    \A run \in DOMAIN raw : raw[run].corpus = policy.binding.manifest

RunsPinned(policy, raw) ==
    /\ \A run \in DOMAIN raw : raw[run].corpus = policy.binding.manifest
    /\ raw["hazkey"].resource = policy.baseline.resource
    /\ raw["mozc"].resource = policy.candidate.resource

\* Each raw run is read once
ReadMeasured(c) ==
    /\ Evaluates(c, "ruled")
    /\ \/ \E a \in Measurements :
            /\ ~moved
            /\ IF RunsPinned(PolicyOf(c), trees[a].raw)
               THEN /\ Goes(c, "measured")
                    /\ Holds(c, Joined(my[c].held, [raw |-> trees[a].raw, of |-> a]))
               ELSE Goes(c, "error") /\ UNCHANGED my
       \/ (moved \/ Measurements = {}) /\ Goes(c, "error") /\ UNCHANGED my
    /\ UNCHANGED <<dirVars, faults>>

ProducerMatches(policy, manifest) == manifest.producer = policy.measurement.producer
ExecutableMatches(policy, manifest) == manifest.executable = policy.candidate.runner
CorpusMatches(policy, manifest) == manifest.corpus = policy.binding.manifest

\* Every run, in the frozen order, with the bytes just read
EntriesMatch(manifest, raw) ==
    DOMAIN manifest.entries = Range(Sequence) /\ manifest.entries = raw

ManifestHolds(policy, manifest, raw) ==
    /\ ProducerMatches(policy, manifest) /\ ExecutableMatches(policy, manifest)
    /\ CorpusMatches(policy, manifest) /\ EntriesMatch(manifest, raw)

\* _parse_acquisition_manifest.  A file that does not belong is noticed in the
\* runtime copy, a changed one anywhere
CheckAcquisition(c) ==
    /\ Evaluates(c, "measured")
    /\ LET a == my[c].held.of
           holds == /\ Published(a) /\ ~moved
                    /\ ManifestHolds(PolicyOf(c), trees[a].manifest, my[c].held.raw)
       IN \/ holds /\ Goes(c, "reading")
          \/ (~holds \/ trees[a].stray) /\ Goes(c, "error")
    /\ UNCHANGED <<dirVars, my, faults>>

------------------------------------------------------------------------------
(* What else was observed: the review of the two raw runs, latency and     *)
(* memory, and a record for each stability suite                           *)

\* A record is bound to the orchestrator and the producer that were frozen
RecordPinned(policy, id, record) ==
    /\ record.orchestrator = policy.stability.orchestrator
    /\ record.producer = policy.checks[id].sha

\* What a native result shows against what it must; a count that is null may be
\* anything
StabilityHolds(check, record) ==
    /\ record.exit = 0
    /\ record.conversions >= check.shows.conversions
    /\ record.cycles >= check.shows.cycles
    /\ \A count \in DOMAIN check.shows.counts :
          record.counts[count] = check.shows.counts[count]

RecordsAdmissible(policy, records) ==
    /\ DOMAIN records = DOMAIN policy.checks
    /\ \A id \in DOMAIN records : RecordPinned(policy, id, records[id])

Stable(policy, records) ==
    [id \in DOMAIN records |-> StabilityHolds(policy.checks[id], records[id])]

\* The runs that were reviewed are among those that were measured
ReviewBinds(observed, raw) ==
    \A backend \in Range(Sequence) : observed.reviewed[backend] = raw[backend].hits

PilotVerdict(policy, observed) ==
    PilotResult(PilotChecks(observed.reviewed["hazkey"], observed.reviewed["mozc"],
                            observed, Stable(policy, observed.records)))

\* The verdict, in a temporary file of a directory of its own, which mkstemp makes
\* before the try
WriteVerdict(c) ==
    /\ Evaluates(c, "reading")
    /\ \E observed \in Observed :
          LET held == my[c].held
          IN IF /\ RecordsAdmissible(PolicyOf(c), observed.records)
                /\ ReviewBinds(observed, held.raw)
             THEN Makes(c, [policy |-> held.policy, raw |-> held.raw, observed |-> observed,
                            acquisition |-> trees[held.of].manifest, stray |-> FALSE,
                            result |-> PilotVerdict(PolicyOf(c), observed)],
                        "written", "error")
             ELSE Goes(c, "error") /\ UNCHANGED <<dirVars, my, faults>>

\* _write_atomic: os.replace takes the name whatever has it
ReplaceVerdict(c) ==
    /\ Evaluates(c, "written")
    /\ entries' = [entries EXCEPT ![Temp(c)] = Nothing, ![Out(c)] = Tree(c)]
    /\ Goes(c, "published")
    /\ UNCHANGED <<trees, my, faults>>

ExitWithVerdict(c) ==
    /\ Evaluates(c, "published")
    /\ Goes(c, "ok")
    /\ UNCHANGED <<dirVars, my, faults>>

UnlinkVerdict(c) ==
    /\ Evaluates(c, "cleanup")
    /\ Unbind(Temp(c))
    /\ Goes(c, "error")
    /\ UNCHANGED <<trees, my, faults>>

EvaluateB0(c) ==
    \/ ReadContract(c) \/ ReadMeasured(c) \/ CheckAcquisition(c) \/ WriteVerdict(c)
    \/ ReplaceVerdict(c) \/ ExitWithVerdict(c) \/ UnlinkVerdict(c)

------------------------------------------------------------------------------
(* The formal gate                                                         *)

FormalEvaluation(candidate, metrics, prior) ==
    [candidate |-> candidate, metrics |-> metrics, prior |-> prior,
     checks |-> FormalChecks(metrics), result |-> GateResult(scenario.revision, metrics)]

\* Results that exist, and one that somebody wrote by hand
PriorResults ==
    {my[p].held : p \in {q \in Commands : kind[q] = "formal" /\ at[q] = "ok"}}
    \cup {[FormalEvaluation("B0", m, Nothing) EXCEPT !.result = "formal_fail"] :
             m \in Metrics}

\* _validate_prior_b0_result: recomputed from its own metrics
PriorAccepted(prior) ==
    /\ prior.candidate = "B0"
    /\ prior.prior = Nothing
    /\ prior.checks = FormalChecks(prior.metrics)
    /\ prior.result = FormalResult(prior.checks)
    /\ prior.result = "formal_fail"

\* The candidate is one the gate may evaluate now
Eligible(candidate, prior) ==
    \/ candidate = "B0" /\ prior = Nothing
    \/ /\ candidate = "B1"
       /\ scenario.revision.evidence = "ready"
       /\ prior # Nothing
       /\ PriorAccepted(prior)

\* evaluate_metrics
EvaluateFormal(c) ==
    /\ At(c, "formal", "idle")
    /\ \E candidate \in {"B0", "B1"} : \E prior \in PriorResults \cup {Nothing} :
          IF Eligible(candidate, prior)
          THEN /\ Goes(c, "ok")
               /\ \E metrics \in Metrics :
                     Holds(c, FormalEvaluation(candidate, metrics, prior))
          ELSE Goes(c, "error") /\ UNCHANGED my
    /\ UNCHANGED <<scenario, inputs, moved, late, dirVars, faults>>
=============================================================================
