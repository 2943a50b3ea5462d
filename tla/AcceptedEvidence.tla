---------------------------- MODULE AcceptedEvidence ----------------------------
(***************************************************************************)
(* The evidence on B0 that the policy accepts, and how                     *)
(* authorize_mozc_v2_b1.py and run_mozc_v2_b1_objective.py read it: the    *)
(* whole tree must be the accepted one, its manifest and raw runs must be  *)
(* what the policy and the sealed corpus say, and its reports what the raw *)
(* runs come to.  A raw run names the directory it was made in, which ties *)
(* the tree to the name it has been published under.                       *)
(***************************************************************************)
EXTENDS EvidenceScore

CONSTANT AcceptedB0      \* the raw run of B0 in the accepted evidence

ASSUME AcceptedB0 \in DOMAIN Score

AcceptedLeaf == "accepted"

RawRun(hits, resource, sequence) ==
    [hits |-> hits, corpus |-> "fixed", resource |-> resource, root |-> AcceptedLeaf,
     started |-> 2 * sequence, ended |-> 2 * sequence + 1]

Accepted ==
    [leaf |-> AcceptedLeaf, files |-> "expected", mode |-> "read_only",
     dictionary |-> "fixed", b0 |-> "fixed", corpus |-> "fixed",
     manifest |->
        [integrity |-> "fixed", producer |-> "fixed", sources |-> "fixed",
         runner |-> "fixed", runtime |-> "fixed",
         candidates |-> [B0 |-> [status |-> "evaluated", resource |-> "fixed"],
                         B1 |-> [status |-> "not_evaluated", resource |-> "fixed"]],
         entries |-> <<"H0", "B0">>, passed |-> ObjectivePassed("base", AcceptedB0)],
     raw |-> [H0 |-> RawRun("base", "dictionary", 1), B0 |-> RawRun(AcceptedB0, "b0", 2)],
     reports |-> [H0 |-> Score["base"], B0 |-> Score[AcceptedB0]],
     objective |-> FailedChecks("base", AcceptedB0)]

\* As it may stand: with a report that claims other hits, under another name, with
\* a file that anyone may write
Evidence ==
    [fixed |-> Accepted,
     edited |-> [Accepted EXCEPT !.reports["B0"] = Score["base"], !.objective = {}],
     renamed |-> [Accepted EXCEPT !.leaf = "renamed"],
     writable |-> [Accepted EXCEPT !.mode = "writable"]]

------------------------------------------------------------------------------
(* What it must be                                                         *)

\* _capture_evidence: every entry with its mode, size and hash, but not the name of
\* the tree itself
TreeDigest(e) ==
    IF [e EXCEPT !.leaf = AcceptedLeaf] = Accepted THEN "fixed" ELSE "edited"

\* _validate_tree
TreeValid(p, e) ==
    /\ e.files = "expected"
    /\ e.mode = "read_only"
    /\ e.dictionary = p.rule.dictionary
    /\ e.b0 = p.artifacts.B0
    /\ e.manifest.candidates.B0.resource = p.artifacts.B0

\* _validate_manifest and _load_corpus
ManifestValid(p, e) ==
    LET m == e.manifest
    IN /\ m.integrity = p.trust.manifest
       /\ m.producer = p.trust.producer
       /\ m.sources = p.trust.sources
       /\ e.corpus = p.corpus.aggregate
       /\ m.runner = "fixed" /\ m.runtime = "fixed"
       /\ m.candidates.B0.status = "evaluated"
       /\ m.candidates.B1 = [status |-> "not_evaluated", resource |-> p.artifacts.B1]

\* _lexical_historical_root: the path is never opened
HistoricalRoot(e, run) == e.raw[run].root = e.leaf

\* _validate_raw: the runs, in their order and one after the other, with the
\* resources and the corpus the policy names, made in one and the same directory
RawValid(p, e) ==
    /\ e.manifest.entries = p.rule.runs
    /\ DOMAIN e.raw = {"H0", "B0"}
    /\ e.raw["H0"].started <= e.raw["H0"].ended
    /\ e.raw["H0"].ended <= e.raw["B0"].started
    /\ e.raw["H0"].resource = "dictionary" /\ e.raw["B0"].resource = "b0"
    /\ \A run \in DOMAIN e.raw :
          e.raw[run].corpus = p.corpus.aggregate /\ HistoricalRoot(e, run)

\* _quality_report: of each category the hits the raw run comes to
QualityReport(e, run) == Score[e.raw[run].hits]

\* _objective
ObjectiveOf(e) == FailedChecks(e.raw["H0"].hits, e.raw["B0"].hits)

ReportsRecomputed(e) ==
    /\ \A run \in {"H0", "B0"} : e.reports[run] = QualityReport(e, run)
    /\ e.objective = ObjectiveOf(e)
    /\ e.manifest.passed = (ObjectiveOf(e) = {})

\* What _evaluate asks of the tree
EvidenceHolds(p, e) ==
    /\ TreeDigest(e) = p.trust.tree
    /\ TreeValid(p, e) /\ ManifestValid(p, e) /\ RawValid(p, e)
    /\ ReportsRecomputed(e)

\* The part of a decision that names it
Acquisition(e) ==
    [leaf |-> e.leaf, tree |-> TreeDigest(e), manifest |-> e.manifest, raw |-> e.raw]

------------------------------------------------------------------------------
(* What the continuation takes from it, with the decision at hand          *)

\* _capture_prior: the manifest, the runner with its libraries, the sealed corpus and
\* the baseline H0, through one descriptor of the directory
PriorHolds(acquisition, e) ==
    /\ e.mode = "read_only"
    /\ e.manifest = acquisition.manifest
    /\ e.leaf = acquisition.leaf
    /\ e.manifest.runner = "fixed" /\ e.manifest.runtime = "fixed"
    /\ e.corpus = "fixed"
    /\ e.raw["H0"] = acquisition.raw["H0"]

\* _verify_fixed_contract
FixedContract(p, e) ==
    /\ e.manifest.runner = "fixed" /\ e.manifest.runtime = "fixed"
    /\ e.corpus = "fixed"
    /\ e.manifest.candidates.B1 = [status |-> "not_evaluated", resource |-> p.artifacts.B1]

\* _validate_h0_raw, and the aggregate that is stored with it
BaselineHolds(p, e) ==
    /\ e.corpus = p.corpus.aggregate
    /\ e.raw["H0"].corpus = p.corpus.aggregate
    /\ e.raw["H0"].resource = "dictionary"
    /\ HistoricalRoot(e, "H0")
    /\ e.reports["H0"] = QualityReport(e, "H0")
=============================================================================
