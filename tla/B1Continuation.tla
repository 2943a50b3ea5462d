----------------------------- MODULE B1Continuation -----------------------------
(***************************************************************************)
(* authorize_mozc_v2_b1.py decides from the accepted evidence on B0 whether*)
(* the candidate B1 may be evaluated, and publishes the decision.          *)
(* run_mozc_v2_b1_objective.py evaluates it: only under a policy that is   *)
(* ready, an authorization it recomputes, and the evidence that names.     *)
(*                                                                         *)
(* The constants in the code leave no way through, so its tests force the  *)
(* gate and the verdict to exercise what follows: scenario.exercised.      *)
(***************************************************************************)
EXTENDS EvidenceFiles, AcceptedEvidence

revision == scenario.revision

\* load_policy: with the sealed corpus, its manifest and its policy
LoadPolicy(policy) ==
    /\ ParsePolicy(Formal[policy])
    /\ CheckSetsValid(DiagnosticIds, revision.mandatory)
    /\ inputs["corpus"] = Formal[policy].corpus.aggregate

\* Everything _evaluate refuses once it has the policy: an adoption that is no
\* longer fail-closed, legacy checks that were promoted, evidence other than the
\* accepted tree, a mandatory check that the objective does not compute
Evaluable(policy, evidence) ==
    /\ revision.evidence = "not_ready"
    /\ revision.mandatory \cap DiagnosticIds = {}
    /\ EvidenceHolds(Formal[policy], Evidence[evidence])
    /\ revision.mandatory \subseteq DiagnosticIds

FailedMandatory(e) ==
    IF RevisionReady(revision) THEN revision.mandatory \cap ObjectiveOf(e) ELSE {}

\* Mutant: B1 goes on when nothing mandatory has failed
Authorization_NoFailure(policy, evidence) ==
    LET e == Evidence[evidence]
    IN [policy |-> policy, acquisition |-> Acquisition(e), failed |-> FailedMandatory(e),
        diagnostic |-> ObjectiveOf(e), authorized |-> FailedMandatory(e) = {}]

\* The document; its policy is the hash of the file
Authorization(policy, evidence) ==
    LET e == Evidence[evidence]
    IN [policy |-> policy, acquisition |-> Acquisition(e), failed |-> FailedMandatory(e),
        diagnostic |-> ObjectiveOf(e), authorized |-> FailedMandatory(e) # {}]

\* verify_b1_authorization: recompute from the policy and the evidence as they
\* stand and compare exactly
Verified(document) ==
    /\ LoadPolicy(inputs["policy"])
    /\ Evaluable(inputs["policy"], inputs["evidence"])
    /\ document = Authorization(inputs["policy"], inputs["evidence"])
    /\ document.authorized \/ scenario.exercised

------------------------------------------------------------------------------
(* The authorizer                                                          *)

Authorizes(c, from) ==
    /\ At(c, "authorize", from)
    /\ UNCHANGED <<scenario, inputs, moved, late>>

ReadRule(c) ==
    /\ Authorizes(c, "idle")
    /\ ~moved
    /\ IF LoadPolicy(inputs["policy"])
       THEN Goes(c, "ruled") /\ Holds(c, [policy |-> inputs["policy"]])
       ELSE Goes(c, "error") /\ UNCHANGED my
    /\ UNCHANGED <<dirVars, faults>>

\* The evidence, and the decision
DecideB1(c) ==
    /\ Authorizes(c, "ruled")
    /\ IF Evaluable(my[c].held.policy, inputs["evidence"])
       THEN /\ Goes(c, "reading")
            /\ Holds(c, Authorization(my[c].held.policy, inputs["evidence"]))
       ELSE Goes(c, "error") /\ UNCHANGED my
    /\ UNCHANGED <<dirVars, faults>>

\* _write_noreplace: the temporary file
WriteDocument(c) ==
    /\ Authorizes(c, "reading")
    /\ \/ /\ ~moved
          /\ Makes(c, [document |-> my[c].held, stray |-> FALSE], "written", "cleanup")
       \/ moved /\ Goes(c, "error") /\ UNCHANGED <<dirVars, my, faults>>

PublishDocument(c) ==
    /\ Authorizes(c, "written")
    /\ Renames(c, "published", FALSE) \/ RefusesToReplace(c)

\* The identity of the file, its bytes and the directory
ReadBack(c) ==
    /\ Authorizes(c, "published")
    /\ Requires(c, Published(c) /\ ~trees[c].stray /\ ~moved, "ok")
    /\ UNCHANGED <<dirVars, faults>>

\* What was committed is taken back, if it is still the command's own file; else
\* the temporary file goes, once the command knows which file that is
RollBack(c) ==
    /\ Authorizes(c, "cleanup")
    /\ \/ /\ my[c].committed /\ Published(c)
          /\ Unbind(Out(c))
          /\ Goes(c, "error")
       \/ /\ my[c].committed /\ ~Published(c)
          /\ Goes(c, "committed")
          /\ UNCHANGED entries
       \/ /\ ~my[c].committed
          /\ IF my[c].failed = "tree" THEN UNCHANGED entries ELSE Unbind(Temp(c))
          /\ Goes(c, "error")
    /\ UNCHANGED <<trees, my, faults>>

Authorize(c) ==
    \/ ReadRule(c) \/ DecideB1(c) \/ WriteDocument(c) \/ PublishDocument(c)
    \/ ReadBack(c) \/ RollBack(c)

------------------------------------------------------------------------------
(* The continuation with B1                                                *)

Continues(c, from) ==
    /\ At(c, "b1", from)
    /\ UNCHANGED <<scenario, inputs, moved, late>>

\* The document at the authorizer's output, if there is one to read
Document ==
    LET publishers == {a \in Commands : kind[a] = "authorize" /\ Published(a)}
    IN IF publishers = {} THEN Nothing
       ELSE LET tree == trees[CHOOSE a \in publishers : TRUE]
            IN IF tree.stray THEN Nothing ELSE tree.document

RefuseToStart(c) == Goes(c, "error") /\ UNCHANGED my

\* _require_formal_acquisition_ready stands before the evidence is looked at
ReadGate(c) ==
    /\ Continues(c, "idle")
    /\ ~moved
    /\ IF /\ LoadPolicy(inputs["policy"])
          /\ AcquisitionReady(revision) \/ scenario.exercised
       THEN Goes(c, "gated") /\ Holds(c, [policy |-> inputs["policy"]])
       ELSE RefuseToStart(c)
    /\ UNCHANGED <<dirVars, faults>>

ReadAuthorization(c) ==
    /\ Continues(c, "gated")
    /\ IF Document # Nothing /\ Verified(Document)
       THEN Goes(c, "authorized") /\ Holds(c, Joined(my[c].held, [document |-> Document]))
       ELSE RefuseToStart(c)
    /\ UNCHANGED <<dirVars, faults>>

\* _candidate_core and _verify_candidate_source: the bundle is the frozen B1
CandidateHolds(policy) == inputs["resource"] = Formal[policy].artifacts.B1

\* The baseline, the runner and the corpus are taken from the evidence, the candidate
\* from its bundle, and the command's own sources from where they are executed
CapturePrior(c) ==
    /\ Continues(c, "authorized")
    /\ LET p == Formal[my[c].held.policy]
           e == Evidence[inputs["evidence"]]
       IN IF /\ PriorHolds(my[c].held.document.acquisition, e)
             /\ FixedContract(p, e) /\ BaselineHolds(p, e)
             /\ CandidateHolds(my[c].held.policy)
          THEN /\ Goes(c, "reading")
               /\ Holds(c, Joined(my[c].held,
                      [baseline |-> e.raw["H0"].hits, candidate |-> inputs["resource"],
                       sources |-> inputs["sources"]]))
          ELSE RefuseToStart(c)
    /\ UNCHANGED <<dirVars, faults>>

\* _expected_tree: what the memory of the command says the private tree must hold
ExpectedTree(memory) == [content |-> memory, stray |-> FALSE]

\* _snapshot_prior, _snapshot_b1 and _copy_sources into a private directory
BuildTree(c) ==
    /\ Continues(c, "reading")
    /\ \/ /\ ~moved /\ ~Exists(Out(c))
          /\ Bind(Temp(c), Tree(c))
          /\ trees' = [trees EXCEPT ![c] = ExpectedTree(my[c].held)]
          /\ Goes(c, "probe")
          /\ UNCHANGED my
       \/ (moved \/ Exists(Out(c))) /\ Raises(c, "cleanup") /\ UNCHANGED dirVars
    /\ UNCHANGED faults

\* What a probe may write: the hits of B1 in the private copy, those of something
\* else, or nothing that can be read
RawB1 ==
    [resource : {"private"}, hits : DOMAIN Score]
        \cup [resource : {"other"}, hits : {"base"}]
        \cup [resource : {"private"}, hits : {"junk"}]

ProbeB1(c) ==
    /\ Continues(c, "probe")
    /\ \/ \E raw \in RawB1 :
            /\ trees' = [trees EXCEPT ![c].content = Joined(@, [raw |-> raw])]
            /\ Goes(c, "exited")
            /\ UNCHANGED <<entries, my>>
       \/ Raises(c, "cleanup") /\ UNCHANGED dirVars
    /\ UNCHANGED faults

\* _validate_raw_common and _validate_b1_raw
RawB1Valid(raw) == raw.hits \in DOMAIN Score /\ raw.resource = "private"

\* _objective_report: the diagnosis, and no pass whatever it is
DiagnosticReport(baseline, candidate, document) ==
    [diagnostic |-> ObjectivePassed(baseline, candidate), passed |-> FALSE,
     failed |-> document.failed]

\* The raw run is read once, and everything else that is written follows from it
ReportB1(c) ==
    /\ Continues(c, "exited")
    /\ LET raw == trees[c].content.raw
           held == my[c].held
           memory == Joined(held, [raw |-> raw, report |->
                        DiagnosticReport(held.baseline, raw.hits, held.document)])
       IN IF RawB1Valid(raw)
          THEN /\ Goes(c, "reported")
               /\ Holds(c, memory)
               /\ trees' = [trees EXCEPT ![c].content = memory]
               /\ UNCHANGED entries
          ELSE Raises(c, "cleanup") /\ UNCHANGED dirVars
    /\ UNCHANGED faults

\* Mutant: the policy that was read at the gate is not compared again
AuthorityHolds_NoPolicy(c) ==
    /\ Document = my[c].held.document
    /\ Verified(Document)
    /\ CandidateHolds(my[c].held.policy)
    /\ inputs["sources"] = my[c].held.sources

\* The policy, the authorization, the accepted tree, the candidate and the
\* sources, all read again
AuthorityHolds(c) ==
    /\ inputs["policy"] = my[c].held.policy
    /\ Document = my[c].held.document
    /\ Verified(Document)
    /\ CandidateHolds(my[c].held.policy)
    /\ inputs["sources"] = my[c].held.sources

ReAuthenticate(c) ==
    /\ Continues(c, "reported")
    /\ Requires(c, AuthorityHolds(c), "verified")
    /\ UNCHANGED <<dirVars, faults>>

TreeHolds(c) == trees[c] = ExpectedTree(my[c].held)

\* _freeze_tree_b1, between two comparisons with the bytes in memory
FreezeB1(c) ==
    /\ Continues(c, "verified")
    /\ Requires(c, TreeHolds(c), "boundary")
    /\ UNCHANGED <<dirVars, faults>>

AtBoundary(c) ==
    /\ Continues(c, "boundary")
    /\ Requires(c, AuthorityHolds(c) /\ TreeHolds(c) /\ ~moved, "frozen")
    /\ UNCHANGED <<dirVars, faults>>

PublishB1(c) ==
    /\ Continues(c, "frozen")
    /\ Renames(c, "published", FALSE) \/ RefusesToReplace(c)

AssureB1(c) ==
    /\ Continues(c, "published")
    /\ Requires(c, Published(c) /\ TreeHolds(c) /\ ~moved, "ok")
    /\ UNCHANGED <<dirVars, faults>>

\* Nothing is removed: a tree that was not published is reported and stays
RetainB1(c) ==
    /\ Continues(c, "cleanup")
    /\ Goes(c, IF my[c].committed THEN "committed" ELSE "error")
    /\ UNCHANGED <<dirVars, my, faults>>

ContinueB1(c) ==
    \/ ReadGate(c) \/ ReadAuthorization(c) \/ CapturePrior(c) \/ BuildTree(c)
    \/ ProbeB1(c) \/ ReportB1(c) \/ ReAuthenticate(c) \/ FreezeB1(c)
    \/ AtBoundary(c) \/ PublishB1(c) \/ AssureB1(c) \/ RetainB1(c)
=============================================================================
