-------------------------- MODULE ObjectiveAcquisition --------------------------
(***************************************************************************)
(* run_mozc_v2_objective.py: acquire() validates its inputs against the    *)
(* fixed contract, takes a lock, copies every input into a private tree,   *)
(* runs the probe for the baseline H0 and for the candidate B0, scores     *)
(* both, verifies the copies, the inputs and its own sources again, and    *)
(* publishes the frozen tree with one rename that never replaces.          *)
(***************************************************************************)
EXTENDS EvidenceFiles, EvidenceScore

RunSequence == <<"H0", "B0">>

\* What a probe can write: the baseline's hits, one of the candidates', or
\* something _validate_raw_run refuses
Results(run) == IF run = "H0" THEN {"base"} ELSE DOMAIN Score \cup {"junk"}

Readable(result) == result \in DOMAIN Score

\* The bytes in memory that the copies and the inputs are compared with
Memory(c) == my[c].held

\* _verify_python_sources
SourcesHold(c) == inputs["sources"] = Memory(c).sources

\* _validate_sealed_inputs: the generation, its manifests and its rows
SealedInputsValid == inputs["corpus"] = "fixed"

\* The executable and every library it may load
RunnerValid == inputs["runner"] = "fixed"

\* The fingerprint of the dictionary and of the B0 bundle
ResourceValid == inputs["resource"] = "fixed"

\* _verify_source_inputs, and the sources
InputsHold(c) ==
    SealedInputsValid /\ RunnerValid /\ ResourceValid /\ SourcesHold(c)

\* _verify_snapshots: nothing but the command writes to the copies
CopiesHold(c) == trees[c].sources = Memory(c).sources

\* _verify_generated_outputs: the exact set of files and their bytes
OutputsHold(c) ==
    /\ ~trees[c].stray
    /\ trees[c].raw = Memory(c).raw
    /\ trees[c].manifest = Memory(c).manifest

Objective(c, from) ==
    /\ At(c, "objective", from)
    /\ UNCHANGED <<scenario, inputs, moved, late>>

Fails(c) == Raises(c, "cleanup") /\ UNCHANGED dirVars

------------------------------------------------------------------------------

\* The inputs: a refusal here leaves nothing to clean up
ReadInputs(c) ==
    /\ Objective(c, "idle")
    /\ ~moved
    /\ IF SealedInputsValid /\ RunnerValid
       THEN /\ Goes(c, "reading")
            /\ Holds(c, [sources |-> inputs["sources"], raw |-> Nothing,
                         manifest |-> Nothing])
       ELSE Goes(c, "error") /\ UNCHANGED my
    /\ UNCHANGED <<dirVars, faults>>

CheckOutput(c) ==
    /\ Objective(c, "reading")
    /\ Requires(c, ~moved /\ ~Exists(Out(c)), "absent")
    /\ UNCHANGED <<dirVars, faults>>

\* The lock is the command's own once it knows the identity of the file: a failure
\* before that, and finally only says that it does not
TakeLock(c) ==
    /\ Objective(c, "absent")
    /\ \/ CreatesLock(c) /\ UNCHANGED trees
       \/ Exists(Lock(c)) /\ Fails(c) /\ UNCHANGED faults

\* The private tree, which the command knows once it has its name, with the copies,
\* which match the contract or end the run
CopyInputs(c) ==
    /\ Objective(c, "locked")
    /\ Bind(Temp(c), Tree(c))
    /\ trees' = [trees EXCEPT ![c] = [sources |-> Memory(c).sources,
           raw |-> Nothing, manifest |-> Nothing, stray |-> FALSE]]
    /\ \/ Requires(c, InputsHold(c), "probe") /\ UNCHANGED faults
       \/ Unnoted(c, "tree", "cleanup")

NextRun(c) == RunSequence[Cardinality(DOMAIN Memory(c).raw) + 1]

\* _run_probe: the probe writes its raw file and exits, or it fails or is
\* ended with its process group when the time is up
RunProbe(c) ==
    /\ Objective(c, "probe")
    /\ \/ \E result \in Results(NextRun(c)) :
            /\ trees' = [trees EXCEPT ![c].raw = Recorded(@, NextRun(c), result)]
            /\ Goes(c, "exited")
            /\ UNCHANGED <<entries, my>>
       \/ Fails(c)
    /\ UNCHANGED faults

\* _validate_raw_run and _quality_report
ReadRun(c) ==
    /\ Objective(c, "exited")
    /\ LET run == NextRun(c)
           result == trees[c].raw[run]
       IN IF Readable(result)
          THEN /\ Goes(c, IF run = "B0" THEN "scored" ELSE "probe")
               /\ my' = [my EXCEPT ![c].held.raw = Recorded(@, run, result)]
               /\ UNCHANGED dirVars
          ELSE Fails(c)
    /\ UNCHANGED faults

\* build_objective_report, the second verification and the manifest
WriteManifest(c) ==
    /\ Objective(c, "scored")
    /\ LET raw == Memory(c).raw
           manifest == [raw |-> raw, sources |-> Memory(c).sources,
                        passed |-> ObjectivePassed(raw["H0"], raw["B0"])]
       IN IF CopiesHold(c) /\ InputsHold(c)
          THEN /\ trees' = [trees EXCEPT ![c].manifest = manifest]
               /\ my' = [my EXCEPT ![c].held.manifest = manifest]
               /\ Goes(c, "written")
               /\ UNCHANGED entries
          ELSE Fails(c)
    /\ UNCHANGED faults

CheckFiles(c) ==
    /\ Objective(c, "written")
    /\ Requires(c, CopiesHold(c) /\ OutputsHold(c) /\ InputsHold(c), "checked")
    /\ UNCHANGED <<dirVars, faults>>

\* _capture_tree and _frozen_tree_contract: whatever the tree holds now
CaptureTree(c) ==
    /\ Objective(c, "checked")
    /\ Goes(c, "captured")
    /\ my' = [my EXCEPT ![c].tree = trees[c]]
    /\ UNCHANGED <<dirVars, faults>>

\* _freeze_tree, _verify_tree
FreezeTree(c) ==
    /\ Objective(c, "captured")
    /\ Requires(c, trees[c] = my[c].tree /\ SourcesHold(c) /\ ~moved, "frozen")
    /\ UNCHANGED <<dirVars, faults>>

\* An exception that reaches the command after the rename finds its own tree at
\* the destination
Publish(c) ==
    /\ Objective(c, "frozen")
    /\ Renames(c, "published", TRUE) \/ RefusesToReplace(c)

VerifyPublished(c) ==
    /\ Objective(c, "published")
    /\ Requires(c, Published(c) /\ trees[c] = my[c].tree /\ ~moved, "assured")
    /\ UNCHANGED <<dirVars, faults>>

\* _unlink_owned_lock looks at the lock and then removes what has its name
CheckLock(c) ==
    /\ Objective(c, "assured")
    /\ Requires(c, entries[Lock(c)] = LockFile(c), "unlocking")
    /\ UNCHANGED <<dirVars, faults>>

\* The finally that follows finds nothing to remove
Unlock(c) ==
    /\ Objective(c, "unlocking")
    /\ \/ /\ Exists(Lock(c))
          /\ Unbind(Lock(c))
          /\ my' = [my EXCEPT ![c].lock = FALSE]
          /\ Goes(c, "closing")
          /\ UNCHANGED trees
       \/ ~Exists(Lock(c)) /\ Fails(c)
    /\ UNCHANGED faults

\* Mutant: only a published command cleans up its lock
CleanLock_Published(c) ==
    /\ Objective(c, "cleanup")
    /\ Goes(c, "discard")
    /\ IF my[c].lock /\ my[c].committed /\ entries[Lock(c)] = LockFile(c)
       THEN Unbind(Lock(c)) ELSE UNCHANGED entries
    /\ UNCHANGED <<trees, my, faults>>

\* finally: the lock if it is the command's own, then the tree unless published
CleanLock(c) ==
    /\ Objective(c, "cleanup")
    /\ Goes(c, "discard")
    /\ \/ /\ my[c].lock /\ entries[Lock(c)] = LockFile(c)
          /\ Unbind(Lock(c))
          /\ my' = [my EXCEPT ![c].lock = FALSE]
       \/ /\ ~(my[c].lock /\ entries[Lock(c)] = LockFile(c))
          /\ UNCHANGED <<entries, my>>
    /\ UNCHANGED <<trees, faults>>

\* A tree the command knows of and has not published
Discardable(c) == ~my[c].committed /\ my[c].failed # "tree" /\ Exists(Temp(c))

\* _make_tree_removable and rmtree
Discard(c) ==
    /\ Objective(c, "discard")
    /\ Goes(c, "closing")
    /\ \/ /\ Discardable(c)
          /\ Unbind(Temp(c))
          /\ trees' = [trees EXCEPT ![c] = Nothing]
       \/ ~Discardable(c) /\ UNCHANGED dirVars
    /\ UNCHANGED <<my, faults>>

\* The directory is where it was, and nothing has failed
EndsWell(c) == my[c].failed = "no" /\ ~moved

\* Mutant: the error hides that the rename took place
Report_Plain(c) ==
    /\ Objective(c, "closing")
    /\ Goes(c, IF EndsWell(c) THEN "ok" ELSE "error")
    /\ UNCHANGED <<dirVars, my, faults>>

\* EvidenceCommittedError when the rename has happened, else the error itself
Report(c) ==
    /\ Objective(c, "closing")
    /\ Goes(c, IF EndsWell(c) THEN "ok" ELSE IF my[c].committed THEN "committed" ELSE "error")
    /\ UNCHANGED <<dirVars, my, faults>>

AcquireObjective(c) ==
    \/ ReadInputs(c) \/ CheckOutput(c) \/ TakeLock(c) \/ CopyInputs(c)
    \/ RunProbe(c) \/ ReadRun(c) \/ WriteManifest(c) \/ CheckFiles(c)
    \/ CaptureTree(c) \/ FreezeTree(c) \/ Publish(c) \/ VerifyPublished(c)
    \/ CheckLock(c) \/ Unlock(c) \/ CleanLock(c) \/ Discard(c) \/ Report(c)
=============================================================================
