------------------------- MODULE MeasurementAcquisition -------------------------
(***************************************************************************)
(* run_mozc_b0_measurement.py: acquire() compares its producer, executable *)
(* and runtime with the frozen policy, copies the runtime into a private   *)
(* tree, measures both backends in turn against the live dictionary and    *)
(* bundle, and only then takes the lock and publishes.  It works on paths, *)
(* looks at its raw files once, and removes the lock by name.              *)
(***************************************************************************)
EXTENDS EvidenceFiles, EvidenceScore

\* Two of the eight runs of SEQUENCE
Sequence == <<"hazkey", "mozc">>

\* What a probe writes: the hits it counts with the resources as they stand, or
\* something _validate_probe refuses
Measured(run) ==
    {[resource |-> inputs["resource"], corpus |-> inputs["corpus"], hits |-> h] :
        h \in IF run = "hazkey" THEN {"base"} ELSE DOMAIN Score}
    \cup {[resource |-> "none", corpus |-> "none", hits |-> "junk"]}

Measure(c, from) ==
    /\ At(c, "measure", from)
    /\ UNCHANGED <<scenario, inputs, moved, late>>

Aborts(c) == Raises(c, "cleanup") /\ UNCHANGED dirVars

------------------------------------------------------------------------------

\* _expect_policy_identity: the command itself, the executable and its libraries
IdentitiesPinned(policy) ==
    /\ inputs["sources"] = policy.measurement.producer
    /\ inputs["runner"] = policy.candidate.runner

\* _parse_frozen_policy, and what it pins.  The corpus is only counted
CheckPolicy(c) ==
    /\ Measure(c, "idle")
    /\ ~moved
    /\ LET policy == Pilot[inputs["pilot"]]
       IN IF ParsePilot(policy) /\ IdentitiesPinned(policy) /\ ~Exists(Out(c))
          THEN /\ Goes(c, "reading")
               /\ Holds(c, [producer |-> inputs["sources"], executable |-> inputs["runner"],
                            corpus |-> inputs["corpus"], entries |-> Nothing])
          ELSE Goes(c, "error") /\ UNCHANGED my
    /\ UNCHANGED <<dirVars, faults>>

\* mkdtemp, which comes before the try, and _create_runtime_snapshot
SnapshotRuntime(c) ==
    /\ Measure(c, "reading")
    /\ \/ /\ ~moved
          /\ Makes(c, [raw |-> Nothing, manifest |-> Nothing, stray |-> FALSE],
                   "probe", "error")
       \/ moved /\ Goes(c, "error") /\ UNCHANGED <<dirVars, my, faults>>

NextMeasurement(c) == Sequence[Cardinality(DOMAIN my[c].held.entries) + 1]

\* The probe reads the dictionary or the bundle as it stands
Probe(c) ==
    /\ Measure(c, "probe")
    /\ \/ \E result \in Measured(NextMeasurement(c)) :
            /\ ~moved
            /\ trees' = [trees EXCEPT ![c].raw = Recorded(@, NextMeasurement(c), result)]
            /\ Goes(c, "exited")
            /\ UNCHANGED <<entries, my>>
       \/ Aborts(c)
    /\ UNCHANGED faults

\* _validate_probe: the corpus is the one that was read, the resource any
ProbeValid(c, result) == result.hits # "junk" /\ result.corpus = my[c].held.corpus

ReadProbe(c) ==
    /\ Measure(c, "exited")
    /\ LET run == NextMeasurement(c)
           result == trees[c].raw[run]
       IN IF ProbeValid(c, result) /\ ~moved
          THEN /\ Goes(c, IF run = "mozc" THEN "measured" ELSE "probe")
               /\ Holds(c, [my[c].held EXCEPT !.entries = Recorded(@, run, result)])
               /\ UNCHANGED dirVars
          ELSE Aborts(c)
    /\ UNCHANGED faults

\* _verify_runtime_snapshot notices a stray file in the runtime copy only
WriteMeasurement(c) ==
    /\ Measure(c, "measured")
    /\ \/ /\ ~moved
          /\ trees' = [trees EXCEPT ![c].manifest = my[c].held]
          /\ Goes(c, "unlocked")
          /\ UNCHANGED <<entries, my>>
       \/ (moved \/ trees[c].stray) /\ Aborts(c)
    /\ UNCHANGED faults

LockOutput(c) ==
    /\ Measure(c, "unlocked")
    /\ \/ ~moved /\ CreatesLock(c) /\ UNCHANGED trees
       \/ (moved \/ Exists(Lock(c))) /\ Aborts(c) /\ UNCHANGED faults

CheckAgain(c) ==
    /\ Measure(c, "locked")
    /\ Requires(c, ~Exists(Out(c)) /\ inputs["sources"] = my[c].held.producer, "frozen")
    /\ UNCHANGED <<dirVars, faults>>

PublishMeasurement(c) ==
    /\ Measure(c, "frozen")
    /\ \/ ~moved /\ Renames(c, "published", FALSE)
       \/ ~moved /\ RefusesToReplace(c)
       \/ moved /\ Aborts(c) /\ UNCHANGED faults

\* _fsync_directory by path: its failure is the command's, though published
SyncMeasurement(c) ==
    /\ Measure(c, "published")
    /\ Goes(c, "cleanup")
    /\ my' = [my EXCEPT ![c].failed = IF moved THEN "error" ELSE "no"]
    /\ UNCHANGED <<dirVars, faults>>

\* finally: whatever has the name of the lock, then the tree if it is there
UnlinkLock(c) ==
    /\ Measure(c, "cleanup")
    /\ Goes(c, "discard")
    /\ UnlinkByName(c)
    /\ UNCHANGED <<trees, faults>>

RemoveTemporary(c) ==
    /\ Measure(c, "discard")
    /\ RemoveByName(c)
    /\ EndsByName(c)
    /\ UNCHANGED <<my, faults>>

\* A process that a probe left behind writes a raw run once more.  The command read it
\* when its probe had ended and does not again; whoever reads the evidence compares
OverwriteRaw(c) ==
    /\ kind[c] = "measure"
    /\ Happens
    /\ trees[c] # Nothing
    /\ \E run \in DOMAIN my[c].held.entries :
          \E hits \in DOMAIN Score \ {trees[c].raw[run].hits} :
             trees' = [trees EXCEPT ![c].raw[run].hits = hits]
    /\ late' = late \cup {c}
    /\ UNCHANGED <<scenario, entries, inputs, moved, at, my>>

AcquireMeasurement(c) ==
    \/ CheckPolicy(c) \/ SnapshotRuntime(c) \/ Probe(c) \/ ReadProbe(c)
    \/ WriteMeasurement(c) \/ LockOutput(c) \/ CheckAgain(c)
    \/ PublishMeasurement(c) \/ SyncMeasurement(c) \/ UnlinkLock(c)
    \/ RemoveTemporary(c) \/ OverwriteRaw(c)
=============================================================================
