----------------------------- MODULE CorpusSealing -----------------------------
(***************************************************************************)
(* seal_frozen_corpus_v2.py: seal() reads the reviewed corpus from a       *)
(* pinned directory, regenerates everything in a scratch directory, and    *)
(* publishes the result under a name that is its hash.  A verification     *)
(* that fails after the rename takes the generation back, by name.         *)
(***************************************************************************)
EXTENDS EvidenceFiles

Seals(c, from) ==
    /\ At(c, "seal", from)
    /\ UNCHANGED <<scenario, inputs, moved, late>>

\* _remove_staging unlinks the files it generated from the directory of that
\* name, then the directory itself, which a file of someone else keeps there
RemoveGeneration(c, name) ==
    \/ /\ entries[name] = Tree(c) /\ trees[c].stray
       /\ trees' = [trees EXCEPT ![c].whole = FALSE]
       /\ UNCHANGED entries
    \/ /\ entries[name] = Tree(c) /\ ~trees[c].stray
       /\ trees' = [trees EXCEPT ![c] = Nothing]
       /\ Unbind(name)

------------------------------------------------------------------------------

\* _snapshot_inputs and _prepare_snapshot: reviewed hashes, counts, families,
\* duplicates and the near-duplicate review must all be the reviewed ones
PrepareSnapshot(c) ==
    /\ Seals(c, "idle")
    /\ ~moved
    /\ Goes(c, IF inputs["corpus"] = "fixed" THEN "reading" ELSE "error")
    /\ UNCHANGED <<dirVars, my, faults>>

MakeStaging(c) ==
    /\ Seals(c, "reading")
    /\ \/ ~moved /\ Makes(c, [whole |-> FALSE, stray |-> FALSE], "staging", "cleanup")
       \/ moved /\ Goes(c, "error") /\ UNCHANGED <<dirVars, my, faults>>

\* _write_all_at
WriteStaging(c) ==
    /\ Seals(c, "staging")
    /\ trees' = [trees EXCEPT ![c].whole = TRUE]
    /\ Requires(c, ~moved, "staged")
    /\ UNCHANGED <<entries, faults>>

PublishGeneration(c) ==
    /\ Seals(c, "staged")
    /\ Renames(c, "published", FALSE) \/ RefusesToReplace(c)

\* _verify_generation_at between two looks at the pinned directory
VerifyGeneration(c) ==
    /\ Seals(c, "published")
    /\ \/ /\ Published(c) /\ trees[c].whole /\ ~trees[c].stray /\ ~moved
          /\ Goes(c, "ok")
          /\ UNCHANGED <<dirVars, my>>
       \/ /\ Published(c) /\ (trees[c].stray \/ moved)
          /\ Raises(c, "cleanup")
          /\ RemoveGeneration(c, Out(c))
       \/ /\ ~Published(c)
          /\ Raises(c, "cleanup")
          /\ Unbind(Out(c)) \/ UNCHANGED entries
          /\ UNCHANGED trees
    /\ UNCHANGED faults

\* Only a directory that staging_created was set for
RemoveStaging(c) ==
    /\ Seals(c, "cleanup")
    /\ Goes(c, "error")
    /\ IF Exists(Temp(c)) /\ my[c].failed # "tree"
       THEN RemoveGeneration(c, Temp(c)) ELSE UNCHANGED dirVars
    /\ UNCHANGED <<my, faults>>

SealCorpus(c) ==
    \/ PrepareSnapshot(c) \/ MakeStaging(c) \/ WriteStaging(c)
    \/ PublishGeneration(c) \/ VerifyGeneration(c) \/ RemoveStaging(c)
=============================================================================
