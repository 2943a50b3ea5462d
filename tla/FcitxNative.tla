------------------------------ MODULE FcitxNative ------------------------------
(***************************************************************************)
(* collect of run_mozc_b0_stability.py, for the Fcitx lifecycle: the       *)
(* harness has written a native result and kept the inputs it ran with     *)
(* beside it; collect accepts both under the policy, looks again at all it *)
(* does not hold a descriptor of, and publishes the record.                *)
(***************************************************************************)
EXTENDS StabilitySuites

Lifecycle == SuiteRequirements["lifecycle"]
Iterations == Lifecycle.conversions \div Lifecycle.cycles

------------------------------------------------------------------------------
(* What the harness has left                                               *)

\* A process is known by its number and its start
HarnessProcess(role, n) ==
    [launches |-> <<<<role, n>>>>, recoveries |-> 0, observed |-> {<<role, n>>},
     executable |-> role, sessions |-> {n}, clean |-> TRUE]

HarnessCycle(n) ==
    [number |-> n, conversions |-> Iterations, locked |-> TRUE, together |-> 1,
     clean |-> TRUE, server |-> HarnessProcess("server", n),
     helper |-> HarnessProcess("helper", n)]

\* The copied inputs: what each is an input for, where it came from, what it is
SnapshotPlaces ==
    {"harness", "addon", "server", "config", "verifier", "testaddon", "dictionary",
     "helper", "data", "manifest", "libraries"}

FrozenEntries ==
    [place \in SnapshotPlaces |->
        [input |-> IF place \in {"helper", "data", "manifest"} THEN "generation" ELSE place,
         source |-> place, content |-> "fixed"]]

SnapshotFingerprint(copied) ==
    IF \A place \in DOMAIN copied :
          /\ place \in SnapshotPlaces
          /\ copied[place].input = FrozenEntries[place].input
          /\ copied[place].content = "fixed"
    THEN "fixed" ELSE "edited"

FrozenResult ==
    [exit |-> 0, artifact |-> "fixed", server |-> "fixed", producer |-> "fixed",
     source |-> [head |-> "fixed", clean |-> TRUE],
     snapshot |-> [fingerprint |-> "fixed", entries |-> FrozenEntries, verified |-> TRUE],
     artifacts |-> [place \in {"harness", "addon", "server", "verifier", "manifest",
                               "helper", "data"} |-> "fixed"],
     runtime |-> {"helper", "data"}, command |-> [place \in SnapshotPlaces |-> place],
     iterations |-> Iterations,
     totals |-> [conversions |-> Lifecycle.conversions, cycles |-> Lifecycle.cycles,
                 counts |-> Lifecycle.counts],
     cycles |-> [n \in 1 .. Lifecycle.cycles |-> HarnessCycle(n)]]

\* As it should be; with a helper that was started twice, a cycle in the session of
\* the one before, a server that was there before, or a cycle cut short; of another
\* build; or told to use other files than it copied
HarnessResult ==
    [fixed |-> FrozenResult,
     recovered |-> [FrozenResult EXCEPT
         !.cycles[2].helper.launches = Append(@, <<"helper", 0>>),
         !.cycles[2].helper.observed = @ \cup {<<"helper", 0>>}],
     shared |-> [FrozenResult EXCEPT !.cycles[3].server.sessions = {2},
                                     !.cycles[3].helper.sessions = {2}],
     reused |-> [FrozenResult EXCEPT !.cycles[3].server.launches = <<<<"server", 2>>>>,
                                     !.cycles[3].server.observed = {<<"server", 2>>}],
     short |-> [FrozenResult EXCEPT !.cycles[2].conversions = @ - 1],
     rebuilt |-> [FrozenResult EXCEPT !.server = "edited", !.artifacts["server"] = "edited",
                     !.snapshot.entries["server"].content = "edited",
                     !.snapshot.fingerprint = "edited"],
     redirected |-> [FrozenResult EXCEPT !.command["server"] = "harness"]]

\* The retained evidence as it stands
RetainedTree ==
    LET frozen == [private |-> TRUE, names |-> {"inputs", "runtime"},
                   inputs |-> [place \in SnapshotPlaces |-> "fixed"],
                   runtime |-> [file \in {"helper", "data"} |-> "fixed"]]
    IN [fixed |-> frozen,
        edited |-> [frozen EXCEPT !.inputs["addon"] = "edited"],
        added |-> [frozen EXCEPT !.inputs = @ @@ [other |-> "edited"]],
        replaced |-> [frozen EXCEPT !.runtime["data"] = "edited"]]

\* _trusted_repository_state, and the harness in the repository
RepositoryState ==
    LET frozen == [head |-> "fixed", clean |-> TRUE, producer |-> "fixed"]
    IN [fixed |-> frozen, dirty |-> [frozen EXCEPT !.clean = FALSE],
        advanced |-> [frozen EXCEPT !.head = "other"]]

------------------------------------------------------------------------------
(* What collect accepts                                                    *)

\* _preflight_fcitx_acquisition_source
PreflightHolds(result, repository, expected) ==
    /\ result.producer = expected.producer
    /\ repository.producer = expected.producer
    /\ result.source.head = repository.head
    /\ result.source.clean /\ repository.clean

\* _read_fcitx_snapshot_directory: whole, read-only, and unchanged while it is read
RetainedInputs(tree) == tree.inputs

\* _validate_fcitx_snapshot: the fingerprint is the one pinned, and that of the
\* entries, which are what is retained
SnapshotValid(snapshot, tree, expected) ==
    /\ snapshot.fingerprint = expected.snapshot
    /\ snapshot.verified
    /\ SnapshotFingerprint(snapshot.entries) = snapshot.fingerprint
    /\ tree.private /\ tree.names = {"inputs", "runtime"}
    /\ DOMAIN RetainedInputs(tree) = DOMAIN snapshot.entries
    /\ \A place \in DOMAIN snapshot.entries :
          RetainedInputs(tree)[place] = snapshot.entries[place].content

\* The start of _validate_fcitx: what ran
HeaderValid(result, expected) ==
    /\ result.exit = 0
    /\ result.artifact = expected.resource
    /\ result.server = expected.runner
    /\ result.producer = expected.producer

\* Every input is in its place; the dictionary is the baseline's
PlacesValid(copied, expected) ==
    /\ SnapshotPlaces \subseteq DOMAIN copied
    /\ \A place \in DOMAIN copied :
          copied[place].input = FrozenEntries[place].input
    /\ copied["dictionary"].content = expected.baseline

\* The artifacts are the entries, and those the policy names
ArtifactsValid(result, expected) ==
    LET copied == result.snapshot.entries
        artifacts == result.artifacts
    IN /\ \A place \in DOMAIN artifacts : artifacts[place] = copied[place].content
       /\ artifacts["server"] = expected.runner
       /\ \A file \in {"helper", "data"} : artifacts[file] = expected.artifacts
       /\ \A file \in {"helper", "manifest", "data"} : artifacts[file] = expected.resource

\* _validate_fcitx_retained_runtime: the inputs once more, and the runtime that ran
RetainedRuntimeValid(result, tree) ==
    /\ tree.private /\ tree.names = {"inputs", "runtime"}
    /\ \A place \in DOMAIN RetainedInputs(tree) :
          /\ place \in DOMAIN result.snapshot.entries
          /\ RetainedInputs(tree)[place] = result.snapshot.entries[place].content
    /\ DOMAIN tree.runtime = {"helper", "data"}
    /\ \A file \in DOMAIN tree.runtime : tree.runtime[file] = result.artifacts[file]

\* The server's libraries are those of the executable the policy pins
LibrariesValid(result, expected) ==
    /\ result.snapshot.entries["libraries"].content = expected.runner
    /\ result.runtime = {"helper", "data"}

\* The harness was told to use what it copied
CommandValid(result) ==
    \A place \in DOMAIN result.command :
        result.command[place] = result.snapshot.entries[place].source

TotalsValid(result) ==
    /\ result.iterations = Iterations
    /\ result.totals = [conversions |-> Lifecycle.conversions, cycles |-> Lifecycle.cycles,
                        counts |-> Lifecycle.counts]

\* _validate_process_payload: one observed identity for each launch
ProcessesValid(process, executable) ==
    /\ IsInjective(process.launches)
    /\ process.observed = Range(process.launches)
    /\ process.executable = executable
    /\ process.clean
    /\ process.launches # <<>> => Cardinality(process.sessions) = 1

IdentitiesOf(cycle) == cycle.server.observed \cup cycle.helper.observed

\* One server and one helper in each cycle, in a session no earlier cycle had, and
\* neither seen before
CycleValid(cycles, n) ==
    LET cycle == cycles[n]
    IN /\ cycle.number = n
       /\ cycle.conversions = Iterations
       /\ cycle.locked /\ cycle.together = 1 /\ cycle.clean
       /\ \A role \in {"server", "helper"} :
             /\ ProcessesValid(cycle[role], role)
             /\ Len(cycle[role].launches) = 1 /\ cycle[role].recoveries = 0
       /\ cycle.server.sessions = cycle.helper.sessions
       /\ \A earlier \in 1 .. n - 1 :
             /\ cycle.server.sessions # cycles[earlier].server.sessions
             /\ IdentitiesOf(cycle) \cap IdentitiesOf(cycles[earlier]) = {}

CyclesValid(result) ==
    /\ Len(result.cycles) = Lifecycle.cycles
    /\ \A n \in DOMAIN result.cycles : CycleValid(result.cycles, n)

\* _validate_fcitx, after the snapshot
FcitxValid(result, tree, expected) ==
    /\ PlacesValid(result.snapshot.entries, expected)
    /\ ArtifactsValid(result, expected)
    /\ RetainedRuntimeValid(result, tree)
    /\ LibrariesValid(result, expected)
    /\ CommandValid(result) /\ TotalsValid(result) /\ CyclesValid(result)

------------------------------------------------------------------------------
(* collect                                                                 *)

Collects(c, from) ==
    /\ At(c, "collect", from)
    /\ UNCHANGED <<scenario, inputs, moved, late>>

Collected(c) == my[c].held

\* The native result, the policy, the orchestrator and the harness in its repository
ReadNative(c) ==
    /\ Collects(c, "idle")
    /\ LET policy == Pilot[inputs["pilot"]]
           expected == Expectations(policy, "lifecycle")
           holds == /\ ~moved
                    /\ Expecting(policy, "lifecycle")
                    /\ OrchestratorPinned(expected)
                    /\ PreflightHolds(HarnessResult[inputs["native"]],
                                      RepositoryState[inputs["repository"]], expected)
       IN IF holds
          THEN /\ Goes(c, "ruled")
               /\ Holds(c, [native |-> inputs["native"], expected |-> expected,
                            repository |-> inputs["repository"],
                            orchestrator |-> inputs["sources"]])
          ELSE Goes(c, "error") /\ UNCHANGED my
    /\ UNCHANGED <<dirVars, faults>>

ValidateSnapshot(c) ==
    /\ Collects(c, "ruled")
    /\ LET result == HarnessResult[Collected(c).native]
           valid == /\ HeaderValid(result, Collected(c).expected)
                    /\ SnapshotValid(result.snapshot, RetainedTree[inputs["retained"]],
                                     Collected(c).expected)
       IN Goes(c, IF valid /\ ~moved THEN "captured" ELSE "error")
    /\ UNCHANGED <<dirVars, my, faults>>

ValidateNative(c) ==
    /\ Collects(c, "captured")
    /\ LET valid == FcitxValid(HarnessResult[Collected(c).native],
                               RetainedTree[inputs["retained"]], Collected(c).expected)
       IN Goes(c, IF valid /\ ~moved THEN "verified" ELSE "error")
    /\ UNCHANGED <<dirVars, my, faults>>

\* The repository, the native result and the orchestrator are as they were
ReadNativeAgain(c) ==
    /\ Collects(c, "verified")
    /\ LET same == /\ inputs["repository"] = Collected(c).repository
                   /\ inputs["native"] = Collected(c).native
                   /\ inputs["sources"] = Collected(c).orchestrator
       IN Goes(c, IF same /\ ~moved THEN "reading" ELSE "error")
    /\ UNCHANGED <<dirVars, my, faults>>

\* atomic_publish, through a descriptor of the directory, of what build_record binds
WriteRecord(c) ==
    /\ Collects(c, "reading")
    /\ \/ /\ ~moved /\ ~Exists(Out(c))
          /\ Bind(Temp(c), Tree(c))
          /\ trees' = [trees EXCEPT ![c] =
                 [native |-> Collected(c).native, stray |-> FALSE,
                  orchestrator |-> Collected(c).orchestrator]]
          /\ Goes(c, "written")
       \/ (moved \/ Exists(Out(c))) /\ Goes(c, "error") /\ UNCHANGED dirVars
    /\ UNCHANGED <<my, faults>>

\* os.link
LinkRecord(c) ==
    /\ Collects(c, "written")
    /\ \/ /\ ~Exists(Out(c))
          /\ Bind(Out(c), Tree(c))
          /\ Goes(c, "published")
          /\ UNCHANGED <<trees, my>>
       \/ Exists(Out(c)) /\ Raises(c, "cleanup") /\ UNCHANGED dirVars
    /\ UNCHANGED faults

UnlinkRecord(c) ==
    /\ kind[c] = "collect"
    /\ at[c] \in {"published", "cleanup"}
    /\ Unbind(Temp(c))
    /\ Goes(c, IF at[c] = "published" THEN "ok" ELSE "error")
    /\ UNCHANGED <<scenario, aroundVars, trees, my>>

CollectRecord(c) ==
    \/ ReadNative(c) \/ ValidateSnapshot(c) \/ ValidateNative(c) \/ ReadNativeAgain(c)
    \/ WriteRecord(c) \/ LinkRecord(c) \/ UnlinkRecord(c)
=============================================================================
