---------------------------- MODULE StabilitySuites ----------------------------
(***************************************************************************)
(* run_mozc_b0_stability.py: a suite runs the product server, or the Swift *)
(* tests that start servers, in a session of its own, watches what runs in *)
(* it, stops what is left of it, and writes an audit that its own          *)
(* validation must accept.                                                 *)
(***************************************************************************)
EXTENDS EvidenceFiles, PilotPolicy

Suites == {"adapter", "steady", "recovery"}

\* How often a suite starts its session: two of the recovery's subchecks
Rounds == [adapter |-> 1, steady |-> 1, recovery |-> 2]

\* What may run in the session, by the executable it is.  The runner leads it
ServersOf == [adapter |-> {"runner"}, steady |-> {"server1", "server2"}, recovery |-> {}]
HelpersOf == [adapter |-> {"helper1", "helper2"}, steady |-> {"helper1"}, recovery |-> {}]
Launched(k) ==
    IF k = "recovery" THEN {"child", "grandchild"}
    ELSE (ServersOf[k] \cup HelpersOf[k]) \ {"runner"}

\* A process is in the runner's group, in its session only, in neither ("away"),
\* "gone" by itself, or "killed"
NewSession(k, round, before) ==
    [place |-> [p \in Launched(k) \cup {"runner"} |->
                   IF p = "runner" THEN "group" ELSE "none"],
     exit |-> "running", timedOut |-> FALSE, reported |-> {}, seen |-> {},
     listed |-> {}, residues |-> {}, stage |-> "first", round |-> round,
     before |-> before]

\* With what the policy expects of the suite, as it was read at the start
ExpectingSession(k, round, before, expected) ==
    Joined(NewSession(k, round, before), [expected |-> expected])

Session(c) == my[c].held

\* _process_group_members and _session_members, of the processes as they stand
GroupMembers(s) == {p \in DOMAIN s.place : s.place[p] = "group"}
SessionMembers(s) == {p \in DOMAIN s.place : s.place[p] \in {"group", "session"}}

InSuite(c, from) ==
    /\ kind[c] \in Suites
    /\ at[c] = from
    /\ UNCHANGED <<scenario, inputs, moved>>

------------------------------------------------------------------------------
(* The session                                                             *)

\* expectations_from_policy.  A policy under which nothing may be judged is read
\* like any other: a suite may run before all of it is frozen
Expectations(policy, id) ==
    [orchestrator |-> policy.stability.orchestrator, runner |-> policy.candidate.runner,
     resource |-> policy.candidate.resource, baseline |-> policy.baseline.resource,
     artifacts |-> policy.candidate.artifacts, producer |-> policy.checks[id].sha,
     package |-> policy.checks[id].package,
     fixture |-> policy.checks[id].fixture, snapshot |-> policy.checks[id].snapshot]

Expecting(policy, id) ==
    /\ policy.baseline.id = "hazkey"
    /\ policy.stability.status = "ready"
    /\ id \in DOMAIN policy.checks
    /\ policy.checks[id].snapshot # "null" <=> id \in FcitxSuites

\* _read_acquisition_orchestrator
OrchestratorPinned(expected) == inputs["sources"] = expected.orchestrator

\* _prepare_b0_snapshot: the executable, its libraries and the generation of B0
SnapshotPinned(expected) ==
    inputs["runner"] = expected.runner /\ inputs["resource"] = expected.resource

\* The package, and the source and the script in it that the policy names
PackagePinned(expected) ==
    inputs["package"] = expected.package /\ inputs["package"] = expected.producer

AdapterPinned(expected) == OrchestratorPinned(expected) /\ SnapshotPinned(expected)

SteadyPinned(expected) ==
    /\ OrchestratorPinned(expected) /\ PackagePinned(expected)
    /\ inputs["resource"] = expected.baseline
    /\ SnapshotPinned(expected)

RecoveryPinned(expected) ==
    /\ inputs["runner"] = expected.runner
    /\ PackagePinned(expected)
    /\ expected.fixture = inputs["package"]
    /\ OrchestratorPinned(expected)

Pinned(k, expected) ==
    CASE k = "adapter" -> AdapterPinned(expected)
      [] k = "steady" -> SteadyPinned(expected)
      [] OTHER -> RecoveryPinned(expected)

\* What is read again after the run, where the copies are not what was used: the
\* command itself, and the dictionary
StillPinned(c) ==
    LET expected == Session(c).expected
    IN /\ OrchestratorPinned(expected)
       /\ kind[c] = "steady" => inputs["resource"] = expected.baseline

\* What is pinned is read and copied into the output itself, a new directory, and
\* the runner is started in a new session.  What fails from here on leaves it there
StartSuite(c) ==
    /\ InSuite(c, "idle")
    /\ LET policy == Pilot[inputs["pilot"]]
           expected == Expectations(policy, kind[c])
           starts == /\ ~moved /\ ~Exists(Out(c))
                     /\ Expecting(policy, kind[c]) /\ Pinned(kind[c], expected)
       IN IF starts
          THEN /\ Bind(Out(c), Tree(c))
               /\ trees' = [trees EXCEPT ![c] =
                      [native |-> Nothing, stray |-> FALSE,
                       retained |-> [r \in RolesOf[kind[c]] |-> inputs[r]]]]
               /\ Goes(c, "running")
               /\ Holds(c, ExpectingSession(kind[c], 1, TRUE, expected))
          ELSE Goes(c, "error") /\ UNCHANGED <<dirVars, my>>
    /\ UNCHANGED <<faults, late>>

InSession(c) ==
    /\ kind[c] \in Suites
    /\ at[c] \in {"running", "group", "session"}
    /\ UNCHANGED <<scenario, inputs, moved, dirVars, at>>

\* A helper is started by a server, anything else by anything
Parents(c, p) ==
    IF p \in HelpersOf[kind[c]]
    THEN SessionMembers(Session(c)) \cap ServersOf[kind[c]]
    ELSE SessionMembers(Session(c))

\* While the session is being listed, nobody may notice
Fork(c, p) ==
    /\ InSession(c)
    /\ Session(c).place[p] = "none"
    /\ \E parent \in Parents(c, p) :
          my' = [my EXCEPT ![c].held.place[p] = Session(c).place[parent]]
    /\ late' = IF at[c] = "session" THEN late \cup {c} ELSE late
    /\ UNCHANGED faults

\* setpgid, or setsid: only its leader cannot
Leave(c, p) ==
    /\ InSession(c)
    /\ Happens
    /\ p # "runner" /\ p \in SessionMembers(Session(c))
    /\ \E place \in {"session", "away"} \ {Session(c).place[p]} :
          my' = [my EXCEPT ![c].held.place[p] = place]
    /\ UNCHANGED late

\* What the runner knows to have been launched when it writes its results
Known(c) ==
    LET launched == {p \in DOMAIN Session(c).place : Session(c).place[p] # "none"}
    IN launched \cap (IF kind[c] = "adapter" THEN HelpersOf["adapter"]
                      ELSE ServersOf[kind[c]] \cup HelpersOf[kind[c]])

Exit(c, p) ==
    /\ InSession(c)
    /\ p \in SessionMembers(Session(c))
    /\ \/ /\ p # "runner"
          /\ my' = [my EXCEPT ![c].held.place[p] = "gone"]
       \/ /\ p = "runner"
          /\ \E exit \in {"passed", "failed"} :
                my' = [my EXCEPT ![c].held.place[p] = "gone", ![c].held.exit = exit,
                                 ![c].held.reported = Known(c)]
    /\ UNCHANGED <<faults, late>>

\* _observe_process_session: every 5 ms, so that it may miss a short life
Observe(c, p) ==
    /\ InSession(c)
    /\ Session(c).stage # "last"
    /\ p \in SessionMembers(Session(c)) \ Session(c).seen
    /\ p \in ServersOf[kind[c]] \cup HelpersOf[kind[c]]
    /\ my' = [my EXCEPT ![c].held.seen = @ \cup {p}]
    /\ UNCHANGED <<faults, late>>

------------------------------------------------------------------------------
(* The audit                                                               *)

\* A scan lists /proc first and then looks at one entry after the other: it finds
\* who stays, and may find who was there when it began
Found(members, listed) ==
    {found \in BOOLEAN : /\ members \cap listed # {} => found
                         /\ found => listed # {}}

\* A runner that is killed has no results
Killed(s, killed) ==
    [s EXCEPT !.place = [p \in DOMAIN @ |-> IF p \in killed THEN "killed" ELSE @[p]],
              !.exit = IF "runner" \in killed THEN "failed" ELSE @]

Residues(s, found, where) ==
    IF ~found THEN {} ELSE IF s.stage = "first" THEN {"forced"} ELSE {where}

\* communicate() returns: the runner is gone, and whoever held its pipes
Communicate(c) ==
    /\ InSuite(c, "running")
    /\ Session(c).place["runner"] \in {"gone", "killed"}
    /\ Goes(c, "group")
    /\ Holds(c, [Session(c) EXCEPT !.stage = "last", !.listed = GroupMembers(Session(c))])
    /\ UNCHANGED <<dirVars, faults, late>>

\* TimeoutExpired, once: what follows waits without a limit
TimeOut(c) ==
    /\ InSuite(c, "running")
    /\ ~Session(c).timedOut
    /\ Goes(c, "group")
    /\ Holds(c, [Session(c) EXCEPT !.timedOut = TRUE, !.listed = GroupMembers(Session(c))])
    /\ UNCHANGED <<dirVars, faults, late>>

\* _stop_process_group, whose killpg reaches whoever is in the group; then
\* _stop_session lists the session
StopGroup(c) ==
    /\ InSuite(c, "group")
    /\ LET s == Session(c)
       IN \E found \in Found(GroupMembers(s), s.listed) :
             LET stopped == Killed(s, IF found THEN GroupMembers(s) ELSE {})
             IN Holds(c, [stopped EXCEPT !.listed = SessionMembers(stopped),
                             !.residues = @ \cup Residues(s, found, "group")])
    /\ Goes(c, "session")
    /\ UNCHANGED <<dirVars, faults, late>>

\* _stop_session kills whom it has listed, one by one
StopSession(c) ==
    /\ InSuite(c, "session")
    /\ LET s == Session(c)
       IN \E found \in Found(SessionMembers(s), s.listed) :
             LET stopped == Killed(s, IF found THEN SessionMembers(s) \cap s.listed ELSE {})
             IN Holds(c, [stopped EXCEPT !.listed = {},
                             !.residues = @ \cup Residues(s, found, "session"),
                             !.stage = IF @ = "last" THEN "over" ELSE @])
    /\ Goes(c, IF Session(c).stage = "last" THEN "audited" ELSE "running")
    /\ UNCHANGED <<dirVars, faults, late>>

\* An exception in the meantime: the session is stopped all the same, and what
\* the output holds stays
Unwind(c) ==
    /\ InSuite(c, "cleanup")
    /\ Goes(c, "error")
    /\ IF Session(c).stage = "over" THEN UNCHANGED my
       ELSE Holds(c, Killed(Session(c), SessionMembers(Session(c))))
    /\ UNCHANGED <<dirVars, faults, late>>

------------------------------------------------------------------------------
(* The native result                                                       *)

\* Mutant: only the group must have been clean
AuditClean_Group(native) == "group" \notin native.residues

\* _process_audit: both cleanups and the number of residues
AuditClean(native) == native.residues = {}

\* _process_identities: which servers and which helpers the audit names
Audited(native, programs) == native.seen \cap programs

ExitCode(native) == IF native.timedOut THEN "late" ELSE native.exit

\* _validate_wrapper_producer, _server and _artifact, and the fixture of the recovery
WrapperHolds(k, native) ==
    LET expected == native.expected
    IN /\ native.orchestrator = expected.orchestrator
       /\ native.server = expected.runner
       /\ IF k = "recovery" THEN native.fixture = expected.fixture
          ELSE native.artifact = expected.resource

\* _validate_execution_runner, _validate_swift_package and the producer's source:
\* the retained package, which must have been looked at after the run
PackageHolds(native) ==
    /\ native.package = native.expected.package
    /\ native.package = native.expected.producer
    /\ native.postRun

\* _validate_adapter_abprobe: every case was measured with one helper, launched
\* once and never recovered
AbprobeValid(native) == Cardinality(native.reported) = 1

\* The runner is the one server, and the helpers are as many as it says
AdapterValid(native) ==
    /\ Audited(native, ServersOf["adapter"]) = {"runner"}
    /\ Cardinality(Audited(native, HelpersOf["adapter"])) = 1
    /\ AbprobeValid(native)

\* _validate_protocol_benchmark: a server for each backend, and one helper that is
\* the same before and after
BenchmarkValid(native) ==
    /\ Cardinality(native.reported \cap ServersOf["steady"]) = 2
    /\ Cardinality(native.reported \cap HelpersOf["steady"]) = 1

\* The audit must show the processes that the benchmark names
SteadyValid(native) ==
    /\ PackageHolds(native)
    /\ native.dictionary = native.expected.baseline
    /\ Cardinality(Audited(native, ServersOf["steady"])) = 2
    /\ Cardinality(Audited(native, HelpersOf["steady"])) = 1
    /\ BenchmarkValid(native)
    /\ native.reported = native.seen

\* _validate_recovery: every subcheck, in order, passed and cleaned up
RecoveryValid(native) == PackageHolds(native) /\ native.before

RoundPassed(native) == ExitCode(native) = "passed" /\ AuditClean(native)

\* validate_native_result
NativeValid(k, native) ==
    /\ WrapperHolds(k, native)
    /\ RoundPassed(native)
    /\ CASE k = "adapter" -> AdapterValid(native)
         [] k = "steady" -> SteadyValid(native)
         [] OTHER -> RecoveryValid(native)

\* The next of the recovery's subchecks, in a session of its own, whatever became
\* of the last: all of them must have passed
NextRound(c) ==
    /\ InSuite(c, "audited")
    /\ Session(c).round < Rounds[kind[c]]
    /\ Goes(c, "running")
    /\ Holds(c, ExpectingSession(kind[c], Session(c).round + 1,
                                 Session(c).before /\ RoundPassed(Session(c)),
                                 Session(c).expected))
    /\ UNCHANGED <<dirVars, faults, late>>

\* What the native result says of itself besides what was seen: what was read at
\* the start, and of the dictionary what it has just been found to be
Native(c) ==
    LET retained == trees[c].retained
        of(role) == IF role \in DOMAIN retained THEN retained[role] ELSE "null"
    IN Joined(Session(c),
           [orchestrator |-> of("sources"), server |-> of("runner"),
            artifact |-> of("resource"), package |-> of("package"),
            fixture |-> of("package"), dictionary |-> inputs["resource"],
            postRun |-> TRUE])

\* _verify_retained_snapshot, the package and the dictionary again, and the
\* orchestrator: a file added to the output is looked for in the package only
WriteNative(c) ==
    /\ InSuite(c, "audited")
    /\ Session(c).round = Rounds[kind[c]]
    /\ \/ /\ ~moved /\ StillPinned(c)
          /\ trees' = [trees EXCEPT ![c].native = Native(c)]
          /\ Goes(c, "written")
       \/ /\ moved \/ ~StillPinned(c) \/ trees[c].stray
          /\ Goes(c, "error")
          /\ UNCHANGED trees
    /\ UNCHANGED <<entries, my, faults, late>>

\* _write_native_and_record: the record is written whatever the verdict is.  What
\* the result binds is read back from the output
JudgeNative(c) ==
    /\ InSuite(c, "written")
    /\ LET passes == NativeValid(kind[c], trees[c].native) /\ ~moved
       IN \/ passes /\ Goes(c, "ok")
          \/ (~passes \/ trees[c].stray) /\ Goes(c, "error")
    /\ UNCHANGED <<dirVars, my, faults, late>>

RunSuite(c) ==
    \/ StartSuite(c) \/ Communicate(c) \/ TimeOut(c) \/ StopGroup(c)
    \/ StopSession(c) \/ Unwind(c) \/ NextRound(c) \/ WriteNative(c) \/ JudgeNative(c)

InSessionOf(c) ==
    /\ kind[c] \in Suites
    /\ \E p \in Launched(kind[c]) \cup {"runner"} :
          Fork(c, p) \/ Leave(c, p) \/ Exit(c, p) \/ Observe(c, p)
=============================================================================
