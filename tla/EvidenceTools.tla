----------------------------- MODULE EvidenceTools -----------------------------
(***************************************************************************)
(* The evaluation commands of tools/dictionary at work in one directory,   *)
(* with whatever happens around them, and what the evidence they leave     *)
(* behind can be trusted for.                                              *)
(***************************************************************************)
EXTENDS ObjectiveAcquisition, MeasurementAcquisition, CorpusSealing, B1Continuation,
        BlindReview, GateEvaluation, FcitxNative

vars == <<scenario, dirVars, aroundVars, at, my>>

Init == FilesInit

Command(c) ==
    \/ AcquireObjective(c) \/ AcquireMeasurement(c) \/ SealCorpus(c)
    \/ Authorize(c) \/ ContinueB1(c) \/ Prepare(c) \/ ScoreReview(c)
    \/ EvaluateB0(c) \/ EvaluateFormal(c) \/ RunSuite(c) \/ InSessionOf(c)
    \/ CollectRecord(c)

\* Nothing is left to do.  Any other state that stops is one in which a command
\* waits for what never comes: it should refuse instead
Done ==
    /\ \A c \in Commands : ~Runs(c)
    /\ UNCHANGED vars

Next == Around \/ (\E c \in Commands : Command(c)) \/ Done

Spec == Init /\ [][Next]_vars

------------------------------------------------------------------------------
(* What the evidence can be trusted for                                    *)

Steps ==
    Ended \cup {"idle", "reading", "absent", "locked", "probe", "exited", "scored",
                "written", "checked", "captured", "frozen", "published", "assured",
                "unlocking", "cleanup", "discard", "closing", "measured", "unlocked",
                "staging", "staged", "ruled", "gated", "authorized", "reported",
                "verified", "boundary", "running", "group", "session", "audited"}

\* Types, and whose file each name can be bound to
TypeOK ==
    /\ inputs \in [Roles -> UNION {Versions[r] : r \in Roles}]
    /\ \A c \in Commands : at[c] \in Steps
    /\ faults \in 0 .. scenario.faults
    /\ late \subseteq Commands
    /\ \A n \in DOMAIN entries :
          entries[n] \in {Nothing, Foreign}
              \cup {Tree(c) : c \in {d \in Commands : n \in {Temp(d), Out(d)}}}
              \cup {LockFile(c) : c \in {d \in Commands : n = Lock(d)}}

\* The names of evidence that is not taken back, or replaced, by its name alone
StoreNames == {<<k, "output">> : k \in Kinds \ {"seal", "gate", "formal"}}

\* A packet may take the place of an outsider's empty directory
MayGiveWay(n) == IF n[1] = "prepare" THEN {Nothing, Foreign} ELSE {Nothing}

Store == INSTANCE EvidenceStore WITH
    Names <- StoreNames, Publishers <- Commands, Absent <- Nothing,
    Outsider <- Foreign, Evidence <- Tree, Free <- MayGiveWay,
    bound <- [n \in StoreNames |-> entries[n]]

\* Two commands that publish under one name, a command that fails after the
\* rename, a lock removed by hand: none makes evidence appear in place of evidence
PublishedOnce == Store!Spec

\* The commands that find their directory by its path
ByPath == {"measure", "prepare", "score"}

\* The commands that look at what they have published
LooksAgain == {"objective", "seal", "authorize", "b1"}

\* What a command says of its evidence when it ends is so: success means it is
\* there and whole, an error that it is not, EvidenceCommittedError that the
\* rename took place.  Left out are an interrupt that reaches a command with its
\* rename done and not yet known, one that cuts its clean-up short, a directory that
\* moved before it was synced, a sealed corpus that someone else's file keeps from
\* being taken back, and the output of a suite, which is where it works
HonestVerdict ==
    \A c \in Commands :
        /\ at[c] = "ok" /\ kind[c] \in LooksAgain => Published(c)
        /\ at[c] = "committed" => my[c].committed /\ entries[Temp(c)] # Tree(c)
        /\ at[c] = "error" /\ Published(c) =>
              \/ my[c].failed = "interrupt" /\ kind[c] # "objective"
              \/ my[c].failed = "abandoned"
              \/ moved /\ kind[c] \in ByPath
              \/ kind[c] = "seal" /\ trees[c].stray
              \/ kind[c] \in Suites

\* A command that has ended leaves no lock of its own and no private tree, so that
\* the next one can run, but in two ways: an exception reached it before it had noted
\* what it made, the lock or the tree, or an interrupt cut its clean-up short.  A
\* directory may have moved from under a command that goes by its path, a
\* continuation with B1 keeps the tree it did not publish, and a file of someone else
\* keeps a staging directory
NothingLeft ==
    \A c \in Commands :
        at[c] \in {"ok", "error", "committed"} /\ ~(moved /\ kind[c] \in ByPath) =>
            /\ entries[Lock(c)] = LockFile(c) => my[c].failed \in {"lock", "abandoned"}
            /\ entries[Temp(c)] = Tree(c) =>
                  \/ my[c].failed \in {"tree", "abandoned"}
                  \/ kind[c] = "b1"
                  \/ kind[c] = "seal" /\ trees[c].stray

\* Of a suite that passes every process has ended by itself, unless it left the
\* session or was started while the session was being listed, and no run of a server
\* or a helper is missing from its audit, however short: the runner counts them too.
\* A record collected from the Fcitx harness is about as many servers and helpers as
\* cycles, each cycle in a session of its own, and every conversion
AuditComplete ==
    /\ \A c \in Commands : kind[c] \in Suites /\ at[c] = "ok" /\ c \notin late =>
        LET s == my[c].held
        IN /\ \A p \in DOMAIN s.place : s.place[p] \in {"none", "gone", "away"}
           /\ s.exit = "passed" /\ ~s.timedOut
           /\ kind[c] = "adapter" =>
                 Cardinality({h \in HelpersOf["adapter"] : s.place[h] # "none"}) = 1
           /\ kind[c] \in {"adapter", "steady"} =>
                 s.reported \cup ServersOf[kind[c]] = s.seen
    /\ \A c \in Commands : kind[c] = "collect" /\ Published(c) =>
        LET cycles == HarnessResult[trees[c].native].cycles
        IN /\ Cardinality(UNION {IdentitiesOf(cycles[n]) : n \in DOMAIN cycles})
                  = 2 * Lifecycle.cycles
           /\ Cardinality({cycles[n].server.sessions : n \in DOMAIN cycles})
                  = Lifecycle.cycles
           /\ MapThenSumSet(LAMBDA n : cycles[n].conversions, DOMAIN cycles)
                  = Lifecycle.conversions

\* At least `minimum` in basis points of the cases: what the rounded and the
\* multiplied bounds of the code both stand for
Within(change, minimum, cases) == change * 10000 >= minimum * cases

Within800(run, base) ==
    /\ Within(Top1(run) - Top1(base), -800, QualityCases)
    /\ Within(Top10(run) - Top10(base), -1200, QualityCases)
    /\ \A g \in QualityCategories :
          Within(Score[run][g].top1 - Score[base][g].top1, -1000, Cases[g])
    /\ Score[run]["protected"].top1 = ProtectedCases

\* Evidence reported as published is what the command read, ran and checked, to
\* the last byte, and its verdict on the candidate follows from the raw runs that
\* are published with it: whatever was edited, written or removed before the last
\* look at the tree.  The measurement looks at a raw run last when it has run it: one
\* that is overwritten later is for the gate to notice (PilotPassesPinned)
EvidenceAuthentic ==
    \A c \in Commands : at[c] = "ok" /\ c \notin late =>
        /\ kind[c] = "objective" =>
              LET manifest == trees[c].manifest
              IN /\ ~trees[c].stray
                 /\ manifest.raw = trees[c].raw
                 /\ manifest.sources = trees[c].sources
                 /\ manifest.passed = Within800(manifest.raw["B0"], manifest.raw["H0"])
        /\ kind[c] = "seal" => trees[c].whole /\ ~trees[c].stray
        /\ kind[c] = "measure" =>
              /\ trees[c].manifest.entries = trees[c].raw
              /\ DOMAIN trees[c].raw = Range(Sequence)
              /\ \A run \in DOMAIN trees[c].raw :
                    trees[c].raw[run].corpus = trees[c].manifest.corpus

\* A continuation with B1 that was published rests on a decision the authorizer
\* published, under the policy it carries and the evidence that policy accepts,
\* reports no pass, and its diagnosis is that of its own raw run
B1RestsOnDecision ==
    \A c \in Commands : kind[c] = "b1" /\ Published(c) /\ c \notin late =>
        LET content == trees[c].content
        IN /\ at[c] = "ok" => ~trees[c].stray
           /\ ParsePolicy(Formal[content.policy])
           /\ content.document = Authorization(content.policy, "fixed")
           /\ \E a \in Commands : kind[a] = "authorize" /\ at[a] # "idle"
           /\ ~content.report.passed
           /\ content.report.diagnostic = Within800(content.raw.hits, "base")

\* Nothing authorizes the continuation with B1, and none is built, for any revision
\* of the policy the validation of the check sets lets through, unless the tests
\* force the gate: each of its two readiness rules needs mandatory checks, of which
\* none is left
NothingAuthorized ==
    ~scenario.exercised =>
        \A c \in Commands :
            /\ kind[c] = "b1" => trees[c] = Nothing
            /\ kind[c] = "authorize" /\ trees[c] # Nothing =>
                  ~trees[c].document.authorized

\* The quality of a run in the pilot is within the policy's bounds
PilotWithin(run) ==
    /\ Within(PilotTop1(run) - PilotTop1("base"), -800, PilotCases)
    /\ Within(PilotTop10(run) - PilotTop10("base"), -1200, PilotCases)
    /\ \A g \in PilotCategories :
          Within(Score[run][g].top1 - Score["base"][g].top1, -1000, PilotCount(g))
    /\ Score[run]["protected"].top1 = ProtectedCases

\* A verdict is about runs of the executable, by the producer and with the corpus and
\* the resources that its own policy pins; about a loss within every bound; and about
\* suites of which each ran as long as it must
PassPinned(verdict) ==
    LET raw == verdict.raw
        observed == verdict.observed
        policy == Pilot[verdict.policy]
        acquisition == verdict.acquisition
    IN /\ acquisition.entries = raw
       /\ acquisition.executable = policy.candidate.runner
       /\ acquisition.producer = policy.measurement.producer
       /\ policy.checks["adapter"].sha = acquisition.executable
       /\ \A run \in DOMAIN raw : raw[run].resource = "fixed" /\ raw[run].corpus = "fixed"
       /\ PilotWithin(raw["mozc"].hits)
       /\ Within(observed.wins - observed.losses, -300, PilotCases)
       /\ 2 * observed.latency[1] <= observed.latency[2]
       /\ 4 * observed.pss[1] <= 5 * observed.pss[2]
       /\ \A id \in SuiteIds :
             LET record == observed.records[id]
             IN /\ record.conversions >= SuiteRequirements[id].conversions
                /\ record.counts.residues = 0
                /\ id \in FcitxSuites => record.producer = policy.checks["soak"].sha

\* A pilot verdict that passes B0 rests on what its policy pins, though each input is
\* read at another time and the measurement takes the resources it finds
PilotPassesPinned ==
    \A c \in Commands :
        kind[c] = "gate" /\ Published(c) /\ trees[c].result = "pilot_pass" =>
            PassPinned(trees[c])

\* No formal result passes, and B1 is evaluated only after a result that failed B0
\* for a check which fails on its own metrics, though that result be written by hand
NoFormalPass ==
    \A c \in Commands : kind[c] = "formal" /\ at[c] = "ok" =>
        LET result == my[c].held
        IN /\ result.result # "formal_pass"
           /\ result.candidate = "B1" =>
                 /\ scenario.revision.evidence = "ready"
                 /\ \E check \in {"latency", "pss", "stability"} :
                       FormalChecks(result.prior.metrics)[check] = "failed"

\* The formal evaluation fails closed, whatever its inputs: neither a pass nor an
\* authorization of B1 comes out of it
FailsClosed == NothingAuthorized /\ NoFormalPass

\* A packet passes its own checks, whatever the seed; a report counts what the
\* reviewer preferred, in each category and in all, and scores each backend by its
\* own candidates, whatever side they were on, or none is written: the packet may
\* have been edited, and its hashes recomputed
ReviewIsFair ==
    \A c \in Commands :
        /\ kind[c] = "prepare" /\ Published(c) /\ ~trees[c].stray =>
              PacketHolds(trees[c])
        /\ kind[c] = "score" /\ Published(c) =>
              LET preferred == my[c].held.preferred
                  Counted(o, backend, cases) ==
                      {k \in cases :
                          CASE o = "win" -> preferred[k] = backend
                            [] o = "loss" -> preferred[k] \in Backends \ {backend}
                            [] OTHER -> preferred[k] = o}
              IN \A backend \in Backends, o \in Outcomes :
                    /\ trees[c].outcomes[backend][o] =
                          Cardinality(Counted(o, backend, ReviewCases))
                    /\ \A g \in Categories :
                          trees[c].categories[g][backend][o] =
                              Cardinality(Counted(o, backend, CasesOf(g)))
                    /\ \A k \in ReviewCases :
                          trees[c].quality[backend][k] = Candidates(backend, k)
=============================================================================
