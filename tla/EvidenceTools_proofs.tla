-------------------------- MODULE EvidenceTools_proofs --------------------------
(***************************************************************************)
(* What holds of the evaluation commands for every corpus, every score,    *)
(* every set of commands and whatever happens around them.                 *)
(***************************************************************************)
EXTENDS EvidenceTools, TLAPS, FiniteSetTheorems, WellFoundedInduction

Names == (Kinds \X {"output", "lock"}) \cup (Commands \X {"temporary"})

Domains ==
    /\ DOMAIN at = Commands /\ DOMAIN my = Commands /\ DOMAIN trees = Commands
    /\ DOMAIN entries = Names

\* What a step of a command leaves alone: the others
Local(c) ==
    /\ UNCHANGED <<scenario, moved>>
    /\ \A d \in Commands \ {c} :
          at'[d] = at[d] /\ my'[d] = my[d] /\ trees'[d] = trees[d]

\* What it may do to the names of evidence
StoreStep(c) ==
    \A n \in StoreNames :
        \/ entries'[n] = entries[n]
        \/ n = Out(c) /\ entries[n] \in MayGiveWay(n) /\ entries'[n] = Tree(c)
        \/ n = Out(c) /\ entries[n] = Tree(c) /\ entries'[n] = Nothing

\* What it may bind: a name of its own, to a file of its own or to nothing
TypeStep(c) ==
    /\ at'[c] \in Steps \cup {at[c]}
    /\ faults' \in {faults, faults - 1} /\ (faults' # faults => faults > 0)
    /\ UNCHANGED inputs
    /\ late' \in {late, late \cup {c}}
    /\ \A n \in Names :
        \/ entries'[n] = entries[n]
        \/ n \in {Temp(c), Out(c), Lock(c)} /\ entries'[n] = Nothing
        \/ n \in {Temp(c), Out(c)} /\ entries'[n] = Tree(c)
        \/ n = Lock(c) /\ entries'[n] = LockFile(c)

Step(c) == Domains' /\ Local(c) /\ StoreStep(c) /\ TypeStep(c)

------------------------------------------------------------------------------
(* Each step of each command, one at a time                                *)

\* A step of AcquireObjective is of a command of its kind, changes nothing of the
\* other commands and no evidence of theirs
LEMMA ObjectiveSteps ==
    ASSUME NEW c \in Commands, Domains, AcquireObjective(c)
    PROVE  kind[c] = "objective" /\ Step(c)
<1> USE DEF Domains, Step, Local, StoreStep, TypeStep, Steps, Ended, StoreNames, MayGiveWay,
            Names, Kinds, RolesOf, Requires, Raises, Goes, Holds, Bind, Unbind, At, kind,
            Exists, Published, Out, Lock, Temp, Tree, LockFile, Foreign, dirVars, Nothing,
            Happens, aroundVars, Objective, Fails
<1>1. CASE ReadInputs(c)
  BY <1>1 DEF ReadInputs
<1>2. CASE CheckOutput(c)
  BY <1>2 DEF CheckOutput
<1>3. CASE TakeLock(c)
  BY <1>3 DEF TakeLock, CreatesLock, Unnoted
<1>4. CASE CopyInputs(c)
  BY <1>4 DEF CopyInputs, Unnoted
<1>5. CASE RunProbe(c)
  BY <1>5 DEF RunProbe
<1>6. CASE ReadRun(c)
  BY <1>6 DEF ReadRun
<1>7. CASE WriteManifest(c)
  BY <1>7 DEF WriteManifest
<1>8. CASE CheckFiles(c)
  BY <1>8 DEF CheckFiles
<1>9. CASE CaptureTree(c)
  BY <1>9 DEF CaptureTree
<1>10. CASE FreezeTree(c)
  BY <1>10 DEF FreezeTree
<1>11. CASE Publish(c)
  BY <1>11 DEF Publish, Renames, RenameNoReplace, RefusesToReplace
<1>12. CASE VerifyPublished(c)
  BY <1>12 DEF VerifyPublished
<1>13. CASE CheckLock(c)
  BY <1>13 DEF CheckLock
<1>14. CASE Unlock(c)
  BY <1>14 DEF Unlock
<1>15. CASE CleanLock(c)
  BY <1>15 DEF CleanLock
<1>16. CASE Discard(c)
  BY <1>16 DEF Discard, Discardable
<1>17. CASE Report(c)
  BY <1>17 DEF Report, EndsWell
<1> QED
  BY <1>1, <1>2, <1>3, <1>4, <1>5, <1>6, <1>7, <1>8,
         <1>9, <1>10, <1>11, <1>12, <1>13, <1>14, <1>15, <1>16, <1>17 DEF AcquireObjective

\* A step of AcquireMeasurement is of a command of its kind, changes nothing of the
\* other commands and no evidence of theirs
LEMMA MeasureSteps ==
    ASSUME NEW c \in Commands, Domains, AcquireMeasurement(c)
    PROVE  kind[c] = "measure" /\ Step(c)
<1> USE DEF Domains, Step, Local, StoreStep, TypeStep, Steps, Ended, StoreNames, MayGiveWay,
            Names, Kinds, RolesOf, Requires, Raises, Goes, Holds, Bind, Unbind, At, kind,
            Exists, Published, Out, Lock, Temp, Tree, LockFile, Foreign, dirVars, Nothing,
            Happens, aroundVars, Measure, Aborts
<1>1. CASE CheckPolicy(c)
  BY <1>1 DEF CheckPolicy
<1>2. CASE SnapshotRuntime(c)
  BY <1>2 DEF SnapshotRuntime, Makes, Unnoted
<1>3. CASE Probe(c)
  BY <1>3 DEF Probe
<1>4. CASE ReadProbe(c)
  BY <1>4 DEF ReadProbe
<1>5. CASE WriteMeasurement(c)
  BY <1>5 DEF WriteMeasurement
<1>6. CASE LockOutput(c)
  BY <1>6 DEF LockOutput, CreatesLock, Unnoted
<1>7. CASE CheckAgain(c)
  BY <1>7 DEF CheckAgain
<1>8. CASE PublishMeasurement(c)
  BY <1>8 DEF PublishMeasurement, Renames, RenameNoReplace, RefusesToReplace
<1>9. CASE SyncMeasurement(c)
  BY <1>9 DEF SyncMeasurement
<1>10. CASE UnlinkLock(c)
  BY <1>10 DEF UnlinkLock, UnlinkByName
<1>11. CASE RemoveTemporary(c)
  BY <1>11 DEF RemoveTemporary, RemoveByName, EndsByName
<1>12. CASE OverwriteRaw(c)
  BY <1>12 DEF OverwriteRaw
<1> QED
  BY <1>1, <1>2, <1>3, <1>4, <1>5,
         <1>6, <1>7, <1>8, <1>9, <1>10, <1>11, <1>12 DEF AcquireMeasurement

\* A step of SealCorpus is of a command of its kind, changes nothing of the
\* other commands and no evidence of theirs
LEMMA SealSteps ==
    ASSUME NEW c \in Commands, Domains, SealCorpus(c)
    PROVE  kind[c] = "seal" /\ Step(c)
<1> USE DEF Domains, Step, Local, StoreStep, TypeStep, Steps, Ended, StoreNames, MayGiveWay,
            Names, Kinds, RolesOf, Requires, Raises, Goes, Holds, Bind, Unbind, At, kind,
            Exists, Published, Out, Lock, Temp, Tree, LockFile, Foreign, dirVars, Nothing,
            Happens, aroundVars, Seals, RemoveGeneration
<1>1. CASE PrepareSnapshot(c)
  BY <1>1 DEF PrepareSnapshot
<1>2. CASE MakeStaging(c)
  BY <1>2 DEF MakeStaging, Makes, Unnoted
<1>3. CASE WriteStaging(c)
  BY <1>3 DEF WriteStaging
<1>4. CASE PublishGeneration(c)
  BY <1>4 DEF PublishGeneration, Renames, RenameNoReplace, RefusesToReplace
<1>5. CASE VerifyGeneration(c)
  BY <1>5 DEF VerifyGeneration
<1>6. CASE RemoveStaging(c)
  BY <1>6 DEF RemoveStaging
<1> QED
  BY <1>1, <1>2, <1>3, <1>4, <1>5, <1>6 DEF SealCorpus

\* A step of Prepare is of a command of its kind, changes nothing of the
\* other commands and no evidence of theirs
LEMMA PrepareSteps ==
    ASSUME NEW c \in Commands, Domains, Prepare(c)
    PROVE  kind[c] = "prepare" /\ Step(c)
<1> USE DEF Domains, Step, Local, StoreStep, TypeStep, Steps, Ended, StoreNames, MayGiveWay,
            Names, Kinds, RolesOf, Requires, Raises, Goes, Holds, Bind, Unbind, At, kind,
            Exists, Published, Out, Lock, Temp, Tree, LockFile, Foreign, dirVars, Nothing,
            Happens, aroundVars, Prepares, GivesUp
<1>1. CASE BuildPacket(c)
  BY <1>1 DEF BuildPacket
<1>2. CASE WritePacket(c)
  BY <1>2 DEF WritePacket, Makes, Unnoted
<1>3. CASE LockPacket(c)
  BY <1>3 DEF LockPacket, CreatesLock, Unnoted
<1>4. CASE CheckPacket(c)
  BY <1>4 DEF CheckPacket
<1>5. CASE RenamePacket(c)
  BY <1>5 DEF RenamePacket
<1>6. CASE SyncPacket(c)
  BY <1>6 DEF SyncPacket
<1>7. CASE UnlockPacket(c)
  BY <1>7 DEF UnlockPacket, UnlinkByName
<1>8. CASE RemovePacket(c)
  BY <1>8 DEF RemovePacket, RemoveByName, EndsByName
<1> QED
  BY <1>1, <1>2, <1>3, <1>4, <1>5, <1>6, <1>7, <1>8 DEF Prepare

\* A step of ScoreReview is of a command of its kind, changes nothing of the
\* other commands and no evidence of theirs
LEMMA ScoreSteps ==
    ASSUME NEW c \in Commands, Domains, ScoreReview(c)
    PROVE  kind[c] = "score" /\ Step(c)
<1> USE DEF Domains, Step, Local, StoreStep, TypeStep, Steps, Ended, StoreNames, MayGiveWay,
            Names, Kinds, RolesOf, Requires, Raises, Goes, Holds, Bind, Unbind, At, kind,
            Exists, Published, Out, Lock, Temp, Tree, LockFile, Foreign, dirVars, Nothing,
            Happens, aroundVars, Scores, GivesUp
<1>1. CASE ReadPacket(c)
  BY <1>1 DEF ReadPacket
<1>2. CASE WriteReport(c)
  BY <1>2 DEF WriteReport, Makes, Unnoted
<1>3. CASE LinkReport(c)
  BY <1>3 DEF LinkReport
<1>4. CASE SyncReport(c)
  BY <1>4 DEF SyncReport
<1>5. CASE UnlinkTemporary(c)
  BY <1>5 DEF UnlinkTemporary
<1> QED
  BY <1>1, <1>2, <1>3, <1>4, <1>5 DEF ScoreReview

\* A step of EvaluateB0 is of a command of its kind, changes nothing of the
\* other commands and no evidence of theirs
LEMMA GateSteps ==
    ASSUME NEW c \in Commands, Domains, EvaluateB0(c)
    PROVE  kind[c] = "gate" /\ Step(c)
<1> USE DEF Domains, Step, Local, StoreStep, TypeStep, Steps, Ended, StoreNames, MayGiveWay,
            Names, Kinds, RolesOf, Requires, Raises, Goes, Holds, Bind, Unbind, At, kind,
            Exists, Published, Out, Lock, Temp, Tree, LockFile, Foreign, dirVars, Nothing,
            Happens, aroundVars, Evaluates
<1>1. CASE ReadContract(c)
  BY <1>1 DEF ReadContract
<1>2. CASE ReadMeasured(c)
  BY <1>2 DEF ReadMeasured
<1>3. CASE CheckAcquisition(c)
  BY <1>3 DEF CheckAcquisition
<1>4. CASE WriteVerdict(c)
  BY <1>4 DEF WriteVerdict, Makes, Unnoted
<1>5. CASE ReplaceVerdict(c)
  BY <1>5 DEF ReplaceVerdict
<1>6. CASE ExitWithVerdict(c)
  BY <1>6 DEF ExitWithVerdict
<1>7. CASE UnlinkVerdict(c)
  BY <1>7 DEF UnlinkVerdict
<1> QED
  BY <1>1, <1>2, <1>3, <1>4, <1>5, <1>6, <1>7 DEF EvaluateB0

\* A step of EvaluateFormal is of a command of its kind, changes nothing of the
\* other commands and no evidence of theirs
LEMMA FormalSteps ==
    ASSUME NEW c \in Commands, Domains, EvaluateFormal(c)
    PROVE  kind[c] = "formal" /\ Step(c)
BY DEF EvaluateFormal,
            Domains, Step, Local, StoreStep, TypeStep, Steps, Ended, StoreNames, MayGiveWay,
            Names, Kinds, RolesOf, Requires, Raises, Goes, Holds, Bind, Unbind, At, kind, Exists,
            Published, Out, Lock, Temp, Tree, LockFile, Foreign, dirVars, Nothing,
            Happens, aroundVars

\* A step of Authorize is of a command of its kind, changes nothing of the
\* other commands and no evidence of theirs
LEMMA AuthorizeSteps ==
    ASSUME NEW c \in Commands, Domains, Authorize(c)
    PROVE  kind[c] = "authorize" /\ Step(c)
<1> USE DEF Domains, Step, Local, StoreStep, TypeStep, Steps, Ended, StoreNames, MayGiveWay,
            Names, Kinds, RolesOf, Requires, Raises, Goes, Holds, Bind, Unbind, At, kind,
            Exists, Published, Out, Lock, Temp, Tree, LockFile, Foreign, dirVars, Nothing,
            Happens, aroundVars, Authorizes
<1>1. CASE ReadRule(c)
  BY <1>1 DEF ReadRule
<1>2. CASE DecideB1(c)
  BY <1>2 DEF DecideB1
<1>3. CASE WriteDocument(c)
  BY <1>3 DEF WriteDocument, Makes, Unnoted
<1>4. CASE PublishDocument(c)
  BY <1>4 DEF PublishDocument, Renames, RenameNoReplace, RefusesToReplace
<1>5. CASE ReadBack(c)
  BY <1>5 DEF ReadBack
<1>6. CASE RollBack(c)
  BY <1>6 DEF RollBack
<1> QED
  BY <1>1, <1>2, <1>3, <1>4, <1>5, <1>6 DEF Authorize

\* A step of ContinueB1 is of a command of its kind, changes nothing of the
\* other commands and no evidence of theirs
LEMMA B1Steps ==
    ASSUME NEW c \in Commands, Domains, ContinueB1(c)
    PROVE  kind[c] = "b1" /\ Step(c)
<1> USE DEF Domains, Step, Local, StoreStep, TypeStep, Steps, Ended, StoreNames, MayGiveWay,
            Names, Kinds, RolesOf, Requires, Raises, Goes, Holds, Bind, Unbind, At, kind,
            Exists, Published, Out, Lock, Temp, Tree, LockFile, Foreign, dirVars, Nothing,
            Happens, aroundVars, Continues, RefuseToStart
<1>1. CASE ReadGate(c)
  BY <1>1 DEF ReadGate
<1>2. CASE ReadAuthorization(c)
  BY <1>2 DEF ReadAuthorization
<1>3. CASE CapturePrior(c)
  BY <1>3 DEF CapturePrior
<1>4. CASE BuildTree(c)
  BY <1>4 DEF BuildTree
<1>5. CASE ProbeB1(c)
  BY <1>5 DEF ProbeB1
<1>6. CASE ReportB1(c)
  BY <1>6 DEF ReportB1
<1>7. CASE ReAuthenticate(c)
  BY <1>7 DEF ReAuthenticate
<1>8. CASE FreezeB1(c)
  BY <1>8 DEF FreezeB1
<1>9. CASE AtBoundary(c)
  BY <1>9 DEF AtBoundary
<1>10. CASE PublishB1(c)
  BY <1>10 DEF PublishB1, Renames, RenameNoReplace, RefusesToReplace
<1>11. CASE AssureB1(c)
  BY <1>11 DEF AssureB1
<1>12. CASE RetainB1(c)
  BY <1>12 DEF RetainB1
<1> QED
  BY <1>1, <1>2, <1>3, <1>4, <1>5, <1>6,
         <1>7, <1>8, <1>9, <1>10, <1>11, <1>12 DEF ContinueB1

\* A step of RunSuite is of a command of its kind, changes nothing of the
\* other commands and no evidence of theirs
LEMMA SuiteSteps ==
    ASSUME NEW c \in Commands, Domains, RunSuite(c)
    PROVE  kind[c] \in Suites /\ Step(c)
<1> USE DEF Domains, Step, Local, StoreStep, TypeStep, Steps, Ended, StoreNames, MayGiveWay,
            Names, Kinds, RolesOf, Requires, Raises, Goes, Holds, Bind, Unbind, At, kind,
            Exists, Published, Out, Lock, Temp, Tree, LockFile, Foreign, dirVars, Nothing,
            Happens, aroundVars, InSuite, Suites
<1>1. CASE StartSuite(c)
  <2>1. \/ /\ entries' = [entries EXCEPT ![Out(c)] = Tree(c)]
           /\ entries[Out(c)] = Nothing
           /\ at' = [at EXCEPT ![c] = "running"]
        \/ entries' = entries /\ at' = [at EXCEPT ![c] = "error"]
    BY <1>1 DEF StartSuite
  <2>2. /\ kind[c] \in Suites /\ UNCHANGED <<scenario, inputs, faults, late>>
        /\ Domains' /\ Local(c)
    BY <1>1 DEF StartSuite
  <2>3. TypeStep(c)
    <3>1. at'[c] \in Steps \cup {at[c]}
      BY <2>1
    <3> HIDE DEF Names, Out, Tree, Steps
    <3> QED
      BY <2>1, <2>2, <3>1
  <2>4. StoreStep(c)
    <3>1. StoreNames \subseteq DOMAIN entries
      OBVIOUS
    <3>2. \A n \in StoreNames : Nothing \in MayGiveWay(n)
      OBVIOUS
    <3> HIDE DEF StoreNames, Names, Out, Tree, MayGiveWay, Nothing
    <3> QED
      BY <2>1, <3>1, <3>2
  <2> QED
    BY <2>2, <2>3, <2>4
<1>2. CASE Communicate(c)
  BY <1>2 DEF Communicate
<1>3. CASE TimeOut(c)
  BY <1>3 DEF TimeOut
<1>4. CASE StopGroup(c)
  BY <1>4 DEF StopGroup
<1>5. CASE StopSession(c)
  BY <1>5 DEF StopSession
<1>6. CASE Unwind(c)
  BY <1>6 DEF Unwind
<1>7. CASE NextRound(c)
  BY <1>7 DEF NextRound
<1>8. CASE WriteNative(c)
  BY <1>8 DEF WriteNative
<1>9. CASE JudgeNative(c)
  BY <1>9 DEF JudgeNative
<1> QED
  BY <1>1, <1>2, <1>3, <1>4, <1>5, <1>6, <1>7, <1>8, <1>9 DEF RunSuite

\* A step of InSessionOf is of a command of its kind, changes nothing of the
\* other commands and no evidence of theirs
LEMMA SessionSteps ==
    ASSUME NEW c \in Commands, Domains, InSessionOf(c)
    PROVE  kind[c] \in Suites /\ Step(c)
<1> USE DEF Domains, Step, Local, StoreStep, TypeStep, Steps, Ended, StoreNames, MayGiveWay,
            Names, Kinds, RolesOf, Requires, Raises, Goes, Holds, Bind, Unbind, At, kind,
            Exists, Published, Out, Lock, Temp, Tree, LockFile, Foreign, dirVars, Nothing,
            Happens, aroundVars, InSession, Suites, Launched
<1>1. PICK p : Fork(c, p) \/ Leave(c, p) \/ Exit(c, p) \/ Observe(c, p)
  BY DEF InSessionOf
<1>2. CASE Fork(c, p)
  BY <1>2 DEF Fork
<1>3. CASE Leave(c, p)
  BY <1>3 DEF Leave
<1>4. CASE Exit(c, p)
  BY <1>4 DEF Exit
<1>5. CASE Observe(c, p)
  BY <1>5 DEF Observe
<1> QED
  BY <1>1, <1>2, <1>3, <1>4, <1>5

\* A step of CollectRecord is of a command of its kind, changes nothing of the
\* other commands and no evidence of theirs
LEMMA CollectSteps ==
    ASSUME NEW c \in Commands, Domains, CollectRecord(c)
    PROVE  kind[c] = "collect" /\ Step(c)
<1> USE DEF Domains, Step, Local, StoreStep, TypeStep, Steps, Ended, StoreNames, MayGiveWay,
            Names, Kinds, RolesOf, Requires, Raises, Goes, Holds, Bind, Unbind, At, kind,
            Exists, Published, Out, Lock, Temp, Tree, LockFile, Foreign, dirVars, Nothing,
            Happens, aroundVars, Collects
<1>1. CASE ReadNative(c)
  BY <1>1 DEF ReadNative
<1>2. CASE ValidateSnapshot(c)
  BY <1>2 DEF ValidateSnapshot
<1>3. CASE ValidateNative(c)
  BY <1>3 DEF ValidateNative
<1>4. CASE ReadNativeAgain(c)
  BY <1>4 DEF ReadNativeAgain
<1>5. CASE WriteRecord(c)
  BY <1>5 DEF WriteRecord
<1>6. CASE LinkRecord(c)
  BY <1>6 DEF LinkRecord
<1>7. CASE UnlinkRecord(c)
  BY <1>7 DEF UnlinkRecord
<1> QED
  BY <1>1, <1>2, <1>3, <1>4, <1>5, <1>6, <1>7 DEF CollectRecord

\* What happens around the commands starts and publishes nothing: a command is
\* stopped at most, a tree written, a name given to an outsider
LEMMA AroundSteps ==
    ASSUME Domains, Around
    PROVE  /\ Domains' /\ UNCHANGED scenario
           /\ \A d \in Commands :
                 /\ \/ trees'[d] = trees[d]
                    \/ trees'[d] = [trees[d] EXCEPT !.stray = TRUE] /\ trees[d] # Nothing
                 /\ \/ at'[d] = at[d] /\ my'[d] = my[d]
                    \/ at[d] # "idle" /\ at'[d] \in {"killed", "cleanup", "error"}
           /\ \/ \A n \in StoreNames : entries'[n] = entries[n]
              \/ \E d \in Commands : \A n \in StoreNames :
                    entries'[n] = entries[n] \/ (n = Out(d) /\ entries'[n] = Foreign)
<1> USE DEF Domains, Names, StoreNames, Kinds, Roles, Happens, Runs, Goes, Bind, Unbind,
            dirVars, Lock, Out, Ended
<1>1. CASE \E role \in Roles : EditInput(role)
  BY <1>1 DEF EditInput
<1>2. CASE \E c \in Commands : WriteTree(c)
  BY <1>2 DEF WriteTree
<1>3. CASE \E c \in Commands : ForeignOutput(c)
  <2>1. PICK c \in Commands : ForeignOutput(c)
    BY <1>3
  <2>2. ASSUME NEW n \in StoreNames
        PROVE  entries'[n] = entries[n] \/ (n = Out(c) /\ entries'[n] = Foreign)
    <3>1. n \in DOMAIN entries
      BY DEF RolesOf
    <3>2. entries' = [entries EXCEPT ![Out(c)] = Foreign]
      BY <2>1 DEF ForeignOutput
    <3> HIDE DEF Out, StoreNames, Names
    <3> QED
      BY <3>1, <3>2
  <2> QED
    BY <2>1, <2>2 DEF ForeignOutput
<1>4. CASE \E c \in Commands : Kill(c) \/ Interrupt(c) \/ Abandon(c)
  BY <1>4 DEF Kill, Interrupt, Abandon, CleaningUp
<1>5. CASE \E k \in Kinds : RemoveLock(k)
  BY <1>5 DEF RemoveLock
<1>6. CASE MoveDirectory
  BY <1>6 DEF MoveDirectory
<1> QED
  BY <1>1, <1>2, <1>3, <1>4, <1>5, <1>6 DEF Around

\* A step of any command
LEMMA CommandSteps ==
    ASSUME NEW c \in Commands, Domains, Command(c)
    PROVE  Step(c)
BY ObjectiveSteps, MeasureSteps, SealSteps, PrepareSteps, ScoreSteps, GateSteps,
   FormalSteps, AuthorizeSteps, B1Steps, SuiteSteps, SessionSteps, CollectSteps
   DEF Command

\* The variables are functions over their domains from the start
LEMMA InitDomains == Init => Domains
BY DEF Init, FilesInit, Domains, Names

------------------------------------------------------------------------------
(* Evidence is never replaced                                              *)

\* A step of the commands, or around them, is a step of the abstract store
LEMMA StoreSteps ==
    ASSUME Domains, [Next]_vars
    PROVE  /\ Domains'
           /\ [Store!Next]_([n \in StoreNames |-> entries[n]])
<1> DEFINE bound == [n \in StoreNames |-> entries[n]]
<1> USE DEF Store!Next, Store!Publish, Store!TakeBack, Store!Intrude
<1>1. CASE Around
  <2>1. /\ Domains'
        /\ \/ \A n \in StoreNames : entries'[n] = entries[n]
           \/ \E d \in Commands : \A n \in StoreNames :
                 entries'[n] = entries[n] \/ (n = Out(d) /\ entries'[n] = Foreign)
    BY <1>1, AroundSteps
  <2>2. CASE \A n \in StoreNames : entries'[n] = entries[n]
    BY <2>1, <2>2
  <2>3. CASE \E n \in StoreNames : entries'[n] # entries[n]
    <3>1. PICK n \in StoreNames : entries'[n] # entries[n]
      BY <2>3
    <3>2. bound' = [bound EXCEPT ![n] = Foreign]
      BY <2>1, <3>1
    <3>3. bound'[n] # bound[n]
      BY <3>1
    <3> QED
      BY <2>1, <3>2, <3>3
  <2> QED
    BY <2>2, <2>3
<1>2. ASSUME NEW c \in Commands, Command(c)
      PROVE  Domains' /\ [Store!Next]_bound
  <2>1. Domains' /\ StoreStep(c)
    BY <1>2, CommandSteps DEF Step
  <2>2. CASE \A n \in StoreNames : entries'[n] = entries[n]
    BY <2>1, <2>2
  <2>3. CASE \E n \in StoreNames : entries'[n] # entries[n]
    <3>1. PICK n \in StoreNames : entries'[n] # entries[n]
      BY <2>3
    <3>2. \/ entries[n] \in MayGiveWay(n) /\ entries'[n] = Tree(c)
          \/ entries[n] = Tree(c) /\ entries'[n] = Nothing
      BY <2>1, <3>1 DEF StoreStep
    <3>3. \A m \in StoreNames \ {n} : entries'[m] = entries[m]
      BY <2>1, <3>1 DEF StoreStep
    <3>4. bound' = [bound EXCEPT ![n] = entries'[n]]
      BY <3>3
    <3>5. bound[n] = entries[n] /\ bound'[n] # bound[n]
      BY <3>1
    <3>6. Store!Publish(n, c) \/ Store!TakeBack(n, c)
      BY <3>2, <3>4, <3>5
    <3> QED
      BY <2>1, <3>5, <3>6
  <2> QED
    BY <2>2, <2>3
<1>3. CASE Done \/ UNCHANGED vars
  BY <1>3 DEF Done, vars, Domains, Names, dirVars
<1> QED
  BY <1>1, <1>2, <1>3 DEF Next

\* Whatever the commands do and whatever happens around them, evidence appears
\* only under a name that is free, stays, and is taken back by its publisher only
THEOREM EvidenceIsPublishedOnce == Spec => PublishedOnce
<1>1. Init => Store!Init
  BY DEF Init, FilesInit, Store!Init, StoreNames, Nothing
<1>2. Domains /\ [Next]_vars => Domains'
  BY StoreSteps
<1>3. Spec => []Domains
  BY <1>2, InitDomains, PTL DEF Spec
<1>4. Domains /\ [Next]_vars => [Store!Next]_([n \in StoreNames |-> entries[n]])
  BY StoreSteps
<1> QED
  BY <1>1, <1>3, <1>4, PTL DEF Spec, PublishedOnce, Store!Spec

------------------------------------------------------------------------------
(* Types                                                                   *)

\* Whose file a name may be bound to
Files(n) ==
    {Nothing, Foreign}
        \cup {Tree(c) : c \in {d \in Commands : n \in {Temp(d), Out(d)}}}
        \cup {LockFile(c) : c \in {d \in Commands : n = Lock(d)}}

Typed ==
    /\ inputs \in [Roles -> UNION {Versions[r] : r \in Roles}]
    /\ \A c \in Commands : at[c] \in Steps
    /\ faults \in Int /\ scenario.faults \in Int
    /\ 0 <= faults /\ faults <= scenario.faults
    /\ late \subseteq Commands
    /\ \A n \in Names : entries[n] \in Files(n)

\* It is TypeOK
LEMMA TypedIsTypeOK == Domains /\ Typed => TypeOK
BY DEF Domains, Typed, TypeOK, Files

\* Whose file a name may be bound to does not change
LEMMA FilesStay ==
    ASSUME UNCHANGED scenario, NEW n
    PROVE  Files(n)' = Files(n)
BY DEF Files, Temp, Out, Lock, kind, Tree, LockFile

\* What happens around the commands binds nothing but to an outsider
LEMMA AroundTyped ==
    ASSUME Domains, Typed, Around
    PROVE  Typed'
<1> USE DEF Domains, Happens
<1>1. UNCHANGED scenario
  BY AroundSteps
<1>2. faults' = faults - 1 /\ faults > 0
  BY DEF Around, EditInput, WriteTree, ForeignOutput, Kill, Interrupt, Abandon, RemoveLock,
         MoveDirectory
<1>3. inputs' \in [Roles -> UNION {Versions[r] : r \in Roles}]
  <2>1. CASE \E role \in Roles : EditInput(role)
    BY <2>1 DEF EditInput, Typed
  <2>2. CASE UNCHANGED inputs
    BY <2>2 DEF Typed
  <2> QED
    BY <2>1, <2>2 DEF Around, WriteTree, ForeignOutput, Kill, Interrupt, Abandon, RemoveLock,
                      MoveDirectory
<1>4. \A c \in Commands : at'[c] \in Steps
  <2>1. CASE \E c \in Commands : Kill(c) \/ Interrupt(c) \/ Abandon(c)
    BY <2>1 DEF Kill, Interrupt, Abandon, Goes, Typed, Steps, Ended
  <2>2. CASE UNCHANGED at
    BY <2>2 DEF Typed
  <2> QED
    BY <2>1, <2>2 DEF Around, EditInput, WriteTree, ForeignOutput, RemoveLock,
                      MoveDirectory
<1>5. late' \subseteq Commands
  BY DEF Around, EditInput, WriteTree, ForeignOutput, Kill, Interrupt, Abandon, RemoveLock,
         MoveDirectory, Typed
<1>6. ASSUME NEW n \in Names
      PROVE  entries'[n] \in Files(n)
  <2>1. entries'[n] \in {entries[n], Nothing, Foreign}
    <3>1. CASE UNCHANGED entries
      BY <3>1
    <3>2. CASE \E c \in Commands : ForeignOutput(c)
      BY <3>2 DEF ForeignOutput, Bind
    <3>3. CASE \E k \in Kinds : RemoveLock(k)
      BY <3>3 DEF RemoveLock, Unbind
    <3> QED
      BY <3>1, <3>2, <3>3 DEF Around, EditInput, WriteTree, Kill, Interrupt, Abandon, dirVars,
                              MoveDirectory
  <2> QED
    BY <2>1 DEF Typed, Files
<1> QED
  BY <1>1, <1>2, <1>3, <1>4, <1>5, <1>6, FilesStay, AroundSteps DEF Typed

\* A step of a command binds names of its own only
LEMMA CommandTyped ==
    ASSUME NEW c \in Commands, Domains, Typed, Command(c)
    PROVE  Typed'
<1>1. Domains' /\ Local(c) /\ TypeStep(c)
  BY CommandSteps DEF Step
<1>2. /\ faults' \in Int /\ scenario'.faults \in Int
      /\ 0 <= faults' /\ faults' <= scenario'.faults
  BY <1>1 DEF Typed, TypeStep, Local
<1>3. \A d \in Commands : at'[d] \in Steps
  BY <1>1 DEF Typed, TypeStep, Local
<1>4. ASSUME NEW n \in Names
      PROVE  entries'[n] \in Files(n)
  BY <1>1, <1>4 DEF Typed, TypeStep, Files
<1> QED
  BY <1>1, <1>2, <1>3, <1>4, FilesStay DEF Typed, TypeStep, Local

\* Types, and every name of the directory bound to a file of its owner or to an
\* outsider's, for every set of commands and every scenario with a bound
THEOREM TypeCorrect ==
    (\A s \in Scenarios : s.faults \in Nat) /\ Spec => []TypeOK
<1>1. (\A s \in Scenarios : s.faults \in Nat) /\ Init => Domains /\ Typed
  BY InitDomains DEF Init, FilesInit, Typed, Steps, Versions, Roles, Files, Names
<1>2. Domains /\ Typed /\ [Next]_vars => Domains' /\ Typed'
  <2>1. CASE Done \/ UNCHANGED vars
    BY <2>1, FilesStay DEF Done, vars, Typed, aroundVars, dirVars, Domains
  <2> QED
    BY <2>1, StoreSteps, AroundTyped, CommandTyped DEF Next
<1> QED
  BY <1>1, <1>2, TypedIsTypeOK, PTL DEF Spec

------------------------------------------------------------------------------
(* Nothing is authorized                                                   *)

\* A tree of the authorizer is a decision that does not authorize
Denied(tree) == DOMAIN tree = {"document", "stray"} /\ ~tree.document.authorized

\* Before it is a tree, the decision is in memory; B1 gets no further than its gate
ClosedAt(c) ==
    /\ kind[c] = "authorize" =>
          /\ at[c] = "reading" => ~my[c].held.authorized
          /\ trees[c] = Nothing \/ Denied(trees[c])
    /\ kind[c] = "b1" /\ ~scenario.exercised =>
          /\ trees[c] = Nothing
          /\ at[c] \in {"idle", "gated"} \cup Ended \cup {"cleanup"}

Closed == \A c \in Commands : ClosedAt(c)

\* What _evaluate lets through has no mandatory check left that could fail
LEMMA NothingMandatoryFails ==
    ASSUME NEW policy, NEW evidence, Evaluable(policy, evidence)
    PROVE  ~Authorization(policy, evidence).authorized
<1>1. FailedMandatory(Evidence[evidence]) = {}
  BY DEF Evaluable, FailedMandatory
<1> HIDE DEF FailedMandatory
<1>2. Authorization(policy, evidence).authorized
          = (FailedMandatory(Evidence[evidence]) # {})
  BY DEF Authorization
<1> QED
  BY <1>1, <1>2

\* A step of the authorizer
LEMMA AuthorizeClosed ==
    ASSUME NEW c \in Commands, Domains, ClosedAt(c), Authorize(c)
    PROVE  ClosedAt(c)'
<1> USE DEF Domains, ClosedAt, Authorizes, At, Goes, Holds, Raises, Requires, kind, Ended
<1>1. kind[c] = "authorize" /\ UNCHANGED scenario
  BY DEF Authorize, ReadRule, DecideB1, WriteDocument, PublishDocument, ReadBack, RollBack
<1>2. CASE ReadRule(c)
  BY <1>1, <1>2 DEF ReadRule, dirVars
<1>3. CASE DecideB1(c)
  <2>1. CASE Evaluable(my[c].held.policy, inputs["evidence"])
    <3>1. /\ my' = [my EXCEPT ![c].held =
                       Authorization(my[c].held.policy, inputs["evidence"])]
          /\ at' = [at EXCEPT ![c] = "reading"] /\ trees' = trees
      BY <1>3, <2>1 DEF DecideB1, dirVars
    <3>2. my'[c].held = Authorization(my[c].held.policy, inputs["evidence"])
      BY <3>1
    <3>3. ~my'[c].held.authorized
      BY <2>1, <3>2, NothingMandatoryFails
    <3> QED
      BY <1>1, <3>1, <3>3
  <2>2. CASE ~Evaluable(my[c].held.policy, inputs["evidence"])
    BY <1>1, <1>3, <2>2 DEF DecideB1, dirVars
  <2> QED
    BY <2>1, <2>2
<1>4. CASE WriteDocument(c)
  BY <1>1, <1>4 DEF WriteDocument, Makes, Unnoted, dirVars, Denied
<1>5. CASE PublishDocument(c)
  BY <1>1, <1>5 DEF PublishDocument, Renames, RenameNoReplace, RefusesToReplace, dirVars
<1>6. CASE ReadBack(c)
  BY <1>1, <1>6 DEF ReadBack, dirVars
<1>7. CASE RollBack(c)
  BY <1>1, <1>7 DEF RollBack
<1> QED
  BY <1>2, <1>3, <1>4, <1>5, <1>6, <1>7 DEF Authorize

\* A step of the continuation with B1, that the authorization stops
LEMMA ContinueClosed ==
    ASSUME NEW c \in Commands, Domains, ClosedAt(c), ContinueB1(c)
    PROVE  ClosedAt(c)'
<1> USE DEF Domains, ClosedAt, Continues, At, Goes, Holds, RefuseToStart, kind, Ended
<1>1. kind[c] = "b1" /\ UNCHANGED scenario
  BY B1Steps DEF Step, Local
<1>2. SUFFICES ASSUME ~scenario.exercised
               PROVE  /\ trees'[c] = Nothing
                      /\ at'[c] \in {"idle", "gated"} \cup Ended \cup {"cleanup"}
  BY <1>1
<1>3. trees[c] = Nothing /\ at[c] \in {"idle", "gated"} \cup Ended \cup {"cleanup"}
  BY <1>1, <1>2
<1>4. CASE ReadGate(c)
  BY <1>3, <1>4 DEF ReadGate, dirVars
<1>5. CASE ReadAuthorization(c)
  <2>1. ~Verified(Document)
    BY <1>2, NothingMandatoryFails DEF Verified
  <2> QED
    BY <1>3, <1>5, <2>1 DEF ReadAuthorization, dirVars
<1>6. CASE RetainB1(c)
  BY <1>3, <1>6 DEF RetainB1, dirVars
<1>7. CASE \/ CapturePrior(c) \/ BuildTree(c) \/ ProbeB1(c) \/ ReportB1(c)
           \/ ReAuthenticate(c) \/ FreezeB1(c) \/ AtBoundary(c) \/ PublishB1(c)
           \/ AssureB1(c)
  BY <1>3, <1>7 DEF CapturePrior, BuildTree, ProbeB1, ReportB1, ReAuthenticate, FreezeB1,
                    AtBoundary, PublishB1, AssureB1
<1> QED
  BY <1>4, <1>5, <1>6, <1>7 DEF ContinueB1

\* A step of any command, or around them
LEMMA ClosedSteps ==
    ASSUME Domains, Closed, [Next]_vars
    PROVE  Closed'
<1> SUFFICES ASSUME NEW c \in Commands PROVE ClosedAt(c)'
  BY DEF Closed
<1>1. ClosedAt(c)
  BY DEF Closed
<1>2. CASE Around
  <2>1. /\ UNCHANGED scenario
        /\ \/ trees'[c] = trees[c]
           \/ trees'[c] = [trees[c] EXCEPT !.stray = TRUE] /\ trees[c] # Nothing
        /\ \/ at'[c] = at[c] /\ my'[c] = my[c]
           \/ at[c] # "idle" /\ at'[c] \in {"killed", "cleanup", "error"}
    BY <1>2, AroundSteps
  <2>2. Denied(trees[c]) => Denied([trees[c] EXCEPT !.stray = TRUE])
    BY DEF Denied
  <2> QED
    BY <1>1, <2>1, <2>2 DEF ClosedAt, kind, Ended
<1>3. ASSUME NEW d \in Commands, Command(d), d # c
      PROVE  ClosedAt(c)'
  <2>1. UNCHANGED scenario /\ at'[c] = at[c] /\ my'[c] = my[c] /\ trees'[c] = trees[c]
    BY <1>3, CommandSteps DEF Step, Local
  <2> QED
    BY <1>1, <2>1 DEF ClosedAt, kind
<1>4. CASE Command(c)
  <2>1. UNCHANGED scenario
    BY <1>4, CommandSteps DEF Step, Local
  <2>2. CASE Authorize(c)
    BY <1>1, <2>2, AuthorizeClosed
  <2>3. CASE ContinueB1(c)
    BY <1>1, <2>3, ContinueClosed
  <2>4. CASE kind[c] \notin {"authorize", "b1"}
    BY <2>1, <2>4 DEF ClosedAt, kind
  <2> QED
    BY <1>4, <2>2, <2>3, <2>4, ObjectiveSteps, MeasureSteps, SealSteps, PrepareSteps,
       ScoreSteps, GateSteps, FormalSteps, SuiteSteps, SessionSteps, CollectSteps
       DEF Command, Suites
<1>5. CASE Done \/ UNCHANGED vars
  BY <1>1, <1>5 DEF Done, vars, dirVars, ClosedAt, kind
<1> QED
  BY <1>2, <1>3, <1>4, <1>5 DEF Next

\* Whatever a revision of the policy makes mandatory or ready, no published decision
\* authorizes B1 and no continuation builds a tree
THEOREM NothingAuthorizedEver == Spec => []NothingAuthorized
<1>1. Init => Domains /\ Closed
  BY InitDomains DEF Init, FilesInit, Closed, ClosedAt
<1>2. Domains /\ Closed /\ [Next]_vars => Domains' /\ Closed'
  BY StoreSteps, ClosedSteps
<1>3. Closed => NothingAuthorized
  BY DEF Closed, ClosedAt, NothingAuthorized, Denied
<1> QED
  BY <1>1, <1>2, <1>3, PTL DEF Spec

------------------------------------------------------------------------------
(* No formal result passes                                                 *)

\* The interaction check has no verdict, so the checks are never all passed
LEMMA NeverFormalPass ==
    ASSUME NEW m, NEW rev
    PROVE  GateResult(rev, m) # "formal_pass"
BY DEF GateResult, FormalResult, FormalChecks

\* A formal evaluation that ended well holds a result as evaluate_metrics derives it
\* and, for B1, an accepted result on B0
Derived(c) ==
    kind[c] = "formal" /\ at[c] = "ok" =>
        /\ my[c].held.result # "formal_pass"
        /\ my[c].held.candidate = "B1" =>
              /\ scenario.revision.evidence = "ready"
              /\ PriorAccepted(my[c].held.prior)

\* Its only step derives the result
LEMMA FormalDerives ==
    ASSUME NEW c \in Commands, Domains, EvaluateFormal(c)
    PROVE  Derived(c)'
<1> USE DEF Domains, Goes, Holds, At, kind
<1>1. PICK candidate \in {"B0", "B1"}, prior \in PriorResults \cup {Nothing} :
         IF Eligible(candidate, prior)
         THEN /\ Goes(c, "ok")
              /\ \E metrics \in Metrics :
                    Holds(c, FormalEvaluation(candidate, metrics, prior))
         ELSE Goes(c, "error") /\ UNCHANGED my
  BY DEF EvaluateFormal
<1>2. UNCHANGED scenario
  BY DEF EvaluateFormal
<1>3. CASE Eligible(candidate, prior)
  <2>1. PICK metrics \in Metrics :
           Holds(c, FormalEvaluation(candidate, metrics, prior))
    BY <1>1, <1>3
  <2>2. my'[c].held = FormalEvaluation(candidate, metrics, prior)
    BY <2>1
  <2>3. /\ my'[c].held.result = GateResult(scenario.revision, metrics)
        /\ my'[c].held.candidate = candidate /\ my'[c].held.prior = prior
    BY <2>2 DEF FormalEvaluation
  <2>4. candidate = "B1" => scenario.revision.evidence = "ready" /\ PriorAccepted(prior)
    BY <1>3 DEF Eligible
  <2> QED
    BY <1>2, <2>3, <2>4, NeverFormalPass DEF Derived
<1>4. CASE ~Eligible(candidate, prior)
  BY <1>1, <1>4 DEF Derived
<1> QED
  BY <1>3, <1>4

\* A result on B0 is accepted for a failed check of its own metrics
LEMMA AcceptedForACheck ==
    ASSUME NEW prior, PriorAccepted(prior)
    PROVE  \E check \in {"latency", "pss", "stability"} :
               FormalChecks(prior.metrics)[check] = "failed"
<1> DEFINE checks == FormalChecks(prior.metrics)
<1>1. PICK i \in DOMAIN checks : checks[i] = "failed"
  BY DEF PriorAccepted, FormalResult
<1>2. DOMAIN checks = {"interaction", "latency", "pss", "stability"}
  BY DEF FormalChecks
<1>3. checks["interaction"] = "none"
  BY DEF FormalChecks
<1> QED
  BY <1>1, <1>2, <1>3

\* A step of any command, or around them
LEMMA DerivedSteps ==
    ASSUME Domains, \A c \in Commands : Derived(c), [Next]_vars
    PROVE  \A c \in Commands : Derived(c)'
<1> SUFFICES ASSUME NEW c \in Commands PROVE Derived(c)'
  OBVIOUS
<1>1. CASE Around
  <2>1. /\ UNCHANGED scenario
        /\ \/ at'[c] = at[c] /\ my'[c] = my[c]
           \/ at'[c] \in {"killed", "cleanup", "error"}
    BY <1>1, AroundSteps
  <2> QED
    BY <2>1 DEF Derived, kind
<1>2. ASSUME NEW d \in Commands, Command(d), d # c
      PROVE  Derived(c)'
  <2>1. UNCHANGED scenario /\ at'[c] = at[c] /\ my'[c] = my[c]
    BY <1>2, CommandSteps DEF Step, Local
  <2> QED
    BY <2>1 DEF Derived, kind
<1>3. CASE Command(c)
  <2>1. UNCHANGED scenario
    BY <1>3, CommandSteps DEF Step, Local
  <2>2. CASE EvaluateFormal(c)
    BY <2>2, FormalDerives
  <2>3. CASE kind[c] # "formal"
    BY <2>1, <2>3 DEF Derived, kind
  <2> QED
    BY <1>3, <2>2, <2>3, ObjectiveSteps, MeasureSteps, SealSteps, PrepareSteps, ScoreSteps,
       GateSteps, AuthorizeSteps, B1Steps, SuiteSteps, SessionSteps, CollectSteps
       DEF Command, Suites
<1>4. CASE Done \/ UNCHANGED vars
  BY <1>4 DEF Done, vars, Derived, kind
<1> QED
  BY <1>1, <1>2, <1>3, <1>4 DEF Next

\* Whatever metrics and whatever earlier result the gate is given, it passes nothing,
\* and evaluates B1 only after a result on B0 with a check that failed
THEOREM NoFormalPassEver == Spec => []NoFormalPass
<1> DEFINE AllDerived == \A c \in Commands : Derived(c)
<1>1. Init => Domains /\ AllDerived
  BY InitDomains DEF Init, FilesInit, Derived
<1>2. Domains /\ AllDerived /\ [Next]_vars => Domains' /\ AllDerived'
  BY StoreSteps, DerivedSteps
<1>3. AllDerived => NoFormalPass
  <2> SUFFICES ASSUME AllDerived, NEW c \in Commands, kind[c] = "formal", at[c] = "ok"
               PROVE  /\ my[c].held.result # "formal_pass"
                      /\ my[c].held.candidate = "B1" =>
                            /\ scenario.revision.evidence = "ready"
                            /\ \E check \in {"latency", "pss", "stability"} :
                                  FormalChecks(my[c].held.prior.metrics)[check] = "failed"
    BY DEF NoFormalPass
  <2> QED
    BY AcceptedForACheck DEF Derived
<1> QED
  BY <1>1, <1>2, <1>3, PTL DEF Spec

\* Both at once: the formal evaluation passes and authorizes nothing, for any number
\* of commands, any metrics and any revision of the policy
THEOREM FailsClosedAlways == Spec => []FailsClosed
<1>1. NothingAuthorized /\ NoFormalPass => FailsClosed
  BY DEF FailsClosed
<1> QED
  BY <1>1, NothingAuthorizedEver, NoFormalPassEver, PTL

------------------------------------------------------------------------------
(* Nothing is left behind                                                  *)

\* The commands that lock their output, and those that ask their memory, when they
\* clean up, whether the rename took place
Lockers == {"objective", "measure", "prepare"}
Askers == {"objective", "authorize", "b1"}

\* Where a command has not yet built its private tree
Starting == {"idle", "reading", "absent", "ruled", "gated", "authorized"}

Returned == {"ok", "error", "committed"}

\* Where a command of each kind has no private tree, whatever happened before
Bare ==
    [objective |-> {"idle", "reading", "absent", "locked", "published", "assured",
                    "unlocking", "closing"},
     measure |-> {"idle", "reading"}, prepare |-> {"idle", "reading"},
     score |-> {"idle", "reading"}, seal |-> {"idle", "reading", "published"},
     authorize |-> {"idle", "ruled", "reading", "published"},
     gate |-> {"idle", "ruled", "measured", "reading", "published"},
     formal |-> {"idle"},
     collect |-> {"idle", "ruled", "captured", "verified", "reading"}]

Unbuilt(c) ==
    /\ kind[c] # "b1"
    /\ \/ at[c] \in Returned \/ kind[c] \in Suites
       \/ kind[c] \in DOMAIN Bare /\ at[c] \in Bare[kind[c]]

Private(c) == entries[Temp(c)] = Tree(c)
Held(c) == kind[c] \in Kinds /\ entries[Lock(c)] = LockFile(c)

\* The directory has moved from under a command that goes by its path
Astray(c) == moved /\ kind[c] \in ByPath

\* What a command has in memory keeps its fields, and so does a sealed tree; what it
\* has not noted, or has skipped, it learns when it cleans up or ends
KeepsFields(c) ==
    /\ DOMAIN my[c] = DOMAIN NoMemory
    /\ kind[c] = "seal" => trees[c] = Nothing \/ "stray" \in DOMAIN trees[c]
    /\ at[c] # "idle" => kind[c] \in Kinds
    /\ my[c].failed \in {"lock", "tree", "abandoned"} => at[c] \in CleaningUp \cup Ended

\* The lock is taken by three kinds, late; what the command knows to be its own is
\* gone when its cleanup is over
KeepsLock(c) ==
    /\ my[c].lock => kind[c] \in Lockers /\ at[c] \notin {"idle", "reading"}
    /\ Held(c) => my[c].lock \/ my[c].failed \in {"lock", "abandoned"}
    /\ at[c] \in Returned \cup {"discard", "closing"} /\ ~Astray(c) /\ Held(c) =>
          my[c].failed \in {"lock", "abandoned"}

\* The private tree is gone, too, or someone else's file keeps it there
KeepsTree(c) ==
    /\ kind[c] \in Askers /\ my[c].committed =>
          ~Private(c) /\ at[c] \notin Starting \cup {"locked"}
    /\ Unbuilt(c) /\ ~Astray(c) /\ Private(c) =>
          \/ my[c].failed \in {"tree", "abandoned"}
          \/ kind[c] = "seal" /\ trees[c].stray

Tidy(c) == KeepsFields(c) /\ KeepsLock(c) /\ KeepsTree(c)

\* What happens around the commands takes names away, or gives them to an outsider;
\* the memory of a command changes with an interrupt only, in its body or its clean-up
LEMMA AroundLeaves ==
    ASSUME Domains, Around, NEW c \in Commands
    PROVE  /\ moved' \in {moved, TRUE}
           /\ \A n \in Names : entries'[n] \in {entries[n], Nothing, Foreign}
           /\ \/ at'[c] = at[c] /\ my'[c] = my[c]
              \/ at[c] # "idle" /\ at'[c] = "killed" /\ my'[c] = my[c]
              \/ /\ at[c] \notin Ended \cup CleaningUp \cup {"idle", "reading"}
                 /\ at'[c] = "cleanup"
                 /\ my'[c] = [my[c] EXCEPT !.failed = "interrupt"]
              \/ /\ at[c] \in CleaningUp \cup {"published"}
                 /\ at'[c] = "error"
                 /\ my'[c] = [my[c] EXCEPT !.failed = "abandoned"]
<1>1. moved' \in {moved, TRUE}
  BY DEF Around, EditInput, WriteTree, ForeignOutput, Kill, Interrupt, Abandon, RemoveLock,
         MoveDirectory
<1>2. ASSUME NEW n \in Names
      PROVE  entries'[n] \in {entries[n], Nothing, Foreign}
  <2>1. CASE UNCHANGED entries
    BY <2>1
  <2>2. CASE \E d \in Commands : ForeignOutput(d)
    BY <2>2 DEF ForeignOutput, Bind, Domains
  <2>3. CASE \E k \in Kinds : RemoveLock(k)
    BY <2>3 DEF RemoveLock, Unbind, Domains
  <2> QED
    BY <2>1, <2>2, <2>3 DEF Around, EditInput, WriteTree, Kill, Interrupt, Abandon, dirVars,
                            MoveDirectory
<1>3. CASE \E d \in Commands : Kill(d) \/ Interrupt(d) \/ Abandon(d)
  BY <1>1, <1>2, <1>3 DEF Kill, Interrupt, Abandon, Goes, Runs, Domains
<1>4. CASE UNCHANGED <<at, my>>
  BY <1>1, <1>2, <1>4
<1> QED
  BY <1>3, <1>4 DEF Around, EditInput, WriteTree, ForeignOutput, RemoveLock, MoveDirectory

\* A step of AcquireObjective
LEMMA ObjectiveTidy ==
    ASSUME NEW c \in Commands, Domains, Tidy(c), AcquireObjective(c)
    PROVE  Tidy(c)'
<1> USE DEF Domains, Names, Kinds, RolesOf, Requires, Raises, Goes, Holds, Bind, Unbind, At,
            kind, Exists, Published, Out, Lock, Temp, Tree, LockFile, dirVars, Nothing,
            Foreign, Happens, Tidy, KeepsFields, KeepsLock, KeepsTree, Unbuilt, Bare, Private,
            Held, Astray, ByPath, CleaningUp, Ended, Lockers, Askers, Starting, Returned,
            NoMemory, Suites, Objective, Fails
<1>1. CASE ReadInputs(c)
  BY <1>1 DEF ReadInputs
<1>2. CASE CheckOutput(c)
  BY <1>2 DEF CheckOutput
<1>3. CASE TakeLock(c)
  BY <1>3 DEF TakeLock, CreatesLock, Unnoted
<1>4. CASE CopyInputs(c)
  <2>1. CASE Unnoted(c, "tree", "cleanup")
    BY <1>4, <2>1 DEF CopyInputs, Unnoted
  <2>2. CASE Requires(c, InputsHold(c), "probe")
    BY <1>4, <2>2 DEF CopyInputs
  <2> QED
    BY <1>4, <2>1, <2>2 DEF CopyInputs
<1>5. CASE RunProbe(c)
  BY <1>5 DEF RunProbe
<1>6. CASE ReadRun(c)
  BY <1>6 DEF ReadRun
<1>7. CASE WriteManifest(c)
  BY <1>7 DEF WriteManifest
<1>8. CASE CheckFiles(c)
  BY <1>8 DEF CheckFiles
<1>9. CASE CaptureTree(c)
  BY <1>9 DEF CaptureTree
<1>10. CASE FreezeTree(c)
  BY <1>10 DEF FreezeTree
<1>11. CASE Publish(c)
  BY <1>11 DEF Publish, Renames, RenameNoReplace, RefusesToReplace
<1>12. CASE VerifyPublished(c)
  BY <1>12 DEF VerifyPublished
<1>13. CASE CheckLock(c)
  BY <1>13 DEF CheckLock
<1>14. CASE Unlock(c)
  BY <1>14 DEF Unlock
<1>15. CASE CleanLock(c)
  BY <1>15 DEF CleanLock
<1>16. CASE Discard(c)
  BY <1>16 DEF Discard, Discardable
<1>17. CASE Report(c)
  BY <1>17 DEF Report, EndsWell
<1> QED
  BY <1>1, <1>2, <1>3, <1>4, <1>5, <1>6, <1>7, <1>8,
         <1>9, <1>10, <1>11, <1>12, <1>13, <1>14, <1>15, <1>16, <1>17 DEF AcquireObjective

\* A step of AcquireMeasurement
LEMMA MeasureTidy ==
    ASSUME NEW c \in Commands, Domains, Tidy(c), AcquireMeasurement(c)
    PROVE  Tidy(c)'
<1> USE DEF Domains, Names, Kinds, RolesOf, Requires, Raises, Goes, Holds, Bind, Unbind, At,
            kind, Exists, Published, Out, Lock, Temp, Tree, LockFile, dirVars, Nothing,
            Foreign, Happens, Tidy, KeepsFields, KeepsLock, KeepsTree, Unbuilt, Bare, Private,
            Held, Astray, ByPath, CleaningUp, Ended, Lockers, Askers, Starting, Returned,
            NoMemory, aroundVars, Suites, Measure, Aborts
<1>1. CASE CheckPolicy(c)
  BY <1>1 DEF CheckPolicy
<1>2. CASE SnapshotRuntime(c)
  BY <1>2 DEF SnapshotRuntime, Makes, Unnoted
<1>3. CASE Probe(c)
  BY <1>3 DEF Probe
<1>4. CASE ReadProbe(c)
  BY <1>4 DEF ReadProbe
<1>5. CASE WriteMeasurement(c)
  BY <1>5 DEF WriteMeasurement
<1>6. CASE LockOutput(c)
  BY <1>6 DEF LockOutput, CreatesLock, Unnoted
<1>7. CASE CheckAgain(c)
  BY <1>7 DEF CheckAgain
<1>8. CASE PublishMeasurement(c)
  BY <1>8 DEF PublishMeasurement, Renames, RenameNoReplace, RefusesToReplace
<1>9. CASE SyncMeasurement(c)
  BY <1>9 DEF SyncMeasurement
<1>10. CASE UnlinkLock(c)
  BY <1>10 DEF UnlinkLock, UnlinkByName
<1>11. CASE RemoveTemporary(c)
  BY <1>11 DEF RemoveTemporary, RemoveByName, EndsByName
<1>12. CASE OverwriteRaw(c)
  BY <1>12 DEF OverwriteRaw
<1> QED
  BY <1>1, <1>2, <1>3, <1>4, <1>5,
         <1>6, <1>7, <1>8, <1>9, <1>10, <1>11, <1>12 DEF AcquireMeasurement

\* A step of SealCorpus
LEMMA SealTidy ==
    ASSUME NEW c \in Commands, Domains, Tidy(c), SealCorpus(c)
    PROVE  Tidy(c)'
<1> USE DEF Domains, Names, Kinds, RolesOf, Requires, Raises, Goes, Holds, Bind, Unbind, At,
            kind, Exists, Published, Out, Lock, Temp, Tree, LockFile, dirVars, Nothing,
            Foreign, Happens, Tidy, KeepsFields, KeepsLock, KeepsTree, Unbuilt, Bare, Private,
            Held, Astray, ByPath, CleaningUp, Ended, Lockers, Askers, Starting, Returned,
            NoMemory, aroundVars, Suites, Seals, RemoveGeneration
<1>1. CASE PrepareSnapshot(c)
  BY <1>1 DEF PrepareSnapshot
<1>2. CASE MakeStaging(c)
  BY <1>2 DEF MakeStaging, Makes, Unnoted
<1>3. CASE WriteStaging(c)
  BY <1>3 DEF WriteStaging
<1>4. CASE PublishGeneration(c)
  BY <1>4 DEF PublishGeneration, Renames, RenameNoReplace, RefusesToReplace
<1>5. CASE VerifyGeneration(c)
  BY <1>5 DEF VerifyGeneration
<1>6. CASE RemoveStaging(c)
  BY <1>6 DEF RemoveStaging
<1> QED
  BY <1>1, <1>2, <1>3, <1>4, <1>5, <1>6 DEF SealCorpus

\* A step of Prepare
LEMMA PrepareTidy ==
    ASSUME NEW c \in Commands, Domains, Tidy(c), Prepare(c)
    PROVE  Tidy(c)'
<1> USE DEF Domains, Names, Kinds, RolesOf, Requires, Raises, Goes, Holds, Bind, Unbind, At,
            kind, Exists, Published, Out, Lock, Temp, Tree, LockFile, dirVars, Nothing,
            Foreign, Happens, Tidy, KeepsFields, KeepsLock, KeepsTree, Unbuilt, Bare, Private,
            Held, Astray, ByPath, CleaningUp, Ended, Lockers, Askers, Starting, Returned,
            NoMemory, aroundVars, Suites, Prepares, GivesUp
<1>1. CASE BuildPacket(c)
  BY <1>1 DEF BuildPacket
<1>2. CASE WritePacket(c)
  BY <1>2 DEF WritePacket, Makes, Unnoted
<1>3. CASE LockPacket(c)
  BY <1>3 DEF LockPacket, CreatesLock, Unnoted
<1>4. CASE CheckPacket(c)
  BY <1>4 DEF CheckPacket
<1>5. CASE RenamePacket(c)
  BY <1>5 DEF RenamePacket
<1>6. CASE SyncPacket(c)
  BY <1>6 DEF SyncPacket
<1>7. CASE UnlockPacket(c)
  BY <1>7 DEF UnlockPacket, UnlinkByName
<1>8. CASE RemovePacket(c)
  BY <1>8 DEF RemovePacket, RemoveByName, EndsByName
<1> QED
  BY <1>1, <1>2, <1>3, <1>4, <1>5, <1>6, <1>7, <1>8 DEF Prepare

\* A step of ScoreReview
LEMMA ScoreTidy ==
    ASSUME NEW c \in Commands, Domains, Tidy(c), ScoreReview(c)
    PROVE  Tidy(c)'
<1> USE DEF Domains, Names, Kinds, RolesOf, Requires, Raises, Goes, Holds, Bind, Unbind, At,
            kind, Exists, Published, Out, Lock, Temp, Tree, LockFile, dirVars, Nothing,
            Foreign, Happens, Tidy, KeepsFields, KeepsLock, KeepsTree, Unbuilt, Bare, Private,
            Held, Astray, ByPath, CleaningUp, Ended, Lockers, Askers, Starting, Returned,
            NoMemory, aroundVars, Suites, Scores, GivesUp
<1>1. CASE ReadPacket(c)
  BY <1>1 DEF ReadPacket
<1>2. CASE WriteReport(c)
  BY <1>2 DEF WriteReport, Makes, Unnoted
<1>3. CASE LinkReport(c)
  BY <1>3 DEF LinkReport
<1>4. CASE SyncReport(c)
  BY <1>4 DEF SyncReport
<1>5. CASE UnlinkTemporary(c)
  BY <1>5 DEF UnlinkTemporary
<1> QED
  BY <1>1, <1>2, <1>3, <1>4, <1>5 DEF ScoreReview

\* A step of EvaluateB0
LEMMA GateTidy ==
    ASSUME NEW c \in Commands, Domains, Tidy(c), EvaluateB0(c)
    PROVE  Tidy(c)'
<1> USE DEF Domains, Names, Kinds, RolesOf, Requires, Raises, Goes, Holds, Bind, Unbind, At,
            kind, Exists, Published, Out, Lock, Temp, Tree, LockFile, dirVars, Nothing,
            Foreign, Happens, Tidy, KeepsFields, KeepsLock, KeepsTree, Unbuilt, Bare, Private,
            Held, Astray, ByPath, CleaningUp, Ended, Lockers, Askers, Starting, Returned,
            NoMemory, aroundVars, Suites, Evaluates
<1>1. CASE ReadContract(c)
  BY <1>1 DEF ReadContract
<1>2. CASE ReadMeasured(c)
  <2>1. /\ UNCHANGED <<dirVars, moved, scenario>>
        /\ at[c] = "ruled" /\ kind[c] = "gate"
        /\ Goes(c, "measured") \/ Goes(c, "error")
        /\ UNCHANGED my \/ \E held : Holds(c, held)
    <3> HIDE DEF Tidy, Published, Holds, Goes
    <3> QED
      BY <1>2 DEF ReadMeasured
  <2> QED
    BY <2>1
<1>3. CASE CheckAcquisition(c)
  <2>1. /\ UNCHANGED <<dirVars, my, moved, scenario>>
        /\ at[c] = "measured" /\ kind[c] = "gate"
        /\ Goes(c, "reading") \/ Goes(c, "error")
    <3> HIDE DEF Tidy, Published, Goes
    <3> QED
      BY <1>3 DEF CheckAcquisition
  <2> QED
    BY <2>1
<1>4. CASE WriteVerdict(c)
  BY <1>4 DEF WriteVerdict, Makes, Unnoted
<1>5. CASE ReplaceVerdict(c)
  BY <1>5 DEF ReplaceVerdict
<1>6. CASE ExitWithVerdict(c)
  BY <1>6 DEF ExitWithVerdict
<1>7. CASE UnlinkVerdict(c)
  BY <1>7 DEF UnlinkVerdict
<1> QED
  BY <1>1, <1>2, <1>3, <1>4, <1>5, <1>6, <1>7 DEF EvaluateB0

\* A step of EvaluateFormal
LEMMA FormalTidy ==
    ASSUME NEW c \in Commands, Domains, Tidy(c), EvaluateFormal(c)
    PROVE  Tidy(c)'
BY DEF Domains, Names, Kinds, RolesOf, Requires, Raises, Goes, Holds, Bind, Unbind, At,
            kind, Exists, Published, Out, Lock, Temp, Tree, LockFile, dirVars, Nothing, Foreign,
            Happens, Tidy, KeepsFields, KeepsLock, KeepsTree, Unbuilt, Bare, Private, Held,
            Astray, ByPath, CleaningUp, Ended, Lockers, Askers, Starting, Returned, NoMemory,
            aroundVars, Suites, EvaluateFormal

\* A step of Authorize
LEMMA AuthorizeTidy ==
    ASSUME NEW c \in Commands, Domains, Tidy(c), Authorize(c)
    PROVE  Tidy(c)'
<1> USE DEF Domains, Names, Kinds, RolesOf, Requires, Raises, Goes, Holds, Bind, Unbind, At,
            kind, Exists, Published, Out, Lock, Temp, Tree, LockFile, dirVars, Nothing,
            Foreign, Happens, Tidy, KeepsFields, KeepsLock, KeepsTree, Unbuilt, Bare, Private,
            Held, Astray, ByPath, CleaningUp, Ended, Lockers, Askers, Starting, Returned,
            NoMemory, aroundVars, Suites, Authorizes
<1>1. CASE ReadRule(c)
  BY <1>1 DEF ReadRule
<1>2. CASE DecideB1(c)
  BY <1>2 DEF DecideB1
<1>3. CASE WriteDocument(c)
  BY <1>3 DEF WriteDocument, Makes, Unnoted
<1>4. CASE PublishDocument(c)
  BY <1>4 DEF PublishDocument, Renames, RenameNoReplace, RefusesToReplace
<1>5. CASE ReadBack(c)
  BY <1>5 DEF ReadBack
<1>6. CASE RollBack(c)
  BY <1>6 DEF RollBack
<1> QED
  BY <1>1, <1>2, <1>3, <1>4, <1>5, <1>6 DEF Authorize

\* A step of ContinueB1
LEMMA B1Tidy ==
    ASSUME NEW c \in Commands, Domains, Tidy(c), ContinueB1(c)
    PROVE  Tidy(c)'
<1> USE DEF Domains, Names, Kinds, RolesOf, Requires, Raises, Goes, Holds, Bind, Unbind, At,
            kind, Exists, Published, Out, Lock, Temp, Tree, LockFile, dirVars, Nothing,
            Foreign, Happens, Tidy, KeepsFields, KeepsLock, KeepsTree, Unbuilt, Bare, Private,
            Held, Astray, ByPath, CleaningUp, Ended, Lockers, Askers, Starting, Returned,
            NoMemory, aroundVars, Suites, Continues, RefuseToStart
<1>1. CASE ReadGate(c)
  BY <1>1 DEF ReadGate
<1>2. CASE ReadAuthorization(c)
  BY <1>2 DEF ReadAuthorization
<1>3. CASE CapturePrior(c)
  BY <1>3 DEF CapturePrior
<1>4. CASE BuildTree(c)
  BY <1>4 DEF BuildTree
<1>5. CASE ProbeB1(c)
  <2>1. /\ UNCHANGED <<entries, moved, scenario>>
        /\ at[c] = "probe" /\ kind[c] = "b1"
        /\ \/ Goes(c, "exited") /\ UNCHANGED my
           \/ Raises(c, "cleanup")
    <3> HIDE DEF Tidy, Raises, Goes
    <3> QED
      BY <1>5 DEF ProbeB1
  <2> QED
    BY <2>1
<1>6. CASE ReportB1(c)
  BY <1>6 DEF ReportB1
<1>7. CASE ReAuthenticate(c)
  BY <1>7 DEF ReAuthenticate
<1>8. CASE FreezeB1(c)
  BY <1>8 DEF FreezeB1
<1>9. CASE AtBoundary(c)
  BY <1>9 DEF AtBoundary
<1>10. CASE PublishB1(c)
  BY <1>10 DEF PublishB1, Renames, RenameNoReplace, RefusesToReplace
<1>11. CASE AssureB1(c)
  BY <1>11 DEF AssureB1
<1>12. CASE RetainB1(c)
  BY <1>12 DEF RetainB1
<1> QED
  BY <1>1, <1>2, <1>3, <1>4, <1>5, <1>6,
         <1>7, <1>8, <1>9, <1>10, <1>11, <1>12 DEF ContinueB1

\* A step of RunSuite
LEMMA SuiteTidy ==
    ASSUME NEW c \in Commands, Domains, Tidy(c), RunSuite(c)
    PROVE  Tidy(c)'
<1>1. CASE StartSuite(c)
  <2>1. /\ \/ entries' = entries /\ UNCHANGED my
           \/ /\ entries' = [entries EXCEPT ![Out(c)] = Tree(c)]
              /\ \E held : Holds(c, held)
        /\ kind[c] \in Suites /\ UNCHANGED <<scenario, moved>> /\ at[c] = "idle"
        /\ Goes(c, "running") \/ Goes(c, "error")
    BY <1>1 DEF StartSuite, InSuite, Bind, dirVars, Names
  <2>2. /\ kind' = kind /\ kind[c] \in {"adapter", "steady", "recovery"} /\ Unbuilt(c)
        /\ at'[c] \in {"running", "error"} /\ moved' = moved
    BY <2>1 DEF kind, Suites, Unbuilt, Goes, Domains
  <2>3. DOMAIN my[c] = {"held", "tree", "lock", "committed", "failed"}
    BY DEF Tidy, KeepsFields, NoMemory
  <2>4. /\ DOMAIN my'[c] = DOMAIN my[c] /\ my'[c].lock = my[c].lock
        /\ my'[c].committed = my[c].committed /\ my'[c].failed = my[c].failed
    BY <2>1, <2>3 DEF Holds, Domains
  <2>5. \A n \in Names : n # Out(c) => entries'[n] = entries[n]
    BY <2>1 DEF Domains
  <2>6. Private(c)' => Private(c)
    BY <2>5 DEF Private, Temp, Out, Tree, Names
  <2>7. Held(c)' => Held(c)
    BY <2>2, <2>5 DEF Held, Lock, Out, LockFile, Names
  <2>8. my[c].failed \notin {"lock", "tree", "abandoned"}
    BY <2>1 DEF Tidy, KeepsFields, CleaningUp, Ended
  <2>9. KeepsFields(c)'
    BY <2>2, <2>4, <2>8 DEF Tidy, KeepsFields, Kinds, RolesOf
  <2>10. KeepsLock(c)'
    BY <2>2, <2>4, <2>7, <2>8 DEF Tidy, KeepsLock, Lockers
  <2>11. KeepsTree(c)'
    BY <2>2, <2>4, <2>6, <2>8 DEF Tidy, KeepsTree, Askers, Astray
  <2> QED
    BY <2>9, <2>10, <2>11 DEF Tidy
<1> USE DEF Domains, Names, Kinds, RolesOf, Requires, Raises, Goes, Holds, Bind, Unbind, At,
            kind, Exists, Published, Out, Lock, Temp, Tree, LockFile, dirVars, Nothing, Foreign,
            Happens, Tidy, KeepsFields, KeepsLock, KeepsTree, Unbuilt, Bare, Private, Held,
            Astray, ByPath, CleaningUp, Ended, Lockers, Askers, Starting, Returned, NoMemory,
            aroundVars, Suites, InSuite
<1>2. CASE Communicate(c)
  BY <1>2 DEF Communicate
<1>3. CASE TimeOut(c)
  BY <1>3 DEF TimeOut
<1>4. CASE StopGroup(c)
  BY <1>4 DEF StopGroup
<1>5. CASE StopSession(c)
  BY <1>5 DEF StopSession
<1>6. CASE Unwind(c)
  BY <1>6 DEF Unwind
<1>7. CASE NextRound(c)
  BY <1>7 DEF NextRound
<1>8. CASE WriteNative(c)
  BY <1>8 DEF WriteNative
<1>9. CASE JudgeNative(c)
  BY <1>9 DEF JudgeNative
<1> QED
  BY <1>1, <1>2, <1>3, <1>4, <1>5, <1>6, <1>7, <1>8, <1>9 DEF RunSuite

\* A step of InSessionOf
LEMMA SessionTidy ==
    ASSUME NEW c \in Commands, Domains, Tidy(c), InSessionOf(c)
    PROVE  Tidy(c)'
\* A member that ended changes what is held of the session
<1>0. ASSUME NEW p, Exit(c, p)
      PROVE  Tidy(c)'
  <2>1. UNCHANGED <<kind, at, moved, entries, trees>>
    BY <1>0 DEF Exit, InSession, kind, dirVars
  <2>2. /\ DOMAIN my'[c] = DOMAIN my[c]
        /\ my'[c].lock = my[c].lock /\ my'[c].committed = my[c].committed
        /\ my'[c].failed = my[c].failed
    <3>1. CASE my' = [my EXCEPT ![c].held.place[p] = "gone"]
      BY <3>1 DEF Domains
    <3>2. CASE \E exit \in {"passed", "failed"} :
                 my' = [my EXCEPT ![c].held.place[p] = "gone", ![c].held.exit = exit,
                                  ![c].held.reported = Known(c)]
      BY <3>2 DEF Domains
    <3> QED
      BY <1>0, <3>1, <3>2, Zenon DEF Exit
  <2>3. /\ Out(c)' = Out(c) /\ Lock(c)' = Lock(c) /\ LockFile(c)' = LockFile(c)
        /\ Temp(c)' = Temp(c) /\ Tree(c)' = Tree(c)
    BY <2>1 DEF Out, Lock, LockFile, Temp, Tree
  <2>4. /\ Held(c)' = Held(c) /\ Astray(c)' = Astray(c)
        /\ Private(c)' = Private(c) /\ Unbuilt(c)' = Unbuilt(c)
    BY <2>1, <2>3, Zenon DEF Held, Astray, Private, Unbuilt
  <2>5. KeepsFields(c)'
    BY <2>1, <2>2 DEF Tidy, KeepsFields
  <2>6. KeepsLock(c)'
    BY <2>1, <2>2, <2>4 DEF Tidy, KeepsLock
  <2>7. KeepsTree(c)'
    BY <2>1, <2>2, <2>4 DEF Tidy, KeepsTree
  <2> QED
    BY <2>5, <2>6, <2>7 DEF Tidy
<1>1. PICK p : Fork(c, p) \/ Leave(c, p) \/ Exit(c, p) \/ Observe(c, p)
  BY DEF InSessionOf
<1>2. CASE Exit(c, p)
  BY <1>0, <1>2
<1> USE DEF Domains, Names, Kinds, RolesOf, Requires, Raises, Goes, Holds, Bind, Unbind, At,
            kind, Exists, Published, Out, Lock, Temp, Tree, LockFile, dirVars, Nothing,
            Foreign, Happens, Tidy, KeepsFields, KeepsLock, KeepsTree, Unbuilt, Bare, Private,
            Held, Astray, ByPath, CleaningUp, Ended, Lockers, Askers, Starting, Returned,
            NoMemory, aroundVars, Suites, InSession, Launched
<1>3. CASE Fork(c, p)
  BY <1>3 DEF Fork
<1>4. CASE Leave(c, p)
  BY <1>4 DEF Leave
<1>5. CASE Observe(c, p)
  BY <1>5 DEF Observe
<1> QED
  BY <1>1, <1>2, <1>3, <1>4, <1>5

\* A step of CollectRecord
LEMMA CollectTidy ==
    ASSUME NEW c \in Commands, Domains, Tidy(c), CollectRecord(c)
    PROVE  Tidy(c)'
<1> USE DEF Domains, Names, Kinds, RolesOf, Requires, Raises, Goes, Holds, Bind, Unbind, At,
            kind, Exists, Published, Out, Lock, Temp, Tree, LockFile, dirVars, Nothing,
            Foreign, Happens, Tidy, KeepsFields, KeepsLock, KeepsTree, Unbuilt, Bare, Private,
            Held, Astray, ByPath, CleaningUp, Ended, Lockers, Askers, Starting, Returned,
            NoMemory, aroundVars, Suites, Collects
<1>1. CASE ReadNative(c)
  BY <1>1 DEF ReadNative
<1>2. CASE ValidateSnapshot(c)
  BY <1>2 DEF ValidateSnapshot
<1>3. CASE ValidateNative(c)
  BY <1>3 DEF ValidateNative
<1>4. CASE ReadNativeAgain(c)
  BY <1>4 DEF ReadNativeAgain
<1>5. CASE WriteRecord(c)
  BY <1>5 DEF WriteRecord
<1>6. CASE LinkRecord(c)
  BY <1>6 DEF LinkRecord
<1>7. CASE UnlinkRecord(c)
  BY <1>7 DEF UnlinkRecord
<1> QED
  BY <1>1, <1>2, <1>3, <1>4, <1>5, <1>6, <1>7 DEF CollectRecord

\* A step of another command takes nothing of this one's
LEMMA OthersTidy ==
    ASSUME NEW c \in Commands, NEW d \in Commands \ {c}, Domains, Tidy(c), Step(d)
    PROVE  Tidy(c)'
<1>1. /\ UNCHANGED <<scenario, moved>>
      /\ at'[c] = at[c] /\ my'[c] = my[c] /\ trees'[c] = trees[c]
  BY DEF Step, Local
<1>2. Private(c)' => Private(c)
  <2>1. Temp(c) \in Names
    BY DEF Temp, Names
  <2>2. entries'[Temp(c)] \in {entries[Temp(c)], Nothing, Tree(d), LockFile(d)}
    BY <2>1 DEF Step, TypeStep
  <2> QED
    BY <2>2 DEF Private, Temp, Tree, LockFile, Nothing
<1>3. Held(c)' => Held(c)
  <2>1. kind[c] \in Kinds => Lock(c) \in Names
    BY DEF Lock, Names
  <2>2. kind[c] \in Kinds =>
           entries'[Lock(c)] \in {entries[Lock(c)], Nothing, Tree(d), LockFile(d)}
    BY <2>1 DEF Step, TypeStep
  <2> QED
    BY <1>1, <2>2 DEF Held, Lock, kind, Tree, LockFile, Nothing
<1> QED
  BY <1>1, <1>2, <1>3 DEF Tidy, KeepsFields, KeepsLock, KeepsTree, Unbuilt, Astray, kind

\* Nor does anything that happens around them
LEMMA AroundTidy ==
    ASSUME NEW c \in Commands, Domains, Tidy(c), Around
    PROVE  Tidy(c)'
<1>1. UNCHANGED scenario /\ moved' \in {moved, TRUE}
  BY AroundSteps, AroundLeaves
<1>2. \/ trees'[c] = trees[c]
      \/ trees'[c] = [trees[c] EXCEPT !.stray = TRUE] /\ trees[c] # Nothing
  BY AroundSteps
<1>3. Private(c)' => Private(c)
  <2>1. Temp(c) \in Names
    BY DEF Temp, Names
  <2>2. entries'[Temp(c)] \in {entries[Temp(c)], Nothing, Foreign}
    BY <2>1, AroundLeaves
  <2> QED
    BY <2>2 DEF Private, Temp, Tree, Foreign, Nothing
<1>4. Held(c)' => Held(c)
  <2>1. kind[c] \in Kinds => Lock(c) \in Names
    BY DEF Lock, Names
  <2>2. kind[c] \in Kinds => entries'[Lock(c)] \in {entries[Lock(c)], Nothing, Foreign}
    BY <2>1, AroundLeaves
  <2> QED
    BY <1>1, <2>2 DEF Held, Lock, kind, LockFile, Foreign, Nothing
<1>5. kind[c] = "seal" /\ trees[c].stray => trees'[c].stray
  BY <1>2 DEF Tidy, KeepsFields
<1>6. kind' = kind /\ (Astray(c) => Astray(c)')
  <2>1. kind' = kind
    BY <1>1 DEF kind
  <2>2. ASSUME moved PROVE moved'
    BY <1>1, <2>2
  <2> QED
    BY <2>1, <2>2 DEF Astray
<1>7. DOMAIN my[c] = {"held", "tree", "lock", "committed", "failed"}
  BY DEF Tidy, KeepsFields, NoMemory
<1>8. CASE at'[c] = at[c] /\ my'[c] = my[c]
  <2>1. Unbuilt(c)' = Unbuilt(c)
    BY <1>6, <1>8 DEF Unbuilt
  <2>2. KeepsFields(c)'
    BY <1>2, <1>6, <1>8 DEF Tidy, KeepsFields
  <2>3. KeepsLock(c)'
    BY <1>4, <1>6, <1>8 DEF Tidy, KeepsLock
  <2>4. KeepsTree(c)'
    BY <1>3, <1>5, <1>6, <1>8, <2>1 DEF Tidy, KeepsTree
  <2> QED
    BY <2>2, <2>3, <2>4 DEF Tidy
<1>9. CASE \/ at[c] # "idle" /\ at'[c] = "killed" /\ my'[c] = my[c]
           \/ /\ at[c] \notin Ended \cup CleaningUp \cup {"idle", "reading"}
              /\ at'[c] = "cleanup"
              /\ my'[c] = [my[c] EXCEPT !.failed = "interrupt"]
           \/ /\ at[c] \in CleaningUp \cup {"published"}
              /\ at'[c] = "error"
              /\ my'[c] = [my[c] EXCEPT !.failed = "abandoned"]
  <2>1. /\ my'[c].lock = my[c].lock /\ my'[c].committed = my[c].committed
        /\ DOMAIN my'[c] = DOMAIN my[c]
    BY <1>7, <1>9
  <2>2. /\ at[c] # "idle"
        /\ \/ at'[c] = "killed" /\ my'[c].failed = my[c].failed
           \/ at'[c] = "cleanup" /\ my'[c].failed = "interrupt"
              /\ at[c] \notin Ended \cup CleaningUp
           \/ at'[c] = "error" /\ my'[c].failed = "abandoned"
    BY <1>7, <1>9 DEF CleaningUp
  <2>3. at'[c] = "error" \/ ~Unbuilt(c)' \/ kind[c] \in Suites
    BY <1>6, <2>2 DEF Unbuilt, Bare, Returned
  <2>4. KeepsFields(c)'
    BY <1>2, <1>6, <2>1, <2>2 DEF Tidy, KeepsFields, CleaningUp, Ended
  <2>5. KeepsLock(c)'
    BY <1>4, <1>6, <2>1, <2>2 DEF Tidy, KeepsLock, KeepsFields, Returned
  <2>6. KeepsTree(c)'
    <3>1. at'[c] \notin Starting \cup {"locked"}
      BY <2>2 DEF Starting
    <3>2. kind[c] \in Suites /\ at'[c] # "error" => (Unbuilt(c)' => Unbuilt(c))
      BY <1>6 DEF Unbuilt, Suites
    <3>3. my[c].failed \in {"tree", "abandoned"} =>
             my'[c].failed \in {"tree", "abandoned"}
      BY <2>2 DEF Tidy, KeepsFields
    <3> QED
      BY <1>3, <1>5, <1>6, <2>1, <2>2, <2>3, <3>1, <3>2, <3>3 DEF Tidy, KeepsTree
  <2> QED
    BY <2>4, <2>5, <2>6 DEF Tidy
<1> QED
  BY <1>8, <1>9, AroundLeaves

\* A step of any command, or around them
LEMMA TidySteps ==
    ASSUME Domains, \A c \in Commands : Tidy(c), [Next]_vars
    PROVE  \A c \in Commands : Tidy(c)'
<1> SUFFICES ASSUME NEW c \in Commands PROVE Tidy(c)'
  OBVIOUS
<1>1. CASE Around
  BY <1>1, AroundTidy
<1>2. ASSUME NEW d \in Commands, Command(d), d # c
      PROVE  Tidy(c)'
  BY <1>2, CommandSteps, OthersTidy
<1>3. CASE Command(c)
  BY <1>3, ObjectiveTidy, MeasureTidy, SealTidy, AuthorizeTidy, B1Tidy, PrepareTidy,
     ScoreTidy, GateTidy, FormalTidy, SuiteTidy, SessionTidy, CollectTidy DEF Command
<1>4. CASE Done \/ UNCHANGED vars
  BY <1>4 DEF Done, vars, dirVars, aroundVars, Tidy, KeepsFields, KeepsLock, KeepsTree,
              Unbuilt, Private, Held, Astray, Temp, Lock, kind
<1> QED
  BY <1>1, <1>2, <1>3, <1>4 DEF Next

\* Before anything has run
LEMMA InitTidy == Init => \A c \in Commands : Tidy(c)
<1> SUFFICES ASSUME Init, NEW c \in Commands PROVE Tidy(c)
  OBVIOUS
<1>1. at[c] = "idle" /\ my[c] = NoMemory /\ trees[c] = Nothing
  BY DEF Init, FilesInit
<1>2. ~Private(c) /\ ~Held(c)
  BY DEF Init, FilesInit, Private, Held, Temp, Lock, Tree, LockFile, Nothing
<1> QED
  BY <1>1, <1>2 DEF Tidy, KeepsFields, KeepsLock, KeepsTree, NoMemory, Returned

\* A command that has ended, with whatever result and whatever stopped it on the way
\* but a kill, leaves a lock of its own or a private tree for named reasons only: an
\* exception came between the making and the noting of just that, an interrupt cut its
\* clean-up short, the directory moved from under a command that goes by its path, or,
\* for a tree, it is B1's or someone has written into a staging directory: for any
\* number of commands of any kinds
THEOREM NothingLeftEver == Spec => []NothingLeft
<1> DEFINE AllTidy == \A c \in Commands : Tidy(c)
<1>1. Init => Domains /\ AllTidy
  BY InitDomains, InitTidy
<1>2. Domains /\ AllTidy /\ [Next]_vars => Domains' /\ AllTidy'
  BY StoreSteps, TidySteps
<1>3. AllTidy => NothingLeft
  <2> SUFFICES ASSUME NEW c \in Commands, Tidy(c), at[c] \in Returned, ~Astray(c)
               PROVE  /\ entries[Lock(c)] = LockFile(c) =>
                            my[c].failed \in {"lock", "abandoned"}
                      /\ entries[Temp(c)] = Tree(c) =>
                            \/ my[c].failed \in {"tree", "abandoned"}
                            \/ kind[c] = "b1"
                            \/ kind[c] = "seal" /\ trees[c].stray
    BY DEF NothingLeft, Returned, Astray
  <2>1. kind[c] \in Kinds
    BY DEF Tidy, KeepsFields, Returned
  <2> QED
    BY <2>1 DEF Tidy, KeepsLock, KeepsTree, Unbuilt, Held, Private
<1> QED
  BY <1>1, <1>2, <1>3, PTL DEF Spec

------------------------------------------------------------------------------
(* What a command says when it ends                                        *)

\* Before the rename
Rising(c) ==
    at[c] \notin Ended \cup {"published", "assured", "unlocking", "cleanup", "discard",
                             "closing"}

\* Why evidence may be there although the command reports an error
Excused(c) ==
    \/ my[c].failed = "interrupt" /\ kind[c] # "objective"
    \/ my[c].failed = "abandoned"
    \/ moved /\ kind[c] \in ByPath
    \/ kind[c] = "seal" /\ trees[c].stray

\* Evidence that is there came from the rename, and what the memory of the command
\* knows of it decides how it ends
Accounts(c) ==
    /\ at[c] # "idle" => kind[c] \in Kinds
    /\ at[c] = "committed" => kind[c] \in Askers /\ my[c].committed
    /\ kind[c] \in Askers /\ at[c] \in {"published", "assured", "unlocking"} =>
          my[c].committed
    /\ kind[c] \in Kinds \ Suites /\ Published(c) =>
          /\ ~Rising(c)
          /\ kind[c] = "objective" => my[c].committed
          /\ at[c] = "error" => Excused(c)
          /\ at[c] \in {"cleanup", "discard", "closing"} =>
                \/ Excused(c)
                \/ kind[c] \in ByPath /\ my[c].failed = "no"
                \/ kind[c] \in Askers /\ my[c].committed

\* From the rename to the command's last look the name is its own, or was taken over;
\* after that it is its own
Lasts(c) ==
    kind[c] \in LooksAgain =>
        /\ at[c] = "published" => entries[Out(c)] \in {Tree(c), Foreign}
        /\ at[c] \in {"assured", "unlocking", "ok"} => Published(c)
        /\ at[c] \in {"cleanup", "discard"} => my[c].failed # "no"
        /\ at[c] = "closing" /\ my[c].failed = "no" => Published(c)

\* From its rename on, until a failure, it relies on the name
Relies(c) ==
    \/ at[c] \in {"published", "assured", "unlocking", "ok"}
    \/ at[c] = "closing" /\ my[c].failed = "no"

Honest(c) == Accounts(c) /\ Lasts(c)

\* A command looks for its evidence under a name to which no other has since renamed
OneLooks ==
    \A c, d \in Commands :
        /\ c # d /\ kind[c] = kind[d] /\ kind[c] \in LooksAgain
        /\ at[c] = "published"
        => at[d] # "published"

\* What a step does to the name: it gives it while it is free, and takes it from
\* itself, or, as the sealing does by name, before it has looked
OutStep(c) ==
    kind[c] \in LooksAgain =>
        /\ \/ entries'[Out(c)] = entries[Out(c)]
           \/ entries[Out(c)] \in {Nothing, Tree(c)}
           \/ at[c] = "published"
        /\ at'[c] = "published" => entries[Out(c)] = Nothing

HonestStep(c) == Honest(c)' /\ OutStep(c)

\* A step of AcquireObjective
LEMMA ObjectiveHonest ==
    ASSUME NEW c \in Commands, Domains, KeepsFields(c), Honest(c), AcquireObjective(c)
    PROVE  HonestStep(c)
<1> USE DEF Domains, Names, Kinds, RolesOf, Requires, Raises, Goes, Holds, Bind, Unbind, At,
            kind, Exists, Published, Out, Lock, Temp, Tree, LockFile, dirVars, Nothing, Foreign,
            Happens, Suites, aroundVars, KeepsFields, NoMemory, Askers, HonestStep, Honest,
            Accounts, Lasts, OutStep, Rising, Excused, ByPath, LooksAgain, Ended,
            Objective, Fails
<1>1. CASE ReadInputs(c)
  BY <1>1 DEF ReadInputs
<1>2. CASE CheckOutput(c)
  BY <1>2 DEF CheckOutput
<1>3. CASE TakeLock(c)
  BY <1>3 DEF TakeLock, CreatesLock, Unnoted
<1>4. CASE CopyInputs(c)
  BY <1>4 DEF CopyInputs, Unnoted
<1>5. CASE RunProbe(c)
  BY <1>5 DEF RunProbe
<1>6. CASE ReadRun(c)
  BY <1>6 DEF ReadRun
<1>7. CASE WriteManifest(c)
  BY <1>7 DEF WriteManifest
<1>8. CASE CheckFiles(c)
  BY <1>8 DEF CheckFiles
<1>9. CASE CaptureTree(c)
  BY <1>9 DEF CaptureTree
<1>10. CASE FreezeTree(c)
  BY <1>10 DEF FreezeTree
<1>11. CASE Publish(c)
  BY <1>11 DEF Publish, Renames, RenameNoReplace, RefusesToReplace
<1>12. CASE VerifyPublished(c)
  BY <1>12 DEF VerifyPublished
<1>13. CASE CheckLock(c)
  BY <1>13 DEF CheckLock
<1>14. CASE Unlock(c)
  BY <1>14 DEF Unlock
<1>15. CASE CleanLock(c)
  BY <1>15 DEF CleanLock
<1>16. CASE Discard(c)
  BY <1>16 DEF Discard, Discardable
<1>17. CASE Report(c)
  BY <1>17 DEF Report, EndsWell
<1> HIDE DEF HonestStep, Honest, KeepsFields, Domains
<1> QED
  BY <1>1, <1>2, <1>3, <1>4, <1>5, <1>6, <1>7, <1>8,
         <1>9, <1>10, <1>11, <1>12, <1>13, <1>14, <1>15, <1>16, <1>17 DEF AcquireObjective

\* A step of AcquireMeasurement
LEMMA MeasureHonest ==
    ASSUME NEW c \in Commands, Domains, KeepsFields(c), Honest(c), AcquireMeasurement(c)
    PROVE  HonestStep(c)
<1> USE DEF Domains, Names, Kinds, RolesOf, Requires, Raises, Goes, Holds, Bind, Unbind, At,
            kind, Exists, Published, Out, Lock, Temp, Tree, LockFile, dirVars, Nothing, Foreign,
            Happens, Suites, aroundVars, KeepsFields, NoMemory, Askers, HonestStep, Honest,
            Accounts, Lasts, OutStep, Rising, Excused, ByPath, LooksAgain, Ended,
            Measure, Aborts
<1>1. CASE CheckPolicy(c)
  BY <1>1 DEF CheckPolicy
<1>2. CASE SnapshotRuntime(c)
  BY <1>2 DEF SnapshotRuntime, Makes, Unnoted
<1>3. CASE Probe(c)
  BY <1>3 DEF Probe
<1>4. CASE ReadProbe(c)
  BY <1>4 DEF ReadProbe
<1>5. CASE WriteMeasurement(c)
  BY <1>5 DEF WriteMeasurement
<1>6. CASE LockOutput(c)
  BY <1>6 DEF LockOutput, CreatesLock, Unnoted
<1>7. CASE CheckAgain(c)
  BY <1>7 DEF CheckAgain
<1>8. CASE PublishMeasurement(c)
  BY <1>8 DEF PublishMeasurement, Renames, RenameNoReplace, RefusesToReplace
<1>9. CASE SyncMeasurement(c)
  BY <1>9 DEF SyncMeasurement
<1>10. CASE UnlinkLock(c)
  BY <1>10 DEF UnlinkLock, UnlinkByName
<1>11. CASE RemoveTemporary(c)
  BY <1>11 DEF RemoveTemporary, RemoveByName, EndsByName
<1>12. CASE OverwriteRaw(c)
  BY <1>12 DEF OverwriteRaw
<1> QED
  BY <1>1, <1>2, <1>3, <1>4, <1>5,
         <1>6, <1>7, <1>8, <1>9, <1>10, <1>11, <1>12 DEF AcquireMeasurement

\* A step of SealCorpus
LEMMA SealHonest ==
    ASSUME NEW c \in Commands, Domains, KeepsFields(c), Honest(c), SealCorpus(c)
    PROVE  HonestStep(c)
<1> USE DEF Domains, Names, Kinds, RolesOf, Requires, Raises, Goes, Holds, Bind, Unbind, At,
            kind, Exists, Published, Out, Lock, Temp, Tree, LockFile, dirVars, Nothing, Foreign,
            Happens, Suites, aroundVars, KeepsFields, NoMemory, Askers, HonestStep, Honest,
            Accounts, Lasts, OutStep, Rising, Excused, ByPath, LooksAgain, Ended,
            Seals, RemoveGeneration
<1>1. CASE PrepareSnapshot(c)
  BY <1>1 DEF PrepareSnapshot
<1>2. CASE MakeStaging(c)
  BY <1>2 DEF MakeStaging, Makes, Unnoted
<1>3. CASE WriteStaging(c)
  BY <1>3 DEF WriteStaging
<1>4. CASE PublishGeneration(c)
  BY <1>4 DEF PublishGeneration, Renames, RenameNoReplace, RefusesToReplace
<1>5. CASE VerifyGeneration(c)
  BY <1>5 DEF VerifyGeneration
<1>6. CASE RemoveStaging(c)
  BY <1>6 DEF RemoveStaging
<1> QED
  BY <1>1, <1>2, <1>3, <1>4, <1>5, <1>6 DEF SealCorpus

\* A step of Prepare
LEMMA PrepareHonest ==
    ASSUME NEW c \in Commands, Domains, KeepsFields(c), Honest(c), Prepare(c)
    PROVE  HonestStep(c)
<1> USE DEF Domains, Names, Kinds, RolesOf, Requires, Raises, Goes, Holds, Bind, Unbind, At,
            kind, Exists, Published, Out, Lock, Temp, Tree, LockFile, dirVars, Nothing, Foreign,
            Happens, Suites, aroundVars, KeepsFields, NoMemory, Askers, HonestStep, Honest,
            Accounts, Lasts, OutStep, Rising, Excused, ByPath, LooksAgain, Ended,
            Prepares, GivesUp
<1>1. CASE BuildPacket(c)
  BY <1>1 DEF BuildPacket
<1>2. CASE WritePacket(c)
  BY <1>2 DEF WritePacket, Makes, Unnoted
<1>3. CASE LockPacket(c)
  BY <1>3 DEF LockPacket, CreatesLock, Unnoted
<1>4. CASE CheckPacket(c)
  BY <1>4 DEF CheckPacket
<1>5. CASE RenamePacket(c)
  BY <1>5 DEF RenamePacket
<1>6. CASE SyncPacket(c)
  BY <1>6 DEF SyncPacket
<1>7. CASE UnlockPacket(c)
  BY <1>7 DEF UnlockPacket, UnlinkByName
<1>8. CASE RemovePacket(c)
  BY <1>8 DEF RemovePacket, RemoveByName, EndsByName
<1> QED
  BY <1>1, <1>2, <1>3, <1>4, <1>5, <1>6, <1>7, <1>8 DEF Prepare

\* A step of ScoreReview
LEMMA ScoreHonest ==
    ASSUME NEW c \in Commands, Domains, KeepsFields(c), Honest(c), ScoreReview(c)
    PROVE  HonestStep(c)
<1> USE DEF Domains, Names, Kinds, RolesOf, Requires, Raises, Goes, Holds, Bind, Unbind, At,
            kind, Exists, Published, Out, Lock, Temp, Tree, LockFile, dirVars, Nothing, Foreign,
            Happens, Suites, aroundVars, KeepsFields, NoMemory, Askers, HonestStep, Honest,
            Accounts, Lasts, OutStep, Rising, Excused, ByPath, LooksAgain, Ended,
            Scores, GivesUp
<1>1. CASE ReadPacket(c)
  BY <1>1 DEF ReadPacket
<1>2. CASE WriteReport(c)
  BY <1>2 DEF WriteReport, Makes, Unnoted
<1>3. CASE LinkReport(c)
  BY <1>3 DEF LinkReport
<1>4. CASE SyncReport(c)
  BY <1>4 DEF SyncReport
<1>5. CASE UnlinkTemporary(c)
  BY <1>5 DEF UnlinkTemporary
<1> QED
  BY <1>1, <1>2, <1>3, <1>4, <1>5 DEF ScoreReview

\* A step of EvaluateB0
LEMMA GateHonest ==
    ASSUME NEW c \in Commands, Domains, KeepsFields(c), Honest(c), EvaluateB0(c)
    PROVE  HonestStep(c)
<1> USE DEF Domains, Names, Kinds, RolesOf, Requires, Raises, Goes, Holds, Bind, Unbind, At,
            kind, Exists, Published, Out, Lock, Temp, Tree, LockFile, dirVars, Nothing, Foreign,
            Happens, Suites, aroundVars, KeepsFields, NoMemory, Askers, HonestStep, Honest,
            Accounts, Lasts, OutStep, Rising, Excused, ByPath, LooksAgain, Ended,
            Evaluates
<1>1. CASE ReadContract(c)
  BY <1>1 DEF ReadContract
<1>2. CASE ReadMeasured(c)
  <2>1. /\ UNCHANGED <<dirVars, moved, scenario>>
        /\ at[c] = "ruled" /\ kind[c] = "gate"
        /\ Goes(c, "measured") \/ Goes(c, "error")
        /\ UNCHANGED my \/ \E held : Holds(c, held)
    <3> HIDE DEF HonestStep, Honest, Published, Holds, Goes
    <3> QED
      BY <1>2 DEF ReadMeasured
  <2> QED
    BY <2>1
<1>3. CASE CheckAcquisition(c)
  <2>1. /\ UNCHANGED <<dirVars, my, moved, scenario>>
        /\ at[c] = "measured" /\ kind[c] = "gate"
        /\ Goes(c, "reading") \/ Goes(c, "error")
    <3> HIDE DEF HonestStep, Honest, Published, Goes
    <3> QED
      BY <1>3 DEF CheckAcquisition
  <2> QED
    BY <2>1
<1>4. CASE WriteVerdict(c)
  BY <1>4 DEF WriteVerdict, Makes, Unnoted
<1>5. CASE ReplaceVerdict(c)
  BY <1>5 DEF ReplaceVerdict
<1>6. CASE ExitWithVerdict(c)
  BY <1>6 DEF ExitWithVerdict
<1>7. CASE UnlinkVerdict(c)
  BY <1>7 DEF UnlinkVerdict
<1> QED
  BY <1>1, <1>2, <1>3, <1>4, <1>5, <1>6, <1>7 DEF EvaluateB0

\* A step of EvaluateFormal
LEMMA FormalHonest ==
    ASSUME NEW c \in Commands, Domains, KeepsFields(c), Honest(c), EvaluateFormal(c)
    PROVE  HonestStep(c)
BY DEF Domains, Names, Kinds, RolesOf, Requires, Raises, Goes, Holds, Bind, Unbind, At,
            kind, Exists, Published, Out, Lock, Temp, Tree, LockFile, dirVars, Nothing, Foreign,
            Happens, Suites, aroundVars, KeepsFields, NoMemory, Askers, HonestStep, Honest,
            Accounts, Lasts, OutStep, Rising, Excused, ByPath, LooksAgain, Ended, EvaluateFormal

\* A step of Authorize
LEMMA AuthorizeHonest ==
    ASSUME NEW c \in Commands, Domains, KeepsFields(c), Honest(c), Authorize(c)
    PROVE  HonestStep(c)
<1> USE DEF Domains, Names, Kinds, RolesOf, Requires, Raises, Goes, Holds, Bind, Unbind, At,
            kind, Exists, Published, Out, Lock, Temp, Tree, LockFile, dirVars, Nothing, Foreign,
            Happens, Suites, aroundVars, KeepsFields, NoMemory, Askers, HonestStep, Honest,
            Accounts, Lasts, OutStep, Rising, Excused, ByPath, LooksAgain, Ended,
            Authorizes
<1>1. CASE ReadRule(c)
  BY <1>1 DEF ReadRule
<1>2. CASE DecideB1(c)
  BY <1>2 DEF DecideB1
<1>3. CASE WriteDocument(c)
  BY <1>3 DEF WriteDocument, Makes, Unnoted
<1>4. CASE PublishDocument(c)
  BY <1>4 DEF PublishDocument, Renames, RenameNoReplace, RefusesToReplace
<1>5. CASE ReadBack(c)
  BY <1>5 DEF ReadBack
<1>6. CASE RollBack(c)
  BY <1>6 DEF RollBack
<1> QED
  BY <1>1, <1>2, <1>3, <1>4, <1>5, <1>6 DEF Authorize

\* A step of ContinueB1
LEMMA B1Honest ==
    ASSUME NEW c \in Commands, Domains, KeepsFields(c), Honest(c), ContinueB1(c)
    PROVE  HonestStep(c)
<1> USE DEF Domains, Names, Kinds, RolesOf, Requires, Raises, Goes, Holds, Bind, Unbind, At,
            kind, Exists, Published, Out, Lock, Temp, Tree, LockFile, dirVars, Nothing, Foreign,
            Happens, Suites, aroundVars, KeepsFields, NoMemory, Askers, HonestStep, Honest,
            Accounts, Lasts, OutStep, Rising, Excused, ByPath, LooksAgain, Ended,
            Continues, RefuseToStart
<1>1. CASE ReadGate(c)
  BY <1>1 DEF ReadGate
<1>2. CASE ReadAuthorization(c)
  BY <1>2 DEF ReadAuthorization
<1>3. CASE CapturePrior(c)
  BY <1>3 DEF CapturePrior
<1>4. CASE BuildTree(c)
  BY <1>4 DEF BuildTree
<1>5. CASE ProbeB1(c)
  <2>1. /\ UNCHANGED <<entries, moved, scenario>>
        /\ at[c] = "probe" /\ kind[c] = "b1"
        /\ \/ Goes(c, "exited") /\ UNCHANGED my
           \/ Raises(c, "cleanup")
    <3> HIDE DEF HonestStep, Honest, Raises, Goes
    <3> QED
      BY <1>5 DEF ProbeB1
  <2> QED
    BY <2>1
<1>6. CASE ReportB1(c)
  BY <1>6 DEF ReportB1
<1>7. CASE ReAuthenticate(c)
  BY <1>7 DEF ReAuthenticate
<1>8. CASE FreezeB1(c)
  BY <1>8 DEF FreezeB1
<1>9. CASE AtBoundary(c)
  BY <1>9 DEF AtBoundary
<1>10. CASE PublishB1(c)
  BY <1>10 DEF PublishB1, Renames, RenameNoReplace, RefusesToReplace
<1>11. CASE AssureB1(c)
  BY <1>11 DEF AssureB1
<1>12. CASE RetainB1(c)
  BY <1>12 DEF RetainB1
<1> QED
  BY <1>1, <1>2, <1>3, <1>4, <1>5, <1>6,
         <1>7, <1>8, <1>9, <1>10, <1>11, <1>12 DEF ContinueB1

\* A step of RunSuite
LEMMA SuiteHonest ==
    ASSUME NEW c \in Commands, Domains, KeepsFields(c), Honest(c), RunSuite(c)
    PROVE  HonestStep(c)
<1> USE DEF Domains, Names, Kinds, RolesOf, Requires, Raises, Goes, Holds, Bind, Unbind, At,
            kind, Exists, Published, Out, Lock, Temp, Tree, LockFile, dirVars, Nothing, Foreign,
            Happens, Suites, aroundVars, KeepsFields, NoMemory, Askers, HonestStep, Honest,
            Accounts, Lasts, OutStep, Rising, Excused, ByPath, LooksAgain, Ended,
            InSuite, Suites
<1>1. CASE StartSuite(c)
  <2>1. /\ \/ entries' = entries /\ UNCHANGED my
           \/ /\ entries' = [entries EXCEPT ![Out(c)] = Tree(c)]
              /\ \E held : Holds(c, held)
        /\ kind[c] \in Suites /\ UNCHANGED <<scenario, moved>>
        /\ Goes(c, "running") \/ Goes(c, "error")
    <3> HIDE DEF HonestStep, Honest, Exists, Out, Tree, Holds, Goes, Kinds, RolesOf
    <3> QED
      BY <1>1 DEF StartSuite
  <2> QED
    BY <2>1
<1>2. CASE Communicate(c)
  BY <1>2 DEF Communicate
<1>3. CASE TimeOut(c)
  BY <1>3 DEF TimeOut
<1>4. CASE StopGroup(c)
  BY <1>4 DEF StopGroup
<1>5. CASE StopSession(c)
  BY <1>5 DEF StopSession
<1>6. CASE Unwind(c)
  BY <1>6 DEF Unwind
<1>7. CASE NextRound(c)
  BY <1>7 DEF NextRound
<1>8. CASE WriteNative(c)
  BY <1>8 DEF WriteNative
<1>9. CASE JudgeNative(c)
  BY <1>9 DEF JudgeNative
<1> QED
  BY <1>1, <1>2, <1>3, <1>4, <1>5, <1>6, <1>7, <1>8, <1>9 DEF RunSuite

\* A step of InSessionOf
LEMMA SessionHonest ==
    ASSUME NEW c \in Commands, Domains, KeepsFields(c), Honest(c), InSessionOf(c)
    PROVE  HonestStep(c)
<1> USE DEF Domains, Names, Kinds, RolesOf, Requires, Raises, Goes, Holds, Bind, Unbind, At,
            kind, Exists, Published, Out, Lock, Temp, Tree, LockFile, dirVars, Nothing, Foreign,
            Happens, Suites, aroundVars, KeepsFields, NoMemory, Askers, HonestStep, Honest,
            Accounts, Lasts, OutStep, Rising, Excused, ByPath, LooksAgain, Ended,
            InSession, Suites, Launched
<1>1. PICK p : Fork(c, p) \/ Leave(c, p) \/ Exit(c, p) \/ Observe(c, p)
  BY DEF InSessionOf
<1>2. CASE Fork(c, p)
  BY <1>2 DEF Fork
<1>3. CASE Leave(c, p)
  BY <1>3 DEF Leave
<1>4. CASE Exit(c, p)
  BY <1>4 DEF Exit
<1>5. CASE Observe(c, p)
  BY <1>5 DEF Observe
<1> QED
  BY <1>1, <1>2, <1>3, <1>4, <1>5

\* A step of CollectRecord
LEMMA CollectHonest ==
    ASSUME NEW c \in Commands, Domains, KeepsFields(c), Honest(c), CollectRecord(c)
    PROVE  HonestStep(c)
<1> USE DEF Domains, Names, Kinds, RolesOf, Requires, Raises, Goes, Holds, Bind, Unbind, At,
            kind, Exists, Published, Out, Lock, Temp, Tree, LockFile, dirVars, Nothing, Foreign,
            Happens, Suites, aroundVars, KeepsFields, NoMemory, Askers, HonestStep, Honest,
            Accounts, Lasts, OutStep, Rising, Excused, ByPath, LooksAgain, Ended,
            Collects
<1>1. CASE ReadNative(c)
  BY <1>1 DEF ReadNative
<1>2. CASE ValidateSnapshot(c)
  BY <1>2 DEF ValidateSnapshot
<1>3. CASE ValidateNative(c)
  BY <1>3 DEF ValidateNative
<1>4. CASE ReadNativeAgain(c)
  BY <1>4 DEF ReadNativeAgain
<1>5. CASE WriteRecord(c)
  BY <1>5 DEF WriteRecord
<1>6. CASE LinkRecord(c)
  BY <1>6 DEF LinkRecord
<1>7. CASE UnlinkRecord(c)
  BY <1>7 DEF UnlinkRecord
<1> QED
  BY <1>1, <1>2, <1>3, <1>4, <1>5, <1>6, <1>7 DEF CollectRecord

\* A step of a command is honest, whatever its kind
LEMMA CommandHonest ==
    ASSUME NEW c \in Commands, Domains, KeepsFields(c), Honest(c), Command(c)
    PROVE  HonestStep(c)
BY ObjectiveHonest, MeasureHonest, SealHonest, AuthorizeHonest, B1Honest, PrepareHonest,
   ScoreHonest, GateHonest, FormalHonest, SuiteHonest, SessionHonest, CollectHonest DEF Command

\* Another command cannot take the name once this one has looked
LEMMA OthersHonest ==
    ASSUME NEW c \in Commands, NEW d \in Commands \ {c}, Domains, OneLooks,
           KeepsFields(d), Honest(c), Honest(d), Command(d)
    PROVE  Honest(c)'
<1>1. /\ UNCHANGED <<scenario, moved>>
      /\ at'[c] = at[c] /\ my'[c] = my[c] /\ trees'[c] = trees[c]
  BY CommandSteps DEF Step, Local
<1>2. kind' = kind /\ Out(c)' = Out(c)
  BY <1>1 DEF kind, Out
<1>3. kind[c] \in Kinds => (Published(c)' => Published(c))
  <2>1. kind[c] \in Kinds => Out(c) \in Names
    BY DEF Out, Names
  <2>2. kind[c] \in Kinds =>
           entries'[Out(c)] \in {entries[Out(c)], Nothing, Tree(d), LockFile(d)}
    BY <2>1, CommandSteps DEF Step, TypeStep
  <2> QED
    BY <1>2, <2>2 DEF Published, Tree, LockFile, Nothing
<1>4. Accounts(c)'
  BY <1>1, <1>2, <1>3 DEF Honest, Accounts, Rising, Excused
<1>5. Lasts(c)'
  <2> SUFFICES ASSUME kind[c] \in LooksAgain,
                      Relies(c)
               PROVE  entries'[Out(c)] = entries[Out(c)]
    BY <1>1, <1>2 DEF Honest, Lasts, Published, Relies
  <2>1. entries[Out(c)] \in {Tree(c), Foreign} /\ Out(c) \in Names
    BY DEF Relies, Honest, Lasts, Published, LooksAgain, Kinds, RolesOf, Out, Names
  <2>2. CASE kind[d] = kind[c]
    <3>1. Out(d) = Out(c) /\ kind[d] \in LooksAgain
      BY <2>2 DEF Out
    <3>2. \/ entries'[Out(d)] = entries[Out(d)]
          \/ entries[Out(d)] \in {Nothing, Tree(d)}
          \/ at[d] = "published"
      BY <3>1, CommandHonest DEF HonestStep, OutStep
    <3>3. entries[Out(d)] \notin {Nothing, Tree(d)}
      <4>1. entries[Out(d)] \in {Tree(c), Foreign}
        BY <2>1, <3>1
      <4>2. Tree(c) \notin {Nothing, Tree(d)} /\ Foreign \notin {Nothing, Tree(d)}
        BY DEF Tree, Foreign, Nothing
      <4> QED
        BY <4>1, <4>2
    <3>4. at[d] # "published"
      <4>1. CASE at[c] = "published"
        BY <2>2, <4>1 DEF OneLooks
      <4>2. CASE at[c] # "published"
        <5>1. entries[Out(c)] = Tree(c)
          BY <4>2 DEF Relies, Honest, Lasts, Published
        <5>2. at[d] = "published" => entries[Out(d)] \in {Tree(d), Foreign}
          BY <3>1 DEF Honest, Lasts
        <5> QED
          BY <3>1, <5>1, <5>2 DEF Tree, Foreign
      <4> QED
        BY <4>1, <4>2
    <3> QED
      BY <3>1, <3>2, <3>3, <3>4
  <2>3. CASE kind[d] # kind[c]
    <3>1. Out(c) \notin {Temp(d), Out(d), Lock(d)}
      BY <2>3 DEF Out, Temp, Lock
    <3> QED
      BY <2>1, <3>1, CommandSteps DEF Step, TypeStep
  <2> QED
    BY <2>2, <2>3
<1> QED
  BY <1>4, <1>5 DEF Honest

\* An outsider takes a name before the rename, or before the publisher looks
LEMMA AroundHonest ==
    ASSUME NEW c \in Commands, Domains, KeepsFields(c), \A d \in Commands : Honest(d), Around
    PROVE  Honest(c)'
<1>1. UNCHANGED scenario /\ moved' \in {moved, TRUE}
  BY AroundSteps, AroundLeaves
<1>2. kind' = kind /\ Out(c)' = Out(c)
  BY <1>1 DEF kind, Out
<1>3. \/ trees'[c] = trees[c]
      \/ trees'[c] = [trees[c] EXCEPT !.stray = TRUE] /\ trees[c] # Nothing
  BY AroundSteps
<1>4. kind[c] = "seal" /\ trees[c].stray => trees'[c].stray
  BY <1>3 DEF KeepsFields
<1>5. kind[c] \in Kinds => (Published(c)' => Published(c))
  <2>1. kind[c] \in Kinds => Out(c) \in Names
    BY DEF Out, Names
  <2>2. kind[c] \in Kinds => entries'[Out(c)] \in {entries[Out(c)], Nothing, Foreign}
    BY <2>1, AroundLeaves
  <2> QED
    BY <1>2, <2>2 DEF Published, Tree, Foreign, Nothing
<1>6. DOMAIN my[c] = {"held", "tree", "lock", "committed", "failed"}
  BY DEF KeepsFields, NoMemory
<1>7. \/ at'[c] = at[c] /\ my'[c] = my[c]
      \/ at'[c] = "killed" /\ my'[c] = my[c] /\ at[c] # "idle"
      \/ /\ at[c] \notin Ended \cup CleaningUp \cup {"idle", "reading"}
         /\ at'[c] = "cleanup"
         /\ my'[c].failed = "interrupt" /\ my'[c].committed = my[c].committed
      \/ /\ at[c] \in CleaningUp \cup {"published"}
         /\ at'[c] = "error"
         /\ my'[c].failed = "abandoned" /\ my'[c].committed = my[c].committed
  <2>1. \A v : /\ [my[c] EXCEPT !.failed = v].failed = v
               /\ [my[c] EXCEPT !.failed = v].committed = my[c].committed
    BY <1>6
  <2>2. \/ at'[c] = at[c] /\ my'[c] = my[c]
        \/ at[c] # "idle" /\ at'[c] = "killed" /\ my'[c] = my[c]
        \/ /\ at[c] \notin Ended \cup CleaningUp \cup {"idle", "reading"}
           /\ at'[c] = "cleanup"
           /\ my'[c] = [my[c] EXCEPT !.failed = "interrupt"]
        \/ /\ at[c] \in CleaningUp \cup {"published"}
           /\ at'[c] = "error"
           /\ my'[c] = [my[c] EXCEPT !.failed = "abandoned"]
    BY AroundLeaves
  <2> QED
    BY <2>1, <2>2
<1>8. Accounts(c)'
  <2>1. CASE at'[c] = at[c] /\ my'[c] = my[c]
    <3>1. Excused(c) => Excused(c)'
      <4>1. moved => moved'
        BY <1>1
      <4> QED
        BY <1>2, <1>4, <2>1, <4>1 DEF Excused
    <3> QED
      BY <1>2, <1>5, <2>1, <3>1 DEF Honest, Accounts, Rising
  <2>2. CASE at'[c] = "killed" /\ my'[c] = my[c] /\ at[c] # "idle"
    BY <1>2, <1>5, <2>2 DEF Honest, Accounts, Rising, Ended
  <2>3. CASE /\ at[c] \notin Ended \cup CleaningUp \cup {"idle", "reading"}
             /\ at'[c] = "cleanup"
             /\ my'[c].failed = "interrupt" /\ my'[c].committed = my[c].committed
    BY <1>2, <1>5, <2>3 DEF Honest, Accounts, Rising, Excused, Askers, CleaningUp
  <2>4. CASE /\ at[c] \in CleaningUp \cup {"published"}
             /\ at'[c] = "error"
             /\ my'[c].failed = "abandoned" /\ my'[c].committed = my[c].committed
    BY <1>2, <1>5, <2>4 DEF Honest, Accounts, Rising, Excused, CleaningUp, Ended
  <2> QED
    BY <1>7, <2>1, <2>2, <2>3, <2>4
<1>9. Lasts(c)'
  <2> SUFFICES ASSUME kind[c] \in LooksAgain, Relies(c), at'[c] = at[c]
               PROVE  \/ entries'[Out(c)] = entries[Out(c)]
                      \/ at[c] = "published" /\ entries'[Out(c)] = Foreign
    BY <1>2, <1>7 DEF Honest, Lasts, Published, Relies
  <2>1. at[c] # "published" => entries[Out(c)] = Tree(c)
    BY DEF Honest, Lasts, Published, Relies
  <2>2. Out(c) \in Names /\ entries[Out(c)] \in {Tree(c), Foreign}
    BY <2>1 DEF Honest, Relies, Lasts, Published, LooksAgain, Kinds, RolesOf, Out, Names
  <2>3. CASE UNCHANGED entries
    BY <2>3
  <2>4. CASE \E k \in Kinds : RemoveLock(k)
    BY <2>2, <2>4 DEF RemoveLock, Unbind, Out, Domains
  <2>5. ASSUME NEW d \in Commands, ForeignOutput(d)
        PROVE  \/ entries'[Out(c)] = entries[Out(c)]
               \/ at[c] = "published" /\ entries'[Out(c)] = Foreign
    <3>1. entries' = [entries EXCEPT ![Out(d)] = Foreign]
      BY <2>5 DEF ForeignOutput, Bind
    <3>2. entries[Out(d)] = Nothing \/ at[d] = "published"
      BY <2>5 DEF ForeignOutput, Exists
    <3>3. CASE Out(d) # Out(c)
      BY <2>2, <3>1, <3>3
    <3>4. CASE Out(d) = Out(c)
      <4>1. kind[d] \in LooksAgain /\ at[d] = "published"
        BY <2>2, <3>2, <3>4 DEF Out, Tree, Foreign, Nothing
      <4>2. entries[Out(c)] \in {Tree(d), Foreign}
        BY <3>4, <4>1 DEF Honest, Lasts
      <4>3. at[c] = "published" \/ entries[Out(c)] = Foreign
        BY <2>1, <4>1, <4>2 DEF Tree, Foreign
      <4> QED
        BY <2>2, <3>1, <3>4, <4>3 DEF Domains
    <3> QED
      BY <3>3, <3>4
  <2> QED
    BY <2>3, <2>4, <2>5 DEF Around, EditInput, WriteTree, Kill, Interrupt, Abandon, dirVars,
                            MoveDirectory
<1> QED
  BY <1>8, <1>9 DEF Honest

AllHonest == OneLooks /\ \A c \in Commands : KeepsFields(c) /\ Honest(c)

\* A step of any command, or around them
LEMMA HonestSteps ==
    ASSUME Domains, AllHonest, \A c \in Commands : Tidy(c), [Next]_vars
    PROVE  AllHonest'
<1>1. \A c \in Commands : KeepsFields(c)'
  BY TidySteps DEF Tidy
<1>2. ASSUME NEW c \in Commands
      PROVE  Honest(c)'
  <2>1. CASE Around
    BY <2>1, AroundHonest DEF AllHonest
  <2>2. ASSUME NEW d \in Commands, Command(d), d # c
        PROVE  Honest(c)'
    BY <2>2, OthersHonest DEF AllHonest
  <2>3. CASE Command(c)
    BY <2>3, CommandHonest DEF AllHonest, HonestStep
  <2>4. CASE Done \/ UNCHANGED vars
    BY <2>4 DEF Done, vars, dirVars, aroundVars, AllHonest, Honest, Accounts, Lasts,
                Rising, Excused, Published, Out, kind
  <2> QED
    BY <2>1, <2>2, <2>3, <2>4 DEF Next
<1>3. OneLooks'
  <2> SUFFICES ASSUME NEW c \in Commands, NEW d \in Commands, c # d,
                      (kind[c] = kind[d])', (kind[c] \in LooksAgain)',
                      at'[c] = "published", at'[d] = "published"
               PROVE  FALSE
    BY DEF OneLooks
  <2>1. kind' = kind
    BY AroundSteps, CommandSteps DEF Next, Done, vars, Step, Local, kind
  <2>2. ~(at[c] = "published" /\ at[d] = "published")
    BY <2>1 DEF AllHonest, OneLooks, LooksAgain
  <2>3. \A e \in Commands : Around /\ at'[e] = "published" => at[e] = "published"
    BY AroundSteps
  <2>4. ASSUME NEW e \in Commands, NEW f \in Commands, e # f, kind[e] = kind[f],
               kind[e] \in LooksAgain, Command(e), at[f] = "published"
        PROVE  at'[e] # "published"
    <3>1. entries[Out(f)] \in {Tree(f), Foreign}
      BY <2>4 DEF AllHonest, Honest, Lasts
    <3>2. at'[e] = "published" => entries[Out(e)] = Nothing
      BY <2>4, CommandHonest DEF AllHonest, HonestStep, OutStep
    <3> QED
      BY <2>4, <3>1, <3>2 DEF Out, Tree, Foreign, Nothing
  <2>5. ASSUME NEW e \in Commands, Command(e)
        PROVE  FALSE
    <3>1. \A f \in Commands \ {e} : at'[f] = at[f]
      BY <2>5, CommandSteps DEF Step, Local
    <3> QED
      BY <2>1, <2>2, <2>4, <2>5, <3>1 DEF LooksAgain
  <2>6. CASE Done \/ UNCHANGED vars
    BY <2>2, <2>6 DEF Done, vars
  <2> QED
    BY <2>2, <2>3, <2>5, <2>6 DEF Next
<1> QED
  BY <1>1, <1>2, <1>3 DEF AllHonest

\* Before anything has run there is nothing to account for
LEMMA InitHonest == Init => AllHonest
<1> SUFFICES ASSUME Init PROVE AllHonest
  OBVIOUS
<1>1. \A c \in Commands : at[c] = "idle" /\ KeepsFields(c)
  BY InitTidy DEF Init, FilesInit, Tidy
<1>2. ASSUME NEW c \in Commands, kind[c] \in Kinds
      PROVE  ~Published(c)
  BY <1>2 DEF Init, FilesInit, Published, Out, Tree, Nothing
<1>3. \A c \in Commands : Honest(c)
  BY <1>1, <1>2 DEF Honest, Accounts, Lasts
<1> QED
  BY <1>1, <1>3 DEF AllHonest, OneLooks

\* What a command says when it ends is so, however many publish under its name, and
\* whenever an interrupt, in the clean-up too, an outsider or a move of the directory
\* comes: evidence it has looked at again stays, EvidenceCommittedError is about a
\* rename that took place, and evidence left behind by an error has one of the causes
\* that are named
THEOREM HonestVerdictEver == Spec => []HonestVerdict
<1> DEFINE AllTidy == \A c \in Commands : Tidy(c)
<1>1. Init => Domains /\ AllTidy
  BY InitDomains, InitTidy
<1>2. Domains /\ AllTidy /\ [Next]_vars => Domains' /\ AllTidy'
  BY StoreSteps, TidySteps
<1>3. Init => AllHonest
  BY InitHonest
<1>4. Domains /\ AllTidy /\ AllHonest /\ [Next]_vars => AllHonest'
  BY HonestSteps
<1>5. AllTidy /\ AllHonest => HonestVerdict
  <2> SUFFICES ASSUME NEW c \in Commands, Tidy(c), Honest(c)
               PROVE  /\ at[c] = "ok" /\ kind[c] \in LooksAgain => Published(c)
                      /\ at[c] = "committed" =>
                            my[c].committed /\ entries[Temp(c)] # Tree(c)
                      /\ at[c] = "error" /\ Published(c) =>
                            Excused(c) \/ kind[c] \in Suites
    BY DEF AllHonest, HonestVerdict, Excused
  <2>1. at[c] = "committed" => my[c].committed /\ ~Private(c)
    BY DEF Tidy, KeepsTree, Honest, Accounts
  <2> QED
    BY <2>1 DEF Honest, Accounts, Lasts, Private
<1> QED
  BY <1>1, <1>2, <1>3, <1>4, <1>5, PTL DEF Spec

------------------------------------------------------------------------------
(* The bounds on the loss of quality                                       *)

\* Every set of natural numbers that is not empty has a least element
LEMMA LeastNumber ==
    ASSUME NEW T, T \subseteq Nat, T # {}
    PROVE  \E x \in T : \A y \in T : x <= y
<1> DEFINE below == {0 .. n : n \in T}
<1>1. below \subseteq FiniteSubsetsOf(Nat) /\ below # {}
  <2>1. \A n \in T : IsFiniteSet(0 .. n) /\ 0 .. n \in SUBSET Nat
    BY FS_Interval
  <2>2. QED
    BY <2>1 DEF FiniteSubsetsOf
<1> HIDE DEF below
<1>2. PICK d \in below : \A e \in below : ~ (<<e, d>> \in StrictSubsetOrdering(Nat))
  BY <1>1, FS_StrictSubsetOrderingWellFounded, WFMin
<1>3. PICK x \in T : d = 0 .. x
  BY DEF below
<1>4. ASSUME NEW y \in T PROVE x <= y
  <2> SUFFICES ASSUME y < x PROVE FALSE
    OBVIOUS
  <2>1. x \in Nat /\ y \in Nat
    OBVIOUS
  <2>2. 0 .. y \in below
    BY DEF below
  <2>3. 0 .. y \subseteq d /\ x \in d /\ x \notin 0 .. y
    BY <1>3, <2>1
  <2>4. <<0 .. y, d>> \in StrictSubsetOrdering(Nat)
    BY <1>3, <2>1, <2>3 DEF StrictSubsetOrdering
  <2>5. QED
    BY <1>2, <2>2, <2>4
<1>5. QED
  BY <1>4

\* The element that a fold over a set takes first
Pick(s) == CHOOSE x \in s : TRUE

\* What has been added up of a function
Sums(f, it, S) == it = [s \in S |-> IF s = {} THEN 0 ELSE f[Pick(s)] + it[s \ {Pick(s)}]]

\* A finite set less its first element
LEMMA PickOne ==
    ASSUME NEW D, IsFiniteSet(D), NEW s \in SUBSET D, s # {}
    PROVE  /\ Pick(s) \in s /\ s \ {Pick(s)} \in SUBSET D
           /\ Cardinality(s \ {Pick(s)}) = Cardinality(s) - 1
<1>1. Pick(s) \in s
  BY DEF Pick
<1>2. IsFiniteSet(s)
  BY FS_Subset
<1> QED
  BY <1>1, <1>2, FS_RemoveElement

\* A function can be added up over every part of its finite domain
LEMMA SumExists ==
    ASSUME NEW f, IsFiniteSet(DOMAIN f)
    PROVE  \E it : Sums(f, it, SUBSET DOMAIN f)
<1> DEFINE D == DOMAIN f
           Upto(N) == {s \in SUBSET D : Cardinality(s) <= N}
           Bad == {N \in Nat : ~ \E it : Sums(f, it, Upto(N))}
<1>1. ASSUME NEW s \in SUBSET D
      PROVE  IsFiniteSet(s) /\ Cardinality(s) \in Nat /\ Cardinality(s) <= Cardinality(D)
  BY <1>1, FS_Subset, FS_CardinalityType
<1>2. ASSUME NEW s \in SUBSET D, s # {}
      PROVE  /\ Pick(s) \in s /\ s \ {Pick(s)} \in SUBSET D
             /\ Cardinality(s \ {Pick(s)}) = Cardinality(s) - 1
  BY <1>2, PickOne
<1>3. \A s \in SUBSET D : Cardinality(s) = 0 => s = {}
  BY <1>1, FS_EmptySet
<1>4. \E it : Sums(f, it, SUBSET D)
  <2>1. Upto(Cardinality(D)) = SUBSET D /\ Cardinality(D) \in Nat
    BY <1>1
  <2> SUFFICES ASSUME Bad # {} PROVE FALSE
    <3>1. Cardinality(D) \notin Bad => \E it : Sums(f, it, Upto(Cardinality(D)))
      <4> HIDE DEF Upto, D
      <4> QED
        BY <2>1
    <3> HIDE DEF Upto, D, Bad
    <3> QED
      BY <2>1, <3>1
  <2>2. PICK N \in Bad : \A K \in Bad : N <= K
    <3>1. Bad \subseteq Nat
      OBVIOUS
    <3> HIDE DEF Bad
    <3> QED
      BY <3>1, LeastNumber
  <2>3. N \in Nat /\ ~ \E it : Sums(f, it, Upto(N))
    BY <2>2
  <2>4. CASE N = 0
    <3>1. Sums(f, [s \in Upto(0) |-> 0], Upto(0))
      <4>1. \A s \in Upto(0) : s = {}
        BY <1>1, <1>3
      <4> QED
        BY <4>1 DEF Sums
    <3> QED
      BY <2>3, <2>4, <3>1
  <2>5. CASE N # 0
    <3>1. N - 1 \in Nat /\ ~(N <= N - 1)
      BY <2>3, <2>5
    <3>2. PICK g : Sums(f, g, Upto(N - 1))
      BY <2>2, <3>1
    <3> DEFINE h == [s \in Upto(N) |-> IF s = {} THEN 0
                                       ELSE f[Pick(s)] + g[s \ {Pick(s)}]]
    <3>3. ASSUME NEW s \in Upto(N), s # {}
          PROVE  h[s \ {Pick(s)}] = g[s \ {Pick(s)}]
      <4> DEFINE t == s \ {Pick(s)}
      <4>1. s \in SUBSET D /\ Cardinality(s) <= N
        OBVIOUS
      <4>2. t \in SUBSET D /\ Cardinality(t) <= N - 1 /\ Cardinality(t) <= N
        BY <1>1, <1>2, <2>3, <3>3, <4>1
      <4> HIDE DEF t
      <4>3. t \in Upto(N) /\ t \in Upto(N - 1)
        BY <4>2
      <4>4. g[t] = IF t = {} THEN 0 ELSE f[Pick(t)] + g[t \ {Pick(t)}]
        <5> HIDE DEF Upto
        <5> QED
          BY <3>2, <4>3 DEF Sums
      <4>5. h[t] = IF t = {} THEN 0 ELSE f[Pick(t)] + g[t \ {Pick(t)}]
        <5> HIDE DEF Upto
        <5> QED
          BY <4>3
      <4> QED
        BY <4>4, <4>5 DEF t
    <3>4. Sums(f, h, Upto(N))
      <4> HIDE DEF Upto
      <4> QED
        BY <3>3 DEF Sums
    <3> HIDE DEF h
    <3> QED
      BY <2>3, <3>4
  <2> QED
    BY <2>4, <2>5
<1> QED
  BY <1>4

\* The sum of finitely many natural numbers is one
LEMMA SumIsNatural ==
    ASSUME NEW f, IsFiniteSet(DOMAIN f), \A x \in DOMAIN f : f[x] \in Nat
    PROVE  SumFunction(f) \in Nat
<1> DEFINE D == DOMAIN f
           sum == CHOOSE it : Sums(f, it, SUBSET D)
           Lost == {N \in Nat : \E s \in SUBSET D : Cardinality(s) = N /\ sum[s] \notin Nat}
<1>1. SumFunction(f) = sum[D]
  BY DEF SumFunction, SumFunctionOnSet, FoldFunctionOnSet, MapThenFoldSet, Sums, Pick
<1>2. ASSUME NEW s \in SUBSET D
      PROVE  IsFiniteSet(s) /\ Cardinality(s) \in Nat /\ Cardinality(s) <= Cardinality(D)
  BY <1>2, FS_Subset, FS_CardinalityType
<1>3. ASSUME NEW s \in SUBSET D, s # {}
      PROVE  /\ Pick(s) \in s /\ s \ {Pick(s)} \in SUBSET D
             /\ Cardinality(s \ {Pick(s)}) = Cardinality(s) - 1
  BY <1>3, PickOne
<1>4. \A s \in SUBSET D : Cardinality(s) = 0 => s = {}
  BY <1>2, FS_EmptySet
<1>5. Sums(f, sum, SUBSET D)
  BY SumExists
<1> HIDE DEF sum
<1>6. \A s \in SUBSET D : sum[s] = IF s = {} THEN 0 ELSE f[Pick(s)] + sum[s \ {Pick(s)}]
  BY <1>5 DEF Sums
<1>7. Lost = {}
  <2> SUFFICES ASSUME Lost # {} PROVE FALSE
    OBVIOUS
  <2>1. PICK N \in Lost : \A K \in Lost : N <= K
    <3>1. Lost \subseteq Nat
      OBVIOUS
    <3> HIDE DEF Lost
    <3> QED
      BY <3>1, LeastNumber
  <2>2. PICK s \in SUBSET D : Cardinality(s) = N /\ sum[s] \notin Nat
    BY <2>1
  <2>3. s # {} /\ sum[s] = f[Pick(s)] + sum[s \ {Pick(s)}]
    <3>1. sum[s] = IF s = {} THEN 0 ELSE f[Pick(s)] + sum[s \ {Pick(s)}]
      BY <1>6
    <3> QED
      BY <2>2, <3>1
  <2>4. sum[s \ {Pick(s)}] \in Nat
    BY <1>2, <1>3, <2>1, <2>2, <2>3
  <2> QED
    BY <1>3, <2>2, <2>3, <2>4
<1> QED
  BY <1>1, <1>2, <1>7

\* Hits and cases add up to natural numbers
LEMMA TotalsAreNatural ==
    /\ QualityCases \in Nat /\ PilotCases \in Nat \ {0}
    /\ \A run \in DOMAIN Score :
          /\ Top1(run) \in Nat /\ Top10(run) \in Nat
          /\ PilotTop1(run) \in Nat /\ PilotTop10(run) \in Nat
<1>1. IsFiniteSet(QualityCategories) /\ IsFiniteSet(PilotCategories)
  BY ScoreAssumption, FS_AddElement DEF PilotCategories
<1>2. QualityCases \in Nat
  BY <1>1, ScoreAssumption, SumIsNatural DEF QualityCases, QualityCategories
<1>3. ASSUME NEW run \in DOMAIN Score
      PROVE  Top1(run) \in Nat /\ Top10(run) \in Nat
  <2> DEFINE f == [c \in QualityCategories |-> Score[run][c].top1]
             g == [c \in QualityCategories |-> Score[run][c].top10]
  <2>1. /\ IsFiniteSet(DOMAIN f) /\ \A c \in DOMAIN f : f[c] \in Nat
        /\ IsFiniteSet(DOMAIN g) /\ \A c \in DOMAIN g : g[c] \in Nat
    BY <1>1, ScoreAssumption
  <2>2. Top1(run) = SumFunction(f) /\ Top10(run) = SumFunction(g)
    BY DEF Top1, Top10
  <2> HIDE DEF f, g
  <2> QED
    BY <2>1, <2>2, SumIsNatural
<1>4. ASSUME NEW run \in DOMAIN Score
      PROVE  PilotTop1(run) \in Nat /\ PilotTop10(run) \in Nat
  <2> DEFINE f == [c \in PilotCategories |-> Score[run][c].top1]
             g == [c \in PilotCategories |-> Score[run][c].top10]
  <2>1. /\ IsFiniteSet(DOMAIN f) /\ \A c \in DOMAIN f : f[c] \in Nat
        /\ IsFiniteSet(DOMAIN g) /\ \A c \in DOMAIN g : g[c] \in Nat
    BY <1>1, ScoreAssumption DEF PilotCategories
  <2>2. PilotTop1(run) = SumFunction(f) /\ PilotTop10(run) = SumFunction(g)
    BY DEF PilotTop1, PilotTop10
  <2> HIDE DEF f, g
  <2> QED
    BY <2>1, <2>2, SumIsNatural
<1> QED
  BY <1>2, <1>3, <1>4 DEF PilotCases, ProtectedCases

\* A delta in hits reaches the bound rounded up when it reaches it in basis points
LEMMA RoundedUp ==
    ASSUME NEW change \in Int, NEW cases \in Nat
    PROVE  /\ change >= CeilFraction(-800 * cases, 10000) <=> Within(change, -800, cases)
           /\ change >= CeilFraction(-1200 * cases, 10000) <=> Within(change, -1200, cases)
           /\ change >= CeilFraction(-1000 * cases, 10000) <=> Within(change, -1000, cases)
BY DEF CeilFraction, Within

\* A delta multiplied by the cases of both runs is the delta in basis points
LEMMA MultipliedOut ==
    ASSUME NEW a \in Int, NEW b \in Int, NEW n \in Nat \ {0}, NEW m \in Int,
           RationalCheck(Delta(a, b, n), n * n, m)
    PROVE  Within(a - b, m, n)
<1> DEFINE over == (a - b) * 10000 - m * n
<1>1. over \in Int
  OBVIOUS
<1>2. n * over >= 0
  BY DEF RationalCheck, Delta
<1>3. over >= 0
  <2> HIDE DEF over
  <2> SUFFICES ASSUME over <= -1 PROVE FALSE
    BY <1>1
  <2>1. n * over <= n * (-1)
    BY <1>1
  <2> QED
    BY <1>1, <1>2, <2>1
<1> QED
  BY <1>3 DEF Within

\* The objective checks, each with its own bound, say what the bounds in basis points
\* say of the runs
LEMMA ObjectiveIsWithin ==
    ASSUME NEW base \in DOMAIN Score, NEW run \in DOMAIN Score
    PROVE  ObjectivePassed(base, run) = Within800(run, base)
<1>1. ObjectivePassed(base, run) <=> \A id \in DiagnosticIds : Passes(base, run, id)
  BY DEF ObjectivePassed, FailedChecks
<1>2. Passes(base, run, <<"top1">>) <=> Within(Top1(run) - Top1(base), -800, QualityCases)
  <2>1. Passes(base, run, <<"top1">>) <=> Top1(run) - Top1(base) >= MinimumTop1
    BY DEF Passes
  <2>2. Top1(run) - Top1(base) \in Int /\ QualityCases \in Nat
    BY TotalsAreNatural
  <2> QED
    BY <2>1, <2>2, RoundedUp DEF MinimumTop1
<1>3. Passes(base, run, <<"top10">>)
        <=> Within(Top10(run) - Top10(base), -1200, QualityCases)
  <2>1. Passes(base, run, <<"top10">>) <=> Top10(run) - Top10(base) >= MinimumTop10
    BY DEF Passes
  <2>2. Top10(run) - Top10(base) \in Int /\ QualityCases \in Nat
    BY TotalsAreNatural
  <2> QED
    BY <2>1, <2>2, RoundedUp DEF MinimumTop10
<1>4. Passes(base, run, <<"protected">>) <=> Score[run]["protected"].top1 = ProtectedCases
  BY DEF Passes
<1>5. ASSUME NEW g \in QualityCategories
      PROVE  Passes(base, run, <<"category", g>>)
               <=> Within(Score[run][g].top1 - Score[base][g].top1, -1000, Cases[g])
  <2>1. Passes(base, run, <<"category", g>>)
          <=> Score[run][g].top1 - Score[base][g].top1 >= MinimumCategory(g)
    <3>1. <<"category", g>> \notin {<<"top1">>, <<"top10">>, <<"protected">>}
      OBVIOUS
    <3> QED
      BY <3>1 DEF Passes
  <2>2. Score[run][g].top1 - Score[base][g].top1 \in Int /\ Cases[g] \in Nat
    BY ScoreAssumption
  <2> QED
    BY <2>1, <2>2, RoundedUp DEF MinimumCategory
<1> HIDE DEF Passes
<1>6. ObjectivePassed(base, run) <=>
        /\ Passes(base, run, <<"top1">>) /\ Passes(base, run, <<"top10">>)
        /\ Passes(base, run, <<"protected">>)
        /\ \A g \in QualityCategories : Passes(base, run, <<"category", g>>)
  BY <1>1 DEF DiagnosticIds, DiagnosticChecks
<1>7. ObjectivePassed(base, run) <=> Within800(run, base)
  <2> DEFINE InTop1 == Within(Top1(run) - Top1(base), -800, QualityCases)
             InTop10 == Within(Top10(run) - Top10(base), -1200, QualityCases)
             InCategory(g) == Within(Score[run][g].top1 - Score[base][g].top1, -1000, Cases[g])
             InEach == \A g \in QualityCategories : InCategory(g)
             AllProtected == Score[run]["protected"].top1 = ProtectedCases
             PassesEach == \A g \in QualityCategories : Passes(base, run, <<"category", g>>)
  <2>1. PassesEach <=> InEach
    <3>1. \A g \in QualityCategories : Passes(base, run, <<"category", g>>) <=> InCategory(g)
      BY <1>5
    <3> HIDE DEF InCategory
    <3> QED
      BY <3>1
  <2>2. Within800(run, base) <=> InTop1 /\ InTop10 /\ InEach /\ AllProtected
    BY DEF Within800
  <2>3. Passes(base, run, <<"top1">>) <=> InTop1
    BY <1>2
  <2>4. Passes(base, run, <<"top10">>) <=> InTop10
    BY <1>3
  <2>5. Passes(base, run, <<"protected">>) <=> AllProtected
    BY <1>4
  <2>6. ObjectivePassed(base, run) <=>
          /\ Passes(base, run, <<"top1">>) /\ Passes(base, run, <<"top10">>)
          /\ Passes(base, run, <<"protected">>) /\ PassesEach
    BY <1>6
  <2> HIDE DEF InTop1, InTop10, InEach, AllProtected, PassesEach
  <2> QED
    BY <2>1, <2>2, <2>3, <2>4, <2>5, <2>6
<1>8. ObjectivePassed(base, run) \in BOOLEAN /\ Within800(run, base) \in BOOLEAN
  BY DEF ObjectivePassed, Within800, Within
<1> QED
  BY <1>7, <1>8

------------------------------------------------------------------------------
(* What a measurement holds, and the verdict on it                         *)

\* The tree of a measurement that has been renamed: it is not removed any more
Settled(a) ==
    /\ kind[a] = "measure" /\ entries[Temp(a)] = Nothing
    /\ at[a] \in Ended \cup {"published", "cleanup", "discard"}
    /\ DOMAIN trees[a] = {"raw", "manifest", "stray"}

\* The hits that a probe may count
HitsOf(run) == IF run = "hazkey" THEN {"base"} ELSE DOMAIN Score

\* What a measurement has in memory: runs that were read with the corpus it names
Readings(held) ==
    /\ DOMAIN held = {"producer", "executable", "corpus", "entries"}
    /\ \A run \in DOMAIN held.entries :
          /\ run \in Range(Sequence)
          /\ held.entries[run].corpus = held.corpus
          /\ held.entries[run].hits \in HitsOf(run)

\* The tree beside it
Beside(c) ==
    /\ Readings(my[c].held)
    /\ DOMAIN trees[c] = {"raw", "manifest", "stray"}

\* Its runs are in the tree, both, as they were read unless one was overwritten since
Kept(c) == trees[c].raw = my[c].held.entries \/ c \in late

Whole(c) ==
    /\ Beside(c)
    /\ Kept(c)
    /\ DOMAIN my[c].held.entries = Range(Sequence)

Measuring == {"reading", "probe", "exited", "measured", "unlocked", "locked", "frozen",
              "published"}

\* What was renamed, or will be unless an error comes
Certain(c) ==
    \/ at[c] = "published"
    \/ at[c] \in {"cleanup", "discard", "ok"} /\ my[c].failed = "no"
    \/ Published(c)

\* The next run is in the tree only, as its probe left it
Probed(c) ==
    LET run == NextMeasurement(c)
    IN /\ run \in DOMAIN trees[c].raw
       /\ \/ trees[c].raw = Recorded(my[c].held.entries, run, trees[c].raw[run])
          \/ c \in late
       /\ trees[c].raw[run].hits \in HitsOf(run) \cup {"junk"}

\* What was measured, from the first probe to the manifest that is renamed
MeasuresWell(c) ==
    kind[c] = "measure" =>
        /\ at[c] \in Measuring => Readings(my[c].held)
        /\ at[c] = "reading" => my[c].held.entries = Nothing
        /\ at[c] \in {"probe", "exited"} =>
              Beside(c) /\ DOMAIN my[c].held.entries \in {{}, {"hazkey"}}
        /\ at[c] = "probe" => Kept(c)
        /\ at[c] = "exited" => Probed(c)
        /\ at[c] = "measured" => Whole(c)
        /\ at[c] \in {"unlocked", "locked", "frozen"} \/ Certain(c) =>
              Whole(c) /\ trees[c].manifest = my[c].held
        /\ Certain(c) => Settled(c)
        /\ at[c] = "ok" => my[c].failed = "no"

\* What the gate has in memory
GateReads(c) ==
    LET held == my[c].held
    IN /\ at[c] \in {"ruled", "measured", "reading"} =>
             held.policy \in DOMAIN Pilot /\ ParsePilot(Pilot[held.policy])
       /\ at[c] = "ruled" => DOMAIN held = {"policy"}
       /\ at[c] \in {"measured", "reading"} =>
             /\ held.of \in Commands /\ kind[held.of] = "measure"
             /\ RunsPinned(PolicyOf(c), held.raw)
       /\ at[c] = "reading" =>
             /\ \A run \in Range(Sequence) : held.raw[run].hits \in HitsOf(run)
             /\ Settled(held.of)
             /\ ManifestHolds(PolicyOf(c), trees[held.of].manifest, held.raw)

\* What it has written
GateWrites(c) ==
    /\ at[c] = "written" \/ Published(c) => trees[c] # Nothing
    /\ trees[c] # Nothing =>
          /\ DOMAIN trees[c] = {"policy", "raw", "observed", "acquisition", "stray", "result"}
          /\ trees[c].result = "pilot_pass" => PassPinned(trees[c])

GateHolds(c) == kind[c] = "gate" => GateReads(c) /\ GateWrites(c)

\* What every edition of the policy of the pilot names alike
LEMMA PilotPins ==
    ASSUME NEW p \in DOMAIN Pilot
    PROVE  /\ Pilot[p].binding.manifest = "fixed"
           /\ Pilot[p].baseline.resource = "fixed"
           /\ Pilot[p].candidate.resource = "fixed"
           /\ Pilot[p].checks["lifecycle"].sha = Pilot[p].checks["soak"].sha
           /\ Pilot[p].checks["adapter"].sha = Pilot[p].candidate.runner
<1>1. SuiteIds = {"adapter", "steady", "recovery", "soak", "lifecycle"}
  BY DEF SuiteIds, SuiteRequirements
<1>2. \A id \in SuiteIds : FrozenCheck(id).sha = "fixed"
  BY DEF FrozenCheck
<1>3. \A id \in SuiteIds : DOMAIN FrozenCheck(id) =
          {"shows", "status", "sha", "package", "fixture", "snapshot"}
  BY DEF FrozenCheck
<1> HIDE DEF FrozenCheck
<1>4. /\ FrozenPilot.binding.manifest = "fixed"
      /\ FrozenPilot.baseline.resource = "fixed"
      /\ FrozenPilot.candidate = [id |-> "B0", source |-> "fixed", resource |-> "fixed",
                                  runner |-> "fixed", artifacts |-> "fixed"]
      /\ FrozenPilot.checks = [id \in SuiteIds |-> FrozenCheck(id)]
      /\ {"binding", "baseline", "candidate", "checks", "limits"} \subseteq DOMAIN FrozenPilot
  BY DEF FrozenPilot
<1> HIDE DEF SuiteIds, FrozenPilot
<1>5. p \in {"fixed", "repinned", "pending", "relaxed", "split"}
  BY DEF Pilot
<1>6. CASE p = "fixed"
  <2>1. Pilot[p] = FrozenPilot
    BY <1>6 DEF Pilot
  <2> QED
    BY <1>1, <1>2, <1>4, <2>1
<1>7. CASE p = "relaxed"
  <2>1. Pilot[p] = [FrozenPilot EXCEPT !.limits.top1 = -900]
    BY <1>7 DEF Pilot
  <2> QED
    BY <1>1, <1>2, <1>4, <2>1
<1>8. CASE p = "repinned"
  <2>1. Pilot[p] = [FrozenPilot EXCEPT !.candidate.runner = "edited",
                                       !.checks["adapter"].sha = "edited"]
    BY <1>8 DEF Pilot
  <2>2. Pilot[p].candidate = [FrozenPilot.candidate EXCEPT !.runner = "edited"]
    BY <1>4, <2>1
  <2>3. Pilot[p].checks = [FrozenPilot.checks EXCEPT !["adapter"].sha = "edited"]
    BY <1>4, <2>1
  <2>4. Pilot[p].binding = FrozenPilot.binding /\ Pilot[p].baseline = FrozenPilot.baseline
    BY <1>4, <2>1
  <2> HIDE DEF Pilot
  <2>5. Pilot[p].checks["adapter"].sha = "edited"
    BY <1>1, <1>3, <1>4, <2>3
  <2> QED
    BY <1>1, <1>2, <1>4, <2>2, <2>3, <2>4, <2>5
<1>9. CASE p = "pending"
  <2>1. Pilot[p] = [FrozenPilot EXCEPT !.checks["recovery"].status = "pending",
                                       !.checks["recovery"].sha = "null"]
    BY <1>9 DEF Pilot
  <2>2. \A f \in DOMAIN FrozenPilot \ {"checks"} : Pilot[p][f] = FrozenPilot[f]
    BY <1>4, <2>1
  <2>3. \A id \in SuiteIds \ {"recovery"} : Pilot[p].checks[id] = FrozenPilot.checks[id]
    BY <1>4, <2>1
  <2> HIDE DEF Pilot
  <2> QED
    BY <1>1, <1>2, <1>4, <2>2, <2>3
<1>10. CASE p = "split"
  <2>1. Pilot[p] = [FrozenPilot EXCEPT !.checks["lifecycle"].snapshot = "edited"]
    BY <1>10 DEF Pilot
  <2> QED
    BY <1>1, <1>2, <1>3, <1>4, <2>1
<1> QED
  BY <1>5, <1>6, <1>7, <1>8, <1>9, <1>10

\* What a verdict that passes says of the runs, the suites and everything else that
\* was observed
LEMMA VerdictPinned ==
    ASSUME NEW p \in DOMAIN Pilot, NEW raw, NEW manifest, NEW observed \in Observed,
           ParsePilot(Pilot[p]), RunsPinned(Pilot[p], raw),
           ManifestHolds(Pilot[p], manifest, raw),
           \A run \in Range(Sequence) : raw[run].hits \in HitsOf(run),
           RecordsAdmissible(Pilot[p], observed.records), ReviewBinds(observed, raw),
           PilotVerdict(Pilot[p], observed) = "pilot_pass",
           NEW verdict, verdict.policy = p, verdict.raw = raw,
           verdict.observed = observed, verdict.acquisition = manifest
    PROVE  PassPinned(verdict)
<1> DEFINE policy == Pilot[p]
           run == raw["mozc"].hits
           net == observed.wins - observed.losses
<1>1. Range(Sequence) = {"hazkey", "mozc"}
  <2>1. Sequence = <<"hazkey", "mozc">> /\ DOMAIN Sequence = {1, 2}
    BY DEF Sequence
  <2> QED
    BY <2>1 DEF Range
<1>2. /\ manifest.entries = raw /\ DOMAIN raw = {"hazkey", "mozc"}
      /\ manifest.executable = policy.candidate.runner
      /\ manifest.producer = policy.measurement.producer
  BY <1>1 DEF ManifestHolds, EntriesMatch, ExecutableMatches, ProducerMatches
<1>3. policy.checks["adapter"].sha = manifest.executable
  BY <1>2, PilotPins
<1>4. \A r \in DOMAIN raw : raw[r].resource = "fixed" /\ raw[r].corpus = "fixed"
  BY <1>2, PilotPins DEF RunsPinned
<1>5. run \in DOMAIN Score /\ raw["hazkey"].hits = "base"
  BY <1>1 DEF HitsOf
<1>6. observed.reviewed["hazkey"] = "base" /\ observed.reviewed["mozc"] = run
  BY <1>1, <1>5 DEF ReviewBinds
<1> DEFINE stable == Stable(policy, observed.records)
           checks == PilotChecks("base", run, observed, stable)
<1>7. DOMAIN checks = 1 .. 10 /\ \A i \in 1 .. 10 : checks[i]
  <2>1. PilotResult(checks) = "pilot_pass"
    BY <1>6 DEF PilotVerdict
  <2>2. DOMAIN checks = 1 .. 10
    BY DEF PilotChecks
  <2> HIDE DEF checks
  <2> QED
    BY <2>1, <2>2 DEF PilotResult
<1>8. /\ RationalCheck(net, PilotCases, -300)
      /\ RationalCheck(Delta(PilotTop1(run), PilotTop1("base"), PilotCases),
                       PilotCases * PilotCases, -800)
      /\ RationalCheck(Delta(PilotTop10(run), PilotTop10("base"), PilotCases),
                       PilotCases * PilotCases, -1200)
      /\ \A g \in PilotCategories :
             RationalCheck(Delta(Score[run][g].top1, Score["base"][g].top1, PilotCount(g)),
                           PilotCount(g) * PilotCount(g), -1000)
      /\ Score[run]["protected"].top1 = ProtectedCases
      /\ RatioCheck(observed.latency[1], observed.latency[2], 5000)
      /\ RatioCheck(observed.pss[1], observed.pss[2], 12500)
      /\ \A id \in DOMAIN stable : stable[id]
  <2> HIDE DEF stable, run
  <2>1. checks[1] /\ checks[3] /\ checks[4] /\ checks[5] /\ checks[6] /\ checks[8]
        /\ checks[9] /\ checks[10]
    BY <1>7
  <2>2. /\ checks[1] <=> RationalCheck(net, PilotCases, -300)
        /\ checks[3] <=> RationalCheck(Delta(PilotTop1(run), PilotTop1("base"), PilotCases),
                                     PilotCases * PilotCases, -800)
        /\ checks[4] <=> RationalCheck(Delta(PilotTop10(run), PilotTop10("base"), PilotCases),
                                     PilotCases * PilotCases, -1200)
    BY DEF PilotChecks, PilotLimits
  <2>3. /\ checks[5] <=> CategoriesHold("base", run)
        /\ checks[8] <=> RatioCheck(observed.latency[1], observed.latency[2], 5000)
        /\ checks[9] <=> RatioCheck(observed.pss[1], observed.pss[2], 12500)
        /\ checks[10] <=> AllStable(stable)
    BY DEF PilotChecks, PilotLimits
  <2>4. checks[6] = (Score[run]["protected"].top1 = ProtectedCases)
    BY DEF PilotChecks
  <2> HIDE DEF checks, net
  <2>5. CategoriesHold("base", run)
    BY <2>1, <2>3
  <2>6. \A g \in PilotCategories :
           RationalCheck(Delta(Score[run][g].top1, Score["base"][g].top1, PilotCount(g)),
                         PilotCount(g) * PilotCount(g), -1000)
    BY <2>5 DEF CategoriesHold, PilotLimits
  <2>7. AllStable(stable)
    BY <2>1, <2>3
  <2>8. \A id \in DOMAIN stable : stable[id]
    BY <2>7 DEF AllStable
  <2>9. Score[run]["protected"].top1 = ProtectedCases
    BY <2>1, <2>4
  <2>10. /\ RatioCheck(observed.latency[1], observed.latency[2], 5000)
         /\ RatioCheck(observed.pss[1], observed.pss[2], 12500)
    BY <2>1, <2>3
  <2>11. /\ RationalCheck(net, PilotCases, -300)
         /\ RationalCheck(Delta(PilotTop1(run), PilotTop1("base"), PilotCases),
                          PilotCases * PilotCases, -800)
         /\ RationalCheck(Delta(PilotTop10(run), PilotTop10("base"), PilotCases),
                          PilotCases * PilotCases, -1200)
    BY <2>1, <2>2
  <2> QED
    BY <2>6, <2>8, <2>9, <2>10, <2>11
<1> HIDE DEF checks
<1>9. PilotWithin(run)
  <2>1. "base" \in DOMAIN Score
    BY ScoreAssumption
  <2>2. Within(PilotTop1(run) - PilotTop1("base"), -800, PilotCases)
    BY <1>5, <1>8, <2>1, TotalsAreNatural, MultipliedOut
  <2>3. Within(PilotTop10(run) - PilotTop10("base"), -1200, PilotCases)
    BY <1>5, <1>8, <2>1, TotalsAreNatural, MultipliedOut
  <2>4. ASSUME NEW g \in PilotCategories
        PROVE  Within(Score[run][g].top1 - Score["base"][g].top1, -1000, PilotCount(g))
    <3>1. PilotCount(g) \in Nat \ {0}
      BY ScoreAssumption DEF PilotCount, PilotCategories, ProtectedCases
    <3>2. Score[run][g].top1 \in Int /\ Score["base"][g].top1 \in Int
      BY <1>5, <2>1, ScoreAssumption DEF PilotCategories
    <3> QED
      BY <1>8, <3>1, <3>2, MultipliedOut
  <2> QED
    BY <1>8, <2>2, <2>3, <2>4 DEF PilotWithin
<1>10. Within(net, -300, PilotCases)
  BY <1>8 DEF RationalCheck, Within
<1>11. 2 * observed.latency[1] <= observed.latency[2]
       /\ 4 * observed.pss[1] <= 5 * observed.pss[2]
  <2>1. /\ observed.latency[1] \in Nat /\ observed.latency[2] \in Nat
        /\ observed.pss[1] \in Nat /\ observed.pss[2] \in Nat
    BY ObservedAssumption
  <2> QED
    BY <1>8, <2>1 DEF RatioCheck
<1>12. ASSUME NEW id \in SuiteIds
       PROVE  /\ observed.records[id].conversions >= SuiteRequirements[id].conversions
              /\ observed.records[id].counts.residues = 0
              /\ id \in FcitxSuites =>
                    observed.records[id].producer = policy.checks["soak"].sha
  <2>1. policy.frozen
    BY DEF ParsePilot, PilotReady
  <2>2. DOMAIN policy.checks = SuiteIds /\ policy.checks[id].shows = SuiteRequirements[id]
    BY <2>1 DEF ParsePilot, RequirementsPinned
  <2>3. id \in DOMAIN observed.records /\ RecordPinned(policy, id, observed.records[id])
    BY <2>2 DEF RecordsAdmissible
  <2>4. StabilityHolds(policy.checks[id], observed.records[id])
    <3>1. id \in DOMAIN stable
      BY <2>3 DEF Stable
    <3>2. stable[id] <=> StabilityHolds(policy.checks[id], observed.records[id])
      BY <2>3 DEF Stable
    <3>3. stable[id]
      <4> HIDE DEF stable
      <4> QED
        BY <1>8, <3>1
    <3> QED
      BY <3>2, <3>3
  <2>5. "residues" \in DOMAIN SuiteRequirements[id].counts
        /\ SuiteRequirements[id].counts["residues"] = 0
    BY DEF SuiteIds, SuiteRequirements
  <2>6. observed.records[id].counts["residues"] = 0
    BY <2>2, <2>4, <2>5 DEF StabilityHolds
  <2>7. id \in FcitxSuites => policy.checks[id].sha = policy.checks["soak"].sha
    BY PilotPins DEF FcitxSuites
  <2> QED
    BY <2>2, <2>3, <2>4, <2>6, <2>7 DEF StabilityHolds, RecordPinned
<1> HIDE DEF policy, run, net
<1> QED
  BY <1>2, <1>3, <1>4, <1>9, <1>10, <1>11, <1>12 DEF PassPinned, policy, run, net

\* What a step of something else may do to a command: it is stopped, once or in its
\* clean-up, or its tree is written into, which is late when the command no longer looks;
\* and its name is taken away.  Its private tree stays
Aside(c) ==
    /\ UNCHANGED kind /\ late \subseteq late'
    /\ entries'[Temp(c)] = entries[Temp(c)]
    /\ kind[c] \in Kinds /\ Published(c)' => Published(c)
    /\ \/ at'[c] = at[c] /\ my'[c] = my[c] /\ trees'[c] = trees[c]
       \/ /\ at'[c] = at[c] /\ my'[c] = my[c]
          /\ trees[c] # Nothing /\ ~trees[c].stray
          /\ trees'[c] = [trees[c] EXCEPT !.stray = TRUE]
          /\ at[c] \in Unwatched => c \in late'
       \/ /\ at'[c] = "killed" /\ my'[c] = my[c] /\ trees'[c] = trees[c]
          /\ at[c] \notin Ended \cup {"idle"}
       \/ /\ at[c] \notin Ended \cup CleaningUp \cup {"idle", "reading"}
          /\ at'[c] = "cleanup" /\ trees'[c] = trees[c]
          /\ my'[c] = [my[c] EXCEPT !.failed = "interrupt"]
       \/ /\ at[c] \in CleaningUp \cup {"published"}
          /\ at'[c] = "error" /\ trees'[c] = trees[c]
          /\ my'[c] = [my[c] EXCEPT !.failed = "abandoned"]

\* A command takes a step, or something else does
LEMMA LeftAside ==
    ASSUME NEW c \in Commands, Domains, [Next]_vars
    PROVE  Command(c) \/ Aside(c)
<1>1. Temp(c) \in Names /\ (kind[c] \in Kinds => Out(c) \in Names)
  BY DEF Temp, Out, Names
<1>2. CASE Around
  <2>1. UNCHANGED kind
    BY <1>2, AroundSteps DEF kind
  <2>2. entries'[Temp(c)] = entries[Temp(c)]
    <3>1. \A k : Temp(c) # <<k, "output">> /\ Temp(c) # <<k, "lock">>
      BY DEF Temp
    <3>2. UNCHANGED entries \/ \E k, f : entries' = [entries EXCEPT ![<<k, "output">>] = f]
                            \/ entries' = [entries EXCEPT ![<<k, "lock">>] = f]
      BY <1>2 DEF Around, EditInput, WriteTree, ForeignOutput, Kill, Interrupt, Abandon,
                  RemoveLock, MoveDirectory, dirVars, Bind, Unbind, Out
    <3> QED
      BY <1>1, <3>1, <3>2 DEF Domains
  <2>3. kind[c] \in Kinds /\ Published(c)' => Published(c)
    <3>1. kind[c] \in Kinds => entries'[Out(c)] \in {entries[Out(c)], Nothing, Foreign}
      BY <1>1, <1>2, AroundLeaves
    <3> QED
      BY <2>1, <3>1 DEF Published, Out, Tree, Foreign, Nothing
  <2>4. /\ late \subseteq late'
        /\ \/ at'[c] = at[c] /\ my'[c] = my[c] /\ trees'[c] = trees[c]
           \/ /\ at'[c] = at[c] /\ my'[c] = my[c]
              /\ trees[c] # Nothing /\ ~trees[c].stray
              /\ trees'[c] = [trees[c] EXCEPT !.stray = TRUE]
              /\ at[c] \in Unwatched => c \in late'
           \/ /\ at'[c] = "killed" /\ my'[c] = my[c] /\ trees'[c] = trees[c]
              /\ at[c] \notin Ended \cup {"idle"}
           \/ /\ at[c] \notin Ended \cup CleaningUp \cup {"idle", "reading"}
              /\ at'[c] = "cleanup" /\ trees'[c] = trees[c]
              /\ my'[c] = [my[c] EXCEPT !.failed = "interrupt"]
           \/ /\ at[c] \in CleaningUp \cup {"published"}
              /\ at'[c] = "error" /\ trees'[c] = trees[c]
              /\ my'[c] = [my[c] EXCEPT !.failed = "abandoned"]
    <3> USE DEF Domains, Goes, Runs, dirVars
    <3>1. CASE \E d \in Commands : WriteTree(d)
      BY <3>1 DEF WriteTree
    <3>2. CASE \E d \in Commands : Kill(d)
      BY <3>2 DEF Kill
    <3>3. CASE \E d \in Commands : Interrupt(d)
      BY <3>3 DEF Interrupt
    <3>4. CASE \E d \in Commands : Abandon(d)
      BY <3>4 DEF Abandon
    <3>5. CASE UNCHANGED <<at, my, trees, late>>
      BY <3>5
    <3> QED
      BY <1>2, <3>1, <3>2, <3>3, <3>4, <3>5
         DEF Around, EditInput, ForeignOutput, RemoveLock, MoveDirectory
  <2> QED
    BY <2>1, <2>2, <2>3, <2>4 DEF Aside
<1>3. ASSUME NEW d \in Commands \ {c}, Command(d)
      PROVE  Aside(c)
  <2>1. Step(d)
    BY <1>3, CommandSteps
  <2>2. UNCHANGED kind /\ at'[c] = at[c] /\ my'[c] = my[c] /\ trees'[c] = trees[c]
        /\ late \subseteq late'
    BY <2>1 DEF Step, Local, TypeStep, kind
  <2>3. entries'[Temp(c)] = entries[Temp(c)]
    <3>1. Temp(c) \notin {Temp(d), Out(d), Lock(d)}
      BY DEF Temp, Out, Lock
    <3> QED
      BY <1>1, <2>1, <3>1 DEF Step, TypeStep
  <2>4. kind[c] \in Kinds /\ Published(c)' => Published(c)
    <3>1. kind[c] \in Kinds =>
             entries'[Out(c)] \in {entries[Out(c)], Nothing, Tree(d), LockFile(d)}
      BY <1>1, <2>1 DEF Step, TypeStep
    <3> QED
      BY <2>2, <3>1 DEF Published, Out, Tree, LockFile, Nothing
  <2> QED
    BY <2>2, <2>3, <2>4 DEF Aside
<1>4. CASE Done \/ UNCHANGED vars
  BY <1>4 DEF Done, vars, dirVars, aroundVars, Aside, kind, Published, Out
<1> QED
  BY <1>2, <1>3, <1>4 DEF Next

\* A measurement that was renamed stays as it is, whoever takes the next step
LEMMA SettledAside ==
    ASSUME NEW a \in Commands, Settled(a), Aside(a)
    PROVE  Settled(a)' /\ trees'[a].manifest = trees[a].manifest
BY DEF Settled, Aside, Ended, CleaningUp

\* So does what is measured
LEMMA MeasuresAside ==
    ASSUME NEW c \in Commands, KeepsFields(c), MeasuresWell(c), Aside(c)
    PROVE  MeasuresWell(c)'
<1> SUFFICES ASSUME kind[c] = "measure" PROVE MeasuresWell(c)'
  BY DEF MeasuresWell, Aside
<1>1. /\ kind'[c] = "measure" /\ (Published(c)' => Published(c))
      /\ at'[c] = at[c] \/ at'[c] \in {"killed", "cleanup", "error"}
      /\ late \subseteq late' /\ entries'[Temp(c)] = entries[Temp(c)]
  BY DEF Aside, Kinds, RolesOf
<1>2. my'[c].held = my[c].held
      /\ (at'[c] = at[c] => my'[c].failed = my[c].failed)
      /\ (at'[c] = "cleanup" => at[c] = "cleanup" \/ my'[c].failed # "no")
  <2>1. DOMAIN my[c] = {"held", "tree", "lock", "committed", "failed"}
    BY DEF KeepsFields, NoMemory
  <2>2. \A v : /\ [my[c] EXCEPT !.failed = v].held = my[c].held
               /\ [my[c] EXCEPT !.failed = v].failed = v
    BY <2>1
  <2>3. \/ my'[c] = my[c] /\ at'[c] \in {at[c], "killed"}
        \/ my'[c] = [my[c] EXCEPT !.failed = "interrupt"] /\ at'[c] = "cleanup"
           /\ at[c] \notin CleaningUp
        \/ my'[c] = [my[c] EXCEPT !.failed = "abandoned"] /\ at'[c] = "error"
           /\ at[c] \in CleaningUp \cup {"published"}
    BY DEF Aside
  <2> QED
    BY <2>2, <2>3 DEF CleaningUp
<1>3. DOMAIN trees[c] = {"raw", "manifest", "stray"} =>
        /\ DOMAIN trees'[c] = {"raw", "manifest", "stray"}
        /\ trees'[c].raw = trees[c].raw /\ trees'[c].manifest = trees[c].manifest
  BY DEF Aside
<1>4. Certain(c)' => Certain(c)
  BY <1>1, <1>2 DEF Certain
<1>5. Beside(c) => Beside(c)'
  BY <1>2, <1>3 DEF Beside
<1>6. Beside(c) /\ Kept(c) => Kept(c)'
  BY <1>1, <1>2, <1>3 DEF Beside, Kept
<1>7. Beside(c) /\ Probed(c) => Probed(c)'
  BY <1>1, <1>2, <1>3 DEF Beside, Probed, NextMeasurement
<1>8. Settled(c) => Settled(c)'
  BY SettledAside
<1> HIDE DEF Certain, Beside, Whole, Kept, Probed, Settled, Readings
<1>9. Whole(c) => Whole(c)' /\ DOMAIN trees[c] = {"raw", "manifest", "stray"}
  BY <1>2, <1>5, <1>6 DEF Whole, Beside
<1>10. Beside(c) => DOMAIN trees[c] = {"raw", "manifest", "stray"}
  BY DEF Beside
<1>11. Readings(my[c].held)' <=> Readings(my[c].held)
  BY <1>2 DEF Readings
<1> QED
  BY <1>1, <1>2, <1>3, <1>4, <1>5, <1>6, <1>7, <1>8, <1>9, <1>10, <1>11
     DEF MeasuresWell, Measuring

\* The runs come in the order of Sequence
LEMMA NextOfTwo ==
    ASSUME NEW c \in Commands
    PROVE  /\ Range(Sequence) = {"hazkey", "mozc"}
           /\ DOMAIN my[c].held.entries = {} => NextMeasurement(c) = "hazkey"
           /\ DOMAIN my[c].held.entries = {"hazkey"} => NextMeasurement(c) = "mozc"
<1>1. Sequence = <<"hazkey", "mozc">> /\ DOMAIN Sequence = {1, 2}
  BY DEF Sequence
<1>2. Range(Sequence) = {"hazkey", "mozc"}
  BY <1>1 DEF Range
<1>3. \A S : (S = {} => Cardinality(S) = 0) /\ (S = {"hazkey"} => Cardinality(S) = 1)
  BY FS_EmptySet, FS_Singleton
<1>4. \A n : NextMeasurement(c) = Sequence[Cardinality(DOMAIN my[c].held.entries) + 1]
  BY DEF NextMeasurement
<1> HIDE DEF Sequence
<1> QED
  BY <1>1, <1>2, <1>3, <1>4

\* A step of AcquireMeasurement
LEMMA MeasuresSteps ==
    ASSUME NEW c \in Commands, Domains, KeepsFields(c), MeasuresWell(c),
           AcquireMeasurement(c)
    PROVE  MeasuresWell(c)'
<1>1. kind[c] = "measure" /\ UNCHANGED kind /\ late \subseteq late'
  BY MeasureSteps DEF Step, Local, TypeStep, kind
<1>2. DOMAIN my[c] = {"held", "tree", "lock", "committed", "failed"}
  BY DEF KeepsFields, NoMemory
<1>3. /\ Temp(c) \in DOMAIN entries /\ Out(c) \in DOMAIN entries
      /\ Temp(c) # Out(c) /\ Temp(c) # Lock(c) /\ Out(c) # Lock(c)
      /\ Tree(c) # Nothing /\ Tree(c) # LockFile(c)
  BY <1>1 DEF Domains, Names, Temp, Out, Lock, Kinds, RolesOf, Tree, LockFile, Nothing
<1> USE <1>1, <1>2, <1>3 DEF Domains, Measure, At, Goes, Holds, Raises, Requires, Aborts,
        Bind, Unbind, dirVars
\* Nothing is renamed: what was certain is as certain as it was
<1>4. ASSUME trees'[c] = trees[c], my'[c].held = my[c].held,
             at'[c] \in {"error", "cleanup"}, at'[c] = "cleanup" => my'[c].failed # "no",
             Published(c)' => Published(c), entries'[Temp(c)] = entries[Temp(c)]
      PROVE  MeasuresWell(c)'
  <2>1. Certain(c)' => Certain(c)
    BY <1>4 DEF Certain
  <2>2. Certain(c) => Whole(c)' /\ (trees[c].manifest = my[c].held)' /\ Settled(c)'
    BY <1>4 DEF MeasuresWell, Whole, Kept, Beside, Settled, Ended
  <2> QED
    BY <1>4, <2>1, <2>2 DEF MeasuresWell, Measuring
\* The command goes on in its body, with nothing published
<1>5. ASSUME at[c] \notin Ended \cup {"published", "cleanup", "discard"}
      PROVE  ~Published(c)
  BY <1>5 DEF MeasuresWell, Certain, Settled
<1>6. ASSUME at[c] \notin Ended \cup {"published", "cleanup", "discard"},
             at'[c] \in Measuring \ {"published"}, entries'[Out(c)] = entries[Out(c)]
      PROVE  ~Certain(c)'
  <2>1. ~Published(c)'
    BY <1>5, <1>6 DEF Published, Out
  <2> QED
    BY <1>6, <2>1 DEF Certain, Measuring
<1>7. ASSUME at[c] \in Measuring \ {"published"}, Aborts(c)
      PROVE  MeasuresWell(c)'
  <2>1. /\ trees'[c] = trees[c] /\ my'[c].held = my[c].held /\ at'[c] = "cleanup"
        /\ my'[c].failed = "error" /\ UNCHANGED entries
    BY <1>7
  <2> QED
    BY <1>4, <2>1 DEF Published, Out
<1>8. CASE CheckPolicy(c)
  <2>1. UNCHANGED <<entries, trees>> /\ at[c] = "idle"
    BY <1>8 DEF CheckPolicy
  <2>2. CASE at'[c] = "error"
    <3>1. my'[c] = my[c]
      BY <1>8, <2>2 DEF CheckPolicy
    <3> QED
      BY <1>4, <2>1, <2>2, <3>1 DEF Published, Out
  <2>3. CASE at'[c] = "reading"
    <3>1. /\ DOMAIN my'[c].held = {"producer", "executable", "corpus", "entries"}
          /\ my'[c].held.entries = Nothing
      BY <1>8, <2>3 DEF CheckPolicy
    <3>2. Readings(my'[c].held)
      BY <3>1 DEF Readings, Nothing
    <3>3. ~Certain(c)'
      BY <1>6, <2>1, <2>3 DEF Ended, Measuring
    <3> QED
      BY <2>3, <3>1, <3>2, <3>3 DEF MeasuresWell, Measuring
  <2> QED
    BY <1>8, <2>2, <2>3 DEF CheckPolicy
<1>9. CASE SnapshotRuntime(c)
  <2>1. at[c] = "reading" /\ entries'[Out(c)] = entries[Out(c)]
    BY <1>9 DEF SnapshotRuntime, Makes, Unnoted
  <2>2. CASE at'[c] = "error"
    <3>1. ~Published(c)'
      BY <1>5, <2>1 DEF Published, Out, Ended
    <3> QED
      BY <2>2, <3>1 DEF MeasuresWell, Measuring, Certain
  <2>3. CASE at'[c] = "probe"
    <3>1. /\ trees'[c] = [raw |-> Nothing, manifest |-> Nothing, stray |-> FALSE]
          /\ my'[c] = my[c]
      BY <1>9, <2>3 DEF SnapshotRuntime, Makes, Unnoted
    <3>2. ~Certain(c)'
      BY <1>6, <2>1, <2>3, <3>1 DEF Ended, Measuring
    <3>3. Readings(my[c].held) /\ my[c].held.entries = Nothing
      BY <2>1 DEF MeasuresWell, Measuring
    <3>4. DOMAIN my[c].held.entries = {}
      BY <3>3 DEF Nothing
    <3> QED
      BY <2>1, <2>3, <3>1, <3>2, <3>3, <3>4 DEF MeasuresWell, Measuring, Beside, Kept
  <2> QED
    BY <1>9, <2>2, <2>3 DEF SnapshotRuntime, Makes, Unnoted
<1>10. CASE Probe(c)
  <2>1. at[c] = "probe"
    BY <1>10 DEF Probe
  <2>2. CASE Aborts(c)
    BY <1>7, <2>1, <2>2 DEF Measuring
  <2>3. ASSUME NEW result \in Measured(NextMeasurement(c)),
               trees' = [trees EXCEPT ![c].raw = Recorded(@, NextMeasurement(c), result)],
               at' = [at EXCEPT ![c] = "exited"], UNCHANGED <<entries, my>>
        PROVE  MeasuresWell(c)'
    <3>1. /\ Beside(c) /\ DOMAIN my[c].held.entries \in {{}, {"hazkey"}}
          /\ Kept(c)
      BY <2>1 DEF MeasuresWell
    <3>2. /\ DOMAIN trees'[c] = {"raw", "manifest", "stray"}
          /\ trees'[c].raw = Recorded(trees[c].raw, NextMeasurement(c), result)
      BY <2>3, <3>1 DEF Beside
    <3>3. result.hits \in HitsOf(NextMeasurement(c)) \cup {"junk"}
      BY <2>3 DEF Measured, HitsOf
    <3>4. Probed(c)'
      <4>1. NextMeasurement(c)' = NextMeasurement(c)
        BY <2>3 DEF NextMeasurement
      <4>2. /\ NextMeasurement(c) \in DOMAIN trees'[c].raw
            /\ trees'[c].raw[NextMeasurement(c)] = result
        BY <3>2 DEF Recorded, Joined
      <4> QED
        BY <2>3, <3>1, <3>2, <3>3, <4>1, <4>2 DEF Probed, Kept
    <3>5. ~Certain(c)'
      BY <1>6, <2>1, <2>3 DEF Ended, Measuring
    <3>6. Readings(my[c].held)
      BY <3>1 DEF Beside
    <3> QED
      BY <2>3, <3>1, <3>2, <3>4, <3>5, <3>6 DEF MeasuresWell, Measuring, Beside
  <2> QED
    BY <1>10, <2>2, <2>3 DEF Probe
<1>11. CASE ReadProbe(c)
  <2> DEFINE run == NextMeasurement(c)
             result == trees[c].raw[run]
  <2>1. at[c] = "exited"
    BY <1>11 DEF ReadProbe
  <2>2. CASE Aborts(c)
    BY <1>7, <2>1, <2>2 DEF Measuring
  <2>3. CASE ~Aborts(c)
    <3>1. /\ ProbeValid(c, result) /\ UNCHANGED <<entries, trees>>
          /\ at'[c] = IF run = "mozc" THEN "measured" ELSE "probe"
          /\ my'[c].held = [my[c].held EXCEPT !.entries = Recorded(@, run, result)]
      BY <1>11, <2>3 DEF ReadProbe
    <3>2. /\ Beside(c) /\ DOMAIN my[c].held.entries \in {{}, {"hazkey"}} /\ Probed(c)
      BY <2>1 DEF MeasuresWell
    <3>3. /\ Readings(my[c].held)
          /\ DOMAIN my[c].held = {"producer", "executable", "corpus", "entries"}
      BY <3>2 DEF Beside, Readings
    <3>4. /\ my'[c].held.entries = Recorded(my[c].held.entries, run, result)
          /\ my'[c].held.corpus = my[c].held.corpus /\ DOMAIN my'[c].held = DOMAIN my[c].held
      <4> HIDE DEF run, result
      <4> QED
        BY <3>1, <3>3
    <3>5. Kept(c)'
      BY <3>1, <3>2, <3>4 DEF Probed, Kept
    <3>6. result.corpus = my[c].held.corpus /\ result.hits \in HitsOf(run)
      BY <3>1, <3>2 DEF ProbeValid, Probed
    <3>7. run \in Range(Sequence)
      BY <3>2, NextOfTwo
    <3>8. DOMAIN my'[c].held.entries = DOMAIN my[c].held.entries \cup {run}
      <4> HIDE DEF run, result
      <4> QED
        BY <3>4 DEF Recorded, Joined
    <3>9. \A r \in DOMAIN my'[c].held.entries :
             my'[c].held.entries[r] = IF r = run THEN result ELSE my[c].held.entries[r]
      <4> HIDE DEF run, result
      <4> QED
        BY <3>4 DEF Recorded, Joined
    <3>10. Readings(my'[c].held)
      <4> HIDE DEF run, result
      <4> QED
        BY <3>3, <3>4, <3>6, <3>7, <3>8, <3>9 DEF Readings
    <3>11. ~Certain(c)'
      BY <1>6, <2>1, <3>1 DEF Ended, Measuring
    <3>12. Beside(c)'
      BY <3>1, <3>2, <3>10 DEF Beside
    <3>13. CASE DOMAIN my[c].held.entries = {}
      <4>1. run = "hazkey" /\ DOMAIN my'[c].held.entries = {"hazkey"}
        BY <3>8, <3>13, NextOfTwo
      <4> QED
        BY <3>1, <3>5, <3>10, <3>11, <3>12, <4>1 DEF MeasuresWell, Measuring
    <3>14. CASE DOMAIN my[c].held.entries = {"hazkey"}
      <4>1. run = "mozc" /\ DOMAIN my'[c].held.entries = {"hazkey", "mozc"}
        BY <3>8, <3>14, NextOfTwo
      <4>2. Whole(c)'
        BY <3>5, <3>12, <4>1, NextOfTwo DEF Whole
      <4> QED
        BY <3>1, <3>10, <3>11, <4>1, <4>2 DEF MeasuresWell, Measuring
    <3> QED
      BY <3>2, <3>13, <3>14
  <2> QED
    BY <2>2, <2>3
<1>12. CASE WriteMeasurement(c)
  <2>1. at[c] = "measured"
    BY <1>12 DEF WriteMeasurement
  <2>2. CASE Aborts(c)
    BY <1>7, <2>1, <2>2 DEF Measuring
  <2>3. CASE ~Aborts(c)
    <3>1. /\ trees'[c] = [trees[c] EXCEPT !.manifest = my[c].held]
          /\ at'[c] = "unlocked" /\ UNCHANGED <<entries, my>>
      BY <1>12, <2>3 DEF WriteMeasurement
    <3>2. Whole(c) /\ Readings(my[c].held)
      BY <2>1 DEF MeasuresWell, Measuring
    <3>3. Whole(c)' /\ trees'[c].manifest = my[c].held
      BY <3>1, <3>2 DEF Whole, Kept, Beside
    <3>4. ~Certain(c)'
      BY <1>6, <2>1, <3>1 DEF Ended, Measuring
    <3> QED
      BY <3>1, <3>2, <3>3, <3>4 DEF MeasuresWell, Measuring
  <2> QED
    BY <2>2, <2>3
<1>13. CASE LockOutput(c) \/ CheckAgain(c)
  <2>1. at[c] \in {"unlocked", "locked"} /\ trees' = trees
    BY <1>13 DEF LockOutput, CreatesLock, Unnoted, CheckAgain
  <2>2. CASE at'[c] = "cleanup"
    <3>1. /\ my'[c].held = my[c].held /\ my'[c].failed # "no"
          /\ entries'[Out(c)] = entries[Out(c)] /\ entries'[Temp(c)] = entries[Temp(c)]
      BY <1>13, <2>2 DEF LockOutput, CreatesLock, Unnoted, CheckAgain
    <3> QED
      BY <1>4, <2>1, <2>2, <3>1 DEF Published, Out
  <2>3. CASE at'[c] # "cleanup"
    <3>1. /\ at'[c] \in {"locked", "frozen"} /\ my'[c].held = my[c].held
          /\ entries'[Out(c)] = entries[Out(c)]
      BY <1>13, <2>3 DEF LockOutput, CreatesLock, Unnoted, CheckAgain
    <3>2. Whole(c) /\ trees[c].manifest = my[c].held /\ Readings(my[c].held)
      BY <2>1 DEF MeasuresWell, Measuring
    <3>3. ~Certain(c)'
      BY <1>6, <2>1, <3>1 DEF Ended, Measuring
    <3>4. Whole(c)' /\ (trees[c].manifest = my[c].held)' /\ Readings(my[c].held)'
      BY <2>1, <3>1, <3>2 DEF Whole, Kept, Beside
    <3> QED
      BY <3>1, <3>3, <3>4 DEF MeasuresWell, Measuring
  <2> QED
    BY <2>2, <2>3
<1>14. CASE PublishMeasurement(c)
  <2>1. at[c] = "frozen" /\ trees' = trees
    BY <1>14 DEF PublishMeasurement, Renames, RefusesToReplace
  <2>2. Whole(c) /\ trees[c].manifest = my[c].held /\ Readings(my[c].held)
    BY <2>1 DEF MeasuresWell, Measuring
  <2>3. CASE Aborts(c) \/ RefusesToReplace(c)
    <3>1. Aborts(c)
      BY <2>3 DEF RefusesToReplace
    <3> QED
      BY <1>7, <2>1, <3>1 DEF Measuring
  <2>4. CASE Renames(c, "published", FALSE)
    <3>1. /\ entries'[Temp(c)] = Nothing
          /\ \/ at'[c] = "published"
             \/ at'[c] = "cleanup" /\ my'[c].failed = "interrupt"
          /\ my'[c].held = my[c].held
      BY <2>4 DEF Renames, RenameNoReplace
    <3>2. Settled(c)'
      BY <2>1, <2>2, <3>1 DEF Settled, Whole, Beside
    <3>3. Whole(c)' /\ (trees[c].manifest = my[c].held)' /\ Readings(my[c].held)'
      BY <2>1, <2>2, <3>1 DEF Whole, Kept, Beside
    <3> QED
      BY <3>1, <3>2, <3>3 DEF MeasuresWell, Measuring
  <2> QED
    BY <1>14, <2>3, <2>4 DEF PublishMeasurement
<1>15. CASE SyncMeasurement(c)
  <2>1. /\ at[c] = "published" /\ at'[c] = "cleanup" /\ UNCHANGED <<entries, trees>>
        /\ my'[c].held = my[c].held
    BY <1>15 DEF SyncMeasurement
  <2>2. Whole(c) /\ trees[c].manifest = my[c].held /\ Settled(c)
    BY <2>1 DEF MeasuresWell, Certain
  <2>3. Whole(c)' /\ (trees[c].manifest = my[c].held)' /\ Settled(c)'
    BY <2>1, <2>2 DEF Whole, Kept, Beside, Settled, Temp
  <2> QED
    BY <2>1, <2>3 DEF MeasuresWell, Measuring
<1>16. CASE UnlinkLock(c)
  <2>1. /\ at[c] = "cleanup" /\ at'[c] = "discard" /\ UNCHANGED trees
        /\ my'[c].held = my[c].held /\ my'[c].failed = my[c].failed
        /\ entries'[Out(c)] = entries[Out(c)] /\ entries'[Temp(c)] = entries[Temp(c)]
    BY <1>16 DEF UnlinkLock, UnlinkByName
  <2>2. Certain(c)' => Certain(c)
    BY <2>1 DEF Certain, Published, Out
  <2>3. Certain(c) => Whole(c)' /\ (trees[c].manifest = my[c].held)' /\ Settled(c)'
    BY <2>1 DEF MeasuresWell, Whole, Kept, Beside, Settled
  <2> QED
    BY <2>1, <2>2, <2>3 DEF MeasuresWell, Measuring
<1>17. CASE RemoveTemporary(c)
  <2>1. /\ at[c] = "discard" /\ UNCHANGED my
        /\ at'[c] = IF my[c].failed = "no" /\ ~moved THEN "ok" ELSE "error"
    BY <1>17 DEF RemoveTemporary, EndsByName
  <2>2. CASE Certain(c)
    <3>1. Whole(c) /\ trees[c].manifest = my[c].held /\ Settled(c)
      BY <2>2 DEF MeasuresWell
    <3>2. UNCHANGED <<entries, trees>>
      BY <1>17, <3>1 DEF RemoveTemporary, RemoveByName, Settled, Exists
    <3>3. Whole(c)' /\ (trees[c].manifest = my[c].held)' /\ Settled(c)'
      BY <2>1, <3>1, <3>2 DEF Whole, Kept, Beside, Settled, Temp, Ended
    <3> QED
      BY <2>1, <3>3 DEF MeasuresWell, Measuring
  <2>3. CASE ~Certain(c)
    <3>1. my[c].failed # "no" /\ at'[c] = "error" /\ ~Published(c)
      BY <2>1, <2>3 DEF Certain
    <3>2. entries'[Out(c)] = entries[Out(c)]
      BY <1>17 DEF RemoveTemporary, RemoveByName
    <3>3. ~Certain(c)'
      BY <3>1, <3>2 DEF Certain, Published, Out
    <3> QED
      BY <2>1, <3>1, <3>3 DEF MeasuresWell, Measuring
  <2> QED
    BY <2>2, <2>3
<1>18. CASE OverwriteRaw(c)
  <2>1. /\ UNCHANGED <<entries, at, my>> /\ c \in late'
        /\ \E run \in DOMAIN my[c].held.entries, hits \in DOMAIN Score :
              trees'[c] = [trees[c] EXCEPT !.raw[run].hits = hits]
    <3>1. PICK run \in DOMAIN my[c].held.entries, hits \in DOMAIN Score :
             trees' = [trees EXCEPT ![c].raw[run].hits = hits]
      BY <1>18 DEF OverwriteRaw
    <3>2. trees'[c] = [trees[c] EXCEPT !.raw[run].hits = hits]
      BY <3>1 DEF Domains
    <3> QED
      BY <1>18, <3>2 DEF OverwriteRaw
  <2>2. PICK run \in DOMAIN my[c].held.entries, hits \in DOMAIN Score :
           trees'[c] = [trees[c] EXCEPT !.raw[run].hits = hits]
    BY <2>1
  <2>3. Beside(c) => Beside(c)' /\ trees'[c].manifest = trees[c].manifest
                     /\ trees'[c].raw = [trees[c].raw EXCEPT ![run].hits = hits]
    BY <2>1, <2>2 DEF Beside
  <2>4. Whole(c) => Whole(c)'
    BY <2>1, <2>3 DEF Whole, Kept
  <2>5. Kept(c)'
    BY <2>1 DEF Kept
  <2>6. Certain(c)' = Certain(c)
    BY <2>1 DEF Certain, Published, Out
  <2>7. Settled(c) /\ Beside(c) => Settled(c)'
    BY <2>1, <2>3 DEF Settled, Beside
  <2>8. Beside(c) /\ Probed(c) /\ DOMAIN my[c].held.entries \in {{}, {"hazkey"}} => Probed(c)'
    <3> SUFFICES ASSUME Beside(c), Probed(c), DOMAIN my[c].held.entries \in {{}, {"hazkey"}}
                 PROVE  Probed(c)'
      OBVIOUS
    <3> DEFINE next == NextMeasurement(c)
    <3>1. next # run /\ next' = next
      BY <2>1, NextOfTwo DEF NextMeasurement
    <3>2. next \in DOMAIN trees[c].raw /\ trees[c].raw[next].hits \in HitsOf(next) \cup {"junk"}
      BY DEF Probed
    <3> HIDE DEF next
    <3>3. next \in DOMAIN trees'[c].raw /\ trees'[c].raw[next] = trees[c].raw[next]
      BY <2>3, <3>1, <3>2
    <3> QED
      BY <2>1, <3>1, <3>2, <3>3 DEF Probed, next
  <2>9. Readings(my[c].held)' <=> Readings(my[c].held)
    BY <2>1 DEF Readings
  <2>10. Whole(c) => Beside(c)
    BY DEF Whole
  <2> HIDE DEF Certain, Beside, Whole, Kept, Probed, Settled, Readings
  <2> QED
    BY <2>1, <2>3, <2>4, <2>5, <2>6, <2>7, <2>8, <2>9, <2>10 DEF MeasuresWell
<1> QED
  BY <1>8, <1>9, <1>10, <1>11, <1>12, <1>13, <1>14, <1>15, <1>16, <1>17, <1>18
     DEF AcquireMeasurement

\* A step of a command is one of its kind
LEMMA OfItsKind ==
    ASSUME NEW c \in Commands, Domains, Command(c)
    PROVE  /\ kind[c] = "measure" => AcquireMeasurement(c)
           /\ kind[c] = "gate" => EvaluateB0(c)
           /\ kind[c] = "objective" => AcquireObjective(c)
           /\ kind[c] = "seal" => SealCorpus(c)
           /\ kind[c] = "authorize" => Authorize(c)
           /\ kind[c] = "b1" => ContinueB1(c)
           /\ kind[c] = "prepare" => Prepare(c)
           /\ kind[c] = "score" => ScoreReview(c)
           /\ kind[c] = "collect" => CollectRecord(c)
           /\ kind[c] \in Suites => RunSuite(c) \/ InSessionOf(c)
BY ObjectiveSteps, MeasureSteps, SealSteps, PrepareSteps, ScoreSteps, GateSteps,
   FormalSteps, AuthorizeSteps, B1Steps, SuiteSteps, SessionSteps, CollectSteps
   DEF Command, Suites

\* A measurement that was renamed stays as it is, whatever happens
LEMMA SettledSteps ==
    ASSUME NEW a \in Commands, Domains, Settled(a), [Next]_vars
    PROVE  Settled(a)' /\ trees'[a].manifest = trees[a].manifest
<1>1. CASE Aside(a)
  BY <1>1, SettledAside
<1>2. CASE Command(a)
  <2>1. AcquireMeasurement(a) /\ UNCHANGED kind
    BY <1>2, OfItsKind, MeasureSteps DEF Settled, Step, Local, kind
  <2>2. /\ Temp(a) \in DOMAIN entries /\ Temp(a) # Lock(a)
    BY DEF Domains, Names, Temp, Lock
  <2> USE DEF Domains, Measure, At, Goes, Settled, Ended
  <2>3. CASE SyncMeasurement(a)
    BY <2>1, <2>2, <2>3 DEF SyncMeasurement, dirVars, Temp
  <2>4. CASE UnlinkLock(a)
    BY <2>1, <2>2, <2>4 DEF UnlinkLock, UnlinkByName, Unbind
  <2>5. CASE RemoveTemporary(a)
    BY <2>1, <2>2, <2>5 DEF RemoveTemporary, RemoveByName, EndsByName, Exists, dirVars, Temp
  <2>6. CASE OverwriteRaw(a)
    BY <2>1, <2>2, <2>6 DEF OverwriteRaw, Temp
  <2> QED
    BY <2>1, <2>3, <2>4, <2>5, <2>6
       DEF AcquireMeasurement, CheckPolicy, SnapshotRuntime, Probe, ReadProbe,
           WriteMeasurement, LockOutput, CheckAgain, PublishMeasurement
<1> QED
  BY <1>1, <1>2, LeftAside

\* What a verdict says is pinned does not change when a file is put beside it
LEMMA PinnedAside ==
    ASSUME NEW c \in Commands, PassPinned(trees[c]), NEW v, v.policy = trees[c].policy,
           v.raw = trees[c].raw, v.observed = trees[c].observed,
           v.acquisition = trees[c].acquisition
    PROVE  PassPinned(v)
BY DEF PassPinned

\* What the gate has read holds while others work
LEMMA GateAside ==
    ASSUME NEW c \in Commands, Domains, KeepsFields(c), GateHolds(c), Aside(c), [Next]_vars
    PROVE  GateHolds(c)'
<1> SUFFICES ASSUME kind[c] = "gate" PROVE GateReads(c)' /\ GateWrites(c)'
  BY DEF GateHolds, Aside
<1>1. /\ UNCHANGED kind /\ (Published(c)' => Published(c))
      /\ at'[c] = at[c] \/ at'[c] \in {"killed", "cleanup", "error"}
  BY DEF Aside, Kinds, RolesOf
<1>2. my'[c].held = my[c].held
  <2>1. DOMAIN my[c] = {"held", "tree", "lock", "committed", "failed"}
    BY DEF KeepsFields, NoMemory
  <2> QED
    BY <2>1 DEF Aside
<1>3. PolicyOf(c)' = PolicyOf(c)
  BY <1>2 DEF PolicyOf
<1>4. trees[c] = Nothing => trees'[c] = Nothing
  BY DEF Aside
<1>5. ASSUME trees'[c] # Nothing
      PROVE  /\ DOMAIN trees'[c] = {"policy", "raw", "observed", "acquisition", "stray",
                                    "result"}
             /\ trees'[c].result = "pilot_pass" => PassPinned(trees'[c])
  <2>1. /\ DOMAIN trees[c] = {"policy", "raw", "observed", "acquisition", "stray", "result"}
        /\ trees[c].result = "pilot_pass" => PassPinned(trees[c])
    BY <1>4, <1>5 DEF GateHolds, GateReads, GateWrites
  <2>2. /\ DOMAIN trees'[c] = DOMAIN trees[c]
        /\ \A f \in DOMAIN trees[c] \ {"stray"} : trees'[c][f] = trees[c][f]
    BY <2>1 DEF Aside
  <2> QED
    BY <2>1, <2>2, PinnedAside
<1>6. at[c] = "reading" =>
        /\ Settled(my[c].held.of)'
        /\ trees'[my'[c].held.of].manifest = trees[my[c].held.of].manifest
  <2> SUFFICES ASSUME at[c] = "reading"
               PROVE  /\ Settled(my[c].held.of)'
                      /\ trees'[my'[c].held.of].manifest = trees[my[c].held.of].manifest
    OBVIOUS
  <2>1. PICK a \in Commands : a = my[c].held.of
    BY DEF GateHolds, GateReads, GateWrites
  <2>2. Settled(a)' /\ trees'[a].manifest = trees[a].manifest
    BY <2>1, SettledSteps DEF GateHolds, GateReads, GateWrites
  <2> QED
    BY <1>2, <2>1, <2>2 DEF Settled
<1>7. trees[c] # Nothing => trees'[c] # Nothing
  <2>1. trees[c] # Nothing => "stray" \in DOMAIN trees[c]
    BY DEF GateHolds, GateReads, GateWrites
  <2> QED
    BY <2>1 DEF Aside, Nothing
<1>8. GateWrites(c)'
  <2> HIDE DEF PassPinned
  <2>1. at[c] = "written" \/ Published(c) => trees[c] # Nothing
    BY DEF GateHolds, GateWrites
  <2> QED
    BY <1>1, <1>5, <1>7, <2>1 DEF GateWrites
<1>9. GateReads(c)'
  <2>1. GateReads(c)
    BY DEF GateHolds
  <2>2. RunsPinned(PolicyOf(c), my[c].held.raw)' <=> RunsPinned(PolicyOf(c), my[c].held.raw)
    BY <1>2, <1>3 DEF RunsPinned
  <2>3. at[c] = "reading" =>
          (ManifestHolds(PolicyOf(c), trees[my[c].held.of].manifest, my[c].held.raw)'
             <=> ManifestHolds(PolicyOf(c), trees[my[c].held.of].manifest, my[c].held.raw))
    BY <1>2, <1>3, <1>6 DEF ManifestHolds, ProducerMatches, ExecutableMatches, CorpusMatches,
                            EntriesMatch
  <2> HIDE DEF Settled, PolicyOf, RunsPinned, ManifestHolds, ParsePilot, Pilot, HitsOf
  <2> QED
    BY <1>1, <1>2, <1>6, <2>1, <2>2, <2>3 DEF GateReads
<1> QED
  BY <1>8, <1>9

\* A step of EvaluateB0
LEMMA GateHoldsSteps ==
    ASSUME NEW c \in Commands, Domains, KeepsFields(c), GateHolds(c), EvaluateB0(c),
           \A a \in Commands : MeasuresWell(a), [Next]_vars
    PROVE  GateHolds(c)'
<1>1. kind[c] = "gate" /\ UNCHANGED kind
  BY GateSteps DEF Step, Local, kind
<1>2. DOMAIN my[c] = {"held", "tree", "lock", "committed", "failed"}
  BY DEF KeepsFields, NoMemory
<1>3. /\ Temp(c) \in DOMAIN entries /\ Out(c) \in DOMAIN entries
      /\ Temp(c) # Out(c) /\ Tree(c) # Nothing
  BY <1>1 DEF Domains, Names, Temp, Out, Kinds, RolesOf, Tree, Nothing
<1> USE <1>1, <1>2, <1>3 DEF Domains, Evaluates, At, Goes, Holds, Bind, Unbind, dirVars
\* What it has written is as it was, and so is the name
<1>4. ASSUME trees'[c] = trees[c], at'[c] \notin {"ruled", "measured", "reading", "written"},
             Published(c)' => Published(c)
      PROVE  GateHolds(c)'
  BY <1>4 DEF GateHolds, GateReads, GateWrites
<1>5. CASE ReadContract(c)
  <2>1. UNCHANGED <<entries, trees>>
    BY <1>5 DEF ReadContract
  <2>2. CASE at'[c] = "error"
    BY <1>4, <2>1, <2>2 DEF Published, Out
  <2>3. CASE at'[c] # "error"
    <3>1. PICK named \in Versions["pilot"] :
             /\ at'[c] = "ruled" /\ my'[c].held = [policy |-> named]
             /\ ParsePilot(Pilot[inputs["pilot"]]) /\ named = inputs["pilot"]
      BY <1>5, <2>3 DEF ReadContract
    <3>2. named \in DOMAIN Pilot
      BY DEF Versions, Pilot
    <3> HIDE DEF ParsePilot, Pilot
    <3>3. ParsePilot(Pilot[named])
      BY <3>1
    <3> QED
      BY <2>1, <3>1, <3>2, <3>3 DEF GateHolds, GateReads, GateWrites, Published, Out
  <2> QED
    BY <2>2, <2>3
<1>6. CASE ReadMeasured(c)
  <2>1. UNCHANGED <<entries, trees>> /\ at[c] = "ruled"
    BY <1>6 DEF ReadMeasured
  <2>2. CASE at'[c] = "error"
    BY <1>4, <2>1, <2>2 DEF Published, Out
  <2>3. CASE at'[c] # "error"
    <3>1. PICK a \in Commands :
             /\ kind[a] = "measure" /\ Published(a) /\ RunsPinned(PolicyOf(c), trees[a].raw)
             /\ at'[c] = "measured"
             /\ my'[c].held = Joined(my[c].held, [raw |-> trees[a].raw, of |-> a])
      BY <1>6, <2>3 DEF ReadMeasured, Measurements
    <3>2. /\ my[c].held.policy \in DOMAIN Pilot /\ ParsePilot(Pilot[my[c].held.policy])
          /\ DOMAIN my[c].held = {"policy"}
      BY <2>1 DEF GateHolds, GateReads, GateWrites
    <3>3. /\ my'[c].held.policy = my[c].held.policy /\ my'[c].held.of = a
          /\ my'[c].held.raw = trees[a].raw
      BY <3>1, <3>2 DEF Joined
    <3>6. PolicyOf(c)' = PolicyOf(c)
      BY <3>3 DEF PolicyOf
    <3> HIDE DEF ParsePilot, Pilot, RunsPinned, PolicyOf, HitsOf
    <3>7. RunsPinned(PolicyOf(c), my[c].held.raw)'
      <4>1. RunsPinned(PolicyOf(c), my[c].held.raw)' <=> RunsPinned(PolicyOf(c), trees[a].raw)
        BY <3>3, <3>6 DEF RunsPinned
      <4> QED
        BY <3>1, <4>1
    <3>8. /\ (trees[c] # Nothing =>
                /\ DOMAIN trees[c] = {"policy", "raw", "observed", "acquisition", "stray",
                                      "result"}
                /\ trees[c].result = "pilot_pass" => PassPinned(trees[c]))
          /\ (Published(c) => trees[c] # Nothing)
      BY DEF GateHolds, GateReads, GateWrites
    <3>9. (Published(c)' => Published(c)) /\ trees' = trees
      BY <2>1 DEF Published, Out
    <3> HIDE DEF PassPinned
    <3> QED
      BY <3>1, <3>2, <3>3, <3>7, <3>8, <3>9 DEF GateHolds, GateReads, GateWrites
  <2> QED
    BY <2>2, <2>3
<1>7. CASE CheckAcquisition(c)
  <2>1. UNCHANGED <<entries, trees>> /\ at[c] = "measured" /\ UNCHANGED my
    BY <1>7 DEF CheckAcquisition
  <2>2. CASE at'[c] = "error"
    BY <1>4, <2>1, <2>2 DEF Published, Out
  <2>3. CASE at'[c] # "error"
    <3>1. PICK a \in Commands : a = my[c].held.of
      BY <2>1 DEF GateHolds, GateReads, GateWrites
    <3>2. /\ Published(a) /\ at'[c] = "reading"
          /\ ManifestHolds(PolicyOf(c), trees[a].manifest, my[c].held.raw)
      BY <1>7, <2>3, <3>1 DEF CheckAcquisition
    <3>3. kind[a] = "measure"
      BY <2>1, <3>1 DEF GateHolds, GateReads, GateWrites
    <3>4. Settled(a)
      BY <3>2, <3>3 DEF MeasuresWell, Certain
    <3>5. Settled(a)' /\ trees'[a].manifest = trees[a].manifest
      BY <3>4, SettledSteps
    <3>6. Settled(my[c].held.of)'
      BY <2>1, <3>1, <3>5 DEF Settled
    <3>7. ManifestHolds(PolicyOf(c), trees[my[c].held.of].manifest, my[c].held.raw)'
      BY <2>1, <3>1, <3>2, <3>5
         DEF ManifestHolds, PolicyOf, ProducerMatches, ExecutableMatches, CorpusMatches,
             EntriesMatch
    <3>8. \A run \in Range(Sequence) : my[c].held.raw[run].hits \in HitsOf(run)
      <4>1. Whole(a) /\ trees[a].manifest = my[a].held
        BY <3>2, <3>3 DEF MeasuresWell, Certain
      <4>2. my[c].held.raw = my[a].held.entries
        BY <3>2, <4>1 DEF ManifestHolds, EntriesMatch
      <4> QED
        BY <4>1, <4>2 DEF Whole, Beside, Readings
    <3>9. GateReads(c)'
      <4>1. GateReads(c)
        BY DEF GateHolds
      <4>2. RunsPinned(PolicyOf(c), my[c].held.raw)' <=> RunsPinned(PolicyOf(c), my[c].held.raw)
        BY <2>1 DEF RunsPinned, PolicyOf
      <4> HIDE DEF Settled, PolicyOf, RunsPinned, ManifestHolds, ParsePilot, Pilot, HitsOf
      <4> QED
        BY <2>1, <3>2, <3>6, <3>7, <3>8, <4>1, <4>2 DEF GateReads
    <3>10. GateWrites(c)'
      <4> HIDE DEF PassPinned
      <4> QED
        BY <2>1, <3>2 DEF GateHolds, GateWrites, Published, Out
    <3> QED
      BY <3>9, <3>10 DEF GateHolds
  <2> QED
    BY <2>2, <2>3
<1>8. CASE WriteVerdict(c)
  <2>1. at[c] = "reading"
    BY <1>8 DEF WriteVerdict
  <2>2. CASE at'[c] = "error" /\ UNCHANGED <<entries, trees>>
    BY <1>4, <2>2 DEF Published, Out
  <2>3. CASE ~(at'[c] = "error" /\ UNCHANGED <<entries, trees>>)
    <3> DEFINE held == my[c].held
    <3>1. PICK observed \in Observed :
             /\ RecordsAdmissible(PolicyOf(c), observed.records)
             /\ ReviewBinds(observed, held.raw)
             /\ trees' = [trees EXCEPT ![c] =
                    [policy |-> held.policy, raw |-> held.raw, observed |-> observed,
                     acquisition |-> trees[held.of].manifest, stray |-> FALSE,
                     result |-> PilotVerdict(PolicyOf(c), observed)]]
             /\ at'[c] \in {"written", "error"} /\ entries'[Out(c)] = entries[Out(c)]
      <4> HIDE DEF PolicyOf, RecordsAdmissible, ReviewBinds, PilotVerdict
      <4> QED
        BY <1>8, <2>3 DEF WriteVerdict, Makes, Unnoted
    <3>2. /\ held.policy \in DOMAIN Pilot /\ ParsePilot(Pilot[held.policy])
          /\ RunsPinned(PolicyOf(c), held.raw)
          /\ \A run \in Range(Sequence) : held.raw[run].hits \in HitsOf(run)
          /\ ManifestHolds(PolicyOf(c), trees[held.of].manifest, held.raw)
      <4> HIDE DEF PolicyOf, ParsePilot, RunsPinned, HitsOf, ManifestHolds, Settled, Pilot
      <4> QED
        BY <2>1 DEF GateHolds, GateReads, GateWrites
    <3>3. PolicyOf(c) = Pilot[held.policy]
      BY DEF PolicyOf
    <3> DEFINE verdict == trees'[c]
    <3>4. /\ DOMAIN verdict = {"policy", "raw", "observed", "acquisition", "stray", "result"}
          /\ verdict.policy = held.policy /\ verdict.raw = held.raw
          /\ verdict.observed = observed /\ verdict.acquisition = trees[held.of].manifest
          /\ verdict.result = PilotVerdict(PolicyOf(c), observed)
      <4> HIDE DEF PolicyOf, PilotVerdict, held
      <4> QED
        BY <3>1
    <3> HIDE DEF held, verdict, PolicyOf, ParsePilot, RunsPinned, HitsOf, ManifestHolds, Pilot,
                 RecordsAdmissible, ReviewBinds, PilotVerdict, PassPinned
    <3>5. verdict.result = "pilot_pass" => PassPinned(verdict)
      BY <3>1, <3>2, <3>3, <3>4, VerdictPinned
    <3>6. verdict # Nothing
      BY <3>4 DEF Nothing
    <3>7. /\ (trees[c] # Nothing =>
                /\ DOMAIN trees[c] = {"policy", "raw", "observed", "acquisition", "stray",
                                      "result"}
                /\ trees[c].result = "pilot_pass" => PassPinned(trees[c]))'
          /\ at'[c] \in {"written", "error"} /\ trees'[c] # Nothing
      BY <3>1, <3>4, <3>5, <3>6 DEF verdict
    <3> QED
      BY <3>7 DEF GateHolds, GateReads, GateWrites
  <2> QED
    BY <2>2, <2>3
<1>9. CASE ReplaceVerdict(c)
  <2>1. /\ at[c] = "written" /\ at'[c] = "published" /\ UNCHANGED <<trees, my>>
    BY <1>9 DEF ReplaceVerdict
  <2> QED
    BY <2>1 DEF GateHolds, GateReads, GateWrites
<1>10. CASE ExitWithVerdict(c)
  <2>1. at'[c] = "ok" /\ UNCHANGED <<entries, trees>>
    BY <1>10 DEF ExitWithVerdict
  <2> QED
    BY <1>4, <2>1 DEF Published, Out
<1>11. CASE UnlinkVerdict(c)
  <2>1. at'[c] = "error" /\ UNCHANGED trees /\ entries'[Out(c)] = entries[Out(c)]
    BY <1>11 DEF UnlinkVerdict
  <2> QED
    BY <1>4, <2>1 DEF Published, Out
<1> QED
  BY <1>5, <1>6, <1>7, <1>8, <1>9, <1>10, <1>11 DEF EvaluateB0

\* Nothing is published before anything has run
LEMMA InitUnpublished ==
    ASSUME Init, NEW c \in Commands
    PROVE  /\ at[c] = "idle" /\ my[c] = NoMemory /\ trees[c] = Nothing
           /\ kind[c] \in Kinds => ~Published(c)
BY DEF Init, FilesInit, Published, Out, Tree, Nothing

\* What is measured is as its manifest says, after any step
LEMMA MeasuredSteps ==
    ASSUME Domains, \A c \in Commands : Tidy(c), \A c \in Commands : MeasuresWell(c),
           [Next]_vars
    PROVE  \A c \in Commands : MeasuresWell(c)'
<1> SUFFICES ASSUME NEW c \in Commands PROVE MeasuresWell(c)'
  OBVIOUS
<1>1. KeepsFields(c)
  BY DEF Tidy
<1>2. CASE Aside(c)
  BY <1>1, <1>2, MeasuresAside
<1>3. CASE Command(c)
  <2>1. UNCHANGED kind
    BY <1>3, CommandSteps DEF Step, Local, kind
  <2>2. CASE kind[c] = "measure"
    BY <1>1, <1>3, <2>2, OfItsKind, MeasuresSteps
  <2> QED
    BY <2>1, <2>2 DEF MeasuresWell
<1> QED
  BY <1>2, <1>3, LeftAside

\* So is what the gate has read and written
LEMMA GatedSteps ==
    ASSUME Domains, \A c \in Commands : Tidy(c), \A c \in Commands : MeasuresWell(c),
           \A c \in Commands : GateHolds(c), [Next]_vars
    PROVE  \A c \in Commands : GateHolds(c)'
<1> SUFFICES ASSUME NEW c \in Commands PROVE GateHolds(c)'
  OBVIOUS
<1>1. KeepsFields(c)
  BY DEF Tidy
<1>2. CASE Aside(c)
  BY <1>1, <1>2, GateAside
<1>3. CASE Command(c)
  <2>1. UNCHANGED kind
    BY <1>3, CommandSteps DEF Step, Local, kind
  <2>2. CASE kind[c] = "gate"
    BY <1>1, <1>3, <2>2, OfItsKind, GateHoldsSteps
  <2> QED
    BY <2>1, <2>2 DEF GateHolds
<1> QED
  BY <1>2, <1>3, LeftAside

\* Nothing is measured, and nothing read, before anything has run
LEMMA InitMeasured ==
    ASSUME Init, NEW c \in Commands
    PROVE  MeasuresWell(c) /\ GateHolds(c)
<1>1. at[c] = "idle" /\ trees[c] = Nothing /\ (kind[c] \in Kinds => ~Published(c))
  BY InitUnpublished
<1>2. MeasuresWell(c)
  BY <1>1 DEF MeasuresWell, Measuring, Certain, Kinds, RolesOf
<1>3. GateHolds(c)
  BY <1>1 DEF GateHolds, GateReads, GateWrites, Kinds, RolesOf
<1> QED
  BY <1>2, <1>3

\* Whatever is edited between the reads of the gate, however many measurements come
\* and go, whatever resources these find, wherever one is stopped and whatever a probe
\* it left writes over its raw runs: a pilot verdict
\* that passes is about the runs, the executable, the producer and the suites that the
\* policy it was read under pins, with every loss within the bounds of the code
THEOREM PilotPassesPinnedEver == Spec => []PilotPassesPinned
<1> DEFINE AllTidy == \A c \in Commands : Tidy(c)
           AllMeasured == \A c \in Commands : MeasuresWell(c)
           AllGated == \A c \in Commands : GateHolds(c)
<1>1. Init => Domains /\ AllTidy /\ AllMeasured /\ AllGated
  BY InitDomains, InitTidy, InitMeasured
<1>2. Domains /\ AllTidy /\ [Next]_vars => Domains' /\ AllTidy'
  BY StoreSteps, TidySteps
<1>3. Domains /\ AllTidy /\ AllMeasured /\ AllGated /\ [Next]_vars => AllMeasured' /\ AllGated'
  BY MeasuredSteps, GatedSteps
<1>4. AllGated => PilotPassesPinned
  BY DEF GateHolds, GateWrites, PilotPassesPinned
<1> HIDE DEF AllTidy, AllMeasured, AllGated
<1> QED
  BY <1>1, <1>2, <1>3, <1>4, PTL DEF Spec

------------------------------------------------------------------------------
(* What evidence reported as published is                                  *)

\* A manifest of the objective acquisition says what the runs come to
Judged(manifest) ==
    /\ DOMAIN manifest = {"raw", "sources", "passed"}
    /\ manifest.passed = Within800(manifest.raw["B0"], manifest.raw["H0"])

\* The fields of its tree
Laid(tree) == DOMAIN tree = {"sources", "raw", "manifest", "stray"}

\* A tree is what its manifest says, and no more
Trusty(tree) ==
    /\ Laid(tree) /\ ~tree.stray
    /\ tree.manifest.raw = tree.raw
    /\ tree.manifest.sources = tree.sources
    /\ Judged(tree.manifest)

\* Where the acquisition still has its runs in memory
Acquiring ==
    {"reading", "absent", "locked", "probe", "exited", "scored", "written"}

\* The memory of the objective acquisition, and the tree from its last look at the
\* files on: as they were when a probe had run, or written into where nothing looks
AcquiresWell(c) ==
    kind[c] = "objective" =>
        /\ at[c] \in Acquiring =>
              /\ DOMAIN my[c].held = {"sources", "raw", "manifest"}
              /\ \A run \in DOMAIN my[c].held.raw : my[c].held.raw[run] \in DOMAIN Score
        /\ at[c] \in {"reading", "absent", "locked"} => my[c].held.raw = Nothing
        /\ at[c] \in {"probe", "exited", "scored", "written"} => Laid(trees[c])
        /\ at[c] \in {"probe", "exited"} => DOMAIN my[c].held.raw \in {{}, {"H0"}}
        /\ at[c] = "scored" => DOMAIN my[c].held.raw = {"H0", "B0"}
        /\ at[c] = "written" =>
              /\ Judged(my[c].held.manifest)
              /\ my[c].held.manifest.raw = my[c].held.raw
              /\ my[c].held.manifest.sources = my[c].held.sources
        /\ at[c] \in {"checked", "assured", "unlocking", "ok"} =>
              Trusty(trees[c]) \/ c \in late
        /\ at[c] \in {"captured", "frozen", "published"} =>
              Trusty(my[c].tree) \/ c \in late
        /\ at[c] \in {"cleanup", "discard"} => my[c].failed # "no"
        /\ at[c] = "closing" /\ my[c].failed = "no" => Trusty(trees[c]) \/ c \in late

\* A generation that was sealed is whole when its command ends
SealsWell(c) ==
    kind[c] = "seal" /\ at[c] = "ok" =>
        c \in late \/ (trees[c].whole /\ ~trees[c].stray)

\* The runs of the objective come in their order
LEMMA NextOfRuns ==
    ASSUME NEW c \in Commands
    PROVE  /\ DOMAIN my[c].held.raw = {} => NextRun(c) = "H0"
           /\ DOMAIN my[c].held.raw = {"H0"} => NextRun(c) = "B0"
<1>1. RunSequence = <<"H0", "B0">>
  BY DEF RunSequence
<1>2. \A S : (S = {} => Cardinality(S) = 0) /\ (S = {"H0"} => Cardinality(S) = 1)
  BY FS_EmptySet, FS_Singleton
<1>3. NextRun(c) = RunSequence[Cardinality(DOMAIN my[c].held.raw) + 1]
  BY DEF NextRun, Memory
<1> QED
  BY <1>1, <1>2, <1>3

\* While others work, a tree is written into and the command notices, or it is late
LEMMA AcquiresAside ==
    ASSUME NEW c \in Commands, KeepsFields(c), AcquiresWell(c), SealsWell(c), Aside(c)
    PROVE  AcquiresWell(c)' /\ SealsWell(c)'
<1>1. /\ UNCHANGED kind /\ late \subseteq late'
      /\ at'[c] = at[c] \/ at'[c] \in {"killed", "cleanup", "error"}
      /\ at'[c] \in {"checked", "assured", "unlocking", "closing", "ok"} =>
            trees'[c] = trees[c] \/ c \in late'
  BY DEF Aside, Unwatched, Ended, CleaningUp
<1>2. /\ my'[c].held = my[c].held /\ my'[c].tree = my[c].tree
      /\ \/ at'[c] = at[c] /\ my'[c].failed = my[c].failed
         \/ at'[c] \in {"killed", "error"}
         \/ at'[c] = "cleanup" /\ my'[c].failed = "interrupt"
  <2>1. DOMAIN my[c] = {"held", "tree", "lock", "committed", "failed"}
    BY DEF KeepsFields, NoMemory
  <2> QED
    BY <2>1 DEF Aside
<1>3. Laid(trees[c]) => Laid(trees[c])'
  BY DEF Laid, Aside
<1>4. Trusty(trees[c]) /\ trees'[c] = trees[c] => Trusty(trees[c])'
  BY DEF Trusty, Laid, Judged
<1>5. Trusty(my[c].tree) => Trusty(my[c].tree)'
  BY <1>2 DEF Trusty, Laid, Judged
<1>6. Judged(my[c].held.manifest) => Judged(my[c].held.manifest)'
  BY <1>2 DEF Judged
<1> HIDE DEF Trusty, Laid, Judged
<1> QED
  BY <1>1, <1>2, <1>3, <1>4, <1>5, <1>6 DEF AcquiresWell, SealsWell, Acquiring

\* A step of AcquireObjective
LEMMA AcquiresSteps ==
    ASSUME NEW c \in Commands, Domains, KeepsFields(c), AcquiresWell(c), AcquireObjective(c)
    PROVE  AcquiresWell(c)'
<1>1. kind[c] = "objective" /\ UNCHANGED kind /\ late \subseteq late'
  BY ObjectiveSteps DEF Step, Local, TypeStep, kind
<1>2. DOMAIN my[c] = {"held", "tree", "lock", "committed", "failed"}
  BY DEF KeepsFields, NoMemory
<1> USE <1>1, <1>2 DEF Domains, Objective, At, Goes, Holds, Raises, Requires, Fails, dirVars,
        Memory
\* An error: nothing more is said of the tree
<1>3. ASSUME at'[c] \in {"error", "cleanup", "discard", "closing", "committed"},
             my'[c].failed # "no" \/ at'[c] \in {"error", "committed"}
      PROVE  AcquiresWell(c)'
  BY <1>3 DEF AcquiresWell, Acquiring
\* The command only goes on
<1>4. ASSUME trees'[c] = trees[c], my'[c].held = my[c].held, my'[c].tree = my[c].tree
      PROVE  /\ Trusty(trees[c]) <=> Trusty(trees[c])'
             /\ Trusty(my[c].tree) <=> Trusty(my[c].tree)'
             /\ Laid(trees[c]) <=> Laid(trees[c])'
             /\ Judged(my[c].held.manifest) <=> Judged(my[c].held.manifest)'
  BY <1>4 DEF Trusty, Laid, Judged
<1>5. CASE ReadInputs(c)
  <2>1. CASE at'[c] = "error"
    BY <1>3, <2>1
  <2>2. CASE at'[c] # "error"
    <3>1. /\ at'[c] = "reading" /\ my'[c].held.raw = Nothing
          /\ DOMAIN my'[c].held = {"sources", "raw", "manifest"}
      BY <1>5, <2>2 DEF ReadInputs
    <3> QED
      BY <3>1 DEF AcquiresWell, Acquiring, Nothing
  <2> QED
    BY <2>1, <2>2
<1>6. CASE CheckOutput(c) \/ TakeLock(c)
  <2>1. CASE at'[c] = "cleanup"
    <3>1. my'[c].failed # "no"
      BY <1>6, <2>1 DEF CheckOutput, TakeLock, CreatesLock, Unnoted
    <3> QED
      BY <1>3, <2>1, <3>1
  <2>2. CASE at'[c] # "cleanup"
    <3>1. /\ at[c] \in {"reading", "absent"} /\ at'[c] \in {"absent", "locked"}
          /\ my'[c].held = my[c].held
      BY <1>6, <2>2 DEF CheckOutput, TakeLock, CreatesLock, Unnoted
    <3> QED
      BY <3>1 DEF AcquiresWell, Acquiring
  <2> QED
    BY <2>1, <2>2
<1>7. CASE CopyInputs(c)
  <2>1. CASE at'[c] = "cleanup"
    <3>1. my'[c].failed # "no"
      BY <1>7, <2>1 DEF CopyInputs, Unnoted
    <3> QED
      BY <1>3, <2>1, <3>1
  <2>2. CASE at'[c] # "cleanup"
    <3>1. /\ at[c] = "locked" /\ at'[c] = "probe" /\ my' = my
          /\ trees'[c] = [sources |-> my[c].held.sources, raw |-> Nothing,
                          manifest |-> Nothing, stray |-> FALSE]
      BY <1>7, <2>2 DEF CopyInputs, Unnoted
    <3>2. Laid(trees[c])'
      BY <3>1 DEF Laid
    <3>3. DOMAIN my[c].held.raw = {}
      BY <3>1 DEF AcquiresWell, Nothing
    <3> QED
      BY <3>1, <3>2, <3>3 DEF AcquiresWell, Acquiring
  <2> QED
    BY <2>1, <2>2
<1>8. CASE RunProbe(c)
  <2>1. CASE at'[c] = "cleanup"
    <3>1. my'[c].failed # "no"
      <4> HIDE DEF Memory, ObjectivePassed, CopiesHold, InputsHold
      <4> QED
        BY <1>8, <2>1 DEF RunProbe
    <3> QED
      BY <1>3, <2>1, <3>1
  <2>2. CASE at'[c] # "cleanup"
    <3>1. PICK result \in Results(NextRun(c)) :
             /\ at[c] = "probe" /\ at'[c] = "exited" /\ my' = my
             /\ trees'[c] = [trees[c] EXCEPT !.raw = Recorded(@, NextRun(c), result)]
      <4> HIDE DEF Memory
      <4> QED
        BY <1>8, <2>2 DEF RunProbe
    <3>2. Laid(trees[c])'
      <4> HIDE DEF Memory
      <4> QED
        BY <3>1 DEF Laid, AcquiresWell
    <3> QED
      BY <3>1, <3>2 DEF AcquiresWell, Acquiring
  <2> QED
    BY <2>1, <2>2
<1>9. CASE ReadRun(c)
  <2>1. CASE at'[c] = "cleanup"
    <3>1. my'[c].failed # "no"
      <4> HIDE DEF Memory, ObjectivePassed, CopiesHold, InputsHold
      <4> QED
        BY <1>9, <2>1 DEF ReadRun
    <3> QED
      BY <1>3, <2>1, <3>1
  <2>2. CASE at'[c] # "cleanup"
    <3> DEFINE run == NextRun(c)
               result == trees[c].raw[run]
    <3>1. /\ at[c] = "exited" /\ at'[c] = IF run = "B0" THEN "scored" ELSE "probe"
          /\ result \in DOMAIN Score /\ trees' = trees
          /\ my' = [my EXCEPT ![c].held.raw = Recorded(@, run, result)]
      BY <1>9, <2>2 DEF ReadRun, Readable
    <3>2. /\ DOMAIN my[c].held = {"sources", "raw", "manifest"}
          /\ \A r \in DOMAIN my[c].held.raw : my[c].held.raw[r] \in DOMAIN Score
          /\ DOMAIN my[c].held.raw \in {{}, {"H0"}} /\ Laid(trees[c])
      BY <3>1 DEF AcquiresWell, Acquiring
    <3> HIDE DEF run, result
    <3>3. /\ DOMAIN my'[c].held = {"sources", "raw", "manifest"}
          /\ my'[c].held.raw = Recorded(my[c].held.raw, run, result)
      BY <3>1, <3>2
    <3>4. /\ DOMAIN my'[c].held.raw = DOMAIN my[c].held.raw \cup {run}
          /\ \A r \in DOMAIN my'[c].held.raw : my'[c].held.raw[r] \in DOMAIN Score
      BY <3>1, <3>2, <3>3 DEF Recorded, Joined
    <3>5. Laid(trees[c])'
      BY <3>1, <3>2 DEF Laid
    <3>6. CASE DOMAIN my[c].held.raw = {}
      <4>1. run = "H0"
        BY <3>6, NextOfRuns DEF run
      <4> QED
        BY <3>1, <3>3, <3>4, <3>5, <3>6, <4>1 DEF AcquiresWell, Acquiring
    <3>7. CASE DOMAIN my[c].held.raw = {"H0"}
      <4>1. run = "B0"
        BY <3>7, NextOfRuns DEF run
      <4> QED
        BY <3>1, <3>3, <3>4, <3>5, <3>7, <4>1 DEF AcquiresWell, Acquiring
    <3> QED
      BY <3>2, <3>6, <3>7
  <2> QED
    BY <2>1, <2>2
<1>10. CASE WriteManifest(c)
  <2>1. CASE at'[c] = "cleanup"
    <3>1. my'[c].failed # "no"
      <4> HIDE DEF Memory, ObjectivePassed, CopiesHold, InputsHold
      <4> QED
        BY <1>10, <2>1 DEF WriteManifest
    <3> QED
      BY <1>3, <2>1, <3>1
  <2>2. CASE at'[c] # "cleanup"
    <3> DEFINE raw == my[c].held.raw
               manifest == [raw |-> raw, sources |-> my[c].held.sources,
                            passed |-> ObjectivePassed(raw["H0"], raw["B0"])]
    <3>1. /\ at[c] = "scored" /\ at'[c] = "written"
          /\ trees'[c] = [trees[c] EXCEPT !.manifest = manifest]
          /\ my' = [my EXCEPT ![c].held.manifest = manifest]
      <4> HIDE DEF ObjectivePassed, CopiesHold, InputsHold
      <4> QED
        BY <1>10, <2>2 DEF WriteManifest
    <3>2. /\ DOMAIN my[c].held = {"sources", "raw", "manifest"}
          /\ \A r \in DOMAIN raw : raw[r] \in DOMAIN Score
          /\ DOMAIN raw = {"H0", "B0"} /\ Laid(trees[c])
      BY <3>1 DEF AcquiresWell, Acquiring
    <3>3. Judged(manifest)
      BY <3>2, ObjectiveIsWithin DEF Judged
    <3>4. manifest.raw = my[c].held.raw /\ manifest.sources = my[c].held.sources
      OBVIOUS
    <3> HIDE DEF manifest, raw
    <3>5. /\ my'[c].held.manifest = manifest /\ my'[c].held.raw = my[c].held.raw
          /\ my'[c].held.sources = my[c].held.sources
          /\ DOMAIN my'[c].held = {"sources", "raw", "manifest"}
      BY <3>1, <3>2
    <3>6. Judged(my[c].held.manifest)'
      BY <3>3, <3>5 DEF Judged
    <3>7. Laid(trees[c])'
      BY <3>1, <3>2 DEF Laid
    <3>8. \A r \in DOMAIN my'[c].held.raw : my'[c].held.raw[r] \in DOMAIN Score
      BY <3>2, <3>5 DEF raw
    <3> QED
      BY <3>1, <3>4, <3>5, <3>6, <3>7, <3>8 DEF AcquiresWell, Acquiring
  <2> QED
    BY <2>1, <2>2
<1>11. CASE CheckFiles(c)
  <2>1. CASE at'[c] = "cleanup"
    <3>1. my'[c].failed # "no"
      <4> HIDE DEF Memory, ObjectivePassed, CopiesHold, InputsHold
      <4> QED
        BY <1>11, <2>1 DEF CheckFiles
    <3> QED
      BY <1>3, <2>1, <3>1
  <2>2. CASE at'[c] # "cleanup"
    <3>1. /\ at[c] = "written" /\ at'[c] = "checked" /\ trees' = trees
          /\ ~trees[c].stray /\ trees[c].sources = my[c].held.sources
          /\ trees[c].raw = my[c].held.raw /\ trees[c].manifest = my[c].held.manifest
      BY <1>11, <2>2 DEF CheckFiles, CopiesHold, OutputsHold
    <3>2. Trusty(trees[c])
      BY <3>1 DEF AcquiresWell, Trusty
    <3>3. Trusty(trees[c])'
      BY <3>1, <3>2 DEF Trusty, Laid, Judged
    <3> QED
      BY <3>1, <3>3 DEF AcquiresWell, Acquiring
  <2> QED
    BY <2>1, <2>2
<1>12. CASE CaptureTree(c)
  <2>1. /\ at[c] = "checked" /\ at'[c] = "captured" /\ my'[c].tree = trees[c]
    BY <1>12 DEF CaptureTree
  <2>2. Trusty(trees[c]) <=> Trusty(my[c].tree)'
    BY <2>1 DEF Trusty, Laid, Judged
  <2> QED
    BY <2>1, <2>2 DEF AcquiresWell, Acquiring
<1>13. CASE FreezeTree(c) \/ Publish(c)
  <2>1. CASE at'[c] = "cleanup"
    <3>1. my'[c].failed # "no"
      BY <1>13, <2>1 DEF FreezeTree, Publish, Renames, RefusesToReplace
    <3> QED
      BY <1>3, <2>1, <3>1
  <2>2. CASE at'[c] # "cleanup"
    <3>1. /\ at[c] \in {"captured", "frozen"} /\ at'[c] \in {"frozen", "published"}
          /\ trees' = trees /\ my'[c].held = my[c].held /\ my'[c].tree = my[c].tree
      BY <1>13, <2>2 DEF FreezeTree, Publish, Renames, RefusesToReplace
    <3> QED
      BY <1>4, <3>1 DEF AcquiresWell, Acquiring
  <2> QED
    BY <2>1, <2>2
<1>14. CASE VerifyPublished(c)
  <2>1. CASE at'[c] = "cleanup"
    <3>1. my'[c].failed # "no"
      BY <1>14, <2>1 DEF VerifyPublished
    <3> QED
      BY <1>3, <2>1, <3>1
  <2>2. CASE at'[c] # "cleanup"
    <3>1. /\ at[c] = "published" /\ at'[c] = "assured" /\ trees'[c] = my[c].tree
      BY <1>14, <2>2 DEF VerifyPublished
    <3>2. Trusty(my[c].tree) <=> Trusty(trees[c])'
      BY <3>1 DEF Trusty, Laid, Judged
    <3> QED
      BY <3>1, <3>2 DEF AcquiresWell, Acquiring
  <2> QED
    BY <2>1, <2>2
<1>15. CASE CheckLock(c) \/ Unlock(c)
  <2>1. CASE at'[c] = "cleanup"
    <3>1. my'[c].failed # "no"
      BY <1>15, <2>1 DEF CheckLock, Unlock
    <3> QED
      BY <1>3, <2>1, <3>1
  <2>2. CASE at'[c] # "cleanup"
    <3>1. /\ at[c] \in {"assured", "unlocking"} /\ at'[c] \in {"unlocking", "closing"}
          /\ trees' = trees /\ my'[c].held = my[c].held /\ my'[c].tree = my[c].tree
      BY <1>15, <2>2 DEF CheckLock, Unlock
    <3> QED
      BY <1>4, <3>1 DEF AcquiresWell, Acquiring
  <2> QED
    BY <2>1, <2>2
<1>16. CASE CleanLock(c) \/ Discard(c)
  <2>1. /\ at[c] \in {"cleanup", "discard"} /\ at'[c] \in {"discard", "closing"}
        /\ my'[c].failed = my[c].failed
    BY <1>16 DEF CleanLock, Discard
  <2> QED
    BY <1>3, <2>1 DEF AcquiresWell
<1>17. CASE Report(c)
  <2>1. /\ at[c] = "closing" /\ UNCHANGED <<trees, my>>
        /\ at'[c] \in {"ok", "committed", "error"} /\ (at'[c] = "ok" => my[c].failed = "no")
    BY <1>17 DEF Report, EndsWell
  <2> QED
    BY <1>3, <1>4, <2>1 DEF AcquiresWell, Acquiring
<1> QED
  BY <1>5, <1>6, <1>7, <1>8, <1>9, <1>10, <1>11, <1>12, <1>13, <1>14, <1>15, <1>16, <1>17
     DEF AcquireObjective

\* A step of SealCorpus
LEMMA SealsSteps ==
    ASSUME NEW c \in Commands, Domains, SealCorpus(c)
    PROVE  SealsWell(c)'
<1> USE DEF Domains, Seals, At, Goes, Raises, Requires, dirVars
<1>1. CASE VerifyGeneration(c)
  BY <1>1 DEF VerifyGeneration, SealsWell
<1>2. CASE ~VerifyGeneration(c)
  <2>1. at'[c] # "ok"
    BY <1>2 DEF SealCorpus, PrepareSnapshot, MakeStaging, Makes, Unnoted, WriteStaging,
                PublishGeneration,
                Renames, RefusesToReplace, RemoveStaging
  <2> QED
    BY <2>1 DEF SealsWell
<1> QED
  BY <1>1, <1>2

\* What is acquired and sealed stays trustworthy, after any step
LEMMA TrustySteps ==
    ASSUME Domains, \A c \in Commands : Tidy(c),
           \A c \in Commands : AcquiresWell(c) /\ SealsWell(c), [Next]_vars
    PROVE  \A c \in Commands : AcquiresWell(c)' /\ SealsWell(c)'
<1> SUFFICES ASSUME NEW c \in Commands PROVE AcquiresWell(c)' /\ SealsWell(c)'
  OBVIOUS
<1>1. KeepsFields(c)
  BY DEF Tidy
<1>2. CASE Aside(c)
  BY <1>1, <1>2, AcquiresAside
<1>3. CASE Command(c)
  <2>1. UNCHANGED kind
    BY <1>3, CommandSteps DEF Step, Local, kind
  <2>2. AcquiresWell(c)'
    <3>1. CASE kind[c] = "objective"
      BY <1>1, <1>3, <3>1, OfItsKind, AcquiresSteps
    <3> QED
      BY <2>1, <3>1 DEF AcquiresWell
  <2>3. SealsWell(c)'
    <3>1. CASE kind[c] = "seal"
      BY <1>3, <3>1, OfItsKind, SealsSteps
    <3> QED
      BY <2>1, <3>1 DEF SealsWell
  <2> QED
    BY <2>2, <2>3
<1> QED
  BY <1>2, <1>3, LeftAside

\* Whatever is edited, written or removed before the last look at the tree, and
\* whatever the probes write: evidence that a command reports as published is what it
\* read, ran and checked, to the last byte, and the verdict it carries on the candidate
\* is the one its raw runs come to, within bounds that the code only rounds.  The
\* measurement looks at a raw run last when its probe has ended
THEOREM EvidenceAuthenticEver == Spec => []EvidenceAuthentic
<1> DEFINE AllTidy == \A c \in Commands : Tidy(c)
           AllMeasured == \A c \in Commands : MeasuresWell(c)
           AllTrusty == \A c \in Commands : AcquiresWell(c) /\ SealsWell(c)
<1>1. Init => Domains /\ AllTidy /\ AllMeasured
  BY InitDomains, InitTidy, InitMeasured
<1>2. Init => AllTrusty
  BY InitUnpublished DEF AcquiresWell, SealsWell, Acquiring
<1>3. Domains /\ AllTidy /\ [Next]_vars => Domains' /\ AllTidy'
  BY StoreSteps, TidySteps
<1>4. Domains /\ AllTidy /\ AllMeasured /\ [Next]_vars => AllMeasured'
  BY MeasuredSteps
<1>5. Domains /\ AllTidy /\ AllTrusty /\ [Next]_vars => AllTrusty'
  BY TrustySteps
<1>6. AllMeasured /\ AllTrusty => EvidenceAuthentic
  <2> SUFFICES ASSUME NEW c \in Commands, MeasuresWell(c), AcquiresWell(c), SealsWell(c),
                      at[c] = "ok", c \notin late
               PROVE  /\ kind[c] = "objective" =>
                            LET manifest == trees[c].manifest
                            IN /\ ~trees[c].stray
                               /\ manifest.raw = trees[c].raw
                               /\ manifest.sources = trees[c].sources
                               /\ manifest.passed =
                                     Within800(manifest.raw["B0"], manifest.raw["H0"])
                      /\ kind[c] = "seal" => trees[c].whole /\ ~trees[c].stray
                      /\ kind[c] = "measure" =>
                            /\ trees[c].manifest.entries = trees[c].raw
                            /\ DOMAIN trees[c].raw = Range(Sequence)
                            /\ \A run \in DOMAIN trees[c].raw :
                                  trees[c].raw[run].corpus = trees[c].manifest.corpus
    BY DEF EvidenceAuthentic
  <2>1. kind[c] = "objective" => Trusty(trees[c])
    BY DEF AcquiresWell
  <2>2. kind[c] = "measure" => Whole(c) /\ trees[c].manifest = my[c].held
    BY DEF MeasuresWell, Certain
  <2> QED
    BY <2>1, <2>2 DEF Trusty, Judged, SealsWell, Whole, Kept, Beside, Readings
<1> HIDE DEF AllTidy, AllMeasured, AllTrusty
<1> QED
  BY <1>1, <1>2, <1>3, <1>4, <1>5, <1>6, PTL DEF Spec

------------------------------------------------------------------------------
(* What a continuation with B1 rests on                                    *)

\* Some authorizer has started
Begun == \E a \in Commands : kind[a] = "authorize" /\ at[a] # "idle"

\* A decision taken from the accepted evidence under a policy that parses
Grounded(held) ==
    /\ ParsePolicy(Formal[held.policy])
    /\ held.document = Authorization(held.policy, "fixed")

\* A diagnosis of the raw run against the baseline
Reported(held) ==
    /\ held.baseline = "base" /\ held.raw.hits \in DOMAIN Score
    /\ held.report = DiagnosticReport(held.baseline, held.raw.hits, held.document)

\* The tree that is renamed is the memory of the command
Exact(c) == DOMAIN trees[c] = {"content", "stray"} /\ trees[c].content = my[c].held

\* Behind the command's last look at everything it rests on
Vouched(c) == at[c] = "frozen" \/ Published(c)

ContinuesWell(c) ==
    kind[c] = "b1" =>
        LET held == my[c].held
        IN /\ at[c] \in {"authorized", "reading", "probe", "exited", "reported", "verified",
                         "boundary"} \/ Vouched(c) => Begun
           /\ at[c] = "gated" => DOMAIN held = {"policy"}
           /\ at[c] = "authorized" => DOMAIN held = {"policy", "document"}
           /\ at[c] \in {"reading", "probe", "exited"} =>
                 /\ DOMAIN held = {"policy", "document", "baseline", "candidate", "sources"}
                 /\ held.baseline = "base"
           /\ at[c] \in {"reported", "verified", "boundary"} => Reported(held)
           /\ Vouched(c) => Exact(c) /\ Grounded(held) /\ Reported(held)
           /\ at[c] = "ok" /\ trees[c].stray => c \in late

\* Every input is at one of its versions, so the evidence is
InputsKnown == DOMAIN inputs = Roles /\ \A role \in Roles : inputs[role] \in Versions[role]

\* The evidence is one that is known
LEMMA EvidenceIsKnown == InputsKnown => inputs["evidence"] \in DOMAIN Evidence
BY DEF InputsKnown, Roles, Versions, Evidence

\* Evidence that the policy accepts is the accepted evidence, to the last field: the
\* digest leaves out the name it has been published under, the raw runs hold that
LEMMA AcceptedAlone ==
    ASSUME NEW v \in DOMAIN Evidence, NEW p, ParsePolicy(p), EvidenceHolds(p, Evidence[v])
    PROVE  Evidence[v] = Accepted
<1> DEFINE e == Evidence[v]
<1>1. DOMAIN Accepted = {"leaf", "files", "mode", "dictionary", "b0", "corpus", "manifest",
                         "raw", "reports", "objective"}
      /\ Accepted.leaf = AcceptedLeaf
      /\ Accepted.raw["H0"].root = AcceptedLeaf
      /\ DOMAIN Accepted.raw = {"H0", "B0"}
  BY DEF Accepted, RawRun
<1>2. Accepted = [f \in DOMAIN Accepted |-> Accepted[f]]
  BY DEF Accepted
<1> HIDE DEF Accepted
<1>3. e = [f \in DOMAIN Accepted |-> e[f]]
  <2>1. CASE v = "fixed"
    BY <1>2, <2>1 DEF Evidence
  <2>2. CASE v = "edited"
    BY <1>2, <2>2 DEF Evidence
  <2>3. CASE v = "renamed"
    BY <1>2, <2>3 DEF Evidence
  <2>4. CASE v = "writable"
    BY <1>2, <2>4 DEF Evidence
  <2> QED
    BY <2>1, <2>2, <2>3, <2>4 DEF Evidence
<1> HIDE DEF e
<1>4. p.trust.tree = "fixed"
  BY DEF ParsePolicy, TrustedAcquisition, FrozenTrust
<1>5. TreeDigest(e) = "fixed" /\ RawValid(p, e)
  BY <1>4 DEF EvidenceHolds, e
<1>6. [e EXCEPT !.leaf = AcceptedLeaf] = Accepted
  BY <1>5 DEF TreeDigest
<1>7. \A f \in DOMAIN Accepted \ {"leaf"} : e[f] = Accepted[f]
  BY <1>1, <1>3, <1>6
<1>8. e.leaf = AcceptedLeaf
  <2>1. e.raw = Accepted.raw
    BY <1>1, <1>7
  <2>2. HistoricalRoot(e, "H0")
    BY <1>5 DEF RawValid
  <2> QED
    BY <1>1, <2>1, <2>2 DEF HistoricalRoot
<1>9. \A f \in DOMAIN Accepted : e[f] = Accepted[f]
  BY <1>1, <1>7, <1>8
<1> QED
  BY <1>2, <1>3, <1>9 DEF e

\* The baseline is the same in every version of the evidence
LEMMA BaselineIsBase ==
    ASSUME NEW v \in DOMAIN Evidence
    PROVE  Evidence[v].raw["H0"].hits = "base"
<1>1. Accepted.raw["H0"].hits = "base"
      /\ DOMAIN Accepted = {"leaf", "files", "mode", "dictionary", "b0", "corpus", "manifest",
                            "raw", "reports", "objective"}
  BY DEF Accepted, RawRun
<1> HIDE DEF Accepted
<1>2. Evidence[v].raw = Accepted.raw
  <2>1. CASE v = "fixed"
    BY <1>1, <2>1 DEF Evidence
  <2>2. CASE v = "edited"
    BY <1>1, <2>2 DEF Evidence
  <2>3. CASE v = "renamed"
    BY <1>1, <2>3 DEF Evidence
  <2>4. CASE v = "writable"
    BY <1>1, <2>4 DEF Evidence
  <2> QED
    BY <2>1, <2>2, <2>3, <2>4 DEF Evidence
<1> QED
  BY <1>1, <1>2

\* A decision that is verified is the one on the accepted evidence
LEMMA VerifiedRests ==
    ASSUME InputsKnown, NEW document, Verified(document)
    PROVE  /\ ParsePolicy(Formal[inputs["policy"]])
           /\ document = Authorization(inputs["policy"], "fixed")
<1>1. /\ ParsePolicy(Formal[inputs["policy"]])
      /\ EvidenceHolds(Formal[inputs["policy"]], Evidence[inputs["evidence"]])
      /\ document = Authorization(inputs["policy"], inputs["evidence"])
  BY DEF Verified, LoadPolicy, Evaluable
<1>2. Evidence[inputs["evidence"]] = Accepted
  BY <1>1, AcceptedAlone, EvidenceIsKnown
<1>3. Evidence["fixed"] = Accepted
  BY DEF Evidence
<1> HIDE DEF Evidence, Accepted
<1> QED
  BY <1>1, <1>2, <1>3 DEF Authorization

\* An input is edited, to another of its versions, and nothing else happens to it
LEMMA InputsKnownSteps ==
    ASSUME Domains, InputsKnown, [Next]_vars
    PROVE  InputsKnown'
<1>1. CASE \E role \in Roles : EditInput(role)
  <2>1. PICK role \in Roles : EditInput(role)
    BY <1>1
  <2>2. PICK version \in Versions[role] : inputs' = [inputs EXCEPT ![role] = version]
    BY <2>1 DEF EditInput
  <2> QED
    BY <2>2 DEF InputsKnown
<1>2. CASE UNCHANGED inputs
  BY <1>2 DEF InputsKnown
<1>3. ASSUME NEW c \in Commands, Command(c)
      PROVE  UNCHANGED inputs
  BY <1>3, CommandSteps DEF Step, TypeStep
<1> QED
  BY <1>1, <1>2, <1>3 DEF Next, Around, WriteTree, ForeignOutput, Kill, Interrupt, Abandon,
                          RemoveLock, MoveDirectory, Done, vars, aroundVars

\* They start at the versions that are fixed
LEMMA InitKnown == Init => InputsKnown
BY DEF Init, FilesInit, InputsKnown, Roles, Versions, Evidence

\* An authorizer that has started does not become idle again
LEMMA BegunSteps ==
    ASSUME Domains, Begun, [Next]_vars
    PROVE  Begun'
<1>1. PICK a \in Commands : kind[a] = "authorize" /\ at[a] # "idle"
  BY DEF Begun
<1>2. CASE Aside(a)
  BY <1>1, <1>2 DEF Aside, Begun
<1>3. CASE Command(a)
  <2>1. Authorize(a) /\ UNCHANGED kind
    BY <1>1, <1>3, OfItsKind, CommandSteps DEF Step, Local, kind
  <2>2. at'[a] # "idle"
    BY <2>1 DEF Authorize, ReadRule, DecideB1, WriteDocument, Makes, Unnoted,
       PublishDocument, ReadBack, RollBack, Renames, RefusesToReplace, Requires, Raises, Goes,
       Authorizes, At, Domains
  <2> QED
    BY <1>1, <2>1, <2>2 DEF Begun
<1> QED
  BY <1>2, <1>3, LeftAside

\* A document that can be read was published by an authorizer
LEMMA DocumentIsBegun ==
    ASSUME \A c \in Commands : Honest(c), Document # Nothing
    PROVE  Begun
<1>1. PICK a \in Commands : kind[a] = "authorize" /\ Published(a)
  BY DEF Document
<1>2. at[a] # "idle"
  <2>1. kind[a] \in Kinds \ Suites
    BY <1>1 DEF Kinds, RolesOf, Suites
  <2>2. ~Rising(a)
    BY <1>1, <2>1 DEF Honest, Accounts
  <2> QED
    BY <2>2 DEF Rising, Ended
<1> QED
  BY <1>1, <1>2 DEF Begun

\* The scenario is what it was from the start
LEMMA ScenarioStays ==
    ASSUME Domains, [Next]_vars
    PROVE  UNCHANGED scenario
<1>1. ASSUME NEW c \in Commands, Command(c)
      PROVE  UNCHANGED scenario
  BY <1>1, CommandSteps DEF Step, Local
<1> QED
  BY <1>1 DEF Next, Around, EditInput, WriteTree, ForeignOutput, Kill, Interrupt, Abandon,
              RemoveLock, MoveDirectory, Done, vars

\* A document says the same as long as the scenario is the same
LEMMA SameAuthorization ==
    ASSUME UNCHANGED scenario, NEW c \in Commands, my'[c].held = my[c].held
    PROVE  Grounded(my[c].held) => Grounded(my[c].held)'
<1> DEFINE policy == my[c].held.policy
           e == Evidence["fixed"]
<1>1. (RevisionReady(revision))' <=> RevisionReady(revision)
  BY DEF RevisionReady, revision
<1>2. revision' = revision
  BY DEF revision
<1>3. FailedMandatory(e)' = FailedMandatory(e)
  BY <1>1, <1>2 DEF FailedMandatory
<1> QED
  BY <1>3 DEF Grounded, Authorization

\* A continuation is not undone by what others do
LEMMA ContinuesAside ==
    ASSUME NEW c \in Commands, KeepsFields(c), UNCHANGED scenario, Begun => Begun',
           ContinuesWell(c), Aside(c)
    PROVE  ContinuesWell(c)'
<1> SUFFICES ASSUME kind[c] = "b1" PROVE ContinuesWell(c)'
  BY DEF ContinuesWell, Aside
<1>1. /\ kind'[c] = "b1" /\ (Published(c)' => Published(c))
      /\ at'[c] = at[c] \/ at'[c] \in {"killed", "cleanup", "error"}
      /\ late \subseteq late'
  BY DEF Aside, Kinds, RolesOf
<1>2. my'[c].held = my[c].held
  <2>1. DOMAIN my[c] = {"held", "tree", "lock", "committed", "failed"}
    BY DEF KeepsFields, NoMemory
  <2> QED
    BY <2>1 DEF Aside
<1>3. Vouched(c)' => Vouched(c)
  BY <1>1 DEF Vouched
<1>4. Exact(c) => Exact(c)'
  BY <1>2 DEF Exact, Aside
<1>5. Grounded(my[c].held) => Grounded(my[c].held)'
  BY <1>2, SameAuthorization
<1>6. Reported(my[c].held) => Reported(my[c].held)'
  BY <1>2 DEF Reported
<1>7. at'[c] = "ok" => trees'[c] = trees[c] \/ c \in late'
  BY DEF Aside, Unwatched, Ended
<1> HIDE DEF Begun, Vouched, Exact, Grounded, Reported
<1> QED
  BY <1>1, <1>2, <1>3, <1>4, <1>5, <1>6, <1>7 DEF ContinuesWell

\* A step of ContinueB1
LEMMA ContinuesSteps ==
    ASSUME NEW c \in Commands, Domains, KeepsFields(c), \A a \in Commands : Honest(a),
           InputsKnown, Begun => Begun', ContinuesWell(c), ContinueB1(c)
    PROVE  ContinuesWell(c)'
<1>1. /\ kind[c] = "b1" /\ UNCHANGED <<scenario, inputs>> /\ late \subseteq late'
      /\ Domains'
  BY B1Steps DEF Step, Local, TypeStep
<1>2. DOMAIN my[c] = {"held", "tree", "lock", "committed", "failed"}
  BY DEF KeepsFields, NoMemory
<1>3. /\ kind'[c] = "b1" /\ Out(c)' = Out(c)
      /\ Out(c) \in Names /\ Temp(c) \in Names /\ Temp(c) # Out(c)
  BY <1>1 DEF kind, Out, Temp, Names, Kinds, RolesOf
<1>4. Published(c) => at[c] \in Ended \cup {"published", "assured", "unlocking", "cleanup",
                                            "discard", "closing"}
  BY <1>1 DEF Honest, Accounts, Rising, Kinds, RolesOf, Suites
<1> USE DEF Continues, At, Goes, Holds, Raises, Requires, dirVars, RefuseToStart
\* The name is as it was, or the command has its tree under it
<1>5. ASSUME entries' = entries
      PROVE  Published(c)' <=> Published(c)
  BY <1>1, <1>3, <1>5 DEF Published, kind
\* An error: nothing that was published is lost
<1>6. ASSUME at'[c] \in {"error", "cleanup", "committed"}, my'[c].held = my[c].held,
             trees' = trees, Published(c)' => Published(c)
      PROVE  ContinuesWell(c)'
  <2>1. Exact(c) => Exact(c)'
    BY <1>6 DEF Exact
  <2>2. Grounded(my[c].held) => Grounded(my[c].held)'
    BY <1>1, <1>6, SameAuthorization
  <2>3. Reported(my[c].held) => Reported(my[c].held)'
    BY <1>6 DEF Reported
  <2>4. Vouched(c)' => Vouched(c)
    BY <1>6 DEF Vouched
  <2> HIDE DEF Begun, Vouched, Exact, Grounded, Reported
  <2> QED
    BY <1>1, <1>6, <2>1, <2>2, <2>3, <2>4 DEF ContinuesWell
\* The command has not yet renamed its tree
<1>7. ASSUME at[c] \in {"idle", "gated", "authorized", "reading", "probe", "exited",
                        "reported", "verified", "boundary"},
             at'[c] # "frozen", at'[c] # "ok",
             entries' = entries \/ entries' = [entries EXCEPT ![Temp(c)] = Tree(c)]
      PROVE  ~Vouched(c)'
  <2>1. ~Published(c)
    BY <1>4, <1>7 DEF Ended
  <2>2. ~Published(c)'
    BY <1>1, <1>3, <1>7, <2>1 DEF Published, kind, Domains
  <2> QED
    BY <1>7, <2>2 DEF Vouched
<1>8. CASE ReadGate(c)
  <2>1. /\ at[c] = "idle" /\ at'[c] \in {"gated", "error"} /\ entries' = entries
        /\ at'[c] = "gated" => DOMAIN my'[c].held = {"policy"}
    BY <1>2, <1>8 DEF ReadGate, Domains
  <2>2. ~Vouched(c)'
    BY <1>7, <2>1
  <2> QED
    BY <2>1, <2>2 DEF ContinuesWell
<1>9. CASE ReadAuthorization(c)
  <2> HIDE DEF Document
  <2>1. /\ at[c] = "gated" /\ at'[c] \in {"authorized", "error"} /\ entries' = entries
        /\ at'[c] = "authorized" =>
              /\ Document # Nothing
              /\ my' = [my EXCEPT ![c].held = Joined(@, [document |-> Document])]
    BY <1>2, <1>9 DEF ReadAuthorization, Domains
  <2>2. ~Vouched(c)'
    BY <1>7, <2>1
  <2>3. at'[c] = "authorized" => Begun'
    BY <2>1, DocumentIsBegun
  <2>4. at'[c] = "authorized" => DOMAIN my'[c].held = {"policy", "document"}
    BY <1>1, <1>2, <2>1 DEF ContinuesWell, Joined, Domains
  <2> QED
    BY <2>1, <2>2, <2>3, <2>4 DEF ContinuesWell
<1>10. CASE CapturePrior(c)
  <2> DEFINE e == Evidence[inputs["evidence"]]
             more == [baseline |-> e.raw["H0"].hits, candidate |-> inputs["resource"],
                      sources |-> inputs["sources"]]
  <2>1. /\ at[c] = "authorized" /\ at'[c] \in {"reading", "error"} /\ entries' = entries
        /\ at'[c] = "reading" => my' = [my EXCEPT ![c].held = Joined(@, more)]
    BY <1>10 DEF CapturePrior, Domains
  <2>2. ~Vouched(c)'
    BY <1>7, <2>1
  <2>3. /\ DOMAIN more = {"baseline", "candidate", "sources"} /\ more.baseline = "base"
        /\ DOMAIN my[c].held = {"policy", "document"} /\ Begun'
    BY <1>1, <2>1, BaselineIsBase, EvidenceIsKnown DEF ContinuesWell
  <2> HIDE DEF more
  <2>4. at'[c] = "reading" =>
           /\ DOMAIN my'[c].held =
                 {"policy", "document", "baseline", "candidate", "sources"}
           /\ my'[c].held.baseline = "base"
    BY <1>2, <2>1, <2>3 DEF Joined, Domains
  <2> QED
    BY <2>1, <2>2, <2>3, <2>4 DEF ContinuesWell
<1>11. CASE BuildTree(c) \/ ProbeB1(c)
  <2>1. /\ at[c] \in {"reading", "probe"} /\ at'[c] \in {"probe", "exited", "cleanup"}
        /\ entries' = entries \/ entries' = [entries EXCEPT ![Temp(c)] = Tree(c)]
        /\ my'[c].held = my[c].held
    BY <1>2, <1>11 DEF BuildTree, ProbeB1, Bind, Domains
  <2>2. ~Vouched(c)'
    BY <1>7, <2>1
  <2> QED
    BY <1>1, <2>1, <2>2 DEF ContinuesWell
<1>12. CASE ReportB1(c)
  <2> DEFINE raw == trees[c].content.raw
             held == my[c].held
             more == [raw |-> raw, report |->
                         DiagnosticReport(held.baseline, raw.hits, held.document)]
  <2>1. /\ at[c] = "exited" /\ at'[c] \in {"reported", "cleanup"} /\ entries' = entries
        /\ at'[c] = "reported" =>
              /\ raw.hits \in DOMAIN Score
              /\ my' = [my EXCEPT ![c].held = Joined(@, more)]
    <3> HIDE DEF DiagnosticReport
    <3> QED
      BY <1>12 DEF ReportB1, RawB1Valid, Domains
  <2>2. ~Vouched(c)'
    BY <1>7, <2>1
  <2>3. /\ DOMAIN held = {"policy", "document", "baseline", "candidate", "sources"}
        /\ held.baseline = "base" /\ Begun'
    BY <1>1, <2>1 DEF ContinuesWell
  <2>4. /\ DOMAIN more = {"raw", "report"} /\ more.raw = raw
        /\ more.report = DiagnosticReport(held.baseline, raw.hits, held.document)
    OBVIOUS
  <2>5. at'[c] = "reported" => my'[c].held = Joined(held, more)
    <3> HIDE DEF more
    <3> QED
      BY <1>2, <2>1 DEF Domains
  <2> HIDE DEF more, raw, held
  <2>6. at'[c] = "reported" =>
           /\ my'[c].held.baseline = held.baseline
           /\ my'[c].held.document = held.document
           /\ my'[c].held.raw = raw /\ my'[c].held.report = more.report
    BY <2>3, <2>4, <2>5 DEF Joined
  <2>7. at'[c] = "reported" => Reported(my[c].held)'
    BY <2>1, <2>3, <2>4, <2>6 DEF Reported
  <2> HIDE DEF Reported
  <2> QED
    BY <2>1, <2>2, <2>3, <2>7 DEF ContinuesWell
<1>13. CASE ReAuthenticate(c) \/ FreezeB1(c)
  <2>1. /\ at[c] \in {"reported", "verified"}
        /\ at'[c] \in {"verified", "boundary", "cleanup"}
        /\ entries' = entries /\ my'[c].held = my[c].held
    BY <1>2, <1>13 DEF ReAuthenticate, FreezeB1, Domains
  <2>2. ~Vouched(c)'
    BY <1>7, <2>1
  <2>3. Reported(my[c].held)'
    <3>1. Reported(my[c].held)
      BY <1>1, <2>1 DEF ContinuesWell
    <3> QED
      BY <2>1, <3>1 DEF Reported
  <2> HIDE DEF Reported
  <2> QED
    BY <1>1, <2>1, <2>2, <2>3 DEF ContinuesWell
<1>14. CASE AtBoundary(c)
  <2>1. /\ at[c] = "boundary" /\ at'[c] \in {"frozen", "cleanup"}
        /\ entries' = entries /\ trees' = trees /\ my'[c].held = my[c].held
        /\ at'[c] = "frozen" => AuthorityHolds(c) /\ TreeHolds(c)
    <3> HIDE DEF AuthorityHolds, TreeHolds
    <3> QED
      BY <1>2, <1>14 DEF AtBoundary, Domains
  <2>2. CASE at'[c] = "cleanup"
    BY <1>5, <1>6, <2>1, <2>2
  <2>3. CASE at'[c] = "frozen"
    <3>1. Begun' /\ Reported(my[c].held)
      BY <1>1, <2>1 DEF ContinuesWell
    <3>2. Exact(c)'
      BY <2>1, <2>3 DEF TreeHolds, ExpectedTree, Exact
    <3>3. Grounded(my[c].held)
      BY <2>1, <2>3, VerifiedRests DEF AuthorityHolds, Grounded
    <3>4. Grounded(my[c].held)'
      BY <1>1, <2>1, <3>3, SameAuthorization
    <3>5. Reported(my[c].held)'
      BY <2>1, <3>1 DEF Reported
    <3> HIDE DEF Reported, Grounded, Exact
    <3> QED
      BY <2>3, <3>1, <3>2, <3>4, <3>5 DEF ContinuesWell
  <2> QED
    BY <2>1, <2>2, <2>3
<1>15. CASE PublishB1(c)
  <2>1. /\ at[c] = "frozen" /\ at'[c] \in {"published", "cleanup"}
        /\ trees' = trees /\ my'[c].held = my[c].held
    BY <1>2, <1>15 DEF PublishB1, Renames, RefusesToReplace, Domains
  <2>2. /\ Begun' /\ Exact(c) /\ Grounded(my[c].held) /\ Reported(my[c].held)
    BY <1>1, <2>1 DEF ContinuesWell, Vouched
  <2>3. Exact(c)'
    BY <2>1, <2>2 DEF Exact
  <2>4. Grounded(my[c].held)'
    BY <1>1, <2>1, <2>2, SameAuthorization
  <2>5. Reported(my[c].held)'
    BY <2>1, <2>2 DEF Reported
  <2> HIDE DEF Reported, Grounded, Exact
  <2> QED
    BY <2>1, <2>2, <2>3, <2>4, <2>5 DEF ContinuesWell
<1>16. CASE AssureB1(c)
  <2>1. /\ at[c] = "published" /\ at'[c] \in {"ok", "cleanup"}
        /\ entries' = entries /\ trees' = trees /\ my'[c].held = my[c].held
        /\ at'[c] = "ok" => Published(c) /\ TreeHolds(c)
    <3> HIDE DEF TreeHolds, Published
    <3> QED
      BY <1>2, <1>16 DEF AssureB1, Domains
  <2>2. CASE at'[c] = "cleanup"
    BY <1>5, <1>6, <2>1, <2>2
  <2>3. CASE at'[c] = "ok"
    <3>1. /\ Begun' /\ Exact(c) /\ Grounded(my[c].held) /\ Reported(my[c].held)
          /\ ~trees[c].stray
      BY <1>1, <2>1, <2>3 DEF ContinuesWell, Vouched, TreeHolds, ExpectedTree
    <3>2. Exact(c)'
      BY <2>1, <3>1 DEF Exact
    <3>3. Grounded(my[c].held)'
      BY <1>1, <2>1, <3>1, SameAuthorization
    <3>4. Reported(my[c].held)'
      BY <2>1, <3>1 DEF Reported
    <3> HIDE DEF Reported, Grounded, Exact
    <3> QED
      BY <2>1, <2>3, <3>1, <3>2, <3>3, <3>4 DEF ContinuesWell
  <2> QED
    BY <2>1, <2>2, <2>3
<1>17. CASE RetainB1(c)
  <2>1. /\ at'[c] \in {"committed", "error"} /\ entries' = entries /\ trees' = trees
        /\ my' = my
    BY <1>17 DEF RetainB1, Domains
  <2> QED
    BY <1>5, <1>6, <2>1
<1> QED
  BY <1>8, <1>9, <1>10, <1>11, <1>12, <1>13, <1>14, <1>15, <1>16, <1>17 DEF ContinueB1

\* What a continuation rests on stays so, after any step
LEMMA ContinuedSteps ==
    ASSUME Domains, AllHonest, InputsKnown, \A c \in Commands : Tidy(c),
           \A c \in Commands : ContinuesWell(c), [Next]_vars
    PROVE  \A c \in Commands : ContinuesWell(c)'
<1> SUFFICES ASSUME NEW c \in Commands PROVE ContinuesWell(c)'
  OBVIOUS
<1>1. KeepsFields(c) /\ \A a \in Commands : Honest(a)
  BY DEF Tidy, AllHonest
<1>2. UNCHANGED scenario /\ (Begun => Begun')
  BY ScenarioStays, BegunSteps
<1>3. CASE Aside(c)
  BY <1>1, <1>2, <1>3, ContinuesAside
<1>4. CASE Command(c)
  <2>1. CASE kind[c] = "b1"
    BY <1>1, <1>2, <1>4, <2>1, OfItsKind, ContinuesSteps
  <2> QED
    BY <1>2, <2>1 DEF ContinuesWell, kind
<1> QED
  BY <1>3, <1>4, LeftAside

\* Whatever the policy, the evidence, the candidate and the sources become while it
\* works, and whatever its probe writes: a continuation with B1 that is published rests
\* on a decision which an authorizer took from the accepted evidence, under the policy
\* it carries, reports no pass, and its diagnosis is that of its own raw run
THEOREM B1RestsOnDecisionEver == Spec => []B1RestsOnDecision
<1> DEFINE AllTidy == \A c \in Commands : Tidy(c)
           AllContinued == \A c \in Commands : ContinuesWell(c)
<1>1. Init => Domains /\ AllTidy
  BY InitDomains, InitTidy
<1>2. Domains /\ AllTidy /\ [Next]_vars => Domains' /\ AllTidy'
  BY StoreSteps, TidySteps
<1>3. Init => AllHonest /\ AllContinued /\ InputsKnown
  <2> SUFFICES ASSUME Init PROVE AllHonest /\ AllContinued /\ InputsKnown
    OBVIOUS
  <2>1. AllContinued
    BY InitUnpublished DEF ContinuesWell, Vouched, Kinds, RolesOf
  <2> QED
    BY <2>1, InitHonest, InitKnown
<1>4. Domains /\ AllTidy /\ AllHonest /\ [Next]_vars => AllHonest'
  BY HonestSteps
<1>5. Domains /\ InputsKnown /\ [Next]_vars => InputsKnown'
  BY InputsKnownSteps
<1>6. Domains /\ AllHonest /\ InputsKnown /\ AllTidy /\ AllContinued /\ [Next]_vars
      => AllContinued'
  BY ContinuedSteps
<1>7. AllContinued => B1RestsOnDecision
  <2> SUFFICES ASSUME NEW c \in Commands, ContinuesWell(c), kind[c] = "b1", Published(c),
                      c \notin late
               PROVE  LET content == trees[c].content
                      IN /\ at[c] = "ok" => ~trees[c].stray
                         /\ ParsePolicy(Formal[content.policy])
                         /\ content.document = Authorization(content.policy, "fixed")
                         /\ \E a \in Commands : kind[a] = "authorize" /\ at[a] # "idle"
                         /\ ~content.report.passed
                         /\ content.report.diagnostic = Within800(content.raw.hits, "base")
    BY DEF B1RestsOnDecision
  <2> DEFINE held == my[c].held
  <2>1. /\ Begun /\ Exact(c) /\ Grounded(held) /\ Reported(held)
        /\ at[c] = "ok" => ~trees[c].stray
    BY DEF ContinuesWell, Vouched
  <2>2. trees[c].content = held
    BY <2>1 DEF Exact
  <2>3. /\ ~held.report.passed
        /\ held.report.diagnostic = ObjectivePassed("base", held.raw.hits)
    BY <2>1 DEF Reported, DiagnosticReport
  <2>4. ObjectivePassed("base", held.raw.hits) = Within800(held.raw.hits, "base")
    BY <2>1, ObjectiveIsWithin, ScoreAssumption DEF Reported
  <2> HIDE DEF held
  <2> QED
    BY <2>1, <2>2, <2>3, <2>4 DEF Grounded, Begun
<1> HIDE DEF AllTidy, AllContinued
<1> QED
  BY <1>1, <1>2, <1>3, <1>4, <1>5, <1>6, <1>7, PTL DEF Spec

------------------------------------------------------------------------------
(* What a packet shows, and what a report counts                           *)

\* There are two backends
LEMMA TwoBackends ==
    /\ Other("hazkey") = "mozc" /\ Other("mozc") = "hazkey"
    /\ \A b \in Backends : Other(b) \in Backends /\ Other(b) # b /\ Backends = {b, Other(b)}
BY DEF Other, Backends

\* The cases of a set add up to what its categories have
LEMMA CasesAddUp ==
    ASSUME NEW F \in SUBSET Categories, NEW s \in SUBSET ReviewCases,
           \A g \in Categories :
              Cardinality(s \cap CasesOf(g)) = Half(g) + (IF g \in F THEN 1 ELSE 0)
    PROVE  /\ MapThenSumSet(Half, Categories) \in Nat
           /\ Cardinality(s) = MapThenSumSet(Half, Categories) + Cardinality(F)
<1> DEFINE half == [g \in Categories |-> Half(g)]
           added == CHOOSE it : it = [S \in SUBSET Categories |->
                       IF S = {} THEN 0 ELSE Half(Pick(S)) + it[S \ {Pick(S)}]]
           In(D) == {k \in s : Category[k] \in D}
           Wrong == {N \in Nat : \E D \in SUBSET Categories :
                        /\ Cardinality(D) = N
                        /\ ~ (/\ added[D] \in Nat
                              /\ Cardinality(In(D)) = added[D] + Cardinality(D \cap F))}
<1>1. IsFiniteSet(Categories) /\ IsFiniteSet(s)
  <2>1. IsFiniteSet(ReviewCases)
    BY ReviewAssumption DEF ReviewCases
  <2>2. Categories = {Category[k] : k \in ReviewCases}
    BY DEF Categories, Range, ReviewCases
  <2>3. [k \in ReviewCases |-> Category[k]] \in Surjection(ReviewCases, Categories)
    BY <2>2 DEF Surjection
  <2>4. IsFiniteSet(Categories)
    BY <2>1, <2>3, FS_Surjection
  <2> QED
    BY <2>1, <2>4, FS_Subset
<1>2. MapThenSumSet(Half, Categories) = added[Categories]
  BY DEF MapThenSumSet, MapThenFoldSet, Pick
<1>3. added = [S \in SUBSET Categories |->
                  IF S = {} THEN 0 ELSE Half(Pick(S)) + added[S \ {Pick(S)}]]
  <2>1. PICK it : Sums(half, it, SUBSET Categories)
    <3>1. DOMAIN half = Categories
      OBVIOUS
    <3> HIDE DEF half
    <3> QED
      BY <1>1, <3>1, SumExists
  <2>2. \A S \in SUBSET Categories : S # {} => half[Pick(S)] = Half(Pick(S))
    BY <1>1, PickOne
  <2>3. it = [S \in SUBSET Categories |->
                 IF S = {} THEN 0 ELSE Half(Pick(S)) + it[S \ {Pick(S)}]]
    <3> HIDE DEF half
    <3> QED
      BY <2>1, <2>2 DEF Sums
  <2> QED
    BY <2>3
<1> HIDE DEF added
<1>4. \A S \in SUBSET Categories :
         added[S] = IF S = {} THEN 0 ELSE Half(Pick(S)) + added[S \ {Pick(S)}]
  BY <1>3
<1>5. \A D \in SUBSET Categories : IsFiniteSet(D) /\ Cardinality(D) \in Nat
  BY <1>1, FS_Subset, FS_CardinalityType
<1>6. \A T \in SUBSET s : IsFiniteSet(T) /\ Cardinality(T) \in Nat
  BY <1>1, FS_Subset, FS_CardinalityType
<1>7. Wrong = {}
  <2> SUFFICES ASSUME Wrong # {} PROVE FALSE
    OBVIOUS
  <2>1. PICK N \in Wrong : \A K \in Wrong : N <= K
    <3>1. Wrong \subseteq Nat
      OBVIOUS
    <3> HIDE DEF Wrong
    <3> QED
      BY <3>1, LeastNumber
  <2>2. PICK D \in SUBSET Categories :
           /\ Cardinality(D) = N
           /\ ~ (/\ added[D] \in Nat
                 /\ Cardinality(In(D)) = added[D] + Cardinality(D \cap F))
    BY <2>1
  <2>3. CASE D = {}
    <3>1. added[D] = 0
      BY <1>4, <2>3
    <3>2. In(D) = {} /\ D \cap F = {}
      BY <2>3
    <3> HIDE DEF In
    <3>3. Cardinality(In(D)) = 0 /\ Cardinality(D \cap F) = 0
      BY <3>2, FS_EmptySet
    <3> QED
      BY <2>2, <3>1, <3>3
  <2>4. CASE D # {}
    <3> DEFINE g == Pick(D)
               E == D \ {g}
               one == IF g \in F THEN 1 ELSE 0
    <3>1. g \in D /\ E \in SUBSET Categories /\ Cardinality(E) = N - 1 /\ N \in Nat
      BY <1>1, <2>1, <2>2, <2>4, PickOne
    <3>2. added[D] = Half(g) + added[E]
      BY <1>4, <2>4
    <3> HIDE DEF g
    <3>3. added[E] \in Nat /\ Cardinality(In(E)) = added[E] + Cardinality(E \cap F)
      <4>1. N - 1 \in Nat /\ ~ (N <= N - 1)
        BY <1>5, <3>1
      <4>2. N - 1 \notin Wrong
        BY <2>1, <4>1
      <4> HIDE DEF E, In
      <4> QED
        BY <3>1, <4>1, <4>2
    <3>4. Cardinality(In(D)) = Cardinality(In(E)) + Cardinality(s \cap CasesOf(g))
      <4>1. In(D) = In(E) \cup (s \cap CasesOf(g)) /\ In(E) \cap (s \cap CasesOf(g)) = {}
        BY <3>1 DEF CasesOf
      <4>2. In(E) \in SUBSET s /\ s \cap CasesOf(g) \in SUBSET s
        OBVIOUS
      <4> HIDE DEF In, E
      <4>3. Cardinality(In(E) \cup (s \cap CasesOf(g)))
               = Cardinality(In(E)) + Cardinality(s \cap CasesOf(g)) - Cardinality({})
        BY <1>6, <4>1, <4>2, FS_Union
      <4> QED
        BY <1>6, <4>1, <4>2, <4>3, FS_EmptySet
    <3>5. Cardinality(D \cap F) = Cardinality(E \cap F) + one
      <4>1. CASE g \in F
        <5>1. g \in D \cap F /\ E \cap F = (D \cap F) \ {g}
          BY <3>1, <4>1
        <5>2. IsFiniteSet(D \cap F) /\ Cardinality(D \cap F) \in Nat
          BY <1>5
        <5>3. Cardinality((D \cap F) \ {g}) = Cardinality(D \cap F) - 1
          BY <5>1, <5>2, FS_RemoveElement
        <5>4. Cardinality(E \cap F) = Cardinality(D \cap F) - 1
          BY <5>1, <5>3
        <5>5. one = 1
          BY <4>1
        <5> HIDE DEF E, one
        <5> QED
          BY <5>2, <5>4, <5>5
      <4>2. CASE g \notin F
        <5>1. E \cap F = D \cap F
          BY <4>2
        <5>2. Cardinality(D \cap F) \in Nat
          BY <1>5
        <5>3. one = 0
          BY <4>2
        <5> HIDE DEF E, one
        <5> QED
          BY <5>1, <5>2, <5>3
      <4> QED
        BY <4>1, <4>2
    <3>6. Cardinality(s \cap CasesOf(g)) = Half(g) + one
      BY <3>1
    <3>7. Half(g) \in Nat
      <4>1. CasesOf(g) \in SUBSET ReviewCases
        BY DEF CasesOf
      <4>2. Cardinality(CasesOf(g)) \in Nat
        BY <4>1, ReviewAssumption, FS_Subset, FS_CardinalityType DEF ReviewCases
      <4> QED
        BY <4>2 DEF Half
    <3>8. Cardinality(E \cap F) \in Nat /\ one \in Nat
      BY <1>5, <3>1
    <3> HIDE DEF one, E, In
    <3>9. /\ added[D] \in Nat
          /\ Cardinality(In(D)) = added[D] + Cardinality(D \cap F)
      BY <3>2, <3>3, <3>4, <3>5, <3>6, <3>7, <3>8
    <3> QED
      BY <2>2, <3>9
  <2> QED
    BY <2>3, <2>4
<1>8. In(Categories) = s /\ Categories \cap F = F
  BY DEF Categories, Range, ReviewCases
<1> HIDE DEF In
<1>9. Cardinality(Categories) \in Nat
  BY <1>5
<1> QED
  BY <1>2, <1>7, <1>8, <1>9

\* What the fields of a key come to
LEMMA KeyFields ==
    ASSUME NEW x \in [ReviewCases -> Backends]
    PROVE  /\ DOMAIN Key(x).cases = ReviewCases
           /\ \A k \in ReviewCases :
                 /\ Key(x).cases[k].x = x[k] /\ Key(x).cases[k].y = Other(x[k])
                 /\ Key(x).cases[k].record = Shown(x)[k]
                 /\ Key(x).cases[k].category = Category[k]
           /\ SidesOf(Key(x)) = x
           /\ Key(x).contract = [k \in ReviewCases |-> Category[k]]
           /\ KeyWellFormed(Key(x))
           /\ Key(x).review = Shown(x)
           /\ Key(x).placement.x = Counts(x)
           /\ Key(x).placement.y = Counts([k \in ReviewCases |-> Key(x).cases[k].y])
<1>1. /\ Key(x).cases = KeyCases(x) /\ Key(x).review = Shown(x)
      /\ Key(x).contract = CaseContract(KeyCases(x)) /\ Key(x).backends = Backends
      /\ Key(x).placement.x = Counts(x)
      /\ Key(x).placement.y = Counts([k \in ReviewCases |-> KeyCases(x)[k].y])
  BY DEF Key
<1>2. /\ DOMAIN KeyCases(x) = ReviewCases
      /\ \A k \in ReviewCases :
            /\ KeyCases(x)[k].x = x[k] /\ KeyCases(x)[k].y = Other(x[k])
            /\ KeyCases(x)[k].record = Shown(x)[k]
            /\ KeyCases(x)[k].category = Category[k]
  BY DEF KeyCases
<1>3. SidesOf(Key(x)) = x
  BY <1>1, <1>2 DEF SidesOf
<1>4. CaseContract(KeyCases(x)) = [k \in ReviewCases |-> Category[k]]
  BY <1>2 DEF CaseContract
<1>5. KeyWellFormed(Key(x))
  BY <1>1, <1>2, TwoBackends DEF KeyWellFormed
<1> QED
  BY <1>1, <1>2, <1>3, <1>4, <1>5

\* A placement that some seed draws is balanced, in each category and in all
LEMMA DrawnIsBalanced ==
    ASSUME NEW first \in Backends, NEW x \in Placements(first)
    PROVE  /\ x \in [ReviewCases -> Backends]
           /\ Balanced(x, ReviewCases)
           /\ \A g \in Categories : Balanced(x, CasesOf(g))
<1>1. PICK s \in SUBSET ReviewCases :
         /\ x = [k \in ReviewCases |-> IF k \in s THEN first ELSE Other(first)]
         /\ \E target \in Targets : \E favoured \in Favoured(target) :
               \A g \in Categories :
                  Cardinality(s \cap CasesOf(g)) =
                     Half(g) + (IF g \in favoured THEN 1 ELSE 0)
  BY DEF Placements
<1>2. PICK target \in Targets, favoured \in SUBSET OddCategories :
         /\ Cardinality(favoured) = target - MapThenSumSet(Half, Categories)
         /\ \A g \in Categories :
               Cardinality(s \cap CasesOf(g)) =
                  Half(g) + (IF g \in favoured THEN 1 ELSE 0)
  BY <1>1 DEF Favoured, kSubset
<1>3. x \in [ReviewCases -> Backends]
  BY <1>1, TwoBackends
<1>4. ASSUME NEW cases \in SUBSET ReviewCases
      PROVE  IsFiniteSet(cases) /\ Cardinality(cases) \in Nat
  BY <1>4, ReviewAssumption, FS_Subset, FS_CardinalityType DEF ReviewCases
\* Half of some cases on one side, or half and one more of an odd number
<1>5. ASSUME NEW cases \in SUBSET ReviewCases, NEW n \in {0, 1},
             Cardinality(s \cap cases) = Cardinality(cases) \div 2 + n,
             n = 1 => Cardinality(cases) % 2 = 1
      PROVE  Balanced(x, cases)
  <2> DEFINE all == Cardinality(cases)
             one == Cardinality(s \cap cases)
             rest == Cardinality(cases \ s)
  <2>1. all \in Nat /\ one \in Nat /\ rest \in Nat
    BY <1>4
  <2>2. all = one + rest
    <3>1. cases = (s \cap cases) \cup (cases \ s) /\ (s \cap cases) \cap (cases \ s) = {}
      OBVIOUS
    <3>2. Cardinality((s \cap cases) \cup (cases \ s)) = one + rest - Cardinality({})
      BY <1>4, <3>1, FS_Union
    <3>3. all = one + rest - Cardinality({})
      BY <3>1, <3>2
    <3>4. Cardinality({}) = 0
      BY FS_EmptySet
    <3> HIDE DEF all, one, rest
    <3> QED
      BY <2>1, <3>3, <3>4
  <2>3. {k \in cases : x[k] = "hazkey"} = IF first = "hazkey" THEN s \cap cases ELSE cases \ s
    BY <1>1, TwoBackends DEF Backends
  <2>4. Cardinality({k \in cases : x[k] = "hazkey"}) \in {one, rest}
    BY <2>3
  <2> HIDE DEF all, one, rest
  <2>5. one = all \div 2 + n /\ (n = 1 => all % 2 = 1)
    BY <1>5 DEF all, one
  <2>6. one - (all - one) \in -1 .. 1 /\ rest - (all - rest) \in -1 .. 1
    BY <2>1, <2>2, <2>5
  <2> QED
    BY <2>4, <2>6 DEF Balanced, all
<1>6. ASSUME NEW g \in Categories
      PROVE  Balanced(x, CasesOf(g))
  <2>1. CasesOf(g) \in SUBSET ReviewCases
    BY DEF CasesOf
  <2>2. CASE g \in favoured
    BY <1>2, <1>5, <2>1, <2>2 DEF Half, OddCategories
  <2>3. CASE g \notin favoured
    <3>1. Cardinality(CasesOf(g)) \in Nat
      BY <1>4, <2>1
    <3>2. Cardinality(s \cap CasesOf(g)) = Cardinality(CasesOf(g)) \div 2 + 0
      BY <1>2, <2>3, <3>1 DEF Half
    <3> QED
      BY <1>5, <2>1, <3>2
  <2> QED
    BY <2>2, <2>3
<1>7. Balanced(x, ReviewCases)
  <2>1. favoured \in SUBSET Categories
    BY DEF OddCategories
  <2>2. /\ MapThenSumSet(Half, Categories) \in Nat
        /\ Cardinality(s) = MapThenSumSet(Half, Categories) + Cardinality(favoured)
    BY <1>2, <2>1, CasesAddUp
  <2>3. Cardinality(ReviewCases) \in Nat
    BY <1>4
  <2>4. target \in Int
    BY <2>3 DEF Targets
  <2>5. Cardinality(s) = target
    BY <1>2, <2>2, <2>4
  <2>6. s \cap ReviewCases = s
    OBVIOUS
  <2>7. \E n \in {0, 1} : /\ target = Cardinality(ReviewCases) \div 2 + n
                          /\ n = 1 => Cardinality(ReviewCases) % 2 = 1
    BY <2>3 DEF Targets
  <2> QED
    BY <1>5, <2>5, <2>6, <2>7
<1> QED
  BY <1>3, <1>6, <1>7

\* The key of such a placement is valid
LEMMA DrawnIsValid ==
    ASSUME NEW first \in Backends, NEW x \in Placements(first)
    PROVE  x \in [ReviewCases -> Backends] /\ KeyValid(Key(x))
<1>1. /\ x \in [ReviewCases -> Backends]
      /\ Balanced(x, ReviewCases)
      /\ \A g \in Categories : Balanced(x, CasesOf(g))
  BY DrawnIsBalanced
<1> DEFINE key == Key(x)
<1>2. /\ DOMAIN key.cases = ReviewCases /\ SidesOf(key) = x
      /\ key.contract = [k \in ReviewCases |-> Category[k]]
      /\ KeyWellFormed(key)
      /\ key.placement.x = Counts(x)
      /\ key.placement.y = Counts([k \in ReviewCases |-> key.cases[k].y])
  BY <1>1, KeyFields
<1> HIDE DEF key
<1>3. Range(key.contract) = Categories
  BY <1>2 DEF Range, Categories, ReviewCases
<1>4. \A g : {k \in ReviewCases : key.contract[k] = g} = CasesOf(g)
  BY <1>2 DEF CasesOf
<1>5. KeyValid(key)
  BY <1>1, <1>2, <1>3, <1>4 DEF KeyValid
<1> QED
  BY <1>1, <1>5 DEF key

\* A packet with a valid key passes its own checks
LEMMA ValidHolds ==
    ASSUME NEW x \in [ReviewCases -> Backends], KeyValid(Key(x))
    PROVE  PacketHolds(Packet(x))
<1>1. /\ Packet(x).review = Shown(x) /\ Packet(x).key = Key(x)
      /\ Packet(x).manifest.review = Shown(x) /\ Packet(x).manifest.key = Key(x)
      /\ Packet(x).stray = FALSE
  BY DEF Packet
<1>2. DOMAIN Shown(x) = ReviewCases /\ \A k \in ReviewCases : Shown(x)[k].category = Category[k]
  BY DEF Shown
<1>3. /\ DOMAIN Key(x).cases = ReviewCases /\ Key(x).review = Shown(x)
      /\ \A k \in ReviewCases :
            /\ Key(x).cases[k].record = Shown(x)[k]
            /\ Key(x).cases[k].category = Category[k]
  BY KeyFields
<1>4. ReviewMatchesKey(Shown(x), Key(x))
  BY <1>2, <1>3 DEF ReviewMatchesKey
<1> QED
  BY <1>1, <1>3, <1>4 DEF PacketHolds

\* The cases that count for a backend and an outcome
CountedCases(preferred, o, backend, cases) ==
    {k \in cases : CASE o = "win" -> preferred[k] = backend
                     [] o = "loss" -> preferred[k] \in Backends \ {backend}
                     [] OTHER -> preferred[k] = o}

\* What the report on such preferences must say
FairReport(preferred, report) ==
    /\ {"outcomes", "categories", "quality"} \subseteq DOMAIN report
    /\ \A backend \in Backends, o \in Outcomes :
          /\ report.outcomes[backend][o] =
                Cardinality(CountedCases(preferred, o, backend, ReviewCases))
          /\ \A g \in Categories :
                report.categories[g][backend][o] =
                   Cardinality(CountedCases(preferred, o, backend, CasesOf(g)))
          /\ \A k \in ReviewCases : report.quality[backend][k] = Candidates(backend, k)

\* A judgment on a side comes to what was preferred, whatever the placement
LEMMA JudgedAsPreferred ==
    ASSUME NEW z \in [ReviewCases -> Backends], NEW preferred \in Preferences,
           DOMAIN preferred = ReviewCases, NEW packet, packet.review = Shown(z),
           NEW k \in ReviewCases, NEW b \in Backends, NEW o \in Outcomes
    PROVE  Outcome(z[k], Judgments(packet, preferred)[k], b) = o
              <=> k \in CountedCases(preferred, o, b, {k})
<1> DEFINE j == Judgments(packet, preferred)[k]
           p == preferred[k]
<1>1. p \in {"hazkey", "mozc", "tie", "both_bad"}
  BY ReviewAssumption DEF Range, Backends
<1>2. j = IF p \in Backends THEN IF Shown(z)[k].x = Candidates(p, k) THEN "x" ELSE "y" ELSE p
  BY DEF Judgments
<1>3. Shown(z)[k].x = Candidates(p, k) <=> z[k] = p
  BY DEF Shown, Candidates
<1>4. z[k] \in Backends
  OBVIOUS
<1>5. k \in CountedCases(preferred, o, b, {k}) <=>
         CASE o = "win" -> p = b [] o = "loss" -> p \in Backends \ {b} [] OTHER -> p = o
  BY DEF CountedCases
<1> HIDE DEF j, p
<1>6. CASE p \in {"tie", "both_bad"}
  <2>1. j = p /\ Outcome(z[k], j, b) = p
    BY <1>2, <1>6 DEF Backends, Outcome
  <2> QED
    BY <1>5, <1>6, <2>1 DEF Outcomes, Backends, j
<1>7. CASE p \in Backends
  <2>1. Outcome(z[k], j, b) = IF p = b THEN "win" ELSE "loss"
    <3>1. CASE z[k] = p
      BY <1>2, <1>3, <1>7, <3>1 DEF Outcome
    <3>2. CASE z[k] # p
      <4>1. j = "y" /\ Other(z[k]) = p
        BY <1>2, <1>3, <1>4, <1>7, <3>2, TwoBackends
      <4> QED
        BY <4>1 DEF Outcome
    <3> QED
      BY <3>1, <3>2
  <2> QED
    BY <1>5, <1>7, <2>1 DEF Outcomes, Backends, j
<1> QED
  BY <1>1, <1>6, <1>7 DEF Backends

\* The report on a packet whose key and review are of one placement is fair
LEMMA ScoredFairly ==
    ASSUME NEW z \in [ReviewCases -> Backends], NEW preferred \in Preferences,
           DOMAIN preferred = ReviewCases, NEW packet, packet.review = Shown(z),
           packet.key = Key(z)
    PROVE  FairReport(preferred,
              ScoreOf(packet.key, packet.review, Judgments(packet, preferred)))
<1> DEFINE key == packet.key
           judgments == Judgments(packet, preferred)
           report == ScoreOf(key, packet.review, judgments)
<1>1. /\ DOMAIN key.cases = ReviewCases
      /\ \A k \in ReviewCases : key.cases[k].x = z[k]
      /\ key.contract = [k \in ReviewCases |-> Category[k]]
      /\ key.backends = Backends
  <2>1. /\ DOMAIN Key(z).cases = ReviewCases
        /\ \A k \in ReviewCases : Key(z).cases[k].x = z[k]
        /\ Key(z).contract = [k \in ReviewCases |-> Category[k]]
    BY KeyFields
  <2>2. Key(z).backends = Backends
    BY DEF Key
  <2> QED
    BY <2>1, <2>2
<1>2. Range(key.contract) = Categories
  BY <1>1 DEF Range, Categories, ReviewCases
<1>3. \A g : {k \in ReviewCases : key.contract[k] = g} = CasesOf(g)
  BY <1>1 DEF CasesOf
<1>4. /\ DOMAIN report = {"outcomes", "categories", "quality", "placement"}
      /\ report.outcomes = Rendered(key, judgments, ReviewCases)
      /\ report.categories = [g \in Categories |->
            Rendered(key, judgments, {k \in ReviewCases : key.contract[k] = g})]
      /\ report.quality = ObjectiveQuality(key, packet.review)
  BY <1>1, <1>2 DEF ScoreOf
<1> HIDE DEF key, report
<1>5. \A g \in Categories : report.categories[g] = Rendered(key, judgments, CasesOf(g))
  BY <1>3, <1>4
<1>6. ASSUME NEW cases \in SUBSET ReviewCases, NEW b \in Backends, NEW o \in Outcomes
      PROVE  Rendered(key, judgments, cases)[b][o] =
                Cardinality(CountedCases(preferred, o, b, cases))
  <2>1. Rendered(key, judgments, cases)[b][o] =
           Cardinality({k \in cases : Outcome(key.cases[k].x, judgments[k], b) = o})
    BY <1>1 DEF Rendered
  <2>2. \A k \in cases : k \in CountedCases(preferred, o, b, {k})
                            <=> k \in CountedCases(preferred, o, b, cases)
    BY DEF CountedCases
  <2>3. ASSUME NEW k \in cases
        PROVE  Outcome(key.cases[k].x, judgments[k], b) = o
                  <=> k \in CountedCases(preferred, o, b, cases)
    <3>1. k \in ReviewCases /\ key.cases[k].x = z[k]
      BY <1>1
    <3>2. Outcome(z[k], judgments[k], b) = o <=> k \in CountedCases(preferred, o, b, {k})
      BY <3>1, JudgedAsPreferred
    <3> QED
      BY <2>2, <3>1, <3>2
  <2>4. CountedCases(preferred, o, b, cases) \subseteq cases
    BY DEF CountedCases
  <2> HIDE DEF judgments
  <2>5. {k \in cases : Outcome(key.cases[k].x, judgments[k], b) = o}
           = CountedCases(preferred, o, b, cases)
    BY <2>3, <2>4
  <2> QED
    BY <2>1, <2>5
<1>7. ASSUME NEW b \in Backends, NEW k \in ReviewCases
      PROVE  report.quality[b][k] = Candidates(b, k)
  <2>1. report.quality[b][k] = IF z[k] = b THEN Shown(z)[k].x ELSE Shown(z)[k].y
    BY <1>1, <1>4 DEF ObjectiveQuality
  <2>2. Shown(z)[k].x = Candidates(z[k], k) /\ Shown(z)[k].y = Candidates(Other(z[k]), k)
    BY DEF Shown
  <2>3. z[k] # b => Other(z[k]) = b
    BY TwoBackends
  <2> QED
    BY <2>1, <2>2, <2>3
<1>8. \A g \in Categories : CasesOf(g) \in SUBSET ReviewCases
  BY DEF CasesOf
<1> HIDE DEF judgments
<1>9. FairReport(preferred, report)
  BY <1>4, <1>5, <1>6, <1>7, <1>8 DEF FairReport
<1> QED
  BY <1>9 DEF report, key, judgments

\* A packet as prepare() left it, but for a file that someone has put there
LaidOut(tree) ==
    \E x \in [ReviewCases -> Backends], b \in BOOLEAN :
        KeyValid(Key(x)) /\ tree = [Packet(x) EXCEPT !.stray = b]

\* The packet that is found and passes its checks is of one placement, though a file
\* was replaced or a case turned round
LEMMA FoundIsShown ==
    ASSUME NEW tree, LaidOut(tree), inputs["packet"] \in Versions["packet"],
           PacketHolds(FoundPacket(tree))
    PROVE  \E z \in [ReviewCases -> Backends] :
              /\ FoundPacket(tree).key = Key(z)
              /\ FoundPacket(tree).review = Shown(z)
<1> DEFINE found == FoundPacket(tree)
<1>1. PICK x \in [ReviewCases -> Backends], b \in BOOLEAN :
         tree = [Packet(x) EXCEPT !.stray = b]
  BY DEF LaidOut
<1> DEFINE turned == [x EXCEPT !["k1"] = Other(@)]
<1>2. /\ tree.review = Shown(x) /\ tree.key = Key(x)
      /\ DOMAIN tree = {"review", "key", "manifest", "stray"}
  BY <1>1 DEF Packet
<1>3. SidesOf(tree.key) = x
  BY <1>2, KeyFields
<1>4. turned \in [ReviewCases -> Backends]
  BY TwoBackends
<1>5. found.review = found.key.review
  BY DEF PacketHolds
<1>6. inputs.packet \in {"fixed", "review", "key", "turned"}
  BY DEF Versions
<1>7. found.key \in {Key(x), Key(turned)}
  <2> DEFINE t == [SidesOf(tree.key) EXCEPT !["k1"] = Other(@)]
  <2>1. t = turned
    BY <1>3
  <2>2. found.key \in {tree.key, Key(t)}
    <3>1. Packet(t).key = Key(t)
      BY DEF Packet
    <3> HIDE DEF t
    <3>2. /\ [tree EXCEPT !.review = Shown(t)].key = tree.key
          /\ [tree EXCEPT !.key = Key(t)].key = Key(t)
      BY <1>2
    <3> QED
      BY <1>6, <3>1, <3>2 DEF FoundPacket, t
  <2> QED
    BY <1>2, <2>1, <2>2
<1> HIDE DEF found, turned
<1>8. PICK z \in [ReviewCases -> Backends] : found.key = Key(z)
  BY <1>4, <1>7
<1>9. found.review = Shown(z)
  BY <1>5, <1>8, KeyFields
<1> QED
  BY <1>8, <1>9 DEF found

\* A packet from the drawing of the sides to its place under its name
PreparesWell(c) ==
    kind[c] = "prepare" =>
        /\ at[c] = "reading" =>
              \E x \in [ReviewCases -> Backends] :
                 KeyValid(Key(x)) /\ my[c].held = Packet(x)
        /\ at[c] \in {"unlocked", "locked", "frozen"} \/ Published(c) => LaidOut(trees[c])
        /\ Published(c) => entries[Temp(c)] = Nothing

\* A report from the reading of the packet to its place
ScoresWell(c) ==
    kind[c] = "score" =>
        /\ at[c] = "reading" => FairReport(my[c].held.preferred, my[c].held.report)
        /\ at[c] = "written" \/ Published(c) => FairReport(my[c].held.preferred, trees[c])

\* A file beside it changes neither
LEMMA ReviewsAside ==
    ASSUME NEW c \in Commands, KeepsFields(c), PreparesWell(c), ScoresWell(c), Aside(c)
    PROVE  PreparesWell(c)' /\ ScoresWell(c)'
<1>1. /\ UNCHANGED kind /\ (kind[c] \in Kinds /\ Published(c)' => Published(c))
      /\ at'[c] = at[c] \/ at'[c] \in {"killed", "cleanup", "error"}
      /\ entries'[Temp(c)] = entries[Temp(c)]
  BY DEF Aside
<1>2. my'[c].held = my[c].held
  <2>1. DOMAIN my[c] = {"held", "tree", "lock", "committed", "failed"}
    BY DEF KeepsFields, NoMemory
  <2> QED
    BY <2>1 DEF Aside
<1>3. trees'[c] = trees[c] \/ trees'[c] = [trees[c] EXCEPT !.stray = TRUE]
  BY DEF Aside
<1>4. LaidOut(trees[c]) => LaidOut(trees[c])'
  <2> SUFFICES ASSUME LaidOut(trees[c]), trees'[c] = [trees[c] EXCEPT !.stray = TRUE]
               PROVE  LaidOut(trees'[c])
    BY <1>3
  <2>1. PICK x \in [ReviewCases -> Backends], b \in BOOLEAN :
           KeyValid(Key(x)) /\ trees[c] = [Packet(x) EXCEPT !.stray = b]
    BY DEF LaidOut
  <2>2. trees'[c] = [Packet(x) EXCEPT !.stray = TRUE]
    <3> HIDE DEF Packet
    <3> QED
      BY <2>1
  <2> HIDE DEF Packet, Key, KeyValid
  <2> QED
    BY <2>1, <2>2 DEF LaidOut
<1>5. FairReport(my[c].held.preferred, trees[c])
         => FairReport(my[c].held.preferred, trees[c])'
  BY <1>2, <1>3 DEF FairReport
<1>6. FairReport(my[c].held.preferred, my[c].held.report)
         => FairReport(my[c].held.preferred, my[c].held.report)'
  BY <1>2 DEF FairReport
<1>7. PreparesWell(c)'
  <2> SUFFICES ASSUME kind[c] = "prepare" PROVE PreparesWell(c)'
    BY <1>1 DEF PreparesWell
  <2> HIDE DEF Packet, Key, KeyValid, LaidOut
  <2> QED
    BY <1>1, <1>2, <1>4 DEF PreparesWell, Kinds, RolesOf
<1>8. ScoresWell(c)'
  <2> SUFFICES ASSUME kind[c] = "score" PROVE ScoresWell(c)'
    BY <1>1 DEF ScoresWell
  <2> HIDE DEF FairReport
  <2> QED
    BY <1>1, <1>5, <1>6 DEF ScoresWell, Kinds, RolesOf
<1> QED
  BY <1>7, <1>8

\* A packet as it is drawn is one laid out
LEMMA PacketIsLaidOut ==
    ASSUME NEW x \in [ReviewCases -> Backends], KeyValid(Key(x))
    PROVE  LaidOut(Packet(x))
<1> DEFINE again == [Packet(x) EXCEPT !.stray = FALSE]
<1>1. /\ DOMAIN Packet(x) = {"review", "key", "manifest", "stray"} /\ Packet(x).stray = FALSE
      /\ Packet(x) = [field \in DOMAIN Packet(x) |-> Packet(x)[field]]
  <2> HIDE DEF Key, Shown
  <2> QED
    BY DEF Packet
<1> HIDE DEF Packet, Key, KeyValid
<1>2. again = [field \in DOMAIN Packet(x) |-> Packet(x)[field]]
  BY <1>1
<1>3. again = Packet(x)
  BY <1>1, <1>2
<1> QED
  BY <1>3 DEF LaidOut

\* A step of Prepare
LEMMA PreparesSteps ==
    ASSUME NEW c \in Commands, Domains, KeepsFields(c), Honest(c), InputsKnown,
           PreparesWell(c), Prepare(c)
    PROVE  PreparesWell(c)'
<1>1. kind[c] = "prepare" /\ UNCHANGED kind /\ Domains'
  BY PrepareSteps DEF Step, Local, kind
<1>2. DOMAIN my[c] = {"held", "tree", "lock", "committed", "failed"}
  BY DEF KeepsFields, NoMemory
<1>3. /\ Out(c)' = Out(c) /\ Out(c) \in Names /\ Temp(c) \in Names /\ Lock(c) \in Names
      /\ Temp(c) # Out(c) /\ Lock(c) # Out(c) /\ Lock(c) # Temp(c) /\ Tree(c) # Nothing
  BY <1>1 DEF Out, Temp, Lock, Names, Kinds, RolesOf, Tree, Nothing
<1>4. Published(c) => at[c] \notin {"idle", "reading", "unlocked", "locked", "frozen"}
  BY <1>1 DEF Honest, Accounts, Rising, Ended, Kinds, RolesOf, Suites
<1> USE DEF Prepares, At, Goes, Holds, Raises, Requires, GivesUp, dirVars, Bind, Unbind
\* The lock is taken or left, or nothing happens to the names
<1>5. ASSUME entries'[Out(c)] = entries[Out(c)], entries'[Temp(c)] = entries[Temp(c)],
             trees'[c] = trees[c], at'[c] # "reading",
             at'[c] \in {"unlocked", "locked", "frozen"}
                => at[c] \in {"unlocked", "locked", "frozen"}
      PROVE  PreparesWell(c)'
  <2>1. Published(c)' <=> Published(c)
    BY <1>1, <1>3, <1>5 DEF Published
  <2>2. LaidOut(trees[c]) => LaidOut(trees[c])'
    BY <1>5 DEF LaidOut
  <2> HIDE DEF LaidOut, Published
  <2> QED
    BY <1>1, <1>5, <2>1, <2>2 DEF PreparesWell
<1>6. CASE BuildPacket(c)
  <2> DEFINE runs == ProbeRuns[inputs.runs]
  <2>1. /\ at[c] = "idle" /\ entries' = entries /\ trees' = trees
        /\ \/ at'[c] = "error"
           \/ /\ at'[c] = "reading"
              /\ \E x \in Placements(runs[1].backend) : my' = [my EXCEPT ![c].held = Packet(x)]
    <3> HIDE DEF Packet, Placements, ProbeRuns, RunsComparable
    <3> QED
      BY <1>6 DEF BuildPacket, Domains
  <2>2. CASE at'[c] = "error"
    BY <1>5, <2>1, <2>2
  <2>3. CASE at'[c] = "reading"
    <3>1. PICK x \in Placements(runs[1].backend) : my' = [my EXCEPT ![c].held = Packet(x)]
      BY <2>1, <2>3
    <3>2. runs[1].backend \in Backends
      <4>1. inputs.runs \in {"fixed", "swapped", "same", "other"}
        BY DEF InputsKnown, Roles, Versions
      <4> QED
        BY <4>1 DEF ProbeRuns, Run, Backends
    <3> HIDE DEF Packet, runs
    <3>3. x \in [ReviewCases -> Backends] /\ KeyValid(Key(x))
      BY <3>2, DrawnIsValid
    <3>4. my'[c].held = Packet(x)
      BY <1>2, <3>1 DEF Domains
    <3>5. ~Published(c)'
      BY <1>1, <1>3, <1>4, <2>1 DEF Published
    <3> HIDE DEF Key, KeyValid, LaidOut, Published
    <3> QED
      BY <1>1, <2>3, <3>3, <3>4, <3>5 DEF PreparesWell
  <2> QED
    BY <2>1, <2>2, <2>3
<1>7. CASE WritePacket(c)
  <2>1. CASE at'[c] = "error"
    <3>1. at[c] = "reading" /\ entries'[Out(c)] = entries[Out(c)]
      BY <1>3, <1>7, <2>1 DEF WritePacket, Makes, Unnoted, Domains
    <3>2. ~Published(c)'
      BY <1>1, <1>3, <1>4, <3>1 DEF Published
    <3> QED
      BY <1>1, <2>1, <3>2 DEF PreparesWell
  <2>2. CASE at'[c] # "error"
    <3>1. /\ at[c] = "reading" /\ at'[c] = "unlocked" /\ trees'[c] = my[c].held
          /\ entries' = [entries EXCEPT ![Temp(c)] = Tree(c)]
      BY <1>7, <2>2 DEF WritePacket, Makes, Unnoted, Domains
    <3>2. PICK x \in [ReviewCases -> Backends] : KeyValid(Key(x)) /\ trees'[c] = Packet(x)
      BY <1>1, <3>1 DEF PreparesWell
    <3>3. LaidOut(trees'[c])
      BY <3>2, PacketIsLaidOut
    <3>4. LaidOut(trees[c])'
      BY <3>3 DEF LaidOut
    <3>5. ~Published(c)'
      BY <1>1, <1>3, <1>4, <3>1 DEF Published, Domains
    <3> HIDE DEF LaidOut, Published
    <3> QED
      BY <1>1, <3>1, <3>4, <3>5 DEF PreparesWell
  <2> QED
    BY <2>1, <2>2
<1>8. CASE LockPacket(c) \/ CheckPacket(c) \/ SyncPacket(c) \/ UnlockPacket(c)
  <2>1. /\ trees' = trees
        /\ \/ at[c] \in {"unlocked", "locked", "frozen"}
           \/ at'[c] \notin {"unlocked", "locked", "frozen"}
        /\ at'[c] # "reading"
    BY <1>8 DEF LockPacket, CreatesLock, Unnoted, CheckPacket, SyncPacket, UnlockPacket, Domains
  <2>2. entries' = entries \/ \E f : entries' = [entries EXCEPT ![Lock(c)] = f]
    BY <1>8 DEF LockPacket, CreatesLock, Unnoted, CheckPacket, SyncPacket, UnlockPacket,
                UnlinkByName
  <2> QED
    BY <1>3, <1>5, <2>1, <2>2 DEF Domains
<1>9. CASE RenamePacket(c)
  <2>1. CASE at'[c] = "cleanup"
    <3>1. entries' = entries /\ trees' = trees
      BY <1>9, <2>1 DEF RenamePacket, Domains
    <3> QED
      BY <1>5, <2>1, <3>1
  <2>2. CASE at'[c] # "cleanup"
    <3>1. /\ at[c] = "frozen" /\ at'[c] = "published" /\ trees' = trees
          /\ entries'[Temp(c)] = Nothing
      BY <1>3, <1>9, <2>2 DEF RenamePacket, Domains
    <3>2. LaidOut(trees[c])'
      BY <1>1, <3>1 DEF PreparesWell, LaidOut
    <3> HIDE DEF LaidOut, Published
    <3> QED
      BY <1>1, <3>1, <3>2 DEF PreparesWell
  <2> QED
    BY <2>1, <2>2
<1>10. CASE RemovePacket(c)
  <2>1. at'[c] \in {"ok", "error"}
    BY <1>10 DEF RemovePacket, EndsByName, Domains
  <2>2. CASE entries' = entries /\ trees' = trees
    BY <1>5, <2>1, <2>2
  <2>3. CASE entries' = [entries EXCEPT ![Temp(c)] = Nothing] /\ Exists(Temp(c))
    <3>1. ~Published(c)
      BY <1>1, <2>3 DEF PreparesWell, Exists
    <3>2. ~Published(c)'
      BY <1>1, <1>3, <2>3, <3>1 DEF Published, Domains
    <3> QED
      BY <1>1, <2>1, <3>2 DEF PreparesWell
  <2> QED
    BY <1>10, <2>2, <2>3 DEF RemovePacket, RemoveByName
<1> QED
  BY <1>6, <1>7, <1>8, <1>9, <1>10 DEF Prepare

\* A step of ScoreReview
LEMMA ScoresSteps ==
    ASSUME NEW c \in Commands, Domains, KeepsFields(c), Honest(c), InputsKnown,
           \A p \in Commands : PreparesWell(p), ScoresWell(c), ScoreReview(c)
    PROVE  ScoresWell(c)'
<1>1. kind[c] = "score" /\ UNCHANGED kind /\ Domains'
  BY ScoreSteps DEF Step, Local, kind
<1>2. DOMAIN my[c] = {"held", "tree", "lock", "committed", "failed"}
  BY DEF KeepsFields, NoMemory
<1>3. /\ Out(c)' = Out(c) /\ Out(c) \in Names /\ Temp(c) \in Names
      /\ Temp(c) # Out(c) /\ Tree(c) # Nothing
  BY <1>1 DEF Out, Temp, Names, Kinds, RolesOf, Tree, Nothing
<1>4. Published(c) => at[c] \notin {"idle", "reading", "written"}
  BY <1>1 DEF Honest, Accounts, Rising, Ended, Kinds, RolesOf, Suites
<1> USE DEF Scores, At, Goes, Holds, Raises, GivesUp, dirVars, Bind, Unbind
\* The report is where it was, or has its name: its content stays
<1>5. ASSUME trees'[c] = trees[c], my'[c].held = my[c].held, at'[c] \notin {"reading", "written"},
             at[c] = "written" \/ (Published(c)' => Published(c))
      PROVE  ScoresWell(c)'
  <2>1. FairReport(my[c].held.preferred, trees[c])
           => FairReport(my[c].held.preferred, trees[c])'
    BY <1>5 DEF FairReport
  <2> HIDE DEF FairReport, Published
  <2> QED
    BY <1>1, <1>5, <2>1 DEF ScoresWell
<1>6. CASE ReadPacket(c)
  <2>1. /\ at[c] = "idle" /\ entries' = entries /\ trees' = trees
        /\ \/ at'[c] = "error" /\ my' = my
           \/ /\ at'[c] = "reading"
              /\ \E p \in Commands, preferred \in Preferences :
                   LET packet == FoundPacket(trees[p])
                       judgments == Judgments(packet, preferred)
                   IN /\ kind[p] = "prepare" /\ Published(p)
                      /\ PacketHolds(packet)
                      /\ JudgmentsComplete(judgments, packet.review)
                      /\ my' = [my EXCEPT ![c].held = [preferred |-> preferred, report |->
                              ScoreOf(packet.key, packet.review, judgments)]]
    <3> HIDE DEF FoundPacket, Judgments, PacketHolds, JudgmentsComplete, ScoreOf, Published
    <3> QED
      BY <1>6 DEF ReadPacket, Domains
  <2>2. ~Published(c)'
    BY <1>1, <1>3, <1>4, <2>1 DEF Published
  <2>3. CASE at'[c] = "error"
    BY <1>1, <2>2, <2>3 DEF ScoresWell
  <2>4. CASE at'[c] = "reading"
    <3>1. PICK p \in Commands, preferred \in Preferences :
             LET packet == FoundPacket(trees[p])
                 judgments == Judgments(packet, preferred)
             IN /\ kind[p] = "prepare" /\ Published(p)
                /\ PacketHolds(packet)
                /\ JudgmentsComplete(judgments, packet.review)
                /\ my' = [my EXCEPT ![c].held = [preferred |-> preferred, report |->
                        ScoreOf(packet.key, packet.review, judgments)]]
      BY <2>1, <2>4
    <3> DEFINE packet == FoundPacket(trees[p])
               judgments == Judgments(packet, preferred)
    <3>2. LaidOut(trees[p])
      <4> HIDE DEF LaidOut, Published
      <4> QED
        BY <3>1 DEF PreparesWell
    <3>3. inputs["packet"] \in Versions["packet"]
      BY DEF InputsKnown, Roles, Versions
    <3>4. PICK z \in [ReviewCases -> Backends] : packet.key = Key(z) /\ packet.review = Shown(z)
      <4> HIDE DEF LaidOut, PacketHolds
      <4> QED
        BY <3>1, <3>2, <3>3, FoundIsShown
    <3>5. DOMAIN preferred = ReviewCases
      <4>1. DOMAIN judgments = DOMAIN preferred
        BY DEF Judgments
      <4>2. DOMAIN Shown(z) = ReviewCases
        BY DEF Shown
      <4>3. DOMAIN judgments = DOMAIN packet.review
        BY <3>1 DEF JudgmentsComplete
      <4> HIDE DEF packet, judgments
      <4> QED
        BY <3>4, <4>1, <4>2, <4>3
    <3>6. my'[c].held = [preferred |-> preferred, report |->
                            ScoreOf(packet.key, packet.review, judgments)]
      <4>1. my' = [my EXCEPT ![c].held = [preferred |-> preferred, report |->
                            ScoreOf(packet.key, packet.review, judgments)]]
        BY <3>1
      <4> HIDE DEF packet, judgments
      <4> QED
        BY <1>2, <4>1 DEF Domains
    <3>7. FairReport(preferred, ScoreOf(packet.key, packet.review, judgments))
      <4> HIDE DEF packet
      <4>1. FairReport(preferred,
               ScoreOf(packet.key, packet.review, Judgments(packet, preferred)))
        BY <3>4, <3>5, ScoredFairly
      <4> QED
        BY <4>1
    <3> HIDE DEF packet, judgments
    <3>8. FairReport(my'[c].held.preferred, my'[c].held.report)
      BY <3>6, <3>7
    <3>9. FairReport(my[c].held.preferred, my[c].held.report)'
      BY <3>8 DEF FairReport
    <3> HIDE DEF FairReport, Published
    <3> QED
      BY <1>1, <2>2, <2>4, <3>9 DEF ScoresWell
  <2> QED
    BY <2>1, <2>3, <2>4
<1>7. CASE WriteReport(c)
  <2>1. /\ at[c] = "reading" /\ entries'[Out(c)] = entries[Out(c)]
        /\ \/ at'[c] = "error"
           \/ /\ at'[c] = "written" /\ my' = my
              /\ trees'[c] = Joined(my[c].held.report, [stray |-> FALSE])
    <3> HIDE DEF Joined
    <3> QED
      BY <1>3, <1>7 DEF WriteReport, Makes, Unnoted, Domains
  <2>2. ~Published(c)'
    BY <1>1, <1>3, <1>4, <2>1 DEF Published
  <2>3. CASE at'[c] = "error"
    BY <1>1, <2>2, <2>3 DEF ScoresWell
  <2>4. CASE at'[c] = "written"
    <3>1. FairReport(my[c].held.preferred, my[c].held.report)
      <4> HIDE DEF FairReport
      <4> QED
        BY <1>1, <2>1 DEF ScoresWell
    <3>2. /\ {"outcomes", "categories", "quality"} \subseteq DOMAIN trees'[c]
          /\ trees'[c].outcomes = my[c].held.report.outcomes
          /\ trees'[c].categories = my[c].held.report.categories
          /\ trees'[c].quality = my[c].held.report.quality
      <4>1. {"outcomes", "categories", "quality"} \subseteq DOMAIN my[c].held.report
        BY <3>1 DEF FairReport
      <4> QED
        BY <2>1, <2>4, <4>1 DEF Joined
    <3>3. FairReport(my[c].held.preferred, trees'[c])
      BY <3>1, <3>2 DEF FairReport
    <3>4. FairReport(my[c].held.preferred, trees[c])'
      BY <2>1, <2>4, <3>3 DEF FairReport
    <3> HIDE DEF FairReport, Published
    <3> QED
      BY <1>1, <2>2, <2>4, <3>4 DEF ScoresWell
  <2> QED
    BY <2>1, <2>3, <2>4
<1>8. CASE LinkReport(c)
  <2>1. /\ at[c] = "written" /\ trees' = trees /\ my'[c].held = my[c].held
        /\ at'[c] \in {"published", "cleanup"}
    BY <1>2, <1>8 DEF LinkReport, Domains
  <2> QED
    BY <1>5, <2>1
<1>9. CASE SyncReport(c)
  <2>1. /\ entries' = entries /\ trees' = trees /\ my'[c].held = my[c].held
        /\ at'[c] = "cleanup"
    BY <1>2, <1>9 DEF SyncReport, Domains
  <2>2. Published(c)' => Published(c)
    BY <1>3, <1>1, <2>1 DEF Published
  <2> QED
    BY <1>5, <2>1, <2>2
<1>10. CASE UnlinkTemporary(c)
  <2>1. /\ entries'[Out(c)] = entries[Out(c)] /\ trees' = trees /\ my' = my
        /\ at'[c] \in {"ok", "error"}
    BY <1>3, <1>10 DEF UnlinkTemporary, Domains
  <2>2. Published(c)' => Published(c)
    BY <1>1, <1>3, <2>1 DEF Published
  <2> QED
    BY <1>5, <2>1, <2>2
<1> QED
  BY <1>6, <1>7, <1>8, <1>9, <1>10 DEF ScoreReview

\* What is reviewed stays so, after any step
LEMMA ReviewedSteps ==
    ASSUME Domains, AllHonest, InputsKnown, \A c \in Commands : Tidy(c),
           \A c \in Commands : PreparesWell(c) /\ ScoresWell(c), [Next]_vars
    PROVE  \A c \in Commands : PreparesWell(c)' /\ ScoresWell(c)'
<1> SUFFICES ASSUME NEW c \in Commands PROVE PreparesWell(c)' /\ ScoresWell(c)'
  OBVIOUS
<1>1. KeepsFields(c) /\ Honest(c)
  BY DEF Tidy, AllHonest
<1>2. UNCHANGED scenario
  BY ScenarioStays
<1>3. CASE Aside(c)
  BY <1>1, <1>3, ReviewsAside
<1>4. CASE Command(c)
  <2>1. kind[c] = "prepare" => PreparesWell(c)'
    BY <1>1, <1>4, OfItsKind, PreparesSteps
  <2>2. kind[c] = "score" => ScoresWell(c)'
    BY <1>1, <1>4, OfItsKind, ScoresSteps
  <2> QED
    BY <1>2, <2>1, <2>2 DEF PreparesWell, ScoresWell, kind
<1> QED
  BY <1>3, <1>4, LeftAside

\* Whichever placement the seed draws, whatever a reviewer prefers, and though the packet
\* be edited and hashed anew: a packet that is published passes its own checks, and a
\* report that is written counts what was preferred, in each category and in all
THEOREM ReviewIsFairEver == Spec => []ReviewIsFair
<1> DEFINE AllTidy == \A c \in Commands : Tidy(c)
           AllReviewed == \A c \in Commands : PreparesWell(c) /\ ScoresWell(c)
<1>1. Init => Domains /\ AllTidy
  BY InitDomains, InitTidy
<1>2. Domains /\ AllTidy /\ [Next]_vars => Domains' /\ AllTidy'
  BY StoreSteps, TidySteps
<1>3. Init => AllHonest /\ InputsKnown /\ AllReviewed
  <2> SUFFICES ASSUME Init PROVE AllHonest /\ InputsKnown /\ AllReviewed
    OBVIOUS
  <2>1. AllReviewed
    BY InitUnpublished DEF PreparesWell, ScoresWell, Kinds, RolesOf
  <2> QED
    BY <2>1, InitHonest, InitKnown
<1>4. Domains /\ AllTidy /\ AllHonest /\ [Next]_vars => AllHonest'
  BY HonestSteps
<1>5. Domains /\ InputsKnown /\ [Next]_vars => InputsKnown'
  BY InputsKnownSteps
<1>6. Domains /\ AllHonest /\ InputsKnown /\ AllTidy /\ AllReviewed /\ [Next]_vars
      => AllReviewed'
  BY ReviewedSteps
<1>7. AllReviewed => ReviewIsFair
  <2>1. ASSUME NEW c \in Commands, PreparesWell(c), kind[c] = "prepare", Published(c),
               ~trees[c].stray
        PROVE  PacketHolds(trees[c])
    <3>1. PICK x \in [ReviewCases -> Backends], b \in BOOLEAN :
             KeyValid(Key(x)) /\ trees[c] = [Packet(x) EXCEPT !.stray = b]
      BY <2>1 DEF PreparesWell, LaidOut
    <3>2. trees[c] = Packet(x)
      BY <2>1, <3>1 DEF Packet
    <3> QED
      BY <3>1, <3>2, ValidHolds
  <2>2. ASSUME NEW c \in Commands, ScoresWell(c), kind[c] = "score", Published(c)
        PROVE  FairReport(my[c].held.preferred, trees[c])
    <3> HIDE DEF FairReport, Published
    <3> QED
      BY <2>2 DEF ScoresWell
  <2>3. ASSUME NEW preferred, NEW tree, FairReport(preferred, tree),
               NEW b \in Backends, NEW o \in Outcomes
        PROVE  /\ tree.outcomes[b][o] = Cardinality(CountedCases(preferred, o, b, ReviewCases))
               /\ \A g \in Categories : tree.categories[g][b][o] =
                     Cardinality(CountedCases(preferred, o, b, CasesOf(g)))
               /\ \A k \in ReviewCases : tree.quality[b][k] = Candidates(b, k)
    BY <2>3 DEF FairReport
  <2> SUFFICES ASSUME AllReviewed, NEW c \in Commands
               PROVE  /\ kind[c] = "prepare" /\ Published(c) /\ ~trees[c].stray =>
                            PacketHolds(trees[c])
                      /\ kind[c] = "score" /\ Published(c) =>
                            \A b \in Backends, o \in Outcomes :
                               /\ trees[c].outcomes[b][o] = Cardinality(
                                     CountedCases(my[c].held.preferred, o, b, ReviewCases))
                               /\ \A g \in Categories : trees[c].categories[g][b][o] =
                                     Cardinality(
                                        CountedCases(my[c].held.preferred, o, b, CasesOf(g)))
                               /\ \A k \in ReviewCases :
                                     trees[c].quality[b][k] = Candidates(b, k)
    BY DEF ReviewIsFair, CountedCases
  <2> HIDE DEF PacketHolds, FairReport, Published
  <2> QED
    BY <2>1, <2>2, <2>3
<1> HIDE DEF AllTidy, AllReviewed
<1> QED
  BY <1>1, <1>2, <1>3, <1>4, <1>5, <1>6, <1>7, PTL DEF Spec


------------------------------------------------------------------------------
(* What a suite that passes has seen                                       *)

Places == {"none", "group", "session", "away", "gone", "killed"}

SessionFields == {"place", "exit", "timedOut", "reported", "seen", "listed", "residues",
                  "stage", "round", "before", "expected"}

\* The programs of a suite, and those of a session that were started
ProgramsOf(k) == ServersOf[k] \cup HelpersOf[k]
HelpersIn(s) == {h \in HelpersOf["adapter"] : s.place[h] # "none"}

\* A session: what was seen was started, the runner of the adapter has counted its
\* helpers and starts no more, and who was killed left a residue
WellKept(k, s) ==
    /\ DOMAIN s = SessionFields
    /\ DOMAIN s.place = Launched(k) \cup {"runner"}
    /\ \A p \in DOMAIN s.place : s.place[p] \in Places
    /\ s.place["runner"] \in {"group", "gone", "killed"}
    /\ s.seen \subseteq ProgramsOf(k)
    /\ \A p \in s.seen : s.place[p] # "none"
    /\ s.exit = "passed" => s.place["runner"] = "gone"
    /\ k = "adapter" /\ s.place["runner"] = "gone" => s.reported = HelpersIn(s)
    /\ s.residues = {} => \A p \in DOMAIN s.place : s.place[p] # "killed"

\* What the validation has found in it
Cleared(k, s) ==
    /\ RoundPassed(s)
    /\ k = "adapter" => AdapterValid(s)
    /\ k = "steady" =>
          /\ Cardinality(s.reported \cap ServersOf["steady"]) = 2
          /\ s.reported = s.seen

\* What the result says of the session
SaysSo(native, s) ==
    /\ native.residues = s.residues /\ native.exit = s.exit
    /\ native.timedOut = s.timedOut
    /\ native.reported = s.reported /\ native.seen = s.seen

\* A suite from the start of its session to its verdict
RunsWell(c) ==
    kind[c] \in Suites =>
        /\ at[c] \in {"running", "group", "session", "audited", "written", "ok"} =>
              WellKept(kind[c], Session(c)) /\ "native" \in DOMAIN trees[c]
        /\ at[c] = "session" /\ c \notin late =>
              SessionMembers(Session(c)) \subseteq Session(c).listed
        /\ at[c] \in {"audited", "written", "ok"} /\ c \notin late /\ Session(c).residues = {}
              => SessionMembers(Session(c)) = {}
        /\ at[c] = "written" => SaysSo(trees[c].native, Session(c))
        /\ at[c] = "ok" => Cleared(kind[c], Session(c))

\* A record from the reading of the native result to its place
CollectsWell(c) ==
    kind[c] = "collect" =>
        /\ at[c] \in {"ruled", "captured", "verified", "reading"} =>
              my[c].held.native \in Versions["native"]
        /\ at[c] \in {"verified", "reading"} => CyclesValid(HarnessResult[my[c].held.native])
        /\ at[c] = "written" \/ Published(c) =>
              /\ "native" \in DOMAIN trees[c]
              /\ trees[c].native \in Versions["native"]
              /\ CyclesValid(HarnessResult[trees[c].native])


\* Who is in the session has its place in it
LEMMA MembersStand ==
    ASSUME NEW s
    PROVE  /\ GroupMembers(s) \subseteq SessionMembers(s)
           /\ SessionMembers(s) \subseteq DOMAIN s.place
           /\ \A p \in SessionMembers(s) : s.place[p] \in {"group", "session"}
BY DEF GroupMembers, SessionMembers

\* A process is started, moves or ends by itself
LEMMA PlaceChanges ==
    ASSUME NEW k \in Suites, NEW s, WellKept(k, s), NEW p \in DOMAIN s.place, p # "runner",
           NEW place \in {"group", "session", "away", "gone"}, s.place[p] # "killed",
           k = "adapter" /\ p \in HelpersOf["adapter"] /\ s.place[p] = "none"
              => s.place["runner"] = "group"
    PROVE  WellKept(k, [s EXCEPT !.place[p] = place])
<1> DEFINE t == [s EXCEPT !.place[p] = place]
<1>1. /\ DOMAIN t = DOMAIN s
      /\ t.place = [s.place EXCEPT ![p] = place]
      /\ t.exit = s.exit /\ t.reported = s.reported /\ t.seen = s.seen
      /\ t.residues = s.residues
  BY DEF WellKept, SessionFields
<1> HIDE DEF t
<1>2. /\ DOMAIN t.place = DOMAIN s.place /\ t.place[p] = place
      /\ \A q \in DOMAIN s.place \ {p} : t.place[q] = s.place[q]
  BY <1>1
<1>3. k = "adapter" => HelpersOf["adapter"] \subseteq DOMAIN s.place
  BY DEF WellKept, Launched, HelpersOf, ServersOf
<1>4. s.seen \subseteq DOMAIN s.place
  BY DEF WellKept, Launched, HelpersOf, ServersOf, Suites, ProgramsOf
<1>5. k = "adapter" /\ t.place["runner"] = "gone" => t.reported = HelpersIn(t)
  <2> SUFFICES ASSUME k = "adapter", t.place["runner"] = "gone"
               PROVE  t.reported = HelpersIn(t)
    OBVIOUS
  <2>1. s.reported = HelpersIn(s) /\ s.place["runner"] = "gone"
    BY <1>2 DEF WellKept, Launched
  <2>2. p \in HelpersOf["adapter"] => s.place[p] # "none"
    BY <2>1
  <2>3. \A h \in HelpersOf["adapter"] : t.place[h] # "none" <=> s.place[h] # "none"
    BY <1>2, <1>3, <2>2
  <2> QED
    BY <1>1, <2>1, <2>3 DEF HelpersIn
<1>6. WellKept(k, t)
  BY <1>1, <1>2, <1>4, <1>5 DEF WellKept, Places
<1> QED
  BY <1>6 DEF t

\* The runner ends and has its results
LEMMA RunnerEnds ==
    ASSUME NEW k \in Suites, NEW s, WellKept(k, s), NEW exit, NEW reported,
           k = "adapter" => reported = HelpersIn(s)
    PROVE  WellKept(k, [s EXCEPT !.place["runner"] = "gone", !.exit = exit,
                                 !.reported = reported])
<1> DEFINE t == [s EXCEPT !.place["runner"] = "gone", !.exit = exit, !.reported = reported]
<1>1. /\ DOMAIN t = DOMAIN s
      /\ t.place = [s.place EXCEPT !["runner"] = "gone"]
      /\ t.reported = reported /\ t.seen = s.seen /\ t.residues = s.residues
  BY DEF WellKept, SessionFields
<1> HIDE DEF t
<1>2. /\ DOMAIN t.place = DOMAIN s.place /\ t.place["runner"] = "gone"
      /\ \A q \in DOMAIN s.place \ {"runner"} : t.place[q] = s.place[q]
  BY <1>1 DEF WellKept
<1>3. s.seen \subseteq DOMAIN s.place
  BY DEF WellKept, Launched, HelpersOf, ServersOf, Suites, ProgramsOf
<1>4. k = "adapter" => HelpersIn(t) = HelpersIn(s)
  <2>1. k = "adapter" => \A h \in HelpersOf["adapter"] : t.place[h] = s.place[h]
    BY <1>2 DEF WellKept, Launched, HelpersOf, ServersOf
  <2> QED
    BY <2>1 DEF HelpersIn
<1>5. WellKept(k, t)
  BY <1>1, <1>2, <1>3, <1>4 DEF WellKept, Places
<1> QED
  BY <1>5 DEF t

\* A running program is seen
LEMMA SeenMore ==
    ASSUME NEW k \in Suites, NEW s, WellKept(k, s), NEW p \in ProgramsOf(k),
           s.place[p] # "none"
    PROVE  WellKept(k, [s EXCEPT !.seen = @ \cup {p}])
<1> DEFINE t == [s EXCEPT !.seen = @ \cup {p}]
<1>1. /\ DOMAIN t = DOMAIN s /\ t.place = s.place /\ t.exit = s.exit
      /\ t.reported = s.reported /\ t.seen = s.seen \cup {p} /\ t.residues = s.residues
  BY DEF WellKept, SessionFields
<1> HIDE DEF t
<1>2. HelpersIn(t) = HelpersIn(s)
  BY <1>1 DEF HelpersIn
<1>3. WellKept(k, t)
  BY <1>1, <1>2 DEF WellKept
<1> QED
  BY <1>3 DEF t

\* What a session is besides is nobody's concern
LEMMA SessionAsWas ==
    ASSUME NEW k \in Suites, NEW s, WellKept(k, s), NEW t, DOMAIN t = SessionFields,
           t.place = s.place, t.exit = s.exit, t.reported = s.reported, t.seen = s.seen,
           t.residues = {} => s.residues = {}
    PROVE  WellKept(k, t)
<1>1. HelpersIn(t) = HelpersIn(s)
  BY DEF HelpersIn
<1> QED
  BY <1>1 DEF WellKept

\* Some of the session are killed, which leaves a residue, or the command ends
LEMMA KilledOff ==
    ASSUME NEW k \in Suites, NEW s, WellKept(k, s), NEW killed \in SUBSET SessionMembers(s),
           NEW t, DOMAIN t = SessionFields, t.place = Killed(s, killed).place,
           t.exit = Killed(s, killed).exit, t.reported = s.reported, t.seen = s.seen,
           t.residues = {} => s.residues = {} /\ killed = {}
    PROVE  WellKept(k, t)
<1>1. /\ t.place = [p \in DOMAIN s.place |-> IF p \in killed THEN "killed" ELSE s.place[p]]
      /\ t.exit = IF "runner" \in killed THEN "failed" ELSE s.exit
  BY DEF Killed, WellKept, SessionFields
<1>2. \A p \in killed : p \in DOMAIN s.place /\ s.place[p] \in {"group", "session"}
  BY MembersStand
<1>3. s.seen \subseteq DOMAIN s.place
  BY DEF WellKept, Launched, HelpersOf, ServersOf, Suites, ProgramsOf
<1>4. "runner" \in DOMAIN s.place
  BY DEF WellKept
<1>5. k = "adapter" => HelpersIn(t) = HelpersIn(s)
  <2>1. k = "adapter" => HelpersOf["adapter"] \subseteq DOMAIN s.place
    BY DEF WellKept, Launched, HelpersOf, ServersOf
  <2>2. k = "adapter" => \A h \in HelpersOf["adapter"] : t.place[h] # "none" <=> s.place[h] # "none"
    BY <1>1, <1>2, <2>1
  <2> QED
    BY <2>2 DEF HelpersIn
<1> QED
  BY <1>1, <1>2, <1>3, <1>4, <1>5 DEF WellKept, Places


\* A file beside its output changes nothing for a suite, nor for a record
LEMMA CountsAside ==
    ASSUME NEW c \in Commands, KeepsFields(c), RunsWell(c), CollectsWell(c), Aside(c)
    PROVE  RunsWell(c)' /\ CollectsWell(c)'
<1>1. /\ UNCHANGED kind /\ (kind[c] \in Kinds /\ Published(c)' => Published(c))
      /\ at'[c] = at[c] \/ at'[c] \in {"killed", "cleanup", "error"}
      /\ late \subseteq late'
  BY DEF Aside
<1>2. my'[c].held = my[c].held
  <2>1. DOMAIN my[c] = {"held", "tree", "lock", "committed", "failed"}
    BY DEF KeepsFields, NoMemory
  <2> QED
    BY <2>1 DEF Aside
<1>3. "native" \in DOMAIN trees[c] =>
         "native" \in DOMAIN trees'[c] /\ trees'[c].native = trees[c].native
  BY DEF Aside
<1>4. Session(c)' = Session(c)
  BY <1>2 DEF Session
<1>5. RunsWell(c)'
  <2> SUFFICES ASSUME kind[c] \in Suites, at'[c] = at[c] PROVE RunsWell(c)'
    BY <1>1 DEF RunsWell
  <2> HIDE DEF WellKept, SaysSo, Cleared, Session, SessionMembers
  <2>1. WellKept(kind[c], Session(c))' <=> WellKept(kind[c], Session(c))
    BY <1>1, <1>4
  <2>2. SessionMembers(Session(c))' = SessionMembers(Session(c))
    BY <1>4
  <2>3. at[c] = "written" => SaysSo(trees[c].native, Session(c))'
    <3>1. at[c] = "written" => SaysSo(trees[c].native, Session(c)) /\ "native" \in DOMAIN trees[c]
      BY DEF RunsWell
    <3> QED
      BY <1>3, <1>4, <3>1
  <2>4. Cleared(kind[c], Session(c))' <=> Cleared(kind[c], Session(c))
    BY <1>1, <1>4
  <2> QED
    BY <1>1, <1>3, <1>4, <2>1, <2>2, <2>3, <2>4 DEF RunsWell
<1>6. CollectsWell(c)'
  <2> SUFFICES ASSUME kind[c] = "collect" PROVE CollectsWell(c)'
    BY <1>1 DEF CollectsWell
  <2> HIDE DEF CyclesValid, HarnessResult, Published, Versions
  <2>1. ASSUME at[c] = "written" \/ Published(c)
        PROVE  /\ "native" \in DOMAIN trees'[c] /\ trees'[c].native \in Versions["native"]
               /\ CyclesValid(HarnessResult[trees'[c].native])
    BY <1>3, <2>1 DEF CollectsWell
  <2> QED
    BY <1>1, <1>2, <2>1 DEF CollectsWell, Kinds, RolesOf
<1> QED
  BY <1>5, <1>6

\* What happens in the session of a suite
LEMMA SessionKept ==
    ASSUME NEW c \in Commands, Domains, KeepsFields(c), RunsWell(c), InSessionOf(c)
    PROVE  RunsWell(c)'
<1> DEFINE k == kind[c]
           s == Session(c)
<1>1. /\ kind[c] \in Suites /\ UNCHANGED <<kind, trees>> /\ at' = at
      /\ at[c] \in {"running", "group", "session"}
  BY DEF InSessionOf, Fork, Leave, Exit, Observe, InSession, kind, dirVars
<1>2. DOMAIN my[c] = {"held", "tree", "lock", "committed", "failed"} /\ DOMAIN my = Commands
  BY DEF KeepsFields, NoMemory, Domains
<1>3. WellKept(k, s) /\ "native" \in DOMAIN trees[c]
  BY <1>1 DEF RunsWell
<1>4. /\ DOMAIN s = SessionFields /\ DOMAIN s.place = Launched(k) \cup {"runner"}
      /\ s.place["runner"] \in {"group", "gone", "killed"} /\ s.seen \subseteq ProgramsOf(k)
  BY <1>3 DEF WellKept
<1>5. Session(c)' = my'[c].held
  BY DEF Session
\* What is then to be shown
<1>6. ASSUME WellKept(k, my'[c].held), late \subseteq late',
             at[c] = "session" /\ c \notin late' =>
                SessionMembers(my'[c].held) \subseteq my'[c].held.listed
      PROVE  RunsWell(c)'
  <2>1. WellKept(kind[c], Session(c))'
    BY <1>1, <1>5, <1>6
  <2>2. at[c] = "session" /\ c \notin late' =>
           SessionMembers(Session(c))' \subseteq Session(c).listed'
    BY <1>5, <1>6
  <2> HIDE DEF WellKept
  <2> QED
    BY <1>1, <1>3, <2>1, <2>2 DEF RunsWell
<1> HIDE DEF k, s
<1>7. at[c] = "session" /\ c \notin late => SessionMembers(s) \subseteq s.listed
  BY <1>1 DEF RunsWell, s
<1>8. PICK p \in Launched(k) \cup {"runner"} :
         Fork(c, p) \/ Leave(c, p) \/ Exit(c, p) \/ Observe(c, p)
  BY DEF InSessionOf, k
\* Who moves was in the session, and stays or leaves it
<1>9. ASSUME NEW place, my'[c].held = [s EXCEPT !.place[p] = place], p \in SessionMembers(s)
      PROVE  /\ SessionMembers(my'[c].held) \subseteq SessionMembers(s)
             /\ my'[c].held.listed = s.listed
  <2>1. my'[c].held.place = [s.place EXCEPT ![p] = place] /\ my'[c].held.listed = s.listed
    BY <1>4, <1>9 DEF SessionFields
  <2> QED
    BY <1>4, <1>9, <2>1 DEF SessionMembers
<1>10. ASSUME NEW place \in {"group", "session", "away", "gone"},
              my'[c].held = [s EXCEPT !.place[p] = place], p # "runner", s.place[p] # "killed",
              k = "adapter" /\ p \in HelpersOf["adapter"] /\ s.place[p] = "none"
                 => s.place["runner"] = "group"
       PROVE  WellKept(k, my'[c].held)
  <2>1. k \in Suites /\ p \in DOMAIN s.place
    BY <1>1, <1>4, <1>8 DEF k
  <2> HIDE DEF WellKept, Suites
  <2>2. WellKept(k, [s EXCEPT !.place[p] = place])
    BY <1>3, <1>10, <2>1, PlaceChanges
  <2> QED
    BY <1>10, <2>2
<1>11. CASE Fork(c, p)
  <2>1. PICK parent \in Parents(c, p) :
           my' = [my EXCEPT ![c].held.place[p] = s.place[parent]]
    BY <1>11 DEF Fork, s
  <2>2. s.place[p] = "none" /\ late' = IF at[c] = "session" THEN late \cup {c} ELSE late
    BY <1>11 DEF Fork, s
  <2>3. parent \in SessionMembers(s)
        /\ (p \in HelpersOf[k] => parent \in ServersOf[k])
    BY <2>1 DEF Parents, s, k
  <2>4. s.place[parent] \in {"group", "session"}
    BY <2>3, MembersStand
  <2>5. my'[c].held = [s EXCEPT !.place[p] = s.place[parent]]
    BY <1>2, <2>1 DEF s, Session
  <2>6. p # "runner"
    BY <1>4, <2>2
  <2>7. k = "adapter" /\ p \in HelpersOf["adapter"] => s.place["runner"] = "group"
    <3>1. k = "adapter" /\ p \in HelpersOf["adapter"] => parent = "runner"
      BY <2>3 DEF ServersOf
    <3> QED
      BY <1>4, <2>4, <3>1
  <2>8. WellKept(k, my'[c].held)
    BY <1>10, <2>2, <2>4, <2>5, <2>6, <2>7
  <2> QED
    BY <1>6, <2>2, <2>8
<1>12. CASE Leave(c, p)
  <2>1. PICK place \in {"session", "away"} : my' = [my EXCEPT ![c].held.place[p] = place]
    BY <1>12 DEF Leave
  <2>2. p # "runner" /\ p \in SessionMembers(s) /\ late' = late
    BY <1>12 DEF Leave, s
  <2>3. my'[c].held = [s EXCEPT !.place[p] = place]
    BY <1>2, <2>1 DEF s, Session
  <2>4. s.place[p] \in {"group", "session"}
    BY <2>2, MembersStand
  <2>5. WellKept(k, my'[c].held)
    BY <1>10, <2>1, <2>2, <2>3, <2>4
  <2> QED
    BY <1>6, <1>7, <1>9, <2>2, <2>3, <2>5
<1>13. CASE Exit(c, p)
  <2>1. p \in SessionMembers(s) /\ late' = late
    BY <1>13 DEF Exit, s
  <2>2. s.place[p] \in {"group", "session"}
    BY <2>1, MembersStand
  <2>3. CASE p # "runner"
    <3>1. my'[c].held = [s EXCEPT !.place[p] = "gone"]
      BY <1>2, <1>13, <2>3 DEF Exit, s, Session
    <3>2. WellKept(k, my'[c].held)
      BY <1>10, <2>2, <2>3, <3>1
    <3> QED
      BY <1>6, <1>7, <1>9, <2>1, <3>1, <3>2
  <2>4. CASE p = "runner"
    <3>1. PICK exit \in {"passed", "failed"} :
             my' = [my EXCEPT ![c].held.place[p] = "gone", ![c].held.exit = exit,
                              ![c].held.reported = Known(c)]
      BY <1>13, <2>4 DEF Exit
    <3> DEFINE t == [s EXCEPT !.place["runner"] = "gone", !.exit = exit, !.reported = Known(c)]
    <3>2. my'[c].held = t
      BY <1>2, <2>4, <3>1 DEF s, Session
    <3>3. k = "adapter" => Known(c) = HelpersIn(s)
      <4>1. k = "adapter" => HelpersOf["adapter"] \subseteq DOMAIN s.place
        BY <1>4 DEF Launched, HelpersOf, ServersOf
      <4> QED
        BY <4>1 DEF Known, HelpersIn, k, s
    <3>4. WellKept(k, t)
      <4>1. k \in Suites
        BY <1>1 DEF k
      <4> HIDE DEF WellKept, Suites
      <4> QED
        BY <1>3, <3>3, <4>1, RunnerEnds
    <3>5. SessionMembers(t) \subseteq SessionMembers(s) /\ t.listed = s.listed
      <4>1. t.place = [s.place EXCEPT !["runner"] = "gone"] /\ t.listed = s.listed
        BY <1>4 DEF SessionFields
      <4> HIDE DEF t
      <4> QED
        BY <1>4, <4>1 DEF SessionMembers
    <3> HIDE DEF t
    <3> QED
      BY <1>6, <1>7, <2>1, <3>2, <3>4, <3>5
  <2> QED
    BY <2>3, <2>4
<1>14. CASE Observe(c, p)
  <2>1. /\ my' = [my EXCEPT ![c].held.seen = @ \cup {p}] /\ late' = late
        /\ p \in SessionMembers(s) /\ p \in ProgramsOf(k)
    BY <1>14 DEF Observe, s, k, ProgramsOf
  <2> DEFINE t == [s EXCEPT !.seen = @ \cup {p}]
  <2>2. my'[c].held = t
    BY <1>2, <2>1 DEF s, Session
  <2>3. s.place[p] # "none"
    BY <2>1, MembersStand
  <2>4. WellKept(k, t)
    <3>1. k \in Suites
      BY <1>1 DEF k
    <3> HIDE DEF WellKept, Suites
    <3> QED
      BY <1>3, <2>1, <2>3, <3>1, SeenMore
  <2>5. SessionMembers(t) = SessionMembers(s) /\ t.listed = s.listed
    <3>1. t.place = s.place /\ t.listed = s.listed
      BY <1>4 DEF SessionFields
    <3> HIDE DEF t
    <3> QED
      BY <3>1 DEF SessionMembers
  <2> HIDE DEF t
  <2> QED
    BY <1>6, <1>7, <2>1, <2>2, <2>4, <2>5
<1> QED
  BY <1>8, <1>11, <1>12, <1>13, <1>14


\* A session as it begins
LEMMA BeginsWell ==
    ASSUME NEW k \in Suites, NEW round, NEW before, NEW expected
    PROVE  WellKept(k, ExpectingSession(k, round, before, expected))
<1> DEFINE s == ExpectingSession(k, round, before, expected)
<1>1. /\ DOMAIN s = SessionFields
      /\ s.place = [p \in Launched(k) \cup {"runner"} |->
                       IF p = "runner" THEN "group" ELSE "none"]
      /\ s.seen = {} /\ s.exit = "running"
  BY DEF ExpectingSession, NewSession, Joined, SessionFields
<1> HIDE DEF s
<1>2. WellKept(k, s)
  BY <1>1 DEF WellKept, Places
<1> QED
  BY <1>2 DEF s

\* A verdict on the result is one on the session it speaks of
LEMMA SaysEnough ==
    ASSUME NEW k \in Suites, NEW native, NEW s, SaysSo(native, s), NativeValid(k, native)
    PROVE  Cleared(k, s)
<1>1. RoundPassed(s)
  BY DEF NativeValid, SaysSo, RoundPassed, ExitCode, AuditClean
<1>2. k = "adapter" => AdapterValid(s)
  <2>1. k = "adapter" => AdapterValid(native)
    BY DEF NativeValid
  <2> QED
    BY <2>1 DEF SaysSo, AdapterValid, Audited, AbprobeValid
<1>3. k = "steady" => SteadyValid(native)
  BY DEF NativeValid
<1> QED
  BY <1>1, <1>2, <1>3 DEF Cleared, SaysSo, SteadyValid, BenchmarkValid

\* Found nobody
LEMMA NobodyFound ==
    ASSUME NEW members, NEW listed, NEW found \in Found(members, listed)
    PROVE  found \in BOOLEAN /\ (~found => members \cap listed = {})
BY DEF Found

\* A step of RunSuite
LEMMA SuiteKept ==
    ASSUME NEW c \in Commands, Domains, KeepsFields(c), RunsWell(c), RunSuite(c)
    PROVE  RunsWell(c)'
<1> DEFINE k == kind[c]
           s == Session(c)
<1>1. k \in Suites /\ UNCHANGED kind
  BY SuiteSteps DEF Step, Local, kind
<1>2. DOMAIN my[c] = {"held", "tree", "lock", "committed", "failed"} /\ DOMAIN my = Commands
      /\ DOMAIN at = Commands /\ DOMAIN trees = Commands
  BY DEF KeepsFields, NoMemory, Domains
<1>3. Session(c)' = my'[c].held
  BY DEF Session
<1>4. at[c] \in {"running", "group", "session", "audited", "written"} =>
         WellKept(k, s) /\ "native" \in DOMAIN trees[c]
  BY <1>1 DEF RunsWell
<1>5. at[c] \in {"running", "group", "session", "audited", "written"} =>
         /\ DOMAIN s = SessionFields
         /\ DOMAIN s.place = Launched(k) \cup {"runner"}
  BY <1>4 DEF WellKept
<1> USE DEF InSuite, Goes, Holds, dirVars
\* Within the session: what is then to be shown
<1>6. ASSUME WellKept(k, my'[c].held), UNCHANGED <<trees, late>>, "native" \in DOMAIN trees[c],
             at'[c] \in {"running", "group", "session", "audited"},
             at'[c] = "session" => SessionMembers(my'[c].held) \subseteq my'[c].held.listed,
             at'[c] = "audited" /\ c \notin late /\ my'[c].held.residues = {} =>
                SessionMembers(my'[c].held) = {}
      PROVE  RunsWell(c)'
  <2>1. WellKept(kind[c], Session(c))'
    BY <1>1, <1>3, <1>6
  <2>2. /\ at'[c] = "session" => SessionMembers(Session(c))' \subseteq Session(c).listed'
        /\ at'[c] = "audited" /\ c \notin late /\ Session(c).residues' = {} =>
              SessionMembers(Session(c))' = {}
    BY <1>3, <1>6
  <2> HIDE DEF WellKept, s, k
  <2> QED
    BY <1>1, <1>6, <2>1, <2>2 DEF RunsWell
<1>7. ASSUME at'[c] = "error"
      PROVE  RunsWell(c)'
  BY <1>7 DEF RunsWell
<1> HIDE DEF k, s
<1>8. CASE StartSuite(c)
  <2>1. CASE at'[c] = "error"
    BY <1>7, <2>1
  <2>2. CASE at'[c] # "error"
    <3> DEFINE expected == Expectations(Pilot[inputs["pilot"]], kind[c])
    <3>1. /\ at'[c] = "running" /\ late' = late
          /\ trees' = [trees EXCEPT ![c] = [native |-> Nothing, stray |-> FALSE,
                           retained |-> [r \in RolesOf[kind[c]] |-> inputs[r]]]]
          /\ my' = [my EXCEPT ![c].held = ExpectingSession(kind[c], 1, TRUE, expected)]
      <4> HIDE DEF expected
      <4> QED
        BY <1>2, <1>8, <2>2 DEF StartSuite, expected
    <3> HIDE DEF expected
    <3>2. "native" \in DOMAIN trees'[c]
      BY <1>2, <3>1
    <3>3. my'[c].held = ExpectingSession(k, 1, TRUE, expected)
      BY <1>2, <3>1 DEF k
    <3>4. WellKept(kind[c], Session(c))'
      <4>1. WellKept(k, my'[c].held)
        BY <1>1, <3>3, BeginsWell
      <4> QED
        BY <1>1, <1>3, <4>1 DEF k
    <3> HIDE DEF WellKept
    <3> QED
      BY <1>1, <3>1, <3>2, <3>4 DEF RunsWell
  <2> QED
    BY <2>1, <2>2
<1>9. CASE Communicate(c) \/ TimeOut(c)
  <2>1. /\ at[c] = "running" /\ at'[c] = "group" /\ UNCHANGED <<trees, late>>
        /\ \/ my'[c].held = [s EXCEPT !.stage = "last", !.listed = GroupMembers(s)]
           \/ my'[c].held = [s EXCEPT !.timedOut = TRUE, !.listed = GroupMembers(s)]
    BY <1>2, <1>9 DEF Communicate, TimeOut, s
  <2>2. LET t == my'[c].held
        IN /\ DOMAIN t = SessionFields /\ t.place = s.place /\ t.exit = s.exit
           /\ t.reported = s.reported /\ t.seen = s.seen /\ t.residues = s.residues
    BY <1>5, <2>1 DEF SessionFields
  <2>3. WellKept(k, my'[c].held)
    <3> HIDE DEF WellKept, Suites
    <3> QED
      BY <1>1, <1>4, <2>1, <2>2, SessionAsWas DEF k
  <2> QED
    BY <1>4, <1>6, <2>1, <2>3
<1>10. CASE StopGroup(c)
  <2>1. PICK found \in Found(GroupMembers(s), s.listed) :
           my' = [my EXCEPT ![c].held =
              LET stopped == Killed(s, IF found THEN GroupMembers(s) ELSE {})
              IN [stopped EXCEPT !.listed = SessionMembers(stopped),
                     !.residues = @ \cup Residues(s, found, "group")]]
    <3> HIDE DEF Killed, Residues, SessionMembers, GroupMembers
    <3> QED
      BY <1>10 DEF StopGroup, s
  <2>2. at[c] = "group" /\ at'[c] = "session" /\ UNCHANGED <<trees, late>>
    BY <1>2, <1>10 DEF StopGroup
  <2> DEFINE killed == IF found THEN GroupMembers(s) ELSE {}
             stopped == Killed(s, killed)
             t == [stopped EXCEPT !.listed = SessionMembers(stopped),
                                  !.residues = @ \cup Residues(s, found, "group")]
  <2>3. my'[c].held = t
    <3> HIDE DEF Killed, Residues, SessionMembers, GroupMembers
    <3> QED
      BY <1>2, <2>1
  <2>4. DOMAIN stopped = SessionFields /\ stopped.reported = s.reported
        /\ stopped.seen = s.seen /\ stopped.residues = s.residues
    BY <1>5, <2>2 DEF Killed, SessionFields
  <2>5. killed \in SUBSET SessionMembers(s)
    BY MembersStand
  <2>6. found => Residues(s, found, "group") # {}
    BY DEF Residues
  <2>7. found \in BOOLEAN /\ (killed # {} => found)
    BY NobodyFound
  <2> HIDE DEF killed, stopped
  <2>8. /\ DOMAIN t = SessionFields /\ t.place = stopped.place /\ t.exit = stopped.exit
        /\ t.reported = s.reported /\ t.seen = s.seen
        /\ t.residues = s.residues \cup Residues(s, found, "group")
        /\ t.listed = SessionMembers(stopped)
    BY <2>4 DEF SessionFields
  <2> HIDE DEF t
  <2>9. t.residues = {} => s.residues = {} /\ killed = {}
    BY <2>6, <2>7, <2>8
  <2>10. WellKept(k, t)
    <3>1. t.place = Killed(s, killed).place /\ t.exit = Killed(s, killed).exit
      BY <2>8 DEF stopped
    <3> HIDE DEF WellKept, Suites, Killed
    <3> QED
      BY <1>1, <1>4, <2>2, <2>5, <2>8, <2>9, <3>1, KilledOff DEF k
  <2>11. SessionMembers(t) \subseteq t.listed
    BY <2>8 DEF SessionMembers
  <2> QED
    BY <1>4, <1>6, <2>2, <2>3, <2>10, <2>11
<1>11. CASE StopSession(c)
  <2>1. PICK found \in Found(SessionMembers(s), s.listed) :
           my' = [my EXCEPT ![c].held =
              LET stopped == Killed(s, IF found THEN SessionMembers(s) \cap s.listed ELSE {})
              IN [stopped EXCEPT !.listed = {},
                     !.residues = @ \cup Residues(s, found, "session"),
                     !.stage = IF @ = "last" THEN "over" ELSE @]]
    <3> HIDE DEF Killed, Residues, SessionMembers
    <3> QED
      BY <1>11 DEF StopSession, s
  <2>2. at[c] = "session" /\ at'[c] \in {"audited", "running"} /\ UNCHANGED <<trees, late>>
    BY <1>2, <1>11 DEF StopSession
  <2> DEFINE killed == IF found THEN SessionMembers(s) \cap s.listed ELSE {}
             stopped == Killed(s, killed)
             t == [stopped EXCEPT !.listed = {},
                                  !.residues = @ \cup Residues(s, found, "session"),
                                  !.stage = IF @ = "last" THEN "over" ELSE @]
  <2>3. my'[c].held = t
    <3> HIDE DEF Killed, Residues, SessionMembers
    <3> QED
      BY <1>2, <2>1
  <2>4. DOMAIN stopped = SessionFields /\ stopped.reported = s.reported
        /\ stopped.seen = s.seen /\ stopped.residues = s.residues
    BY <1>5, <2>2 DEF Killed, SessionFields
  <2>5. killed \in SUBSET SessionMembers(s)
    OBVIOUS
  <2>6. found => Residues(s, found, "session") # {}
    BY DEF Residues
  <2>7. /\ found \in BOOLEAN /\ (killed # {} => found)
        /\ ~found => SessionMembers(s) \cap s.listed = {}
    BY NobodyFound
  <2>8. ~found => /\ DOMAIN stopped.place = DOMAIN s.place
                  /\ \A p \in DOMAIN s.place : stopped.place[p] = s.place[p]
    <3>1. ~found => killed = {}
      OBVIOUS
    <3>2. stopped.place = [p \in DOMAIN s.place |->
                              IF p \in killed THEN "killed" ELSE s.place[p]]
      BY <1>5, <2>2 DEF Killed, SessionFields
    <3> HIDE DEF killed, stopped
    <3> QED
      BY <3>1, <3>2
  <2> HIDE DEF killed, stopped
  <2>9. /\ DOMAIN t = SessionFields /\ t.place = stopped.place /\ t.exit = stopped.exit
        /\ t.reported = s.reported /\ t.seen = s.seen
        /\ t.residues = s.residues \cup Residues(s, found, "session")
    BY <2>4 DEF SessionFields
  <2> HIDE DEF t
  <2>10. t.residues = {} => s.residues = {} /\ killed = {} /\ ~found
    BY <2>6, <2>7, <2>9
  <2>11. WellKept(k, t)
    <3>1. t.place = Killed(s, killed).place /\ t.exit = Killed(s, killed).exit
      BY <2>9 DEF stopped
    <3> HIDE DEF WellKept, Suites, Killed
    <3> QED
      BY <1>1, <1>4, <2>2, <2>5, <2>9, <2>10, <3>1, KilledOff DEF k
  <2>12. c \notin late /\ t.residues = {} => SessionMembers(t) = {}
    <3>1. c \notin late => SessionMembers(s) \subseteq s.listed
      BY <1>1, <2>2 DEF RunsWell, s, k
    <3>2. ~found => SessionMembers(t) = SessionMembers(s)
      BY <2>8, <2>9 DEF SessionMembers
    <3> QED
      BY <2>7, <2>10, <3>1, <3>2
  <2> QED
    BY <1>4, <1>6, <2>2, <2>3, <2>11, <2>12
<1>12. CASE Unwind(c)
  BY <1>2, <1>7, <1>12 DEF Unwind
<1>13. CASE NextRound(c)
  <2>1. /\ at[c] = "audited" /\ at'[c] = "running" /\ UNCHANGED <<trees, late>>
        /\ \E round, before, expected :
              my' = [my EXCEPT ![c].held = ExpectingSession(k, round, before, expected)]
    BY <1>2, <1>13 DEF NextRound, k
  <2>2. PICK round, before, expected :
           my' = [my EXCEPT ![c].held = ExpectingSession(k, round, before, expected)]
    BY <2>1
  <2>3. my'[c].held = ExpectingSession(k, round, before, expected)
    BY <1>2, <2>2
  <2>4. WellKept(k, my'[c].held)
    BY <1>1, <2>3, BeginsWell
  <2> QED
    BY <1>4, <1>6, <2>1, <2>4
\* The session is over, and stays as it is
<1>14. ASSUME my' = my, late' = late, at[c] \in {"audited", "written"},
              at'[c] \in {"written", "ok"}, "native" \in DOMAIN trees'[c],
              at'[c] = "written" => SaysSo(trees'[c].native, s),
              at'[c] = "ok" => Cleared(k, s)
       PROVE  RunsWell(c)'
  <2>1. Session(c)' = s
    BY <1>14 DEF Session, s
  <2>2. WellKept(kind[c], Session(c))'
    BY <1>1, <1>4, <1>14, <2>1 DEF k
  <2>3. c \notin late /\ s.residues = {} => SessionMembers(s) = {}
    BY <1>1, <1>14 DEF RunsWell, s, k
  <2>4. at'[c] \in {"audited", "written", "ok"} /\ c \notin late' /\ Session(c).residues' = {}
           => SessionMembers(Session(c))' = {}
    BY <1>14, <2>1, <2>3
  <2>5. at'[c] = "written" => SaysSo(trees[c].native, Session(c))'
    BY <1>14, <2>1
  <2>6. at'[c] = "ok" => Cleared(kind[c], Session(c))'
    BY <1>1, <1>14, <2>1 DEF k
  <2> HIDE DEF WellKept, SaysSo, Cleared
  <2> QED
    BY <1>14, <2>2, <2>4, <2>5, <2>6 DEF RunsWell
<1>15. CASE WriteNative(c)
  <2>1. CASE at'[c] = "error"
    BY <1>7, <2>1
  <2>2. CASE at'[c] # "error"
    <3>1. /\ at[c] = "audited" /\ at'[c] = "written" /\ my' = my /\ late' = late
          /\ trees' = [trees EXCEPT ![c].native = Native(c)]
      BY <1>2, <1>15, <2>2 DEF WriteNative
    <3>2. trees'[c].native = Native(c) /\ "native" \in DOMAIN trees'[c]
      BY <1>2, <1>4, <3>1
    <3>3. SaysSo(Native(c), s)
      BY <1>5, <3>1 DEF SaysSo, Native, Joined, SessionFields, s
    <3> QED
      BY <1>14, <3>1, <3>2, <3>3
  <2> QED
    BY <2>1, <2>2
<1>16. CASE JudgeNative(c)
  <2>1. CASE at'[c] = "error"
    BY <1>7, <2>1
  <2>2. CASE at'[c] # "error"
    <3>1. /\ at[c] = "written" /\ at'[c] = "ok" /\ my' = my /\ trees' = trees /\ late' = late
          /\ NativeValid(k, trees[c].native)
      BY <1>2, <1>16, <2>2 DEF JudgeNative, k
    <3>2. SaysSo(trees[c].native, s)
      BY <1>1, <3>1 DEF RunsWell, s, k
    <3>3. Cleared(k, s)
      BY <1>1, <3>1, <3>2, SaysEnough
    <3> QED
      BY <1>4, <1>14, <3>1, <3>3
  <2> QED
    BY <2>1, <2>2
<1> QED
  BY <1>8, <1>9, <1>10, <1>11, <1>12, <1>13, <1>15, <1>16 DEF RunSuite


\* The cycles as they should be, in brief
LEMMA CyclesAsRun ==
    /\ Lifecycle.cycles = 3 /\ Lifecycle.conversions = 300 /\ Iterations = 100
    /\ FrozenResult.cycles = [n \in 1 .. 3 |-> HarnessCycle(n)]
    /\ "cycles" \in DOMAIN FrozenResult
    /\ \A n \in 1 .. 3 :
          /\ DOMAIN HarnessCycle(n) = {"number", "conversions", "locked", "together", "clean",
                                       "server", "helper"}
          /\ HarnessCycle(n).conversions = 100
          /\ HarnessCycle(n).server = HarnessProcess("server", n)
          /\ HarnessCycle(n).helper = HarnessProcess("helper", n)
    /\ \A role \in {"server", "helper"}, n \in 1 .. 3 :
          /\ DOMAIN HarnessProcess(role, n) = {"launches", "recoveries", "observed",
                                               "executable", "sessions", "clean"}
          /\ HarnessProcess(role, n).launches = <<<<role, n>>>>
          /\ HarnessProcess(role, n).observed = {<<role, n>>}
          /\ HarnessProcess(role, n).sessions = {n}
<1>1. Lifecycle.cycles = 3 /\ Lifecycle.conversions = 300
  BY DEF Lifecycle, SuiteRequirements
<1>2. Iterations = 100
  BY <1>1 DEF Iterations
<1>3. /\ FrozenResult.cycles = [n \in 1 .. 3 |-> HarnessCycle(n)]
      /\ "cycles" \in DOMAIN FrozenResult
  <2> HIDE DEF HarnessCycle
  <2> QED
    BY <1>1 DEF FrozenResult
<1>4. \A n \in 1 .. 3 :
         /\ DOMAIN HarnessCycle(n) = {"number", "conversions", "locked", "together", "clean",
                                      "server", "helper"}
         /\ HarnessCycle(n).conversions = 100
         /\ HarnessCycle(n).server = HarnessProcess("server", n)
         /\ HarnessCycle(n).helper = HarnessProcess("helper", n)
  <2> HIDE DEF HarnessProcess
  <2> QED
    BY <1>2 DEF HarnessCycle
<1> QED
  BY <1>1, <1>2, <1>3, <1>4 DEF HarnessProcess

\* Cycles that are accepted are as they should be
LEMMA CyclesAccepted ==
    ASSUME NEW version \in Versions["native"], CyclesValid(HarnessResult[version])
    PROVE  HarnessResult[version].cycles = [n \in 1 .. 3 |-> HarnessCycle(n)]
<1> DEFINE base == [n \in 1 .. 3 |-> HarnessCycle(n)]
           cycles == HarnessResult[version].cycles
<1>1. version \in {"fixed", "recovered", "shared", "reused", "short", "rebuilt", "redirected"}
  BY DEF Versions
<1>2. FrozenResult.cycles = base /\ "cycles" \in DOMAIN FrozenResult
  BY CyclesAsRun
<1>3. /\ DOMAIN base = 1 .. 3
      /\ base[2] = HarnessCycle(2) /\ base[3] = HarnessCycle(3)
  OBVIOUS
<1>4. ASSUME NEW n \in DOMAIN cycles
      PROVE  /\ cycles[n].conversions = 100
             /\ Len(cycles[n].helper.launches) = 1
             /\ \A earlier \in 1 .. n - 1 :
                   /\ cycles[n].server.sessions # cycles[earlier].server.sessions
                   /\ IdentitiesOf(cycles[n]) \cap IdentitiesOf(cycles[earlier]) = {}
  <2>1. CycleValid(cycles, n)
    BY DEF CyclesValid
  <2> HIDE DEF cycles
  <2> QED
    BY <2>1, CyclesAsRun DEF CycleValid
<1> HIDE DEF base
<1>5. CASE version \in {"fixed", "rebuilt", "redirected"}
  <2>1. CASE version = "fixed"
    <3>1. HarnessResult[version] = FrozenResult
      BY <2>1 DEF HarnessResult
    <3> QED
      BY <1>2, <3>1 DEF base
  <2>2. CASE version = "rebuilt"
    <3>1. HarnessResult[version] =
             [FrozenResult EXCEPT !.server = "edited", !.artifacts["server"] = "edited",
                 !.snapshot.entries["server"].content = "edited",
                 !.snapshot.fingerprint = "edited"]
      BY <2>2 DEF HarnessResult
    <3>2. HarnessResult[version].cycles = FrozenResult.cycles
      <4> HIDE DEF cycles
      <4> QED
        BY <1>2, <3>1
    <3> QED
      BY <1>2, <3>2 DEF base
  <2>3. CASE version = "redirected"
    <3>1. HarnessResult[version] = [FrozenResult EXCEPT !.command["server"] = "harness"]
      BY <2>3 DEF HarnessResult
    <3>2. HarnessResult[version].cycles = FrozenResult.cycles
      <4> HIDE DEF cycles
      <4> QED
        BY <1>2, <3>1
    <3> QED
      BY <1>2, <3>2 DEF base
  <2> QED
    BY <1>5, <2>1, <2>2, <2>3
<1>6. CASE version = "recovered"
  <2>1. HarnessResult[version] = [FrozenResult EXCEPT
           !.cycles[2].helper.launches = Append(@, <<"helper", 0>>),
           !.cycles[2].helper.observed = @ \cup {<<"helper", 0>>}]
    BY <1>6 DEF HarnessResult
  <2>2. 2 \in DOMAIN cycles /\ cycles[2].helper.launches
                                  = Append(base[2].helper.launches, <<"helper", 0>>)
    <3>1. DOMAIN base[2] = {"number", "conversions", "locked", "together", "clean",
                            "server", "helper"}
      BY <1>3, CyclesAsRun
    <3>2. DOMAIN base[2].helper = {"launches", "recoveries", "observed",
                                   "executable", "sessions", "clean"}
      BY <1>3, CyclesAsRun
    <3> DEFINE more == Append(base[2].helper.launches, <<"helper", 0>>)
               seen == base[2].helper.observed \cup {<<"helper", 0>>}
               process == [base[2].helper EXCEPT !.launches = more, !.observed = seen]
    <3>3. cycles = [base EXCEPT ![2].helper.launches = more, ![2].helper.observed = seen]
      BY <1>2, <2>1
    <3>4. process.launches = more
      BY <3>2
    <3> HIDE DEF cycles, more, seen
    <3>5. cycles[2].helper = process
      BY <1>3, <3>1, <3>2, <3>3
    <3>6. 2 \in DOMAIN cycles
      BY <1>3, <3>3
    <3> HIDE DEF process
    <3> QED
      BY <3>4, <3>5, <3>6 DEF more
  <2>3. base[2].helper.launches = <<<<"helper", 2>>>>
    BY <1>3, CyclesAsRun
  <2>4. Len(cycles[2].helper.launches) = 2
    <3> HIDE DEF cycles
    <3> QED
      BY <2>2, <2>3
  <2> HIDE DEF cycles
  <2> QED
    BY <1>4, <2>2, <2>4
<1>7. CASE version = "shared"
  <2>1. HarnessResult[version] = [FrozenResult EXCEPT !.cycles[3].server.sessions = {2},
                                !.cycles[3].helper.sessions = {2}]
    BY <1>7 DEF HarnessResult
  <2>2. 3 \in DOMAIN cycles /\ cycles[3].server.sessions = {2} /\ cycles[2] = base[2]
    <3>1. DOMAIN base[3] = {"number", "conversions", "locked", "together", "clean",
                            "server", "helper"}
      BY <1>3, CyclesAsRun
    <3>2. DOMAIN base[3].server = {"launches", "recoveries", "observed",
                                   "executable", "sessions", "clean"}
      BY <1>3, CyclesAsRun
    <3> QED
      BY <1>2, <1>3, <2>1, <3>1, <3>2
  <2>3. base[2].server.sessions = {2}
    BY <1>3, CyclesAsRun
  <2>4. cycles[3].server.sessions # cycles[2].server.sessions
    <3>1. 2 \in 1 .. 3 - 1
      OBVIOUS
    <3>2. 3 \in DOMAIN cycles
      BY <2>2
    <3> HIDE DEF cycles
    <3>3. \A earlier \in 1 .. 3 - 1 :
             cycles[3].server.sessions # cycles[earlier].server.sessions
      BY <1>4, <3>2
    <3> QED
      BY <3>1, <3>3
  <2> HIDE DEF cycles
  <2> QED
    BY <2>2, <2>3, <2>4
<1>8. CASE version = "reused"
  <2>1. HarnessResult[version] = [FrozenResult EXCEPT !.cycles[3].server.launches = <<<<"server", 2>>>>,
                                !.cycles[3].server.observed = {<<"server", 2>>}]
    BY <1>8 DEF HarnessResult
  <2>2. 3 \in DOMAIN cycles /\ cycles[3].server.observed = {<<"server", 2>>}
        /\ cycles[2] = base[2]
    <3>1. DOMAIN base[3] = {"number", "conversions", "locked", "together", "clean",
                            "server", "helper"}
      BY <1>3, CyclesAsRun
    <3>2. DOMAIN base[3].server = {"launches", "recoveries", "observed",
                                   "executable", "sessions", "clean"}
      BY <1>3, CyclesAsRun
    <3> QED
      BY <1>2, <1>3, <2>1, <3>1, <3>2
  <2>3. base[2].server.observed = {<<"server", 2>>}
    BY <1>3, CyclesAsRun
  <2>4. <<"server", 2>> \in IdentitiesOf(cycles[3]) \cap IdentitiesOf(cycles[2])
    <3> HIDE DEF cycles
    <3> QED
      BY <2>2, <2>3 DEF IdentitiesOf
  <2> HIDE DEF cycles
  <2> QED
    BY <1>4, <2>2, <2>4
<1>9. CASE version = "short"
  <2>1. HarnessResult[version] = [FrozenResult EXCEPT !.cycles[2].conversions = @ - 1]
    BY <1>9 DEF HarnessResult
  <2>2. 2 \in DOMAIN cycles /\ cycles[2].conversions = base[2].conversions - 1
    <3>1. DOMAIN base[2] = {"number", "conversions", "locked", "together", "clean",
                            "server", "helper"}
      BY <1>3, CyclesAsRun
    <3> QED
      BY <1>2, <1>3, <2>1, <3>1
  <2>3. base[2].conversions = 100
    BY <1>3, CyclesAsRun
  <2> HIDE DEF cycles
  <2> QED
    BY <1>4, <2>2, <2>3
<1> QED
  BY <1>1, <1>5, <1>6, <1>7, <1>8, <1>9

\* The conversions of all cycles
ConversionsOf(cycles) == MapThenSumSet(LAMBDA n : cycles[n].conversions, DOMAIN cycles)

\* The sum over three of what is the same for each
LEMMA ThreeTimes ==
    ASSUME NEW cycles, IsFiniteSet(DOMAIN cycles), Cardinality(DOMAIN cycles) = 3,
           \A n \in DOMAIN cycles : cycles[n].conversions = 100
    PROVE  ConversionsOf(cycles) = 300
<1> DEFINE D == DOMAIN cycles
           f == [n \in D |-> cycles[n].conversions]
           sum == CHOOSE it : it = [S \in SUBSET D |->
                     IF S = {} THEN 0 ELSE cycles[Pick(S)].conversions + it[S \ {Pick(S)}]]
           two == D \ {Pick(D)}
           one == two \ {Pick(two)}
           none == one \ {Pick(one)}
           Parts == SUBSET D
<1>1. MapThenSumSet(LAMBDA n : cycles[n].conversions, D) = sum[D]
  BY DEF MapThenSumSet, MapThenFoldSet, Pick
<1> HIDE DEF D
<1>2. IsFiniteSet(D) /\ Cardinality(D) = 3
  BY DEF D
<1>3. ASSUME NEW s \in Parts, s # {}
      PROVE  /\ Pick(s) \in s /\ s \ {Pick(s)} \in Parts
             /\ Cardinality(s \ {Pick(s)}) = Cardinality(s) - 1
  <2>1. IsFiniteSet(D)
    BY <1>2
  <2>2. s \in SUBSET D /\ s # {}
    BY <1>3
  <2> DEFINE first == Pick(s)
             rest == s \ {Pick(s)}
  <2> HIDE DEF sum, f, one, two, none, first, rest
  <2>3. first \in s /\ rest \in SUBSET D /\ Cardinality(rest) = Cardinality(s) - 1
    BY <2>1, <2>2, PickOne DEF first, rest
  <2> QED
    BY <2>3 DEF first, rest
<1>4. sum = [S \in SUBSET D |->
               IF S = {} THEN 0 ELSE cycles[Pick(S)].conversions + sum[S \ {Pick(S)}]]
  <2>1. PICK it : Sums(f, it, SUBSET D)
    <3>1. DOMAIN f = D
      OBVIOUS
    <3> HIDE DEF f
    <3> QED
      BY <1>2, <3>1, SumExists
  <2>2. \A S \in SUBSET D : S # {} => f[Pick(S)] = cycles[Pick(S)].conversions
    BY <1>3
  <2>3. it = [S \in SUBSET D |->
                IF S = {} THEN 0 ELSE cycles[Pick(S)].conversions + it[S \ {Pick(S)}]]
    <3> HIDE DEF f
    <3> QED
      BY <2>1, <2>2 DEF Sums
  <2> QED
    BY <2>3
<1> HIDE DEF sum, f, one, none, two
<1>5. sum[{}] = 0
  BY <1>4
<1>6. \A s \in Parts : s # {} => /\ Pick(s) \in D
                                 /\ sum[s] = cycles[Pick(s)].conversions + sum[s \ {Pick(s)}]
  <2>1. ASSUME NEW s \in Parts, s # {}
        PROVE  Pick(s) \in D
    <3>1. Pick(s) \in s
      BY <1>3, <2>1
    <3>2. s \subseteq D
      BY <2>1
    <3> QED
      BY <3>1, <3>2
  <2>2. ASSUME NEW s \in Parts, s # {}
        PROVE  sum[s] = cycles[Pick(s)].conversions + sum[s \ {Pick(s)}]
    <3> DEFINE more(S) == cycles[Pick(S)].conversions + sum[S \ {Pick(S)}]
               same == [S \in Parts |-> IF S = {} THEN 0 ELSE more(S)]
    <3>1. sum = same
      BY <1>4
    <3> HIDE DEF Parts, more
    <3>2. same[s] = more(s)
      BY <2>2
    <3> HIDE DEF same
    <3>3. sum[s] = more(s)
      BY <3>1, <3>2
    <3> QED
      BY <3>3 DEF more
  <2> QED
    BY <2>1, <2>2
<1>7. \A s : s # {} \/ Cardinality(s) = 0
  BY FS_EmptySet
<1>8. D \in Parts
  OBVIOUS
<1> HIDE DEF Parts
<1>9. ASSUME NEW s \in Parts, Cardinality(s) # 0
      PROVE  LET rest == s \ {Pick(s)}
             IN  /\ sum[s] = 100 + sum[rest]
                 /\ rest \in Parts /\ Cardinality(rest) = Cardinality(s) - 1
  <2> DEFINE rest == s \ {Pick(s)}
  <2>1. s # {}
    BY <1>7, <1>9
  <2>2. rest \in Parts /\ Cardinality(rest) = Cardinality(s) - 1
    BY <1>3, <2>1
  <2>3. Pick(s) \in D /\ sum[s] = cycles[Pick(s)].conversions + sum[rest]
    BY <1>6, <2>1
  <2> HIDE DEF rest
  <2>4. cycles[Pick(s)].conversions = 100
    BY <2>3 DEF D
  <2>5. sum[s] = 100 + sum[rest]
    BY <2>3, <2>4
  <2> QED
    BY <2>2, <2>5 DEF rest
<1>10. sum[D] = 100 + sum[two] /\ two \in Parts /\ Cardinality(two) = 2
  BY <1>2, <1>8, <1>9 DEF two
<1>11. sum[two] = 100 + sum[one] /\ one \in Parts /\ Cardinality(one) = 1
  BY <1>9, <1>10 DEF one
<1>12. sum[one] = 100 + sum[none] /\ none = {}
  <2>1. sum[one] = 100 + sum[none] /\ none \in Parts /\ Cardinality(none) = 0
    BY <1>9, <1>11 DEF none
  <2>2. IsFiniteSet(none)
    BY <1>2, <2>1, FS_Subset DEF Parts
  <2> QED
    BY <2>1, <2>2, FS_EmptySet
<1>13. sum[D] = 300
  BY <1>5, <1>10, <1>11, <1>12
<1>14. MapThenSumSet(LAMBDA n : cycles[n].conversions, D) = 300
  BY <1>1, <1>13
<1> QED
  BY <1>14 DEF D, ConversionsOf


\* A step of CollectRecord
LEMMA CollectKept ==
    ASSUME NEW c \in Commands, Domains, KeepsFields(c), Honest(c), InputsKnown,
           CollectsWell(c), CollectRecord(c)
    PROVE  CollectsWell(c)'
<1>1. kind[c] = "collect" /\ UNCHANGED kind /\ Domains'
  BY CollectSteps DEF Step, Local, kind
<1>2. DOMAIN my[c] = {"held", "tree", "lock", "committed", "failed"} /\ DOMAIN my = Commands
      /\ DOMAIN at = Commands /\ DOMAIN trees = Commands
  BY DEF KeepsFields, NoMemory, Domains
<1>3. /\ Out(c)' = Out(c) /\ Out(c) \in Names /\ Temp(c) \in Names /\ Temp(c) # Out(c)
      /\ Tree(c)' = Tree(c) /\ DOMAIN entries = Names
  BY <1>1 DEF Out, Temp, Names, Kinds, RolesOf, Tree, Domains
<1>4. Published(c) => at[c] \notin {"idle", "ruled", "captured", "verified", "reading", "written"}
  BY <1>1 DEF Honest, Accounts, Rising, Ended, Kinds, RolesOf, Suites
<1> USE DEF Collects, Collected, At, Goes, Holds, Raises, dirVars, Bind, Unbind
\* Before the record is written
<1>5. ASSUME entries'[Out(c)] = entries[Out(c)], ~Published(c),
             at'[c] # "written",
             at'[c] \in {"ruled", "captured", "verified", "reading"} =>
                my'[c].held.native \in Versions["native"],
             at'[c] \in {"verified", "reading"} =>
                CyclesValid(HarnessResult[my'[c].held.native])
      PROVE  CollectsWell(c)'
  <2>1. ~Published(c)'
    BY <1>3, <1>5 DEF Published
  <2> HIDE DEF CyclesValid, HarnessResult, Versions, Published
  <2> QED
    BY <1>5, <2>1 DEF CollectsWell
\* Once it is
<1>6. ASSUME UNCHANGED trees, at[c] = "written" \/ (Published(c)' => Published(c)),
             at'[c] \notin {"ruled", "captured", "verified", "reading", "written"}
      PROVE  CollectsWell(c)'
  <2>1. at[c] = "written" \/ Published(c) =>
              /\ "native" \in DOMAIN trees[c]
              /\ trees[c].native \in Versions["native"]
              /\ CyclesValid(HarnessResult[trees[c].native])
    BY <1>1 DEF CollectsWell
  <2> HIDE DEF CyclesValid, HarnessResult, Versions, Published
  <2> QED
    BY <1>6, <2>1 DEF CollectsWell
<1> HIDE DEF CyclesValid, HarnessResult
<1>7. CASE ReadNative(c)
  <2>1. /\ at[c] = "idle" /\ entries' = entries
        /\ \/ at'[c] = "error"
           \/ /\ at'[c] = "ruled"
              /\ \E expected : my' = [my EXCEPT ![c].held =
                    [native |-> inputs["native"], expected |-> expected,
                     repository |-> inputs["repository"], orchestrator |-> inputs["sources"]]]
    <3> HIDE DEF Expectations, Expecting, OrchestratorPinned, PreflightHolds
    <3> QED
      BY <1>2, <1>7 DEF ReadNative
  <2>2. inputs["native"] \in Versions["native"]
    BY DEF InputsKnown, Roles, Versions
  <2>3. at'[c] = "ruled" => my'[c].held.native = inputs["native"]
    BY <1>2, <2>1
  <2> QED
    BY <1>4, <1>5, <2>1, <2>2, <2>3
<1>8. CASE ValidateSnapshot(c)
  <2>1. /\ at[c] = "ruled" /\ entries' = entries /\ my' = my
        /\ at'[c] \in {"captured", "error"}
    BY <1>2, <1>8 DEF ValidateSnapshot
  <2>2. my[c].held.native \in Versions["native"]
    BY <1>1, <2>1 DEF CollectsWell
  <2> QED
    BY <1>4, <1>5, <2>1, <2>2
<1>9. CASE ValidateNative(c)
  <2>1. /\ at[c] = "captured" /\ entries' = entries /\ my' = my
        /\ at'[c] \in {"verified", "error"}
        /\ at'[c] = "verified" =>
              FcitxValid(HarnessResult[my[c].held.native], RetainedTree[inputs["retained"]],
                         my[c].held.expected)
    <3> HIDE DEF FcitxValid, RetainedTree
    <3> QED
      BY <1>2, <1>9 DEF ValidateNative
  <2>2. my[c].held.native \in Versions["native"]
    BY <1>1, <2>1 DEF CollectsWell
  <2>3. at'[c] = "verified" => CyclesValid(HarnessResult[my[c].held.native])
    BY <2>1 DEF FcitxValid
  <2> QED
    BY <1>4, <1>5, <2>1, <2>2, <2>3
<1>10. CASE ReadNativeAgain(c)
  <2>1. /\ at[c] = "verified" /\ entries' = entries /\ my' = my
        /\ at'[c] \in {"reading", "error"}
    BY <1>2, <1>10 DEF ReadNativeAgain
  <2>2. /\ my[c].held.native \in Versions["native"]
        /\ CyclesValid(HarnessResult[my[c].held.native])
    BY <1>1, <2>1 DEF CollectsWell
  <2> QED
    BY <1>4, <1>5, <2>1, <2>2
<1>11. CASE WriteRecord(c)
  <2>1. /\ at[c] = "reading" /\ my' = my /\ entries'[Out(c)] = entries[Out(c)]
        /\ \/ at'[c] = "error"
           \/ /\ at'[c] = "written"
              /\ trees' = [trees EXCEPT ![c] =
                    [native |-> my[c].held.native, stray |-> FALSE,
                     orchestrator |-> my[c].held.orchestrator]]
    BY <1>2, <1>3, <1>11 DEF WriteRecord
  <2>2. /\ my[c].held.native \in Versions["native"]
        /\ CyclesValid(HarnessResult[my[c].held.native])
    BY <1>1, <2>1 DEF CollectsWell
  <2>3. CASE at'[c] = "error"
    BY <1>4, <1>5, <2>1, <2>3
  <2>4. CASE at'[c] = "written"
    <3>1. /\ "native" \in DOMAIN trees'[c] /\ trees'[c].native = my[c].held.native
      BY <1>2, <2>1, <2>4
    <3> HIDE DEF Versions, Published
    <3> QED
      BY <2>2, <2>4, <3>1 DEF CollectsWell
  <2> QED
    BY <2>1, <2>3, <2>4
<1>12. CASE LinkRecord(c)
  <2>1. at[c] = "written" /\ at'[c] \in {"published", "cleanup"} /\ UNCHANGED trees
    BY <1>2, <1>12 DEF LinkRecord
  <2> QED
    BY <1>6, <2>1
<1>13. CASE UnlinkRecord(c)
  <2>1. /\ at'[c] \in {"ok", "error"} /\ UNCHANGED trees
        /\ entries'[Out(c)] = entries[Out(c)]
    BY <1>2, <1>3, <1>13 DEF UnlinkRecord
  <2>2. Published(c)' => Published(c)
    BY <1>3, <2>1 DEF Published
  <2> QED
    BY <1>6, <2>1, <2>2
<1> QED
  BY <1>7, <1>8, <1>9, <1>10, <1>11, <1>12, <1>13 DEF CollectRecord

\* What is counted stays so, after any step
LEMMA CountedSteps ==
    ASSUME Domains, AllHonest, InputsKnown, \A c \in Commands : Tidy(c),
           \A c \in Commands : RunsWell(c) /\ CollectsWell(c), [Next]_vars
    PROVE  \A c \in Commands : RunsWell(c)' /\ CollectsWell(c)'
<1> SUFFICES ASSUME NEW c \in Commands PROVE RunsWell(c)' /\ CollectsWell(c)'
  OBVIOUS
<1>1. KeepsFields(c) /\ Honest(c)
  BY DEF Tidy, AllHonest
<1>2. UNCHANGED scenario
  BY ScenarioStays
<1>3. CASE Aside(c)
  BY <1>1, <1>3, CountsAside
<1>4. CASE Command(c)
  <2>1. kind[c] = "collect" => CollectsWell(c)'
    BY <1>1, <1>4, OfItsKind, CollectKept
  <2>2. kind[c] \in Suites => RunsWell(c)'
    BY <1>1, <1>4, OfItsKind, SuiteKept, SessionKept
  <2> QED
    BY <1>2, <2>1, <2>2 DEF RunsWell, CollectsWell, kind
<1> QED
  BY <1>3, <1>4, LeftAside

\* Sets given by their elements have as many as are named, when all differ
LEMMA CountOfTwo ==
    ASSUME NEW a, NEW b, b # a
    PROVE  IsFiniteSet({a, b}) /\ Cardinality({a, b}) = 2
<1> DEFINE one == {a}
<1>1. IsFiniteSet(one) /\ Cardinality(one) = 1 /\ b \notin one /\ {a, b} = one \cup {b}
  BY FS_Singleton
<1> HIDE DEF one
<1> QED
  BY <1>1, FS_AddElement

LEMMA CountOfThree ==
    ASSUME NEW a, NEW b, NEW d, b # a, d # a, d # b
    PROVE  IsFiniteSet({a, b, d}) /\ Cardinality({a, b, d}) = 3
<1> DEFINE two == {a, b}
<1>1. IsFiniteSet(two) /\ Cardinality(two) = 2 /\ d \notin two /\ {a, b, d} = two \cup {d}
  BY CountOfTwo
<1> HIDE DEF two
<1> QED
  BY <1>1, FS_AddElement

LEMMA CountOfSix ==
    ASSUME NEW a, NEW b, NEW d, NEW e, NEW f, NEW g, b # a, d \notin {a, b},
           e \notin {a, b, d}, f \notin {a, b, d, e}, g \notin {a, b, d, e, f}
    PROVE  Cardinality({a, b, d, e, f, g}) = 6
<1> DEFINE three == {a, b, d}
           four == three \cup {e}
           five == four \cup {f}
<1>1. IsFiniteSet(three) /\ Cardinality(three) = 3
  BY CountOfThree
<1>2. /\ e \notin three /\ f \notin four /\ g \notin five
      /\ {a, b, d, e, f, g} = five \cup {g}
  OBVIOUS
<1> HIDE DEF three
<1>3. IsFiniteSet(four) /\ Cardinality(four) = 4
  BY <1>1, <1>2, FS_AddElement
<1> HIDE DEF four
<1>4. IsFiniteSet(five) /\ Cardinality(five) = 5
  BY <1>2, <1>3, FS_AddElement
<1> HIDE DEF five
<1> QED
  BY <1>2, <1>4, FS_AddElement

\* A session that was cleared and in which nobody is left
LEMMA ClearedIsCounted ==
    ASSUME NEW k \in Suites, NEW s, WellKept(k, s), Cleared(k, s),
           s.residues = {} => SessionMembers(s) = {}
    PROVE  /\ \A p \in DOMAIN s.place : s.place[p] \in {"none", "gone", "away"}
           /\ s.exit = "passed" /\ ~s.timedOut
           /\ k = "adapter" =>
                 Cardinality({h \in HelpersOf["adapter"] : s.place[h] # "none"}) = 1
           /\ k \in {"adapter", "steady"} => s.reported \cup ServersOf[k] = s.seen
<1>1. s.exit = "passed" /\ ~s.timedOut /\ s.residues = {}
  BY DEF Cleared, RoundPassed, ExitCode, AuditClean
<1>2. \A p \in DOMAIN s.place : s.place[p] \in {"none", "gone", "away"}
  BY <1>1 DEF WellKept, Places, SessionMembers
<1>3. IsFiniteSet(ServersOf["steady"]) /\ Cardinality(ServersOf["steady"]) = 2
  <2>1. ServersOf["steady"] = {"server1", "server2"}
    BY DEF ServersOf
  <2> DEFINE a == "server1"
             b == "server2"
  <2>2. b # a
    OBVIOUS
  <2> HIDE DEF a, b
  <2>3. IsFiniteSet({a, b}) /\ Cardinality({a, b}) = 2
    BY <2>2, CountOfTwo
  <2> QED
    BY <2>1, <2>3 DEF a, b
<1>4. CASE k = "steady"
  <2>1. Cardinality(s.reported \cap ServersOf["steady"]) = 2 /\ s.reported = s.seen
    BY <1>4 DEF Cleared
  <2>2. s.reported \cap ServersOf["steady"] = ServersOf["steady"]
    BY <1>3, <2>1, FS_Subset
  <2> QED
    BY <1>1, <1>2, <1>4, <2>1, <2>2
<1>5. CASE k = "adapter"
  <2>1. /\ s.seen \cap ServersOf["adapter"] = {"runner"}
        /\ Cardinality(s.seen \cap HelpersOf["adapter"]) = 1
        /\ Cardinality(s.reported) = 1
    BY <1>5 DEF Cleared, AdapterValid, Audited, AbprobeValid
  <2>2. s.reported = HelpersIn(s) /\ s.seen \subseteq ProgramsOf("adapter")
        /\ \A p \in s.seen : s.place[p] # "none"
    BY <1>1, <1>5 DEF WellKept
  <2>3. s.seen \cap HelpersOf["adapter"] \subseteq s.reported
    BY <2>2 DEF HelpersIn
  <2>4. IsFiniteSet(s.reported)
    <3>1. s.reported \subseteq ({} \cup {"helper1"}) \cup {"helper2"}
      BY <2>2 DEF HelpersIn, HelpersOf
    <3>2. IsFiniteSet(({} \cup {"helper1"}) \cup {"helper2"})
      BY FS_EmptySet, FS_AddElement
    <3> QED
      BY <3>1, <3>2, FS_Subset
  <2>5. s.seen \cap HelpersOf["adapter"] = s.reported
    BY <2>1, <2>3, <2>4, FS_Subset
  <2>6. s.seen = s.reported \cup ServersOf["adapter"]
    BY <2>1, <2>2, <2>5 DEF ProgramsOf, ServersOf
  <2>7. Cardinality({h \in HelpersOf["adapter"] : s.place[h] # "none"}) = 1
    BY <2>1, <2>2 DEF HelpersIn
  <2> QED
    BY <1>1, <1>2, <1>5, <2>6, <2>7
<1> QED
  BY <1>1, <1>2, <1>4, <1>5

\* The cycles as they should be are about as many servers, helpers and sessions
LEMMA CyclesAddUp ==
    ASSUME NEW cycles, cycles = [n \in 1 .. 3 |-> HarnessCycle(n)]
    PROVE  /\ Cardinality(UNION {IdentitiesOf(cycles[n]) : n \in DOMAIN cycles}) = 6
           /\ Cardinality({cycles[n].server.sessions : n \in DOMAIN cycles}) = 3
           /\ ConversionsOf(cycles) = 300
<1>1. DOMAIN cycles = 1 .. 3 /\ \A n \in 1 .. 3 : cycles[n] = HarnessCycle(n)
  OBVIOUS
<1>2. \A n \in 1 .. 3 : /\ IdentitiesOf(cycles[n]) = {<<"server", n>>, <<"helper", n>>}
                        /\ cycles[n].server.sessions = {n}
                        /\ cycles[n].conversions = 100
  BY <1>1, CyclesAsRun DEF IdentitiesOf
<1>3. 1 .. 3 = {1, 2, 3}
  OBVIOUS
<1>4. UNION {IdentitiesOf(cycles[n]) : n \in DOMAIN cycles}
          = {<<"server", 1>>, <<"helper", 1>>, <<"server", 2>>, <<"helper", 2>>,
             <<"server", 3>>, <<"helper", 3>>}
  <2>1. UNION {IdentitiesOf(cycles[n]) : n \in DOMAIN cycles}
            = IdentitiesOf(cycles[1]) \cup IdentitiesOf(cycles[2]) \cup IdentitiesOf(cycles[3])
    <3>1. DOMAIN cycles = {1, 2, 3}
      BY <1>1, <1>3
    <3> QED
      BY <3>1
  <2> QED
    BY <1>2, <1>3, <2>1
<1>5. {cycles[n].server.sessions : n \in DOMAIN cycles} = {{1}, {2}, {3}}
  <2>1. {cycles[n].server.sessions : n \in DOMAIN cycles}
            = {cycles[1].server.sessions, cycles[2].server.sessions, cycles[3].server.sessions}
    <3>1. DOMAIN cycles = {1, 2, 3}
      BY <1>1, <1>3
    <3> DEFINE of == [n \in {1, 2, 3} |-> cycles[n].server.sessions]
    <3>2. {cycles[n].server.sessions : n \in DOMAIN cycles} = {of[n] : n \in {1, 2, 3}}
      BY <3>1
    <3>3. {of[n] : n \in {1, 2, 3}} = {of[1], of[2], of[3]}
      <4> HIDE DEF of
      <4> QED
        OBVIOUS
    <3> QED
      BY <3>2, <3>3
  <2>2. /\ cycles[1].server.sessions = {1} /\ cycles[2].server.sessions = {2}
        /\ cycles[3].server.sessions = {3}
    BY <1>2, <1>3
  <2> QED
    BY <2>1, <2>2
<1>10. Cardinality({{1}, {2}, {3}}) = 3
  <2>1. {1} # {2} /\ {1} # {3} /\ {2} # {3}
    OBVIOUS
  <2> QED
    BY <2>1, CountOfThree
<1>13. Cardinality({<<"server", 1>>, <<"helper", 1>>, <<"server", 2>>, <<"helper", 2>>,
                    <<"server", 3>>, <<"helper", 3>>}) = 6
  <2> DEFINE a == <<"server", 1>>
             b == <<"helper", 1>>
             d == <<"server", 2>>
             e == <<"helper", 2>>
             f == <<"server", 3>>
             g == <<"helper", 3>>
  <2>1. b # a /\ d \notin {a, b} /\ e \notin {a, b, d} /\ f \notin {a, b, d, e}
        /\ g \notin {a, b, d, e, f}
    OBVIOUS
  <2> HIDE DEF a, b, d, e, f, g
  <2>2. Cardinality({a, b, d, e, f, g}) = 6
    BY <2>1, CountOfSix
  <2> QED
    BY <2>2 DEF a, b, d, e, f, g
<1>14. ConversionsOf(cycles) = 300
  <2> DEFINE d == {1, 2, 3}
             a == 1
             b == 2
             e == 3
  <2>0. b # a /\ e # a /\ e # b
    OBVIOUS
  <2> HIDE DEF a, b, e
  <2>5. IsFiniteSet({a, b, e}) /\ Cardinality({a, b, e}) = 3
    BY <2>0, CountOfThree
  <2>1. IsFiniteSet(d) /\ Cardinality(d) = 3
    BY <2>5 DEF a, b, e
  <2>2. IsFiniteSet(DOMAIN cycles) /\ Cardinality(DOMAIN cycles) = 3
    BY <1>1, <1>3, <2>1
  <2>3. \A n \in DOMAIN cycles : cycles[n].conversions = 100
    BY <1>1, <1>2
  <2> HIDE <1>1, <1>2
  <2> QED
    BY <2>2, <2>3, ThreeTimes
<1> QED
  BY <1>4, <1>5, <1>10, <1>13, <1>14

\* However the processes of a suite are started, leave their group, end or are killed,
\* and whatever the harness has left: a suite that passes has ended every process that
\* its session could list and has counted every run of a server or a helper, and a
\* record is about as many servers, helpers and sessions as cycles
THEOREM AuditCompleteEver == Spec => []AuditComplete
<1> DEFINE AllTidy == \A c \in Commands : Tidy(c)
           AllCounted == \A c \in Commands : RunsWell(c) /\ CollectsWell(c)
<1>1. Init => Domains /\ AllTidy
  BY InitDomains, InitTidy
<1>2. Domains /\ AllTidy /\ [Next]_vars => Domains' /\ AllTidy'
  BY StoreSteps, TidySteps
<1>3. Init => AllHonest /\ InputsKnown /\ AllCounted
  <2> SUFFICES ASSUME Init PROVE AllHonest /\ InputsKnown /\ AllCounted
    OBVIOUS
  <2>1. AllCounted
    BY InitUnpublished DEF RunsWell, CollectsWell, Kinds, RolesOf
  <2> QED
    BY <2>1, InitHonest, InitKnown
<1>4. Domains /\ AllTidy /\ AllHonest /\ [Next]_vars => AllHonest'
  BY HonestSteps
<1>5. Domains /\ InputsKnown /\ [Next]_vars => InputsKnown'
  BY InputsKnownSteps
<1>6. Domains /\ AllHonest /\ InputsKnown /\ AllTidy /\ AllCounted /\ [Next]_vars
      => AllCounted'
  BY CountedSteps
<1>7. AllCounted => AuditComplete
  <2> SUFFICES ASSUME AllCounted PROVE AuditComplete
    OBVIOUS
  <2>1. ASSUME NEW c \in Commands, kind[c] \in Suites, at[c] = "ok", c \notin late
        PROVE  /\ \A p \in DOMAIN my[c].held.place :
                     my[c].held.place[p] \in {"none", "gone", "away"}
               /\ my[c].held.exit = "passed" /\ ~my[c].held.timedOut
               /\ kind[c] = "adapter" => Cardinality(
                     {h \in HelpersOf["adapter"] : my[c].held.place[h] # "none"}) = 1
               /\ kind[c] \in {"adapter", "steady"} =>
                     my[c].held.reported \cup ServersOf[kind[c]] = my[c].held.seen
    <3>1. /\ WellKept(kind[c], Session(c)) /\ Cleared(kind[c], Session(c))
          /\ Session(c).residues = {} => SessionMembers(Session(c)) = {}
      <4> HIDE DEF WellKept, Cleared, SessionMembers, Session
      <4> QED
        BY <2>1 DEF RunsWell
    <3> HIDE DEF WellKept, Cleared, SessionMembers, Suites
    <3> QED
      BY <2>1, <3>1, ClearedIsCounted DEF Session
  <2>2. ASSUME NEW c \in Commands, kind[c] = "collect", Published(c)
        PROVE  LET cycles == HarnessResult[trees[c].native].cycles
               IN /\ Cardinality(UNION {IdentitiesOf(cycles[n]) : n \in DOMAIN cycles})
                         = 2 * Lifecycle.cycles
                  /\ Cardinality({cycles[n].server.sessions : n \in DOMAIN cycles})
                         = Lifecycle.cycles
                  /\ MapThenSumSet(LAMBDA n : cycles[n].conversions, DOMAIN cycles)
                         = Lifecycle.conversions
    <3> DEFINE cycles == HarnessResult[trees[c].native].cycles
    <3>1. cycles = [n \in 1 .. 3 |-> HarnessCycle(n)]
      <4>1. trees[c].native \in Versions["native"] /\ CyclesValid(HarnessResult[trees[c].native])
        BY <2>2 DEF CollectsWell
      <4> QED
        BY <4>1, CyclesAccepted
    <3> HIDE DEF cycles
    <3>2. /\ Cardinality(UNION {IdentitiesOf(cycles[n]) : n \in DOMAIN cycles}) = 6
          /\ Cardinality({cycles[n].server.sessions : n \in DOMAIN cycles}) = 3
          /\ ConversionsOf(cycles) = 300
      BY <3>1, CyclesAddUp
    <3>3. Lifecycle.cycles = 3 /\ Lifecycle.conversions = 300
      BY CyclesAsRun
    <3>4. ConversionsOf(cycles) = Lifecycle.conversions
      BY <3>2, <3>3
    <3>5. /\ Cardinality(UNION {IdentitiesOf(cycles[n]) : n \in DOMAIN cycles})
                = 2 * Lifecycle.cycles
          /\ Cardinality({cycles[n].server.sessions : n \in DOMAIN cycles}) = Lifecycle.cycles
          /\ MapThenSumSet(LAMBDA n : cycles[n].conversions, DOMAIN cycles)
                = Lifecycle.conversions
      <4>1. MapThenSumSet(LAMBDA n : cycles[n].conversions, DOMAIN cycles) = Lifecycle.conversions
        BY <3>4 DEF ConversionsOf
      <4>2. /\ Cardinality(UNION {IdentitiesOf(cycles[n]) : n \in DOMAIN cycles})
                  = 2 * Lifecycle.cycles
            /\ Cardinality({cycles[n].server.sessions : n \in DOMAIN cycles}) = Lifecycle.cycles
        BY <3>2, <3>3
      <4> QED
        BY <4>1, <4>2
    <3> QED
      BY <3>5 DEF cycles
  <2> QED
    BY <2>1, <2>2 DEF AuditComplete
<1> HIDE DEF AllTidy, AllCounted
<1> QED
  BY <1>1, <1>2, <1>3, <1>4, <1>5, <1>6, <1>7, PTL DEF Spec
====
