------------------------- MODULE HybridSpeculation -------------------------
(***************************************************************************)
(* The Mozc-first hybrid converters of all sessions of one registry.  The  *)
(* request thread calls them while one worker thread prepares Hazkey       *)
(* results; both meet at the execution gate (a lock and a set of fences)   *)
(* and at the state lock of each converter.                                *)
(*                                                                         *)
(* todo holds the calls the current request has still to make, one step    *)
(* each.  A fence taken under the state lock is released in the same step: *)
(* in between it could only hold the worker back a little longer.  A       *)
(* composition is known by its revision, which every edit changes; what    *)
(* Hazkey returns is "learnable" or "plain".  Revisions, jobs and tokens   *)
(* are numbered anew when nothing carries the number any longer.           *)
(***************************************************************************)
EXTENDS Integers, Sequences, FiniteSets, SequencesExt

CONSTANTS
    Sessions,
    NoSession,
    StagingSessions   \* sessions whose client resolves learning explicitly

ASSUME HybridAssumption ==
    /\ NoSession \notin Sessions
    /\ StagingSessions \subseteq Sessions
    /\ IsFiniteSet(Sessions)

VARIABLES
    \* of each converter
    speculation,     \* speculationState
    candidateFence,  \* its token, or NoFence
    published,       \* candidateFencePublished
    deferred,        \* candidateFenceDeferredForLearning
    staged,          \* stagedRoutes is not empty
    dirty,           \* dirtyBackends contains hazkey
    holds,           \* its Hazkey adapter holds candidates of the composition
    \* of each reducer and its registry entry
    phase,           \* "idle", "composing" with the caret at the end, "inside"
                     \* (the caret is, or the text is reconverted), "converted"
    revision,        \* compositionRevision
    window,          \* the candidates shown: "none", "mozc" or "learnable"
    pending,         \* pendingLearningTransactions is not empty
    secure,          \* policy.secureInput
    field,           \* environment.grimodexSecureInput: opened for a secure field
    status,          \* "gone", "live" or "dropped"
    \* shared
    fences,          \* speculationFences
    lock,            \* the execution lock: "free", "main" or "worker"
    learning,        \* the learning revision
    \* the worker
    queue,           \* jobs submitted to the executor
    at,              \* where the worker stands
    job,             \* the job it works on
    context,         \* the context it read
    result,          \* what Hazkey returned
    workerFence,     \* the token it acquired
    \* the request thread
    todo,            \* calls the current request has still to make
    scoped           \* tokens of the enclosing withSpeculationSuspended

fenceState == <<candidateFence, published, deferred, fences>>
learnState == <<staged, dirty, pending, learning>>
screen == <<phase, revision, window>>
domain == <<secure, field, status, holds>>
jobVars == <<queue, at, job, context, result, workerFence>>
vars == <<speculation, fenceState, learnState, screen, domain, lock, jobVars,
          todo, scoped>>

NoFence == 0
NoJob == [session |-> NoSession, work |-> 0]
Context(r, l) == [revision |-> r, learning |-> l]
NoContext == Context(0, 0)

\* step is the result a ready or frozen state still carries
State(kind, work, ctx, step) ==
    [kind |-> kind, work |-> work, context |-> ctx, step |-> step]
Idle == State("idle", 0, NoContext, "none")
Frozen(r, l, step) == State("frozen", 0, Context(r, l), step)

Live == {s \in Sessions : status[s] = "live"}
Set(f, s, value) == [f EXCEPT ![s] = value]

Init ==
    /\ speculation = [s \in Sessions |-> Idle]
    /\ candidateFence = [s \in Sessions |-> NoFence]
    /\ published = [s \in Sessions |-> FALSE]
    /\ deferred = [s \in Sessions |-> FALSE]
    /\ staged = [s \in Sessions |-> FALSE]
    /\ dirty = [s \in Sessions |-> FALSE]
    /\ holds = [s \in Sessions |-> FALSE]
    /\ phase = [s \in Sessions |-> "idle"]
    /\ revision = [s \in Sessions |-> 0]
    /\ window = [s \in Sessions |-> "none"]
    /\ pending = [s \in Sessions |-> FALSE]
    /\ secure = [s \in Sessions |-> FALSE]
    /\ field = [s \in Sessions |-> FALSE]
    /\ status = [s \in Sessions |-> "gone"]
    /\ fences = {} /\ lock = "free" /\ learning = 0
    /\ queue = <<>> /\ at = "free" /\ job = NoJob
    /\ context = NoContext /\ result = "none" /\ workerFence = NoFence
    /\ todo = <<>> /\ scoped = <<>>

\* The least number from first on that is not in use
Unused(first, used) ==
    CHOOSE n \in first .. first + Cardinality(used) :
        n \notin used /\ \A m \in first .. n - 1 : m \in used

NewFence == Unused(1, fences)
NewWork(s) ==
    Unused(1, {j.work : j \in {k \in ToSet(queue) \cup {job} : k.session = s}})
NewRevision(s) == Unused(0, IF job.session = s THEN {context.revision} ELSE {})
NewLearning ==
    Unused(0, {context.learning} \cup {speculation[s].context.learning : s \in Sessions})

------------------------------------------------------------------------------
(* The worker                                                              *)

\* A queued job whose converter is gone does nothing
Dequeue ==
    /\ at = "free"
    /\ queue # <<>>
    /\ queue' = Tail(queue)
    /\ IF status[Head(queue).session] = "live"
         THEN at' = "admission" /\ job' = Head(queue)
         ELSE UNCHANGED <<at, job>>
    /\ UNCHANGED <<speculation, fenceState, lock, context, result, workerFence>>

Admit ==
    /\ at = "admission"
    /\ fences = {}
    /\ at' = "entering"
    /\ UNCHANGED <<speculation, fenceState, lock, queue, job, context, result,
                   workerFence>>

\* The lock is free: the fences are checked again before the work starts
Enter ==
    /\ at = "entering"
    /\ lock = "free"
    /\ IF fences = {}
         THEN at' = "checking" /\ lock' = "worker"
         ELSE at' = "admission" /\ UNCHANGED lock
    /\ UNCHANGED <<speculation, fenceState, queue, job, context, result, workerFence>>

Active(s) ==
    /\ job.session = s
    /\ at \in {"checking", "converting", "fencing", "finishing", "leaving"}

StillPending(s, ctx) ==
    /\ speculation[s].kind = "pending"
    /\ speculation[s].work = job.work
    /\ speculation[s].context = ctx

\* The pending context is read, and brought up to the learning revision
ReadPending ==
    /\ at = "checking"
    /\ LET s == job.session
           read == speculation[s].context
           current == Context(read.revision, learning)
       IN IF StillPending(s, read)
            THEN /\ speculation' =
                      Set(speculation, s, State("pending", job.work, current, "none"))
                 /\ context' = current
                 /\ at' = "converting"
                 /\ UNCHANGED result
            ELSE /\ result' = "stale"
                 /\ at' = "finishing"
                 /\ UNCHANGED <<speculation, context>>
    /\ UNCHANGED <<fenceState, lock, queue, job, workerFence>>

\* Hazkey converts; a result nobody waits for any longer is thrown away
Convert ==
    /\ at = "converting"
    /\ \E r \in {"failed", "plain", "learnable"} :
        /\ result' = IF StillPending(job.session, context) THEN r ELSE "stale"
        /\ at' = IF result' = "learnable" THEN "fencing" ELSE "finishing"
    /\ UNCHANGED <<speculation, fenceState, lock, queue, job, context, workerFence>>

FenceResult ==
    /\ at = "fencing"
    /\ workerFence' = NewFence
    /\ fences' = fences \cup {NewFence}
    /\ at' = "finishing"
    /\ UNCHANGED <<speculation, candidateFence, published, deferred, lock, queue, job,
                   context, result>>

\* Mutant: the worker's fence is forgotten with the result nobody waits for
Finish_ForgetsFence ==
    /\ at = "finishing"
    /\ at' = "leaving"
    /\ workerFence' = NoFence
    /\ LET s == job.session
           taken == StillPending(s, context) /\ workerFence # NoFence
       IN /\ speculation' = IF StillPending(s, context)
                              THEN Set(speculation, s, State("ready", job.work, context,
                                        IF result = "learnable" THEN result ELSE "plain"))
                              ELSE speculation
          /\ candidateFence' =
                IF taken THEN Set(candidateFence, s, workerFence) ELSE candidateFence
    /\ UNCHANGED <<published, deferred, fences, lock, queue, job, context, result>>

\* Mutant: the worker starts over when its result is stale
Finish_Retries ==
    /\ at = "finishing"
    /\ at' = IF StillPending(job.session, context) THEN "leaving" ELSE "checking"
    /\ speculation' = IF StillPending(job.session, context)
                        THEN Set(speculation, job.session, Idle) ELSE speculation
    /\ UNCHANGED <<candidateFence, published, deferred, workerFence, fences, lock,
                   queue, job, context, result>>

\* Mutant: the result is taken whatever the converter waits for
Finish_Always ==
    /\ at = "finishing"
    /\ at' = "leaving"
    /\ speculation' = Set(speculation, job.session,
            IF result \in {"plain", "learnable"}
              THEN State("ready", job.work, context, result) ELSE Idle)
    /\ UNCHANGED <<candidateFence, published, deferred, workerFence, fences, lock,
                   queue, job, context, result>>

\* Under the state lock: the result and its fence become the converter's, or
\* the worker keeps the fence, to release it
Finish ==
    /\ at = "finishing"
    /\ at' = "leaving"
    /\ LET s == job.session
           fresh == context.learning = learning
       IN IF ~StillPending(s, context)
            THEN UNCHANGED <<speculation, candidateFence, published, deferred,
                             workerFence>>
          ELSE IF fresh /\ result \in {"plain", "learnable"}
            THEN /\ speculation' =
                      Set(speculation, s, State("ready", job.work, context, result))
                 /\ IF workerFence = NoFence
                      THEN UNCHANGED <<candidateFence, published, deferred>>
                      ELSE /\ candidateFence' = Set(candidateFence, s, workerFence)
                           /\ published' = Set(published, s, FALSE)
                           /\ deferred' = Set(deferred, s, FALSE)
                 /\ workerFence' = NoFence
          ELSE /\ speculation' = Set(speculation, s, Idle)
               /\ UNCHANGED <<candidateFence, published, deferred, workerFence>>
    /\ UNCHANGED <<fences, lock, queue, job, context, result>>

ReleaseWorkerFence ==
    /\ at = "leaving"
    /\ workerFence # NoFence
    /\ fences' = fences \ {workerFence}
    /\ workerFence' = NoFence
    /\ UNCHANGED <<speculation, candidateFence, published, deferred, lock, queue, at,
                   job, context, result>>

Leave ==
    /\ at = "leaving"
    /\ workerFence = NoFence
    /\ lock' = "free" /\ at' = "free" /\ job' = NoJob
    /\ context' = NoContext /\ result' = "none"
    /\ UNCHANGED <<speculation, fenceState, queue, workerFence>>

Work ==
    /\ \/ Dequeue \/ Admit \/ Enter \/ ReadPending \/ Convert \/ FenceResult
       \/ Finish \/ ReleaseWorkerFence \/ Leave
    /\ holds' = IF at = "converting" THEN Set(holds, job.session, TRUE) ELSE holds
    /\ UNCHANGED <<learnState, screen, secure, field, status, todo, scoped>>

------------------------------------------------------------------------------
(* Calls of the request thread                                             *)

Calls(op, s) == todo # <<>> /\ Head(todo) = <<op, s>>
Return == todo' = Tail(todo)
Ops(s, ops) == [i \in DOMAIN ops |-> <<ops[i], s>>]

\* takeCandidateFenceLocked: with the fence goes a frozen step, which must not
\* be published again without it
Discarded(state) ==
    IF state.kind = "frozen"
      THEN Frozen(state.context.revision, 0, "none")
      ELSE state

Take(s, state) ==
    /\ speculation' = Set(speculation, s, Discarded(state))
    /\ fences' = fences \ {candidateFence[s]}
    /\ candidateFence' = Set(candidateFence, s, NoFence)
    /\ published' = Set(published, s, published[s] /\ candidateFence[s] = NoFence)
    /\ deferred' = Set(deferred, s, deferred[s] /\ candidateFence[s] = NoFence)

Keep(s, state) ==
    /\ speculation' = Set(speculation, s, state)
    /\ UNCHANGED fenceState

\* The fence protects something that is shown, staged or being committed
InUse(s) == published[s] \/ staged[s] \/ deferred[s]
Unless(used, s, state) == IF used THEN Keep(s, state) ELSE Take(s, state)

\* Mutant: staged learning does not keep the fence
Invalidate_Staged(s) ==
    /\ Calls("invalidate", s)
    /\ revision' = Set(revision, s, NewRevision(s))
    /\ Unless(published[s], s, Idle)
    /\ Return
    /\ UNCHANGED <<learnState, phase, window, domain, lock, jobVars, scoped>>

\* invalidateSpeculation of the reducer
Invalidate(s) ==
    /\ Calls("invalidate", s)
    /\ revision' = Set(revision, s, NewRevision(s))
    /\ Unless(published[s] \/ staged[s], s, Idle)
    /\ Return
    /\ UNCHANGED <<learnState, phase, window, domain, lock, jobVars, scoped>>

\* The same before a commit: the fence stays for the learning that follows
InvalidateForCommit(s) ==
    /\ Calls("invalidateForCommit", s)
    /\ revision' = Set(revision, s, NewRevision(s))
    /\ speculation' = Set(speculation, s, Idle)
    /\ deferred' = Set(deferred, s, deferred[s] \/ candidateFence[s] # NoFence)
    /\ Return
    /\ UNCHANGED <<candidateFence, published, fences, learnState, phase, window, domain,
                   lock, jobVars, scoped>>

\* The phase an abandoned conversion falls back to
Editable(s) == IF phase[s] = "converted" THEN "composing" ELSE phase[s]

\* purgeSensitiveState, and endConverterComposition
Purge(s) ==
    Ops(s, <<"suspend", "purgeState", "purgeHazkey", "awaitWorker", "resume">>)
Stop(s) == IF secure[s] THEN Purge(s) ELSE Ops(s, <<"stop">>)

When(condition, calls) == IF condition THEN calls ELSE <<>>

\* invalidateCandidatesForExternalDictionaryChange
External(s) ==
    /\ Calls("external", s)
    /\ revision' = Set(revision, s, NewRevision(s))
    /\ Unless(published[s] \/ staged[s], s, Idle)
    /\ phase' = Set(phase, s, IF window[s] # "none" THEN Editable(s) ELSE phase[s])
    /\ todo' = When(window[s] # "none", Stop(s) \o Ops(s, <<"retire">>)) \o Tail(todo)
    /\ UNCHANGED <<learnState, window, domain, lock, jobVars, scoped>>

\* Mutant: the fence goes with the window although learning is staged
RetireWindow_Staged(s) ==
    IF ~published[s] THEN Keep(s, speculation[s]) ELSE Take(s, speculation[s])

RetireWindow(s) ==
    IF ~published[s] THEN Keep(s, speculation[s])
    ELSE IF staged[s] \/ deferred[s]
      THEN /\ published' = Set(published, s, FALSE)
           /\ speculation' = Set(speculation, s, Discarded(speculation[s]))
           /\ UNCHANGED <<candidateFence, deferred, fences>>
    ELSE Take(s, speculation[s])

\* clearConversionState
Retire(s) ==
    /\ Calls("retire", s)
    /\ RetireWindow(s)
    /\ window' = Set(window, s, "none")
    /\ Return
    /\ UNCHANGED <<learnState, phase, revision, domain, lock, jobVars, scoped>>

\* The candidates of the active segment change; with the last learnable one
\* the window is retired
Relabel(s) ==
    /\ Calls("relabel", s)
    /\ \/ window[s] = "learnable" /\ Keep(s, speculation[s]) /\ UNCHANGED window
       \/ RetireWindow(s) /\ window' = Set(window, s, "mozc")
    /\ Return
    /\ UNCHANGED <<learnState, phase, revision, domain, lock, jobVars, scoped>>

\* Predictions or a live conversion, from Mozc alone
Present(s) ==
    /\ Calls("present", s)
    /\ \/ Keep(s, speculation[s]) /\ window' = Set(window, s, "mozc")
       \/ RetireWindow(s) /\ window' = Set(window, s, "none")
    /\ Return
    /\ UNCHANGED <<learnState, phase, revision, domain, lock, jobVars, scoped>>

\* prepareSpeculativeConversion; the job is submitted in a step of its own
Prepare(s) ==
    /\ Calls("prepare", s)
    /\ LET ctx == Context(revision[s], learning)
           state == speculation[s]
           known == \/ state.kind \in {"pending", "ready"} /\ state.context = ctx
                    \/ state.kind = "frozen" /\ state.context.revision = revision[s]
       IN IF phase[s] # "composing" \/ secure[s] \/ known
            THEN Keep(s, state) /\ Return
            ELSE /\ Unless(InUse(s), s, State("pending", NewWork(s), ctx, "none"))
                 /\ todo' = Ops(s, <<"submit">>) \o Tail(todo)
    /\ UNCHANGED <<learnState, screen, domain, lock, jobVars, scoped>>

Submit(s) ==
    /\ Calls("submit", s)
    /\ queue' = Append(queue, [session |-> s, work |-> speculation[s].work])
    /\ Return
    /\ UNCHANGED <<speculation, fenceState, learnState, screen, domain, lock, at, job,
                   context, result, workerFence, scoped>>

\* lockCandidateOrder: only a result that is ready, and learned enough, stays
LockOrder(s) ==
    /\ Calls("lock", s)
    /\ LET state == speculation[s]
           none == Frozen(revision[s], 0, "none")
           mine == state.kind # "idle" /\ state.context.revision = revision[s]
           fresh == state.context.learning = learning
       IN CASE mine /\ state.kind = "frozen" -> Keep(s, state)
            [] mine /\ state.kind = "ready" /\ fresh ->
                 Keep(s, Frozen(revision[s], learning, state.step))
            [] mine /\ state.kind = "ready" /\ ~fresh -> Take(s, none)
            [] mine /\ state.kind = "pending" -> Keep(s, none)
            [] ~mine -> Unless(InUse(s), s, none)
    /\ Return
    /\ UNCHANGED <<learnState, screen, domain, lock, jobVars, scoped>>

\* segmentCandidates of the first segment: the frozen step is merged if it
\* fits the boundary; Mozc may fail there, or for a later segment
Segments(s) ==
    /\ Calls("segments", s)
    /\ \E outcome \in {"shown", "fails", "failsLater"}, fits \in BOOLEAN :
        LET state == speculation[s]
            merges == state.kind = "frozen" /\ state.step # "none"
        IN /\ todo' = IF outcome = "shown" THEN Tail(todo)
                      ELSE Ops(s, <<"abandon">>) \o Stop(s) \o Ops(s, <<"retire">>)
                              \o Tail(todo)
           /\ phase' = Set(phase, s,
                    IF outcome = "shown" THEN "converted"
                    ELSE IF phase[s] = "inside" THEN "inside" ELSE "composing")
           /\ \/ /\ outcome = "fails"
                 /\ Keep(s, state)
                 /\ UNCHANGED window
              \/ /\ outcome # "fails" /\ merges /\ fits /\ state.step = "learnable"
                 /\ published' = Set(published, s, candidateFence[s] # NoFence)
                 /\ window' = Set(window, s, "learnable")
                 /\ UNCHANGED <<speculation, candidateFence, deferred, fences>>
              \/ /\ outcome # "fails" /\ ~(merges /\ fits /\ state.step = "learnable")
                 /\ Unless(~merges \/ staged[s] \/ deferred[s], s, state)
                 /\ window' = Set(window, s, "mozc")
    /\ UNCHANGED <<learnState, revision, domain, lock, jobVars, scoped>>

\* releaseUnpublishedFrozenFence
Abandon(s) ==
    /\ Calls("abandon", s)
    /\ Unless(speculation[s].kind # "frozen" \/ InUse(s), s, speculation[s])
    /\ Return
    /\ UNCHANGED <<learnState, screen, domain, lock, jobVars, scoped>>

\* The request thread may run Hazkey: it holds the lock or gets it at once
HazkeyFree == lock # "worker"

\* The fence of a commit ends when nothing is left to learn
EndDeferral(s) ==
    Unless(~deferred[s] \/ staged'[s] \/ dirty'[s], s, speculation[s])

StopComposition(s) ==
    /\ Calls("stop", s)
    /\ UNCHANGED <<staged, dirty>>
    /\ EndDeferral(s)
    /\ Return
    /\ UNCHANGED <<pending, learning, screen, domain, lock, jobVars, scoped>>

\* learn with a candidate of Hazkey
Learn(s) ==
    /\ Calls("learn", s)
    /\ HazkeyFree
    /\ IF s \in StagingSessions
         THEN /\ staged' = Set(staged, s, TRUE)
              /\ pending' = Set(pending, s, TRUE)
              /\ deferred' = Set(deferred, s, deferred[s] \/ candidateFence[s] # NoFence)
              /\ Return
              /\ UNCHANGED dirty
         ELSE /\ dirty' = Set(dirty, s, TRUE)
              /\ todo' = Ops(s, <<"commitLearning">>) \o Tail(todo)
              /\ UNCHANGED <<staged, pending, deferred>>
    /\ UNCHANGED <<speculation, candidateFence, published, fences, learning, screen,
                   domain, lock, jobVars, scoped>>

CommitLearning(s) ==
    /\ Calls("commitLearning", s)
    /\ IF dirty[s] THEN HazkeyFree /\ learning' = NewLearning ELSE UNCHANGED learning
    /\ dirty' = Set(dirty, s, FALSE)
    /\ UNCHANGED staged
    /\ EndDeferral(s)
    /\ Return
    /\ UNCHANGED <<pending, screen, domain, lock, jobVars, scoped>>

\* resolvePendingLearning(commit: true)
ResolveCommit(s) ==
    /\ Calls("commit", s)
    /\ IF pending[s]
         THEN /\ staged[s] => HazkeyFree
              /\ staged' = Set(staged, s, FALSE)
              /\ dirty' = Set(dirty, s, dirty[s] \/ staged[s])
              /\ todo' = Ops(s, <<"commitLearning">>) \o Tail(todo)
         ELSE UNCHANGED <<staged, dirty>> /\ Return
    /\ pending' = Set(pending, s, FALSE)
    /\ UNCHANGED <<speculation, fenceState, learning, screen, domain, lock, jobVars,
                   scoped>>

\* resolvePendingLearning(commit: false)
ResolveDiscard(s) ==
    /\ Calls("discard", s)
    /\ IF pending[s] /\ staged[s]
         THEN /\ HazkeyFree
              /\ staged' = Set(staged, s, FALSE)
              /\ Unless(~deferred[s], s, speculation[s])
         ELSE UNCHANGED staged /\ Keep(s, speculation[s])
    /\ pending' = Set(pending, s, FALSE)
    /\ Return
    /\ UNCHANGED <<dirty, learning, screen, domain, lock, jobVars, scoped>>

\* forget of a candidate, and recordCommit once all histories are cleared
RecordLearning(s) ==
    /\ Calls("forget", s) \/ Calls("record", s)
    /\ HazkeyFree
    /\ learning' = NewLearning
    /\ Return
    /\ UNCHANGED <<speculation, fenceState, staged, dirty, pending, screen, domain, lock,
                   jobVars, scoped>>

\* acquire and release of withSpeculationSuspended and of a purge
Suspend(s) ==
    /\ Calls("suspend", s)
    /\ fences' = fences \cup {NewFence}
    /\ scoped' = <<NewFence>> \o scoped
    /\ Return
    /\ UNCHANGED <<speculation, candidateFence, published, deferred, learnState, screen,
                   domain, lock, jobVars>>

Resume(s) ==
    /\ Calls("resume", s)
    /\ fences' = fences \ {Head(scoped)}
    /\ scoped' = Tail(scoped)
    /\ Return
    /\ UNCHANGED <<speculation, candidateFence, published, deferred, learnState, screen,
                   domain, lock, jobVars>>

\* withLock around a maintenance
LockGate(s) ==
    /\ \/ Calls("acquire", s) /\ lock = "free" /\ lock' = "main"
       \/ Calls("release", s) /\ lock' = "free"
    /\ Return
    /\ UNCHANGED <<speculation, fenceState, learnState, screen, domain, jobVars, scoped>>

\* refreshGrimodexIntegration takes over a new Grimodex revision under the
\* execution lock, with no fence to keep the worker out
Refresh(s) ==
    /\ Calls("refresh", s)
    /\ HazkeyFree
    /\ Return
    /\ UNCHANGED <<speculation, fenceState, learnState, screen, domain, lock, jobVars,
                   scoped>>

\* The parts of purgeSensitiveState between its two fence calls
PurgeState(s) ==
    /\ Calls("purgeState", s)
    /\ Take(s, Idle)
    /\ staged' = Set(staged, s, FALSE)
    /\ dirty' = Set(dirty, s, FALSE)
    /\ Return
    /\ UNCHANGED <<pending, learning, screen, domain, lock, jobVars, scoped>>

\* Mutant: the purge does not wait for the execution lock
PurgeHazkey_NoLock(s) ==
    /\ Calls("purgeHazkey", s)
    /\ holds' = Set(holds, s, FALSE)
    /\ Return
    /\ UNCHANGED <<speculation, fenceState, learnState, screen, secure, field, status,
                   lock, jobVars, scoped>>

PurgeHazkey(s) ==
    /\ Calls("purgeHazkey", s)
    /\ HazkeyFree
    /\ holds' = Set(holds, s, FALSE)
    /\ Return
    /\ UNCHANGED <<speculation, fenceState, learnState, screen, secure, field, status,
                   lock, jobVars, scoped>>

AwaitWorker(s) ==
    /\ Calls("awaitWorker", s)
    /\ ~Active(s)
    /\ Return
    /\ UNCHANGED <<speculation, fenceState, learnState, screen, domain, lock, jobVars,
                   scoped>>

ChangeSecure(s) ==
    /\ Calls("changeSecure", s)
    /\ secure' = Set(secure, s, ~secure[s])
    /\ Return
    /\ UNCHANGED <<speculation, fenceState, learnState, screen, field, status, holds,
                   lock, jobVars, scoped>>

\* The registry lets go of the session
Drop(s) ==
    /\ Calls("drop", s)
    /\ status' = Set(status, s, "dropped")
    /\ Return
    /\ UNCHANGED <<speculation, fenceState, learnState, screen, secure, field, holds,
                   lock, jobVars, scoped>>

CallStep(s) ==
    \/ Invalidate(s) \/ InvalidateForCommit(s) \/ External(s) \/ Retire(s) \/ Relabel(s)
    \/ Present(s) \/ Prepare(s) \/ Submit(s) \/ LockOrder(s) \/ Segments(s)
    \/ Abandon(s) \/ StopComposition(s) \/ Learn(s) \/ CommitLearning(s)
    \/ ResolveCommit(s) \/ ResolveDiscard(s) \/ RecordLearning(s) \/ Suspend(s)
    \/ Resume(s) \/ LockGate(s) \/ Refresh(s) \/ PurgeState(s) \/ PurgeHazkey(s)
    \/ AwaitWorker(s) \/ ChangeSecure(s) \/ Drop(s)

\* deinit, when neither the registry nor the worker holds the converter
Deinit(s) ==
    /\ status[s] = "dropped"
    /\ job.session # s
    /\ Take(s, Idle)
    /\ status' = Set(status, s, "gone")
    /\ UNCHANGED <<learnState, screen, secure, field, holds, lock, jobVars, todo,
                   scoped>>
=============================================================================
