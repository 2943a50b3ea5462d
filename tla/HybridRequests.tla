--------------------------- MODULE HybridRequests ---------------------------
(***************************************************************************)
(* The requests that reach the hybrid converters: what the reducer of a    *)
(* session calls for each action, and what the registry calls to open,     *)
(* close and maintain sessions.  The request thread serves one request at  *)
(* a time; a request is the list of its calls, known when it starts, and   *)
(* the phase its text is left in.                                          *)
(***************************************************************************)
EXTENDS HybridSpeculation

CONSTANTS
    Scenarios,  \* the kinds of request each session makes, in some combinations
    MaxQueue    \* bound on the jobs that wait when more are asked for

Kinds ==
    {"insert", "delete", "caret", "transform", "convert", "reconvert", "window", "resize",
     "commit", "learn", "cancel", "focus", "secure", "restart", "close", "maintain",
     "revise"}  \* a new Grimodex revision is there when a composition starts

ASSUME RequestAssumption ==
    /\ Scenarios \subseteq [Sessions -> SUBSET Kinds]
    /\ MaxQueue \in Nat \ {0}

VARIABLE asks   \* the scenario of this behaviour

\* A request that prepares is only made while few jobs wait
Room == Len(queue) < MaxQueue

Request(kind, s, text, calls) ==
    /\ kind \in asks[s]
    /\ todo = <<>>
    /\ status[s] = "live"
    /\ phase' = Set(phase, s, text)
    /\ todo' = calls
    /\ UNCHANGED <<speculation, fenceState, learnState, revision, window, domain, lock,
                   jobVars, scoped>>

\* What ends an edit: a new preparation, predictions or a live conversion
Finishing(s) == Ops(s, <<"retire", "prepare", "present">>)

\* pinCompositionPolicy, where a composition starts: the environment takes a
\* new revision over, and its policy replaces that of the session, which a
\* lifecycle event may have changed
Revised(s) == {FALSE, "revise" \in asks[s]}
Crosses(s) == phase[s] = "idle" /\ secure[s] # field[s]
Crossing(s) ==
    Ops(s, <<"invalidate", "discard">>) \o Purge(s) \o Ops(s, <<"retire", "changeSecure">>)
Pin(s, revised) ==
    When(phase[s] = "idle" /\ revised, Ops(s, <<"refresh">>))
      \o When(Crosses(s), Crossing(s))

InsertText(s) ==
    \E text \in {"composing", "inside"}, revised \in Revised(s) :
        /\ IF text = "inside" THEN phase[s] = "inside" ELSE Room
        /\ Request("insert", s, text,
            Ops(s, <<"invalidate">>) \o Pin(s, revised) \o Ops(s, <<"commit">>)
              \o When(window[s] # "none" /\ ~Crosses(s), Stop(s)) \o Finishing(s))

\* deleteBackward and deleteForward
Delete(s) ==
    \E text \in {"idle", "composing", "inside"} :
        /\ phase[s] = "idle" => text = "idle"
        /\ text = "composing" => Room
        /\ text = "inside" => phase[s] = "inside"
        /\ Request("delete", s, text,
            Ops(s, <<"invalidate", "discard">>) \o When(window[s] # "none", Stop(s))
              \o When(secure[s] /\ text = "idle", Purge(s))
              \o IF text = "idle" THEN Ops(s, <<"retire">>) ELSE Finishing(s))

MoveCursor(s) ==
    \E text \in {"composing", "inside"} :
        /\ phase[s] # "idle"
        /\ text = "composing" => Room
        /\ Request("caret", s, text, Ops(s, <<"invalidate">>) \o Stop(s) \o Finishing(s))

\* The raw text in another width
TransformText(s) ==
    /\ phase[s] \in {"composing", "inside"} /\ Room
    /\ Request("transform", s, phase[s],
        Ops(s, <<"discard", "invalidate">>) \o Stop(s) \o Ops(s, <<"retire", "prepare">>))

StartConversion(s) ==
    /\ phase[s] # "idle"
    /\ Request("convert", s, phase[s],
        Ops(s, <<"commit">>)
          \o When(phase[s] # "converted" /\ window[s] # "none",
                  Stop(s) \o Ops(s, <<"retire">>))
          \o Ops(s, <<"lock">>) \o Stop(s) \o Ops(s, <<"segments">>))

\* Refused in a secure field, once the policy is pinned
Reconvert(s) ==
    \E revised \in Revised(s) :
        IF IF phase[s] = "idle" THEN field[s] ELSE secure[s]
          THEN Request("reconvert", s, phase[s], Pin(s, revised))
          ELSE Request("reconvert", s, "inside",
                Pin(s, revised)
                  \o Ops(s, <<"invalidate", "commit", "stop", "retire", "lock", "stop",
                              "segments">>))

\* Navigation and selection in the window, and movement between its segments
Navigate(s) ==
    /\ window[s] # "none"
    /\ Request("window", s, "converted", Ops(s, <<"lock">>))

\* Mozc converts the resized segments, or fails
ResizeSegment(s) ==
    /\ phase[s] # "idle"
    /\ \E text \in {"converted", Editable(s)} :
        Request("resize", s, text,
            Ops(s, <<"invalidate">>) \o Stop(s)
              \o Ops(s, << IF text = "converted" THEN "relabel" ELSE "retire" >>))

TransformSegment(s) ==
    /\ phase[s] = "converted"
    /\ Request("transform", s, "converted", Ops(s, <<"discard", "invalidate", "relabel">>))

ForgetCandidate(s) ==
    /\ window[s] = "learnable"
    /\ Request("window", s, phase[s], Ops(s, <<"forget">>))

\* The selection may hold a candidate of Hazkey
Learns(s) == {FALSE, window[s] = "learnable" /\ ~secure[s]}

CommitAll(s) ==
    /\ phase[s] # "idle"
    /\ \E learns \in Learns(s) :
        Request("commit", s, "idle",
            Ops(s, <<"commit", "invalidateForCommit">>)
              \o When(learns, Ops(s, <<"learn">>))
              \o Ops(s, <<"retire">>) \o Stop(s))

\* The segments up to the active one; what remains is converted again
CommitSelected(s) ==
    /\ phase[s] = "converted"
    /\ \E learns \in Learns(s), whole \in BOOLEAN :
        Request("learn", s, IF whole THEN "idle" ELSE "composing",
            Ops(s, <<"invalidateForCommit", "commit">>)
              \o When(learns, Ops(s, <<"learn">>))
              \o When(~whole, Ops(s, <<"commit">>))
              \o Stop(s) \o Ops(s, <<"retire">>)
              \o When(~whole, Ops(s, <<"lock">>) \o Stop(s) \o Ops(s, <<"segments">>)))

\* From the window back to the conversion, from there to the reading; else
\* the text goes
Cancel(s) ==
    \/ /\ phase[s] = "converted"
       /\ Request("cancel", s, "converted", Ops(s, <<"invalidate", "discard">>))
    \/ /\ phase[s] = "converted" /\ Room
       /\ Request("cancel", s, "composing",
            Ops(s, <<"invalidate", "discard">>) \o Stop(s)
              \o Ops(s, <<"retire", "prepare">>))
    \/ Request("cancel", s, "idle",
            Ops(s, <<"invalidate", "discard">>)
              \o When(phase[s] # "idle", Stop(s) \o Ops(s, <<"retire">>)))

ResolvePending(s) ==
    \E resolution \in {"commit", "discard"} :
        Request("learn", s, phase[s], Ops(s, <<resolution>>))

FocusOut(s) ==
    IF secure[s]
      THEN Request("focus", s, "idle",
            Ops(s, <<"invalidate", "discard">>) \o Purge(s) \o Ops(s, <<"retire">>))
      ELSE Request("focus", s, Editable(s),
            Ops(s, <<"invalidate", "commit", "stop", "retire">>))

\* A context or capability that changes beside the composition
ContextChanged(s) == Request("focus", s, phase[s], Ops(s, <<"invalidate">>))

SecureInputChanged(s) ==
    Request("secure", s, "idle",
        Ops(s, <<"invalidate", "discard">>) \o Purge(s)
          \o Ops(s, <<"changeSecure", "retire">>))

ServerRestarted(s) ==
    Request("restart", s, IF secure[s] THEN "idle" ELSE Editable(s),
        Ops(s, <<"invalidate", "discard">>) \o Purge(s) \o Ops(s, <<"retire">>))

\* removeSession: learning is committed or not, by the reason
CloseSession(s) ==
    \E resolution \in {"commit", "discard"} :
        Request("close", s, phase[s],
            Ops(s, <<"suspend", "external", "acquire", resolution, "release", "resume",
                     "drop">>))

\* A session name is used again when nothing refers to it.  The converters are
\* made, and the Grimodex revision is read, under the execution lock
Open(s) ==
    /\ todo = <<>>
    /\ status[s] = "gone"
    /\ \A j \in ToSet(queue) : j.session # s
    /\ status' = Set(status, s, "live")
    /\ phase' = Set(phase, s, "idle")
    /\ window' = Set(window, s, "none")
    /\ pending' = Set(pending, s, FALSE)
    /\ \E secret \in {FALSE, "secure" \in asks[s]} :
        /\ secure' = Set(secure, s, secret)
        /\ field' = Set(field, s, secret)
    /\ holds' = Set(holds, s, FALSE)
    /\ speculation' = Set(speculation, s, Idle)
    /\ published' = Set(published, s, FALSE)
    /\ deferred' = Set(deferred, s, FALSE)
    /\ staged' = Set(staged, s, FALSE)
    /\ dirty' = Set(dirty, s, FALSE)
    /\ todo' = Ops(s, <<"refresh">>)
    /\ UNCHANGED <<candidateFence, fences, revision, lock, learning, jobVars, scoped>>

------------------------------------------------------------------------------
(* Maintenance of the registry, over all its sessions in some order        *)

All(op) ==
    LET order == SetToSeq(Live)
    IN [i \in DOMAIN order |-> <<op, order[i]>>]
InvalidateAll == All("external")

\* reinitializeAll and a changed user dictionary
Reinitialization(s) ==
    Ops(s, <<"suspend">>) \o InvalidateAll \o Ops(s, <<"acquire", "release">>)
      \o All("prepare") \o Ops(s, <<"resume">>)

Clearing(s) ==
    Ops(s, <<"suspend">>) \o InvalidateAll \o Ops(s, <<"acquire">>)
      \o All("discard") \o Ops(s, <<"record", "release">>)
      \o All("prepare") \o Ops(s, <<"resume">>)

Saving(s) ==
    Ops(s, <<"suspend">>) \o InvalidateAll \o Ops(s, <<"acquire">>)
      \o All("commit") \o Ops(s, <<"release", "resume">>)

\* performConfigurationMutation: the sessions are told under the lock, and
\* prepare again when the fence is gone
Configuration(s) ==
    Ops(s, <<"suspend", "acquire">>) \o InvalidateAll
      \o Ops(s, <<"release", "resume">>) \o All("prepare")

Maintain(s) ==
    /\ Room
    /\ \E calls \in {Reinitialization(s), Clearing(s), Saving(s), Configuration(s)} :
        Request("maintain", s, phase[s], calls)

Ask(s) ==
    \/ InsertText(s) \/ Delete(s) \/ MoveCursor(s) \/ TransformText(s)
    \/ StartConversion(s) \/ Reconvert(s)
    \/ Navigate(s) \/ ResizeSegment(s) \/ TransformSegment(s) \/ ForgetCandidate(s)
    \/ CommitAll(s) \/ CommitSelected(s) \/ Cancel(s) \/ ResolvePending(s)
    \/ FocusOut(s) \/ ContextChanged(s) \/ SecureInputChanged(s) \/ ServerRestarted(s)
    \/ CloseSession(s) \/ Open(s) \/ Maintain(s)

Next ==
    /\ Work \/ \E s \in Sessions : CallStep(s) \/ Deinit(s) \/ Ask(s)
    /\ UNCHANGED asks

Start == Init /\ asks \in Scenarios

Spec == Start /\ [][Next]_<<vars, asks>>

\* The worker and the request thread go on and the last reference is dropped;
\* nobody need ask for anything
Fairness ==
    /\ WF_vars(Work)
    /\ \A s \in Sessions : WF_vars(CallStep(s)) /\ WF_vars(Deinit(s))

LiveSpec == Spec /\ Fairness

------------------------------------------------------------------------------
(* Properties                                                              *)

TypeOK ==
    /\ speculation \in [Sessions ->
            [kind : {"idle", "pending", "ready", "frozen"}, work : Nat,
             context : [revision : Nat, learning : Nat],
             step : {"none", "plain", "learnable"}]]
    /\ candidateFence \in [Sessions -> Nat]
    /\ published \in [Sessions -> BOOLEAN] /\ deferred \in [Sessions -> BOOLEAN]
    /\ staged \in [Sessions -> BOOLEAN] /\ dirty \in [Sessions -> BOOLEAN]
    /\ holds \in [Sessions -> BOOLEAN] /\ pending \in [Sessions -> BOOLEAN]
    /\ phase \in [Sessions -> {"idle", "composing", "inside", "converted"}]
    /\ revision \in [Sessions -> Nat] /\ learning \in Nat
    /\ window \in [Sessions -> {"none", "mozc", "learnable"}]
    /\ secure \in [Sessions -> BOOLEAN] /\ field \in [Sessions -> BOOLEAN]
    /\ status \in [Sessions -> {"gone", "live", "dropped"}]
    /\ fences \subseteq Nat \ {NoFence}
    /\ lock \in {"free", "main", "worker"}
    /\ queue \in Seq([session : Sessions, work : Nat])
    /\ job \in [session : Sessions \cup {NoSession}, work : Nat]
    /\ context \in [revision : Nat, learning : Nat]
    /\ result \in {"none", "failed", "plain", "learnable", "stale"}
    /\ workerFence \in Nat /\ scoped \in Seq(Nat)

\* Every fence in the gate is owned by exactly one holder that will release it:
\* a converter, the worker, or an enclosing maintenance or purge.  A fence
\* without an owner would end speculation in the whole process; a token
\* released by two would free another's
\* (MozcFirstHybridKanaKanjiConverter.swift:67, :774, :1055).
FencesOwned ==
    /\ fences = ({candidateFence[s] : s \in Sessions} \cup {workerFence} \cup ToSet(scoped))
                    \ {NoFence}
    /\ \A s, t \in Sessions :
        s # t /\ candidateFence[s] = candidateFence[t] => candidateFence[s] = NoFence
    /\ \A s \in Sessions : candidateFence[s] # NoFence =>
        candidateFence[s] \notin {workerFence} \cup ToSet(scoped)
    /\ workerFence \notin ToSet(scoped)
    /\ IsInjective(scoped)

\* Well-typed state in which no fence is lost or shared
HybridInv == TypeOK /\ FencesOwned

\* Learnable candidates of Hazkey that stay on the screen after a request, and
\* learning that is staged, are covered by the fence, so that no conversion of
\* another session displaces what they refer to; and a learnable result never
\* outlives its fence (MozcFirstHybridKanaKanjiConverter.swift:1056).
LearnableFenced ==
    /\ \A s \in Live :
        /\ todo = <<>> /\ window[s] = "learnable" => candidateFence[s] # NoFence
        /\ staged[s] => candidateFence[s] # NoFence
    /\ \A s \in Sessions :
        speculation[s].step = "learnable" => candidateFence[s] # NoFence

\* The next call of a request runs Hazkey
RunsHazkey(s) ==
    \/ Calls("learn", s) \/ Calls("forget", s)
    \/ (Calls("commit", s) \/ Calls("discard", s)) /\ pending[s] /\ staged[s]
    \/ Calls("commitLearning", s) /\ dirty[s]

\* A key press that learns, settles staged learning or forgets runs Hazkey
\* itself, and never waits for a conversion to do so: what it refers to was
\* fenced before, so the worker is not converting.  Maintenance, a purge, a
\* session that opens and a composition that starts under a new Grimodex
\* revision take no such fence and may wait for a whole conversion
\* (MozcFirstHybridKanaKanjiConverter.swift:250, :1055).
LearningNeverWaits ==
    \A s \in Sessions :
        scoped = <<>> /\ RunsHazkey(s) => at \notin {"converting", "fencing"}

\* In a secure field nothing of Hazkey is left: no result, no fence, no
\* learning, nothing in the adapter and nothing the worker still carries,
\* although it was converting when the field was entered
\* (MozcFirstHybridKanaKanjiConverter.swift:679).
SecureHoldsNothing ==
    \A s \in Live : secure[s] =>
        /\ speculation[s].kind \in {"idle", "frozen"} /\ speculation[s].step = "none"
        /\ candidateFence[s] = NoFence
        /\ ~staged[s] /\ ~pending[s] /\ ~dirty[s] /\ ~holds[s]
        /\ job.session = s => at \notin {"converting", "fencing"}

\* Once the order of the candidates is locked for a composition, nothing but a
\* change of that composition or a purge replaces it: a conversion that ends
\* late, a new preparation and a second lock leave it alone or drop the step
\* of Hazkey together with its fence
\* (MozcFirstHybridKanaKanjiConverter.swift:251, :445, :507, :767).
OrderLocked ==
    [][\A s \in Live :
        /\ speculation[s].kind = "frozen"
        /\ \A op \in {"invalidate", "invalidateForCommit", "external", "purgeState"} : ~Calls(op, s)
        => speculation'[s] \in {speculation[s], Discarded(speculation[s])}]_vars

\* Every request is completed: the request thread and the worker never wait
\* for each other at the lock, at the fences or at the end of a purge
\* (MozcFirstHybridKanaKanjiConverter.swift:45, :694).
RequestsReturn == todo # <<>> ~> todo = <<>>

\* When no more requests come, every submitted job is worked off unless a
\* session still holds the fence for candidates or learning of its own: no
\* other fence stays in the gate.  While requests come, each of them may keep
\* the worker out (MozcFirstHybridKanaKanjiConverter.swift:91, :331).
JobsWorkedOff ==
    <>[](todo = <<>>) =>
        []<>(\/ queue = <<>> /\ at = "free"
             \/ \E s \in Live : candidateFence[s] # NoFence)
=============================================================================
