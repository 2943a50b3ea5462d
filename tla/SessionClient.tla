---------------------------- MODULE SessionClient ----------------------------
(***************************************************************************)
(* HazkeySessionClient: how the addon turns one semantic action into       *)
(* requests, keeps it in the recovery journal until its outcome is known,  *)
(* and rebuilds a lost server session.                                     *)
(*                                                                         *)
(* Every operator returns the set of outcomes of the C++ function it is    *)
(* named after, for the world it is called in (see SessionTransport).  The *)
(* client session s has context ctx, session id (0: none) and revision,    *)
(* effect namespace ns with the ledger's high-water mark highest, the      *)
(* journal, replayedEffects_, the recovery checkpoint, the visible         *)
(* fallback text fb with presentationFallbackUnsafe_, and the journal's    *)
(* last snapshot (meaningful if known).                                    *)
(***************************************************************************)
EXTENDS SessionTransport, RecoveryJournal, EffectNamespace

CONSTANT Suggestions    \* does the composing phase show candidates?

ASSUME SuggestionsAssumption == Suggestions \in BOOLEAN

NewClientSession(ctx) ==
    [ctx |-> ctx, id |-> 0, rev |-> 0, ns |-> ClearedNamespace, highest |-> 0,
     journal |-> <<>>, replayed |-> <<>>, ckpt |-> NoCheckpoint, fb |-> <<>>,
     unsafe |-> FALSE, snap |-> NoSnapshot, known |-> FALSE]

\* Mutant: the boundary only unbinds the session
WithoutRecoveryState_KeepsAll(s) == s

\* All that survives an abandonment boundary is the context and, if the
\* server namespace outlives it, its binding.
WithoutRecoveryState(s) ==
    [NewClientSession(s.ctx) EXCEPT !.id = s.id, !.rev = s.rev]

CanUseStoredTextFallback(s) == s.fb # <<>> /\ ~s.unsafe
HasDeferredWork(s) == s.journal # <<>> \/ s.replayed # <<>>

IsStale(r) == r.st = "stale"
IsSuccessful(r) == r.st = "success"
IsUncertain(r) == r.st \in {"none", "gone"}
HasSnapshot(r) == r.st \in {"success", "stale", "rejected", "handoff"}

ContextChanged(old, new) == old # new
\* Mutant: only another program is a boundary
ClearsPreedit_ProgramOnly(old, new) == old.program # new.program

ClearsPreedit(old, new) ==
    old.secure # new.secure \/ old.program # new.program

------------------------------------------------------------------------------
(* Receiving a response                                                    *)

\* normalizeEffectIDs: the namespace after each of the effects, and the effects
\* under their global IDs
NormalizeEffectIDs(s, r) ==
    LET fx == r.snap.fx
        ns[n \in 0 .. Len(fx)] ==
            IF n = 0 THEN s.ns ELSE Observe(ns[n - 1], fx[n].id)
    IN  [s |-> [s EXCEPT !.ns = ns[Len(fx)]],
         fx |-> [n \in 1 .. Len(fx) |->
                    [fx[n] EXCEPT !.id = GlobalID(ns[n - 1], fx[n].id)]]]

\* Mutant: the snapshot of a secure field is stored like any other
UpdateSnapshot_StoresSecure(s, r) ==
    IF ~IsSuccessful(r) THEN s
    ELSE [s EXCEPT !.rev = r.snap.rev, !.fb = r.snap.comp, !.snap = r.snap,
                   !.known = TRUE]

\* updateSnapshot: a failure only advances the revision
UpdateSnapshot(s, r) ==
    LET n == r.snap
    IN  IF ~HasSnapshot(r) THEN s
        ELSE IF ~IsSuccessful(r) THEN [s EXCEPT !.rev = n.rev]
        ELSE IF s.ctx.secure
             THEN [s EXCEPT !.rev = n.rev, !.ckpt = NoCheckpoint, !.fb = <<>>,
                            !.snap = NoSnapshot, !.known = FALSE,
                            !.unsafe = n.phase # "composing" \/ Suggestions]
             ELSE [s EXCEPT !.rev = n.rev, !.fb = n.comp,
                            !.ckpt = IF n.ck = NoCheckpoint THEN @ ELSE n.ck,
                            !.snap = [n EXCEPT !.fx = <<>>], !.known = TRUE,
                            !.unsafe = n.phase # "composing" \/ Suggestions]

\* The end of executeV2: effects of a failure are stripped before their IDs
\* are mapped
Trusted(r) == IF IsSuccessful(r) THEN r ELSE [r EXCEPT !.snap.fx = <<>>]

Stored(w, n, r) ==
    LET out == [r EXCEPT !.snap.fx = n.fx]
    IN  [w |-> [w EXCEPT !.s = UpdateSnapshot(n.s, out)], r |-> out]

Received(w, r) == Stored(w, NormalizeEffectIDs(w.s, Trusted(r)), Trusted(r))

CollectResponseEffects(w, r) == [w EXCEPT !.s.replayed = @ \o r.snap.fx]

AttachReplayedEffects(w, r) ==
    IF ~HasSnapshot(r) THEN [w |-> w, r |-> r]
    ELSE [w |-> [w EXCEPT !.s.replayed = <<>>],
          r |-> [r EXCEPT !.snap.fx = w.s.replayed \o @]]

\* makeFlushResponse and makeEffectHandoffResponse: the last confirmed
\* snapshot with the buffered effects, under status st
HandoffResponse(w, st) ==
    IF ~w.s.known THEN [w |-> w, r |-> NoResponse]
    ELSE AttachReplayedEffects(w, Response(st, w.s.snap))

HandoffIfBuffered(w) ==
    IF w.s.replayed = <<>> THEN [w |-> w, r |-> NoResponse]
    ELSE HandoffResponse(w, "handoff")

------------------------------------------------------------------------------
(* Sessions                                                                *)

\* A request whose response got lost is repeated once, unless it is a
\* lifecycle frame; the server's request cache makes that safe.
Attempt(w, m, lifecycle, tryConnect) ==
    OnceMore(LAMBDA p : Transact(p.w, m, lifecycle, tryConnect),
             LAMBDA o : o.r.st = "none" /\ ~lifecycle,
             LAMBDA o : o, [w |-> w])

Send(w, a, lifecycle, tryConnect) ==
    Attempt(w, ImeAction(w.s.id, a), lifecycle, tryConnect)

Open(w, tryConnect) ==
    {IF o.r.st = "success"
     THEN [w |-> [o.w EXCEPT !.s.id = o.r.sid, !.s.rev = 0], ok |-> TRUE]
     ELSE [w |-> o.w, ok |-> FALSE] :
        o \in Transact(w, OpenSession(w.s.ctx), FALSE, tryConnect)}

Unbound(w) == [w EXCEPT !.s.id = 0, !.s.rev = 0]

\* close(): refused while anything is deferred.  A lost response leaves no
\* local binding either.
Close(w) ==
    IF w.s.id = 0 \/ HasDeferredWork(w.s)
    THEN {[w |-> w, ok |-> ~HasDeferredWork(w.s)]}
    ELSE {[w |-> Unbound(o.w), ok |-> o.r.st # "none"] :
            o \in Transact(w, CloseSession(w.s.id), TRUE, FALSE)}

\* Mutant: no frame is handed off
Dispose_Nothing(w, commit) == {w}

\* A lifecycle frame; nobody looks at its response
HandOff(w, m) == {o.w : o \in Transact(w, m, TRUE, FALSE)}

\* Hand off the disposition of staged learning and then the close
Dispose(w, commit) ==
    LET resolve == [rid |-> FreshRid(w), act |-> ResolvePendingLearning(commit),
                    exp |-> w.s.rev]
    IN  IF w.s.id = 0 THEN {w}
        ELSE UNION {HandOff(v, CloseSession(w.s.id)) :
                    v \in IF w.s.ctx.secure THEN {w}
                          ELSE HandOff(w, ImeAction(w.s.id, resolve))}

\* discardServerNamespacePreservingRecovery
DiscardServerNamespace(w) == {Unbound(v) : v \in Dispose(w, FALSE)}

ResolutionsIn(j) == {i \in DOMAIN j : j[i].act.op = "resolve"}

\* Mutant: the journal survives the abandonment
FinalizeWithoutUITarget_KeepsJournal(w, preferredCommit) ==
    {[Unbound(v) EXCEPT !.s.ckpt = NoCheckpoint, !.s.fb = <<>>] :
        v \in Dispose(w, preferredCommit)}

\* finalizeWithoutUITarget: a decision already in the journal comes first
FinalizeWithoutUITarget(w, preferredCommit) ==
    LET decided == ResolutionsIn(w.s.journal)
        commit == IF decided = {} THEN preferredCommit
                  ELSE w.s.journal[Min(decided)].act.commit
    IN  {[v EXCEPT !.s = WithoutRecoveryState(Unbound(v).s)] :
            v \in Dispose(w, commit)}

\* act, a restore or the insertion of the text fallback, was accepted
Restored(w, act, r) ==
    LET v == IF act.op = "restore" THEN w
             ELSE [w EXCEPT !.s.ns = BeginFresh(@), !.s.unsafe = FALSE]
        o == Received(v, r)
    IN  [w |-> CollectResponseEffects(o.w, o.r), res |-> "recovered"]

RecoverOnce(w, act) ==
    {CASE IsSuccessful(o.r) -> Restored(o.w, act, o.r)
       [] IsUncertain(o.r)  -> [w |-> o.w, res |-> "uncertain"]
       [] OTHER             -> [w |-> o.w, res |-> "rejected"] :
        o \in Send(w, [rid |-> FreshRid(w), act |-> act, exp |-> 0], FALSE, TRUE)}

\* A checkpoint that is rejected gives way to the visible text
RecoverWith(w, act) ==
    OnceMore(LAMBDA p : RecoverOnce(p.w, p.act),
             LAMBDA o : /\ o.res = "rejected" /\ act.op = "restore"
                        /\ CanUseStoredTextFallback(o.w.s),
             LAMBDA o : [w |-> o.w, act |-> InsertText(o.w.s.fb)],
             [w |-> w, act |-> act])

\* Restore the checkpoint or else the visible text in the session just
\* opened; shared by executeV2 and updateContext.  res is "recovered",
\* "uncertain", "rejected" or "nothing" (there was nothing to recover).
Recover(w) ==
    IF w.s.ckpt # NoCheckpoint \/ CanUseStoredTextFallback(w.s)
    THEN RecoverWith(w, IF w.s.ckpt # NoCheckpoint THEN RestoreCheckpoint(w.s.ckpt)
                        ELSE InsertText(w.s.fb))
    ELSE {[w |-> w, res |-> IF w.s.fb = <<>> THEN "nothing" ELSE "rejected"]}

\* Mutant: the preedit is not cleared
DiscardLocalComposition_KeepsText(w) ==
    [w EXCEPT !.ui.phase = "idle", !.ui.learn = FALSE]

\* The owner's recovery handler: HazkeyState::discardLocalComposition
DiscardLocalComposition(w) ==
    [w EXCEPT !.ui.phase = "idle", !.ui.comp = <<>>, !.ui.learn = FALSE,
              !.h.dropped = @ \cup ToSet(w.ui.comp)]

\* The server rejected every form of recovery
GiveUp(w) ==
    {DiscardLocalComposition(v) : v \in FinalizeWithoutUITarget(w, FALSE)}

\* updateContext in the session it opened
RestoreComposition(w) ==
    UNION {CASE o.res = "recovered" -> {[w |-> o.w, ok |-> TRUE]}
             [] o.res = "nothing" ->
                    {[w |-> [o.w EXCEPT !.s.ns = BeginFresh(@)], ok |-> TRUE]}
             [] o.res = "uncertain" ->
                    {[w |-> v, ok |-> FALSE] : v \in DiscardServerNamespace(o.w)}
             [] o.res = "rejected" ->
                    {[w |-> v, ok |-> FALSE] : v \in GiveUp(o.w)} :
           o \in Recover(w)}

UpdateContext(w, ctx) ==
    LET changed == ContextChanged(w.s.ctx, ctx)
        clears == ClearsPreedit(w.s.ctx, ctx)
        entered(v) ==
            IF ~changed THEN v
            ELSE [v EXCEPT !.s = [(IF clears THEN WithoutRecoveryState(@) ELSE @)
                                    EXCEPT !.ctx = ctx]]
    IN  IF ~changed /\ w.s.id # 0 THEN {[w |-> w, ok |-> TRUE]}
        ELSE UNION {IF ~c.ok THEN {c}
                    ELSE UNION {IF ~o.ok \/ ctx.secure \/ clears THEN {o}
                                ELSE RestoreComposition(o.w) :
                                o \in Open(entered(c.w), TRUE)} :
                    c \in IF changed THEN Close(w) ELSE {[w |-> w, ok |-> TRUE]}}

------------------------------------------------------------------------------
(* Sending an action a = [rid, act, exp].  The a of an outcome is the      *)
(* action as it was last sent.                                             *)

Finished(o, a) ==
    IF IsUncertain(o.r) THEN {[w |-> o.w, r |-> NoResponse, a |-> a]}
    ELSE {[w |-> n.w, r |-> n.r, a |-> a] : n \in {Received(o.w, o.r)}}

\* The client stays bound to the session that is gone, so that the next
\* request recovers again
StillBound(w, old, a) ==
    [w |-> [w EXCEPT !.s.id = old.id, !.s.rev = old.rev], r |-> NoResponse,
     a |-> a]

\* The first attempt met no session; o is what became of its recovery
ResendAfter(o, old, a, tryConnect) ==
    LET v == IF o.res = "recovered" THEN o.w
             ELSE DiscardLocalComposition([o.w EXCEPT !.s.ns = BeginFresh(@)])
        b == [a EXCEPT !.exp = v.s.rev]
    IN  CASE o.res = "uncertain" ->
                {StillBound(u, old, a) : u \in DiscardServerNamespace(o.w)}
          [] o.res = "rejected" ->
                {[w |-> u, r |-> NoResponse, a |-> a] : u \in GiveUp(o.w)}
          [] OTHER -> UNION {Finished(p, b) : p \in Send(v, b, FALSE, tryConnect)}

ExecuteV2(w, a, tryConnect, allowSessionRecovery, lifecycle) ==
    UNION {IF o.r.st # "gone" \/ ~allowSessionRecovery THEN Finished(o, a)
           ELSE UNION {IF ~p.ok THEN {StillBound(p.w, w.s, a)}
                       ELSE UNION {ResendAfter(q, w.s, a, tryConnect) :
                                   q \in Recover(p.w)} :
                       p \in Open([o.w EXCEPT !.s.id = 0], tryConnect)} :
           o \in Send(w, a, lifecycle, tryConnect)}

\* Every entry point opens a session if there is none; nothing is restored
\* into it.
EnsureOpen(w, tryConnect) ==
    IF w.s.id # 0 THEN {[w |-> w, ok |-> TRUE]} ELSE Open(w, tryConnect)

JournalEntry(s, a) ==
    [rid |-> a.rid, act |-> a.act, exp |-> a.exp, sid |-> s.id, sent |-> FALSE]

\* One attempt of executeJournaledV2.  A stale entry gets a new request ID: a is
\* the action under which it stands in the journal then
AttemptJournaled(w, a, tryConnect, collect, lifecycle) ==
    LET bound == w.s.id
        marked == [w EXCEPT !.s.journal = MarkSent(@, a.rid)]
        rebound(o) ==
            IF o.w.s.id \in {0, bound} THEN o.w
            ELSE [o.w EXCEPT !.s.journal =
                    Rebase(@, a.rid, TRUE, o.a.exp, o.w.s.id)]
        renewal(v) == [rid |-> FreshRid(v), act |-> a.act, exp |-> v.s.rev]
        renewed(v) == [v EXCEPT !.s.journal =
                            Replace(@, a.rid, JournalEntry(v.s, renewal(v)))]
        acknowledged(v) == [v EXCEPT !.s.journal = Acknowledge(@, a.rid)]
        collected(v, r) == IF collect THEN CollectResponseEffects(v, r) ELSE v
        settled(v, r) ==
            IF IsSuccessful(r)
            THEN [w |-> acknowledged(collected(v, r)), r |-> r, a |-> a]
            ELSE IF IsUncertain(r) THEN [w |-> v, r |-> r, a |-> a]
            ELSE IF IsStale(r) \/ a.act.op = "resolve"
            THEN [w |-> renewed(v), r |-> r, a |-> renewal(v)]
            ELSE [w |-> acknowledged(v), r |-> r, a |-> a]
    IN  IF ~Has(w.s.journal, a.rid) THEN {[w |-> w, r |-> NoResponse, a |-> a]}
        ELSE UNION {IF ~q.ok THEN {[w |-> q.w, r |-> NoResponse, a |-> a]}
                    ELSE {settled(rebound(o), o.r) :
                            o \in ExecuteV2(q.w, a, tryConnect, ~lifecycle, lifecycle)} :
                    q \in EnsureOpen(marked, tryConnect)}

\* executeJournaledV2: a stale entry is sent once more
ExecuteJournaledV2(w, a, tryConnect, collect, lifecycle) ==
    OnceMore(LAMBDA p : AttemptJournaled(p.w, p.a, tryConnect, collect, lifecycle),
             LAMBDA o : IsStale(o.r), LAMBDA o : o, [w |-> w, a |-> a])

\* One entry of the loop of replayPendingV2: term is the last rejection, conf
\* whether a success followed one, ok that the loop goes on
ReplayEntry(t, e, tryConnect, lifecycle) ==
    LET w == t.w
        bound == e.sent /\ e.sid = w.s.id
        a == [rid |-> e.rid, act |-> e.act,
              exp |-> IF bound THEN e.exp ELSE w.s.rev]
        entry == JournalEntry(w.s, a)
        movable == \/ bound
                   \/ IF e.sent THEN CanReplace(w.s.journal, e.rid, entry)
                      ELSE CanRebase(w.s.journal, e.rid, FALSE)
        moved == IF bound THEN w
                 ELSE [w EXCEPT !.s.journal = Replace(@, e.rid, entry)]
        next(o) ==
            IF IsSuccessful(o.r)
            THEN [t EXCEPT !.w = o.w, !.conf = @ \/ t.term # NoResponse]
            ELSE IF e.act.op = "resolve" \/ IsUncertain(o.r) \/ IsStale(o.r)
            THEN [t EXCEPT !.w = o.w, !.ok = FALSE]
            ELSE [t EXCEPT !.w = o.w, !.term = o.r]
    IN  IF ~t.ok THEN {t}
        ELSE IF ~movable THEN {[t EXCEPT !.ok = FALSE]}
        ELSE {next(o) : o \in ExecuteJournaledV2(moved, a, tryConnect, TRUE, lifecycle)}

ReplayPendingV2(w, tryConnect, lifecycle) ==
    AfterTurns(LAMBDA n, ts : UNION {ReplayEntry(t, w.s.journal[n], tryConnect, lifecycle) :
                                     t \in ts},
               {[w |-> w, ok |-> TRUE, term |-> NoResponse, conf |-> FALSE]},
               Len(w.s.journal))

ExecuteSecure(w, act) ==
    ExecuteV2(w, [rid |-> FreshRid(w), act |-> act, exp |-> w.s.rev], TRUE, TRUE, FALSE)

\* A secure action is never journaled; a stale one is sent once more
TransactSecure(w, act) ==
    LET cleared == [w EXCEPT !.s.journal = <<>>, !.s.known = FALSE, !.s.snap = NoSnapshot]
    IN  OnceMore(LAMBDA p : ExecuteSecure(p.w, act),
                 LAMBDA o : IsStale(o.r), LAMBDA o : o, [w |-> cleared])

\* record() and the first attempt
Journaled(w, act) ==
    LET a == [rid |-> FreshRid(w), act |-> act, exp |-> w.s.rev]
        e == JournalEntry(w.s, a)
    IN  IF ~CanRecord(w.s.journal, e) THEN {[w |-> w, r |-> NoResponse]}
        ELSE ExecuteJournaledV2([w EXCEPT !.s.journal = Record(@, e)],
                                a, TRUE, FALSE, FALSE)

TransactV2(w, act) ==
    UNION {CASE ~o.ok -> {[w |-> o.w, r |-> NoResponse]}
             [] o.ok /\ w.s.ctx.secure -> TransactSecure(o.w, act)
             [] OTHER ->
                UNION {IF ~t.ok THEN {HandoffIfBuffered(t.w)}
                       ELSE {IF IsUncertain(p.r) THEN HandoffIfBuffered(p.w)
                             ELSE AttachReplayedEffects(p.w, p.r) :
                             p \in Journaled(t.w, act)} :
                       t \in ReplayPendingV2(o.w, TRUE, FALSE)} :
           o \in EnsureOpen(w, TRUE)}

\* Mutant: the decision waits in the journal for the next key
TransactV2Durable_JournalOnly(w, commit) ==
    LET a == [rid |-> FreshRid(w), act |-> ResolvePendingLearning(commit),
              exp |-> w.s.rev]
    IN  {[w |-> [w EXCEPT !.s.journal = Record(@, JournalEntry(w.s, a))],
          r |-> NoResponse]}

\* transactV2DurableBestEffort of a resolution: the first one stays
\* authoritative; it is sent at once only if the server is known to hold
\* staged learning and nothing is queued before it.
TransactV2Durable(w, commit) ==
    LET a == [rid |-> FreshRid(w), act |-> ResolvePendingLearning(commit),
              exp |-> w.s.rev]
        e == JournalEntry(w.s, a)
        recorded == [w EXCEPT !.s.journal = Record(@, e)]
    IN  IF \/ w.s.ctx.secure
           \/ ResolutionsIn(w.s.journal) # {}
           \/ ~CanRecord(w.s.journal, e)
        THEN {[w |-> w, r |-> NoResponse]}
        ELSE IF w.s.known /\ w.s.snap.learn /\ w.s.journal = <<>>
        THEN ExecuteJournaledV2(recorded, a, FALSE, FALSE, TRUE)
        ELSE {[w |-> recorded, r |-> NoResponse]}

\* flushPendingV2: [w, done, r]
FlushPendingV2(w, tryConnect) ==
    LET result(done, o) == {[w |-> o.w, done |-> done, r |-> o.r]}
        none(v) == [w |-> v, r |-> NoResponse]
        failure(t) ==
            IF t.w.s.known /\ t.conf THEN HandoffResponse(t.w, "handoff")
            ELSE AttachReplayedEffects(t.w, t.term)
        replayed(t) ==
            CASE t.term # NoResponse ->
                    result(t.w.s.journal = <<>>, failure(t))
              [] t.term = NoResponse /\ ~t.ok ->
                    result(FALSE, HandoffIfBuffered(t.w))
              [] OTHER ->
                    LET o == HandoffResponse(t.w, "success")
                    IN  result(o.r # NoResponse, o)
    IN  IF w.s.ctx.secure
        THEN result(TRUE, none([w EXCEPT !.s = [WithoutRecoveryState(@)
                                    EXCEPT !.ckpt = w.s.ckpt, !.fb = w.s.fb,
                                           !.unsafe = w.s.unsafe]]))
        ELSE IF ~HasDeferredWork(w.s) THEN result(TRUE, none(w))
        ELSE IF w.s.id = 0 /\ ~tryConnect /\ w.s.journal # <<>>
        THEN result(FALSE, none(w))
        ELSE UNION {replayed(t) : t \in ReplayPendingV2(w, tryConnect, ~tryConnect)}
==============================================================================
