----------------------------- MODULE AddonState -----------------------------
(***************************************************************************)
(* HazkeyState: the Fcitx addon's handlers for one input context, on top   *)
(* of the session client, the connector and the server session.            *)
(*                                                                         *)
(* Each handler of the addon is one action: Fcitx runs it to its end on    *)
(* one thread.  Between two handlers the server acts on its own.  A key    *)
(* that types text carries the next number of 1, 2, 3, ..., so that the    *)
(* text of the application is a sequence of numbers.                       *)
(*                                                                         *)
(* ui is what HazkeyState and the input context know: phase, composition   *)
(* and pending_learning of snapshot_, protocolAvailable_ (avail), whether  *)
(* the input method is active in the input context, and the context the    *)
(* input context reports.  h is history: app is all text the application   *)
(* was ever given, shown the keystrokes ever displayed as preedit, deleted *)
(* those the user deleted, dropped those a handler discarded on purpose,   *)
(* taught those whose learning the server committed, undone those whose    *)
(* learning the user took back, dom the context each was typed in, orphans *)
(* the server sessions that were replaced while alive.                     *)
(*                                                                         *)
(* Left out: the debounce timer of live conversion, reconversion and       *)
(* Unicode input, and rendering.                                           *)
(***************************************************************************)
EXTENDS SessionClient

CONSTANTS
    Contexts,       \* the contexts [program, frontend, secure] that occur
    Keys,           \* the keys that are pressed, see MapHazkeyKey
    Events,         \* the other handlers that run
    MaxKeys,        \* how many keys may type text
    MaxEvents       \* how many handlers run in all

AllKeys == {"letter", "space", "return", "backspace", "escape", "down"}
AllEvents == {"click", "reset", "focus", "capability", "destroy"}

ASSUME AddonAssumption ==
    /\ Keys \subseteq AllKeys /\ Events \subseteq AllEvents
    /\ MaxKeys \in Nat /\ MaxEvents \in Nat
    /\ \A c \in Contexts :
          DOMAIN c = {"program", "frontend", "secure"} /\ c.secure \in BOOLEAN

VARIABLES s, ui, srv, net, h
vars == <<s, ui, srv, net, h>>

World == [s |-> s, ui |-> ui, srv |-> srv, net |-> net, h |-> h]

\* The context of a HazkeyState before the input context is complete
EmptyContext == [program |-> "", frontend |-> "", secure |-> FALSE]

Init ==
    /\ s = NewClientSession(EmptyContext)
    /\ ui \in [phase : {"idle"}, comp : {<<>>}, learn : {FALSE}, avail : {FALSE},
               active : {FALSE}, ctx : Contexts]
    /\ srv = NoSession
    /\ net = [up |-> FALSE, queue |-> <<>>, proc |-> 1]
    /\ h = [faults |-> 0, events |-> 0, ev |-> "none", typed |-> 0, dom |-> <<>>,
            app |-> <<>>, shown |-> {}, deleted |-> {}, dropped |-> {},
            taught |-> {}, undone |-> {}, orphans |-> {}]

------------------------------------------------------------------------------
(* What the handlers share                                                 *)

\* commitString
CommitString(w, text) == [w EXCEPT !.h.app = @ \o text]

\* The ledger and the application after the effects not applied yet
Applied(highest, app, fx) ==
    LET after[n \in 0 .. Len(fx)] ==
            IF n = 0 THEN [highest |-> highest, app |-> app]
            ELSE IF Claims(after[n - 1].highest, fx[n].id)
            THEN [highest |-> fx[n].id, app |-> after[n - 1].app \o fx[n].text]
            ELSE after[n - 1]
    IN  after[Len(fx)]

\* applyV2Response: take over the snapshot, apply the effects
ApplyV2Response(o) ==
    LET n == o.r.snap
        applied == Applied(o.w.s.highest, o.w.h.app, n.fx)
    IN  IF ~HasSnapshot(o.r) THEN [w |-> o.w, ok |-> FALSE]
        ELSE [w |-> [o.w EXCEPT !.s.highest = applied.highest, !.h.app = applied.app,
                                !.ui.phase = n.phase, !.ui.comp = n.comp,
                                !.ui.learn = n.learn,
                                !.h.shown = @ \cup ToSet(n.comp)],
              ok |-> IsSuccessful(o.r)]

\* dispatchV2 and selectV2Candidate
DispatchV2(w, act) == {ApplyV2Response(o) : o \in TransactV2(w, act)}

Flushed(a, done, answered, requireSuccess) ==
    [w |-> a.w, ok |-> done /\ (requireSuccess => a.ok \/ ~answered)]

FlushDeferredActions(w, tryConnect, requireSuccess) ==
    {Flushed(ApplyV2Response(o), o.done, o.r # NoResponse, requireSuccess) :
        o \in FlushPendingV2(w, tryConnect)}

PendingLearningResolved(w, commit) ==
    {ApplyV2Response(o).w : o \in TransactV2Durable(w, commit)}

Available(w, b) == [w EXCEPT !.ui.avail = b]

\* Text accepted by the application defaults to commit its learning
AcceptedPendingLearning(w) == w.ui.phase = "idle" /\ w.ui.learn

------------------------------------------------------------------------------
(* capabilityAboutToChange                                                 *)

\* Same context: resume what an earlier failure left behind.  The session is
\* reopened unless it is the deferred work that waits for it.
ResumeContext(w) ==
    IF w.ui.avail THEN {w}
    ELSE UNION {IF ~o.ok THEN {Available(o.w, FALSE)}
                ELSE {Available(f.w, f.ok) :
                        f \in FlushDeferredActions(o.w, TRUE, ~HasDeferredWork(w.s))} :
                o \in IF HasDeferredWork(w.s) THEN {[w |-> w, ok |-> TRUE]}
                      ELSE UpdateContext(w, w.s.ctx)}

\* A secure or program boundary: nothing of the old domain survives
CrossDomain(w, ctx) ==
    UNION {{Available(o.w, o.ok) :
                o \in UpdateContext(DiscardLocalComposition(v), ctx)} :
           v \in FinalizeWithoutUITarget(w, AcceptedPendingLearning(w))}

\* Decide staged learning and flush all deferred work; if the replay staged
\* new learning, once more
SettleOnce(w, retry) ==
    UNION {FlushDeferredActions(v, retry, TRUE) :
           v \in IF w.ui.learn THEN PendingLearningResolved(w, TRUE) ELSE {w}}

Settle(w, retry) ==
    OnceMore(LAMBDA p : SettleOnce(p.w, retry),
             LAMBDA f : f.ok /\ f.w.ui.learn, LAMBDA f : f, [w |-> w])

\* Another frontend: settle all deferred work, then move the composition
ReplaceFrontend(w, ctx) ==
    LET retry == ~w.ui.avail
    IN  UNION {IF ~f.ok THEN {Available(f.w, FALSE)}
               ELSE UNION {IF ~o.ok THEN {Available(o.w, FALSE)}
                           ELSE {Available(g.w, g.ok) :
                                    g \in FlushDeferredActions(o.w, retry, TRUE)} :
                           o \in UpdateContext(f.w, ctx)} :
               f \in Settle(w, retry)}

CapabilityAboutToChange(w, ctx) ==
    CASE ~ContextChanged(w.s.ctx, ctx) -> ResumeContext(w)
      [] ClearsPreedit(w.s.ctx, ctx)   -> CrossDomain(w, ctx)
      [] OTHER                         -> ReplaceFrontend(w, ctx)

------------------------------------------------------------------------------
(* reset, commitPreedit                                                    *)

Reset(w) ==
    {Available(DiscardLocalComposition(v), FALSE) :
        v \in FinalizeWithoutUITarget(w, AcceptedPendingLearning(w))}

\* Commit what is visible without the server, and give the session up.
\* Reconversion and Unicode input aside, local text is always safe.
CommitLocally(w, preferredCommit) ==
    {Available(DiscardLocalComposition(v), FALSE) :
        v \in FinalizeWithoutUITarget(
                [CommitString(w, w.ui.comp) EXCEPT !.ui.comp = <<>>],
                preferredCommit)}

\* The decision about learning, then whatever is deferred
CommitLearned(w, visible) ==
    UNION {FlushDeferredActions(v, FALSE, TRUE) :
           v \in IF visible \/ w.ui.learn THEN PendingLearningResolved(w, TRUE)
                 ELSE {w}}

GiveUpCommit(w) ==
    {Available(DiscardLocalComposition(v), FALSE) :
        v \in FinalizeWithoutUITarget(w, TRUE)}

CommitPreedit(w) ==
    LET visible == w.ui.phase # "idle"
    IN  IF ~w.ui.avail THEN CommitLocally(w, AcceptedPendingLearning(w))
        ELSE UNION {IF ~o.ok \/ (visible /\ o.w.ui.phase # "idle")
                    THEN CommitLocally(o.w, FALSE)
                    ELSE UNION {IF f.ok THEN {f.w} ELSE GiveUpCommit(f.w) :
                                f \in CommitLearned(o.w, visible)} :
                    o \in IF ~visible THEN {[w |-> w, ok |-> TRUE]}
                          ELSE UNION {IF o.ok THEN {o}
                                      ELSE FlushDeferredActions(o.w, FALSE, TRUE) :
                                      o \in DispatchV2(w, Act("commitAll"))}}

------------------------------------------------------------------------------
(* keyEvent                                                                *)

\* The text of a key that types: the next number
Keystroke(w) ==
    [w EXCEPT !.h.typed = @ + 1, !.h.dom = Append(@, w.ui.ctx)]

\* event.filter(): the key goes on to the application, which inserts the
\* text it types
PassToApp(w, key) ==
    IF key \in {"letter", "space"}
    THEN CommitString(Keystroke(w), <<w.h.typed + 1>>) ELSE w

\* mapHazkeyKey, and insertText for any key it does not map that types text
MapHazkeyKey(key, phase) ==
    LET idle == phase = "idle"
    IN  CASE key = "letter" \/ (key = "space" /\ idle)     -> "insertText"
          [] key \notin {"letter", "space"} /\ idle        -> "passThrough"
          [] key = "space" /\ phase = "composing"          -> "convert"
          [] key = "space" /\ ~idle /\ phase # "composing" -> "navigate"
          [] key = "down" /\ ~idle                         -> "navigate"
          [] key = "return" /\ ~idle                       -> "commitAll"
          [] key = "backspace" /\ ~idle                    -> "delete"
          [] key = "escape" /\ ~idle                       -> "cancel"

IsPendingLearningCancellationKey(key) == key \in {"backspace", "escape"}

\* The key typed text while nothing was composed.  If the server did not take
\* it, it falls through to the application and must never be replayed.
InsertedWhileIdle(o, key) ==
    IF o.ok THEN IF key = "space" THEN DispatchV2(o.w, Act("commitAll")) ELSE {o}
    ELSE {[w |-> CommitString(DiscardLocalComposition(v), <<o.w.h.typed>>),
           ok |-> FALSE] : v \in FinalizeWithoutUITarget(o.w, FALSE)}

\* What a key sends to the server: if it starts a composition, the surrounding
\* text first
SendKey(w, act) ==
    LET starts == act.op = "insertText" /\ w.ui.phase = "idle"
    IN  OnceMore(LAMBDA p : DispatchV2(p.w, p.act),
                 LAMBDA o : starts, LAMBDA o : [w |-> o.w, act |-> act],
                 [w |-> w, act |-> IF starts THEN Act("surrounding") ELSE act])

\* The rest of keyEventV2, once the deferred work is done
HandleKey(w, key) ==
    LET action == MapHazkeyKey(key, w.ui.phase)
        pending == AcceptedPendingLearning(w)
        undo == pending /\ IsPendingLearningCancellationKey(key)
        v == IF action = "insertText" THEN Keystroke(w) ELSE w
        act == IF action = "insertText" THEN InsertText(<<v.h.typed>>) ELSE Act(action)
    IN  CASE undo \/ (pending /\ action = "passThrough") ->
                PendingLearningResolved(
                    [w EXCEPT !.h.undone = @ \cup IF undo THEN w.srv.learn ELSE {}],
                    ~undo)
          [] ~pending /\ action = "passThrough" -> {w}
          [] OTHER ->
                {o.w : o \in UNION {IF action = "insertText" /\ w.ui.phase = "idle"
                                    THEN InsertedWhileIdle(p, key) ELSE {p} :
                                    p \in SendKey(v, act)}}

\* Mutant: deferred work is left to the next request
KeyEventV2_Direct(w, key) == HandleKey(w, key)

\* Deferred work comes first: without a new connection, then with one
FlushForKey(w) ==
    OnceMore(LAMBDA p : FlushDeferredActions(p.w, p.tryConnect, FALSE),
             LAMBDA f : ~f.ok, LAMBDA f : [w |-> f.w, tryConnect |-> TRUE],
             [w |-> w, tryConnect |-> FALSE])

KeyEventV2(w, key) ==
    UNION {IF f.ok THEN HandleKey(f.w, key) ELSE {Available(f.w, FALSE)} :
           f \in IF HasDeferredWork(w.s) THEN FlushForKey(w)
                 ELSE {[w |-> w, ok |-> TRUE]}}

\* Without a session a key is swallowed while anything older is unsettled
KeyEvent(w, key) ==
    UNION {IF v.ui.avail THEN KeyEventV2(v, key)
           ELSE IF HasDeferredWork(v.s) \/ v.ui.phase # "idle" \/ v.ui.learn THEN {v}
           ELSE {PassToApp(v, key)} :
           v \in CapabilityAboutToChange(w, w.ui.ctx)}

------------------------------------------------------------------------------
(* The actions                                                             *)

\* The server need not remember requests that will not be repeated.
Become(worlds) ==
    \E w \in worlds :
        LET asked == {w.s.journal[i].rid : i \in DOMAIN w.s.journal}
                        \cup {w.net.queue[i].m.rid : i \in DOMAIN w.net.queue}
        IN  /\ s' = w.s /\ ui' = w.ui /\ net' = w.net /\ h' = w.h
            /\ srv' = Forget(w.srv, asked)

\* The world in which handler ev starts
Started(ev) == [World EXCEPT !.h.events = @ + 1, !.h.ev = ev]
MayStart == h.events < MaxEvents

Key(key) ==
    /\ MayStart
    /\ ui.active /\ (MapHazkeyKey(key, ui.phase) = "insertText" => h.typed < MaxKeys)
    /\ Become(KeyEvent(Started("key"), key))

\* The candidate list exists only while the snapshot has candidates
Click ==
    /\ MayStart
    /\ "click" \in Events /\ ui.active /\ ui.phase \in {"previewing", "selecting"}
    /\ Become({o.w : o \in DispatchV2(Started("click"), Act("select"))})

EngineReset ==
    /\ MayStart
    /\ "reset" \in Events /\ ui.active
    /\ Become(Reset(Started("reset")))

Activate ==
    /\ MayStart
    /\ ~ui.active
    /\ Become(UNION {Reset(v) : v \in
            CapabilityAboutToChange([Started("activate") EXCEPT !.ui.active = TRUE],
                                    ui.ctx)})

Deactivate ==
    /\ MayStart
    /\ "focus" \in Events /\ ui.active
    /\ Become(UNION {Reset(v) : v \in
            CommitPreedit([Started("deactivate") EXCEPT !.ui.active = FALSE])})

\* The watcher only tells the addon while it is the active input method
CapabilityEvent(ctx) ==
    /\ MayStart
    /\ "capability" \in Events /\ ctx # ui.ctx
    /\ Become({[v EXCEPT !.ui.ctx = ctx] : v \in
            IF ui.active THEN CapabilityAboutToChange(Started("capability"), ctx)
            ELSE {Started("capability")}})

\* ~HazkeyState, and the next input context
Destroy ==
    /\ MayStart
    /\ "destroy" \in Events
    /\ Become({[DiscardLocalComposition(v) EXCEPT
                !.s = NewClientSession(EmptyContext),
                !.ui.avail = FALSE, !.ui.active = FALSE] :
                v \in FinalizeWithoutUITarget(Started("destroy"),
                                              AcceptedPendingLearning(World))})

ServerAlone == Become(ServerEvent(World))

Next ==
    \/ \E key \in Keys : Key(key)
    \/ Click
    \/ EngineReset
    \/ Activate
    \/ Deactivate
    \/ \E ctx \in Contexts : CapabilityEvent(ctx)
    \/ Destroy
    \/ ServerAlone

Spec == Init /\ [][Next]_vars

------------------------------------------------------------------------------
(* Properties                                                              *)

\* Every record has the fields and values its handlers rely on: text was
\* typed, an empty composition is an idle one, and the numbers for effect IDs
\* have their width.  raw is a number of the server, copied as it comes
TypeOK ==
    LET phases == {"idle", "composing", "previewing", "selecting"}
        tokens == 1 .. h.typed
    IN  /\ h.typed \in 0 .. MaxEvents /\ Len(h.dom) = h.typed
        /\ h.faults \in 0 .. MaxFaults /\ h.events \in 0 .. MaxEvents
        /\ ToSet(h.app) \cup h.taught \cup h.undone \cup h.deleted
                \cup h.dropped \cup h.shown \subseteq tokens
        /\ ui.phase \in phases /\ ToSet(ui.comp) \subseteq tokens
        /\ {ui.learn, ui.avail, ui.active} \subseteq BOOLEAN
        /\ ui.ctx \in Contexts /\ s.ctx \in Contexts \cup {EmptyContext}
        /\ {s.id, s.rev, s.highest, srv.sid, srv.rev, srv.eff, net.proc} \subseteq Nat
        /\ s.ns \in [anchored : BOOLEAN, raw : Nat, global : EffectIDs, next : 1 .. MaxID]
        /\ \A i \in DOMAIN s.journal :
                s.journal[i].rid \in Nat \ {0} /\ s.journal[i].sent \in BOOLEAN
        /\ srv.phase \in phases /\ (srv.comp = <<>> <=> srv.phase = "idle")
        /\ net.up \in BOOLEAN /\ (net.queue # <<>> => net.up)

\* The journal holds at most an action and one decision about learning, far
\* from the limit at which record() refuses input, and its request IDs
\* differ.
JournalShort ==
    /\ Len(s.journal) <= 2
    /\ Cardinality(ResolutionsIn(s.journal)) <= 1
    /\ \A i, j \in DOMAIN s.journal : s.journal[i].rid = s.journal[j].rid => i = j

AddonInv == TypeOK /\ JournalShort

\* The addon delivers typed text as TypedText says: once, in order, without
\* showing or delivering again what left the screen.  The effect ledger, the
\* request cache and the recovery journal exist for this.
Text == INSTANCE TypedText WITH typed <- h.typed, shown <- h.shown,
                                comp <- ui.comp, app <- h.app
TextDelivered == Text!Spec

\* Text that was on the screen does not vanish: it is still there, or the
\* application got it, or the user deleted it, or a handler discarded it on
\* purpose.  In particular a socket failure does not erase the preedit.
ShownAccounted ==
    h.shown \subseteq ToSet(ui.comp) \cup ToSet(h.app) \cup h.deleted
                        \cup h.dropped

\* When nothing is deferred, the session the client is bound to holds what
\* is on the screen: the next key edits the text the user sees.
ShownIsServed ==
    s.id # 0 /\ s.id = srv.sid /\ ~HasDeferredWork(s) /\ net.queue = <<>>
        => ui.comp = srv.comp

\* One key without a fault settles everything deferred before it.  All it
\* may leave in the journal is its own decision about staged learning, and
\* the addon is in service again unless it gave the composition up.
KeySettles ==
    [][h'.ev = "key" /\ h'.events # h.events /\ h'.faults = h.faults
        => /\ s'.replayed = <<>>
           /\ s'.journal # <<>> => /\ Len(s'.journal) = 1
                                   /\ s'.journal[1].act.op = "resolve"
                                   /\ ResolutionsIn(s.journal) = {}
           /\ ui'.avail \/ ui'.phase = "idle"]_vars

\* The addon never opens a second session while its first one lives: a close
\* that timed out reaches the server before the next open.
NoOrphanSession == h.orphans = {}

\* The server learns only from text that the application received
TaughtWasDelivered == h.taught \subseteq ToSet(h.app)

\* Once the user took back what was just committed, no later close, timeout
\* or eviction makes the server learn it
UndoHonoured == [][(h'.taught \ h.taught) \cap h.undone = {}]_vars

\* The keystrokes that the client keeps for later, in any form
Retained(c) ==
    ToSet(c.fb) \cup ToSet(c.ckpt.comp)
        \cup (UNION {ToSet(c.journal[i].act.text) : i \in DOMAIN c.journal})
        \cup (UNION {ToSet(c.replayed[i].text) : i \in DOMAIN c.replayed})

Domain(ctx) == [ctx EXCEPT !.frontend = ""]

\* What is on the screen, kept for recovery or held by the bound session was
\* typed in the program and the kind of field that the session belongs to
DomainIsolation ==
    \A t \in ToSet(ui.comp) \cup Retained(s)
                \cup (IF s.id = srv.sid THEN ToSet(srv.comp) ELSE {}) :
        Domain(h.dom[t]) = Domain(s.ctx)

\* Text is delivered only to the field it was typed in
DeliveredInDomain ==
    [][\A i \in (Len(h.app) + 1) .. Len(h'.app) :
          Domain(h'.dom[h'.app[i]]) = Domain(ui.ctx)]_vars

\* Nothing of a secure field outlives the request that carried it, and the
\* server knows that the session is secure
SecureNotRetained ==
    /\ s.ctx.secure => Retained(s) = {} /\ s.journal = <<>> /\ ~s.known
    /\ s.id # 0 /\ s.id = srv.sid => srv.secure = s.ctx.secure

\* What the design says about reconnection: where the checkpoint cannot be
\* restored the visible reading is rebuilt, so that no input is lost.  For
\* runs without resets, focus changes and context changes, where only a
\* failed recovery discards text.
RecoveryKeepsInput == h.dropped = {}
==============================================================================
