------------------------ MODULE SessionClient_proofs ------------------------
(***************************************************************************)
(* What the operations of the session client do, for the proofs about the  *)
(* addon: each of them leads from a good world to a good world in the same *)
(* context.  A world is good for the keystrokes D if the client, the screen*)
(* and the session it is bound to hold keystrokes of D only, a secure context*)
(* keeps none, and a live session is bound or about to be closed.          *)
(*                                                                         *)
(* The last sections follow the recovery journal: every operation leaves it*)
(* brief, with no two entries alike, because an action is recorded only    *)
(* after what was older is settled, under a request ID no entry bears.     *)
(***************************************************************************)
EXTENDS SessionClient, SessionTransport_proofs

EntryIn(e, D) ==
    /\ DOMAIN e = {"rid", "act", "exp", "sid", "sent"} /\ IsAction(e.act, D)
    /\ e.rid \in Nat \ {0} /\ e.sent \in BOOLEAN

JournalIn(j, D) == IsSeq(j) /\ \A i \in DOMAIN j : EntryIn(j[i], D)

\* The numbers that global effect IDs are computed from
Numbered(ns) ==
    ns \in [anchored : BOOLEAN, raw : Nat, global : EffectIDs, next : 1 .. MaxID]

ClientIn(c, D) ==
    /\ c.fb \in Seq(D) /\ c.ckpt \in Checkpoints(D) /\ c.snap \in Snapshots(D)
    /\ c.replayed \in Seq(Effects(D)) /\ JournalIn(c.journal, D) /\ Numbered(c.ns)
    /\ c.id \in Nat /\ c.rev \in Nat /\ c.highest \in Nat

ForgetsSecrets(c) ==
    c.ctx.secure =>
        /\ c.fb = <<>> /\ c.ckpt = NoCheckpoint /\ ~c.known
        /\ c.replayed = <<>> /\ c.journal = <<>>

IsClient(c) ==
    DOMAIN c = {"ctx", "id", "rev", "ns", "highest", "journal", "replayed",
                "ckpt", "fb", "unsafe", "snap", "known"}

\* The keystrokes typed so far
Typed(w) == 1 .. w.h.typed

\* The screen shows text of D; what was is text of T.
ScreenIn(u, D) ==
    /\ u.comp \in Seq(D) /\ u.phase \in Phases
    /\ u.learn \in BOOLEAN /\ u.avail \in BOOLEAN /\ u.active \in BOOLEAN

PastIn(h, T) ==
    /\ h.app \in Seq(T)
    /\ h.shown \subseteq T /\ h.dropped \subseteq T /\ h.undone \subseteq T

Held(w, D) ==
    /\ Net(w) /\ Linked(w, Typed(w)) /\ D \subseteq Typed(w)
    /\ ClientIn(w.s, D) /\ ForgetsSecrets(w.s)
    /\ ScreenIn(w.ui, D) /\ PastIn(w.h, Typed(w))

Good(w, D) == Held(w, D) /\ Owned(w, w.s.id) /\ Compat(w, w.s.id, D)

\* v comes after b in a handler, in the same context
Within(b, v, D) ==
    /\ v.s.ctx = b.s.ctx /\ v.ui.ctx = b.ui.ctx /\ v.ui.active = b.ui.active
    /\ v.h.typed = b.h.typed /\ v.h.dom = b.h.dom /\ v.h.app = b.h.app
    /\ v.h.events = b.h.events
    /\ \A k : Compat(b, k, D) => Compat(v, k, D)

Along(b, v, D) == Good(v, D) /\ Within(b, v, D)

\* The journal stays as it was, or is emptied
Leaves(b, v) == v.s.journal = b.s.journal \/ v.s.journal = <<>>

\* Nothing happened.
LEMMA AlongSelf ==
    ASSUME NEW w, NEW D, Good(w, D)
    PROVE  Along(w, w, D)
BY DEF Along, Within

\* Two stretches of a handler are one.
LEMMA AlongThen ==
    ASSUME NEW w, NEW v, NEW u, NEW D, Along(w, v, D), Along(v, u, D)
    PROVE  Along(w, u, D)
BY DEF Along, Within

\* What requests leave alone, field by field.
LEMMA OutsideIs ==
    ASSUME NEW w, NEW v, Outside(v) = Outside(w)
    PROVE  /\ v.s = w.s /\ v.ui = w.ui /\ v.h.typed = w.h.typed /\ v.h.dom = w.h.dom
           /\ v.h.app = w.h.app /\ v.h.events = w.h.events /\ v.h.shown = w.h.shown
           /\ v.h.dropped = w.h.dropped /\ v.h.undone = w.h.undone
BY DEF Outside

\* A request leaves the types alone.
LEMMA ReachedHeld ==
    ASSUME NEW w, NEW v, NEW D, Held(w, D), Net(v), Reached(w, v, Typed(w))
    PROVE  Held(v, D) /\ v.s = w.s /\ v.ui = w.ui /\ v.h.events = w.h.events
<1>1. /\ v.s = w.s /\ v.ui = w.ui /\ v.h.typed = w.h.typed
      /\ v.h.app = w.h.app /\ v.h.events = w.h.events /\ v.h.shown = w.h.shown
      /\ v.h.dropped = w.h.dropped /\ v.h.undone = w.h.undone
  BY OutsideIs DEF Reached
<1>2. Typed(v) = Typed(w)
  BY <1>1 DEF Typed
<1>3. QED
  BY <1>1, <1>2 DEF Held, PastIn, Reached

\* An action on text of D is one on typed text.
LEMMA ActionTyped ==
    ASSUME NEW D, NEW T, D \subseteq T, NEW a, IsAction(a, D)
    PROVE  IsAction(a, T) /\ ActionIn(a, D)
<1>1. \A q : q \in Seq(D) => q \in Seq(T)
  OBVIOUS
<1>2. a.ck \in Checkpoints(T) /\ CheckpointIn(a.ck, D)
  BY <1>1 DEF IsAction, Checkpoints, CheckpointIn
<1>3. QED
  BY <1>1, <1>2 DEF IsAction, ActionIn

\* A typed reply with text of D.
LEMMA ReplyTyped ==
    ASSUME NEW D, NEW T, NEW r, ResponseIn(r, D), Reply(r, T)
    PROVE  Reply(r, D)
<1>1. r.snap.ck \in Checkpoints(D)
  BY DEF ResponseIn, SnapshotIn, CheckpointIn, Reply, Snapshots, Checkpoints
<1>2. r.snap \in Snapshots(D)
  BY <1>1 DEF ResponseIn, SnapshotIn, Reply, Snapshots
<1>3. QED
  BY <1>2 DEF Reply

\* No response at all.
LEMMA NoReply ==
    ASSUME NEW D
    PROVE  Reply(NoResponse, D)
BY NoSnapshotTyped, ReplyIs

\* What is calm for the network is within a handler.
LEMMA CalmAlong ==
    ASSUME NEW w, NEW v, NEW D, Good(w, D), Net(v), Calm(w, v, D),
           Reached(w, v, Typed(w))
    PROVE  Along(w, v, D) /\ v.s = w.s /\ v.ui = w.ui
<1>1. Held(v, D) /\ v.s = w.s /\ v.ui = w.ui /\ v.h.events = w.h.events
  BY ReachedHeld DEF Good
<1>3. Owned(v, v.s.id) /\ Compat(v, v.s.id, D)
  BY <1>1 DEF Good, Calm
<1>4. Within(w, v, D)
  BY <1>1 DEF Within, Calm, Aside
<1>5. QED
  BY <1>1, <1>3, <1>4 DEF Along, Good

\* v is w with client session c
Recast(w, v, c, D) ==
    /\ Along(w, v, D) /\ v.s = c /\ v.ui = w.ui /\ v.srv = w.srv
    /\ v.net = w.net /\ v.h = w.h

\* Only the client session changes, and not its context
LEMMA ClientChange ==
    ASSUME NEW w, NEW D, Good(w, D), NEW c, IsClient(c), c.ctx = w.s.ctx,
           ClientIn(c, D), ForgetsSecrets(c), c.id = w.s.id \/ (c.id = 0 /\ Owned(w, 0)),
           NEW v, v = [w EXCEPT !.s = c]
    PROVE  Recast(w, v, c, D)
<1>0. Compat(w, c.id, D)
  BY DEF Good, Compat
<1>1. /\ DOMAIN v = DOMAIN w /\ v.s = c /\ v.ui = w.ui /\ v.srv = w.srv
      /\ v.net = w.net /\ v.h = w.h
  BY DEF Good, Held, Net, Shape
<1>2. Shape(v)
  BY <1>1 DEF Shape, Good, Held, Net, IsClient
<1>3. Net(v)
  BY <1>1, <1>2 DEF Good, Held, Net, Wired
<1>4. Held(v, D)
  <2>1. Linked(v, Typed(v)) /\ Typed(v) = Typed(w)
    BY <1>1, <1>2 DEF Good, Held, Linked, Typed, ClientIn, JournalIn
  <2>2. QED
    BY <1>1, <1>3, <2>1 DEF Good, Held
<1>5. Owned(v, v.s.id)
  BY <1>1 DEF Good, Owned, Closing
<1>6. \A k : Compat(w, k, D) => Compat(v, k, D)
  BY <1>1 DEF Compat
<1>7. Within(w, v, D)
  BY <1>1, <1>6 DEF Within
<1>8. QED
  BY <1>0, <1>1, <1>4, <1>5, <1>6, <1>7 DEF Along, Good, Recast

------------------------------------------------------------------------------
(* Requests of the client session                                         *)

\* Actions without text are of every domain.
LEMMA NoActIn ==
    \A D, b, op : op \in Ops => IsAction(Act(op), D) /\ IsAction(ResolvePendingLearning(b), D)
<1>1. ASSUME NEW D, NEW op, op \in Ops
      PROVE  IsAction(Act(op), D)
  <2>1. Act(op).op = op /\ Act(op).text = <<>> /\ Act(op).ck = NoCheckpoint
    BY DEF Act
  <2>2. <<>> \in Seq(D) /\ NoCheckpoint \in Checkpoints(D)
    BY NoSnapshotTyped
  <2>3. QED
    BY <1>1, <2>1, <2>2 DEF IsAction
<1>2. ASSUME NEW D, NEW b
      PROVE  IsAction(ResolvePendingLearning(b), D)
  <2>1. ResolvePendingLearning(b).op = "resolve" /\ ResolvePendingLearning(b).text = <<>>
        /\ ResolvePendingLearning(b).ck = NoCheckpoint
    BY DEF ResolvePendingLearning, Act
  <2>2. <<>> \in Seq(D) /\ NoCheckpoint \in Checkpoints(D)
    BY NoSnapshotTyped
  <2>3. QED
    BY <2>1, <2>2 DEF IsAction, Ops
<1>3. QED
  BY <1>1, <1>2

\* o is an outcome of a request of w's session
Acted(w, o, D) ==
    /\ Along(w, o.w, D) /\ o.w.s = w.s /\ o.w.ui = w.ui /\ Reply(o.r, D)
    /\ o.r.st = "gone" => w.s.id = 0 \/ o.w.srv.sid # w.s.id

\* An action of the bound session
LEMMA ActionHolds ==
    ASSUME NEW w, NEW D, Good(w, D), NEW a, IsAction(a.act, D),
           NEW lifecycle, NEW tryConnect,
           NEW o \in Transact(w, ImeAction(w.s.id, a), lifecycle, tryConnect)
    PROVE  Acted(w, o, D)
<1> DEFINE m == ImeAction(w.s.id, a)
<1> DEFINE T == Typed(w)
<1>0. Linked(w, T) /\ IsAction(a.act, T) /\ ActionIn(a.act, D)
  BY ActionTyped DEF Good, Held
<1>1. /\ IsFrame(m) /\ m.sid = w.s.id /\ m.act = a.act
      /\ m.op = "action"
  BY FramesAre DEF IsAction, ImeAction
<1> HIDE DEF m, T
<1>2. Fits(w, m, D) /\ Net(w) /\ Compat(w, m.sid, D)
  BY <1>0, <1>1 DEF Fits, Good, Held
<1>3. Net(o.w) /\ Calm(w, o.w, D) /\ Got(w, o.w, m, o.r, D)
  BY <1>1, <1>2, TransactHolds DEF m, Drained
<1>31. MessageTyped(m, T)
  BY <1>0, <1>1 DEF MessageTyped
<1>32. Reached(w, o.w, T) /\ Reply(o.r, T)
  BY <1>0, <1>1, <1>31, TransactTyped DEF m, Emptied
<1>4. Along(w, o.w, D) /\ o.w.s = w.s /\ o.w.ui = w.ui
  BY <1>3, <1>32, CalmAlong DEF T
<1>50. o.r = NoResponse \/ ResponseIn(o.r, D)
  BY <1>2, <1>3, NoSnapshotHolds DEF Got, Answers, ResponseIn
<1>5. Reply(o.r, D)
  BY <1>32, <1>50, ReplyTyped, NoReply
<1>6. o.r.st = "gone" => w.s.id = 0 \/ o.w.srv.sid # w.s.id
  BY <1>1, <1>3, NoResponseIs DEF Got, Answers
<1>7. QED
  BY <1>4, <1>5, <1>6 DEF Acted

\* An action is sent in the bound session and answered.
LEMMA SendHolds ==
    ASSUME NEW w, NEW D, Good(w, D), NEW a, IsAction(a.act, D),
           NEW lifecycle, NEW tryConnect, NEW o \in Send(w, a, lifecycle, tryConnect)
    PROVE  Acted(w, o, D)
<1> DEFINE m == ImeAction(w.s.id, a)
<1>1. PICK p \in Transact(w, m, lifecycle, tryConnect) :
        o = p \/ o \in Transact(p.w, m, lifecycle, tryConnect)
  BY DEF Send, Attempt, OnceMore
<1>2. Acted(w, p, D)
  BY ActionHolds
<1>3. CASE o = p
  BY <1>2, <1>3
<1>4. CASE o \in Transact(p.w, m, lifecycle, tryConnect)
  <2>1. o \in Transact(p.w, ImeAction(p.w.s.id, a), lifecycle, tryConnect) /\ Good(p.w, D)
    BY <1>2, <1>4 DEF Along, Acted
  <2> HIDE DEF m
  <2>2. Acted(p.w, o, D)
    BY <2>1, ActionHolds
  <2>3. QED
    BY <1>2, <2>2, AlongThen DEF Acted
<1>5. QED
  BY <1>1, <1>3, <1>4

------------------------------------------------------------------------------
(* Sessions                                                                *)

Bound(w, k, r) == [w EXCEPT !.s.id = k, !.s.rev = r]

\* v is w with its client bound to session k
Rebound(w, v, k, D) ==
    /\ Along(w, v, D) /\ v.s.id = k /\ v.ui = w.ui
    /\ v.s.journal = w.s.journal /\ v.s.replayed = w.s.replayed
    /\ v.s.fb = w.s.fb /\ v.s.ckpt = w.s.ckpt

\* The client is bound to the session it opened.
LEMMA BindingHolds ==
    ASSUME NEW w, NEW D, Held(w, D), NEW k \in Nat, NEW r \in Nat,
           Owned(w, k), Compat(w, k, D)
    PROVE  Rebound(w, Bound(w, k, r), k, D)
<1> DEFINE c == [w.s EXCEPT !.id = k, !.rev = r]
           v == Bound(w, k, r)
<1>1. v = [w EXCEPT !.s = c]
  BY DEF Bound
<1>2. /\ IsClient(c) /\ c.id = k /\ c.ctx = w.s.ctx /\ c.fb = w.s.fb /\ c.ckpt = w.s.ckpt
      /\ c.snap = w.s.snap /\ c.replayed = w.s.replayed /\ c.journal = w.s.journal
      /\ c.ns = w.s.ns /\ c.known = w.s.known /\ c.rev = r /\ c.highest = w.s.highest
  BY DEF Held, Net, Shape, IsClient
<1> HIDE DEF c, v
<1>3. ClientIn(c, D) /\ ForgetsSecrets(c)
  BY <1>2 DEF Held, ClientIn, ForgetsSecrets
<1>4. /\ DOMAIN v = DOMAIN w /\ v.s = c /\ v.ui = w.ui /\ v.srv = w.srv
      /\ v.net = w.net /\ v.h = w.h
  BY <1>1 DEF Held, Net, Shape
<1>5. Net(v)
  <2>1. Shape(v)
    BY <1>2, <1>4 DEF Shape, Held, Net, IsClient
  <2>2. QED
    BY <1>4, <2>1 DEF Held, Net, Wired
<1>6. Held(v, D)
  <2>1. Linked(v, Typed(v)) /\ Typed(v) = Typed(w)
    BY <1>3, <1>4, <1>5 DEF Held, Linked, Typed, ClientIn, JournalIn, Net
  <2>2. QED
    BY <1>3, <1>4, <1>5, <2>1 DEF Held
<1>7. Owned(v, k) /\ \A j : Compat(w, j, D) => Compat(v, j, D)
  BY <1>2, <1>4 DEF Owned, Closing, Compat
<1>8. Within(w, v, D)
  BY <1>2, <1>4, <1>7 DEF Within
<1>9. QED
  BY <1>2, <1>4, <1>6, <1>7, <1>8 DEF Along, Good, Rebound, v

\* The client gives up its session, which is gone or about to be closed.
LEMMA UnboundHolds ==
    ASSUME NEW w, NEW D, Held(w, D), Owned(w, 0)
    PROVE  Rebound(w, Unbound(w), 0, D)
<1>1. Compat(w, 0, D)
  BY DEF Compat
<1>2. 0 \in Nat
  OBVIOUS
<1>21. Rebound(w, Bound(w, 0, 0), 0, D)
  BY <1>1, <1>2, BindingHolds
<1>3. QED
  BY <1>21 DEF Unbound, Bound

\* A failed open leaves the client without a session
LEMMA OpenHolds ==
    ASSUME NEW w, NEW D, Good(w, D), w.s.id = 0, NEW tryConnect,
           NEW o \in Open(w, tryConnect)
    PROVE  /\ Along(w, o.w, D) /\ o.w.ui = w.ui
           /\ o.w.s.journal = w.s.journal /\ o.w.s.replayed = w.s.replayed
           /\ ~o.ok => o.w.s.id = 0
<1>1. PICK p \in Transact(w, OpenSession(w.s.ctx), FALSE, tryConnect) :
        \/ /\ p.r.st = "success"
           /\ o = [w |-> [p.w EXCEPT !.s.id = p.r.sid, !.s.rev = 0], ok |-> TRUE]
        \/ p.r.st # "success" /\ o = [w |-> p.w, ok |-> FALSE]
  BY DEF Open
<1>2. /\ Net(p.w) /\ Aside(w, p.w)
      /\ \A k : Compat(w, k, D) => Compat(p.w, k, D)
      /\ \/ p.r = NoResponse /\ Owned(p.w, 0)
         \/ /\ p.r.st = "success" /\ p.r.sid = p.w.srv.sid
            /\ Compat(p.w, p.r.sid, D)
  BY TransactOpenHolds DEF Good, Held
<1>21. Reached(w, p.w, Typed(w)) /\ Reply(p.r, Typed(w))
  <2> DEFINE m == OpenSession(w.s.ctx)
  <2>1. MessageTyped(m, Typed(w))
    BY DEF OpenSession, MessageTyped
  <2>2. Linked(w, Typed(w))
    BY DEF Good, Held
  <2> HIDE DEF m
  <2>3. Emptied(w, p, Typed(w))
    BY <2>1, <2>2, TransactTyped DEF m
  <2>4. QED
    BY <2>3 DEF Emptied
<1>3. p.w.s = w.s /\ p.w.ui = w.ui /\ Held(p.w, D) /\ p.w.h.events = w.h.events
  BY <1>2, <1>21, ReachedHeld DEF Good
<1>4. Held(p.w, D) /\ Within(w, p.w, D)
  BY <1>2, <1>3 DEF Good, Within, Aside
<1>5. CASE p.r.st = "success"
  <2> DEFINE v == Bound(p.w, p.r.sid, 0)
  <2>1. p.r.sid = p.w.srv.sid /\ Compat(p.w, p.r.sid, D)
    BY <1>2, <1>5, NoResponseIs
  <2>2. Owned(p.w, p.r.sid)
    BY <2>1 DEF Owned
  <2>20. p.r.sid \in Nat /\ 0 \in Nat
    BY <1>21 DEF Reply
  <2>3. Rebound(p.w, v, p.r.sid, D)
    BY <1>4, <2>1, <2>2, <2>20, BindingHolds
  <2>4. o.w = v /\ o.ok
    BY <1>1, <1>5 DEF Bound
  <2> HIDE DEF v
  <2>5. Along(w, v, D)
    BY <1>4, <2>3 DEF Rebound, Along, Within
  <2>6. QED
    BY <1>3, <2>3, <2>4, <2>5 DEF Rebound
<1>6. CASE p.r.st # "success"
  <2>1. o.w = p.w /\ ~o.ok
    BY <1>1, <1>6
  <2>2. Owned(p.w, 0)
    BY <1>2, <1>6
  <2>3. Good(p.w, D)
    BY <1>3, <1>4, <2>2 DEF Good, Compat
  <2>4. QED
    BY <1>3, <1>4, <2>1, <2>3 DEF Along
<1>7. QED
  BY <1>5, <1>6

\* The frame that closes the bound session is handed off
LEMMA HandOffCloseHolds ==
    ASSUME NEW w, NEW D, Good(w, D), w.s.id # 0,
           NEW o \in Transact(w, CloseSession(w.s.id), TRUE, FALSE)
    PROVE  Along(w, o.w, D) /\ o.w.s = w.s /\ o.w.ui = w.ui /\ Owned(o.w, 0)
<1> DEFINE m == CloseSession(w.s.id)
<1>1. IsFrame(m) /\ m.op = "close"
  BY FramesAre
<1>2. Fits(w, m, D)
  BY <1>1 DEF Fits
<1> HIDE DEF m
<1>3. Net(w) /\ Owned(w, w.s.id)
  BY DEF Good, Held
<1>4. /\ Drained(w, m, o, D)
      /\ \A k : TRUE /\ Owned(w, k) /\ m = CloseSession(k) => Owned(o.w, 0)
  BY <1>1, <1>2, <1>3, TransactHolds DEF m
<1>5. Owned(o.w, 0)
  BY <1>3, <1>4 DEF m
<1> DEFINE T == Typed(w)
<1>51. MessageTyped(m, T) /\ Linked(w, T)
  BY <1>1 DEF MessageTyped, Good, Held
<1> HIDE DEF T
<1>52. Reached(w, o.w, T)
  BY <1>1, <1>51, TransactTyped DEF m, Emptied
<1>6. QED
  BY <1>4, <1>5, <1>52, CalmAlong DEF Drained, T

\* The session is closed, or the close stays with the connector.
LEMMA CloseHolds ==
    ASSUME NEW w, NEW D, Good(w, D), NEW o \in Close(w)
    PROVE  /\ Along(w, o.w, D) /\ o.w.ui = w.ui
           /\ o.w.s.journal = w.s.journal /\ o.w.s.replayed = w.s.replayed
           /\ o.ok => o.w.s.id = 0 /\ ~HasDeferredWork(w.s)
<1>1. CASE w.s.id = 0 \/ HasDeferredWork(w.s)
  <2>1. o = [w |-> w, ok |-> ~HasDeferredWork(w.s)]
    BY <1>1 DEF Close
  <2>2. o.w = w /\ (o.ok => ~HasDeferredWork(w.s))
    BY <2>1
  <2>3. QED
    BY <1>1, <2>2, AlongSelf
<1>2. CASE ~ (w.s.id = 0 \/ HasDeferredWork(w.s))
  <2>1. PICK p \in Transact(w, CloseSession(w.s.id), TRUE, FALSE) :
            o = [w |-> Unbound(p.w), ok |-> p.r.st # "none"]
    BY <1>2 DEF Close
  <2>2. Along(w, p.w, D) /\ p.w.s = w.s /\ p.w.ui = w.ui /\ Owned(p.w, 0)
    BY <1>2, HandOffCloseHolds
  <2>3. o.w = Unbound(p.w) /\ Held(p.w, D)
    BY <2>1, <2>2 DEF Along, Good
  <2>4. Rebound(p.w, o.w, 0, D)
    BY <2>2, <2>3, UnboundHolds
  <2>5. QED
    BY <1>2, <2>2, <2>4, AlongThen DEF Rebound
<1>3. QED
  BY <1>1, <1>2

\* Pending learning is decided and the session closed.
LEMMA DisposeHolds ==
    ASSUME NEW w, NEW D, Good(w, D), NEW commit, NEW v \in Dispose(w, commit)
    PROVE  Along(w, v, D) /\ v.s = w.s /\ v.ui = w.ui /\ Owned(v, 0)
<1> DEFINE resolve == [rid |-> FreshRid(w), act |-> ResolvePendingLearning(commit),
                       exp |-> w.s.rev]
<1>1. CASE w.s.id = 0
  <2>1. v = w
    BY <1>1 DEF Dispose
  <2>2. QED
    BY <1>1, <2>1, AlongSelf DEF Good
<1>2. CASE w.s.id # 0
  <2>1. PICK u : /\ u = w \/ u \in HandOff(w, ImeAction(w.s.id, resolve))
                 /\ v \in HandOff(u, CloseSession(w.s.id))
    BY <1>2 DEF Dispose
  <2>2. IsAction(resolve.act, D)
    BY NoActIn DEF Ops
  <2> HIDE DEF resolve
  <2>3. Along(w, u, D) /\ u.s = w.s /\ u.ui = w.ui
    <3>1. CASE u = w
      BY <3>1, AlongSelf
    <3>2. CASE u \in HandOff(w, ImeAction(w.s.id, resolve))
      <4>1. PICK p \in Transact(w, ImeAction(w.s.id, resolve), TRUE, FALSE) : u = p.w
        BY <3>2 DEF HandOff
      <4>2. Acted(w, p, D)
        BY <2>2, ActionHolds
      <4>3. QED
        BY <4>1, <4>2 DEF Acted
    <3>3. QED
      BY <2>1, <3>1, <3>2
  <2>4. PICK p \in Transact(u, CloseSession(u.s.id), TRUE, FALSE) : v = p.w
    BY <2>1, <2>3 DEF HandOff
  <2>5. Along(u, p.w, D) /\ p.w.s = u.s /\ p.w.ui = u.ui /\ Owned(p.w, 0)
    BY <1>2, <2>3, HandOffCloseHolds DEF Along
  <2>6. QED
    BY <2>3, <2>4, <2>5, AlongThen
<1>3. QED
  BY <1>1, <1>2

\* The session of an uncertain recovery is given up.
LEMMA DiscardServerNamespaceHolds ==
    ASSUME NEW w, NEW D, Good(w, D), NEW v \in DiscardServerNamespace(w)
    PROVE  Along(w, v, D) /\ v.s.id = 0 /\ v.ui = w.ui /\ v.s.journal = w.s.journal
<1>1. PICK u \in Dispose(w, FALSE) : v = Unbound(u)
  BY DEF DiscardServerNamespace
<1>2. Along(w, u, D) /\ u.s = w.s /\ u.ui = w.ui /\ Owned(u, 0)
  BY <1>1, DisposeHolds
<1>3. Rebound(u, v, 0, D)
  BY <1>1, <1>2, UnboundHolds DEF Along, Good
<1>4. QED
  BY <1>2, <1>3, AlongThen DEF Rebound

\* A new client session holds no text.
LEMMA NewClientIs ==
    ASSUME NEW ctx
    PROVE  LET c == NewClientSession(ctx)
           IN  /\ IsClient(c) /\ c.ctx = ctx /\ c.id = 0 /\ \A D : ClientIn(c, D)
               /\ ForgetsSecrets(c) /\ c.journal = <<>> /\ c.replayed = <<>>
               /\ c.fb = <<>> /\ c.ckpt = NoCheckpoint
<1> DEFINE c == NewClientSession(ctx)
<1>1. /\ IsClient(c) /\ c.ctx = ctx /\ c.id = 0 /\ c.fb = <<>> /\ c.ckpt = NoCheckpoint
      /\ c.snap = NoSnapshot /\ c.replayed = <<>> /\ c.journal = <<>>
      /\ c.ns = ClearedNamespace /\ c.known = FALSE /\ c.rev = 0 /\ c.highest = 0
  BY DEF NewClientSession, IsClient
<1> HIDE DEF c
<1>2. ForgetsSecrets(c)
  BY <1>1 DEF ForgetsSecrets
<1>3. Numbered(ClearedNamespace)
  BY MaxIDAssumption DEF Numbered, ClearedNamespace, EffectIDs
<1>4. ASSUME NEW D PROVE ClientIn(c, D)
  <2>1. JournalIn(<<>>, D)
    BY EmptyIsSeq DEF JournalIn
  <2>2. NoCheckpoint \in Checkpoints(D) /\ NoSnapshot \in Snapshots(D)
    BY NoSnapshotTyped
  <2>3. <<>> \in Seq(Effects(D)) /\ <<>> \in Seq(D)
    OBVIOUS
  <2>4. QED
    BY <1>1, <1>3, <2>1, <2>2, <2>3 DEF ClientIn
<1>5. QED
  BY <1>1, <1>2, <1>4 DEF c

\* What a client keeps beyond a boundary
LEMMA WithoutRecoveryStateIs ==
    ASSUME NEW s, s.id \in Nat, s.rev \in Nat
    PROVE  LET c == WithoutRecoveryState(s)
           IN  /\ IsClient(c) /\ c.ctx = s.ctx /\ c.id = s.id /\ \A D : ClientIn(c, D)
               /\ ForgetsSecrets(c) /\ c.journal = <<>> /\ c.replayed = <<>>
               /\ c.fb = <<>> /\ c.ckpt = NoCheckpoint
<1> DEFINE n == NewClientSession(s.ctx)
           c == WithoutRecoveryState(s)
<1>1. /\ IsClient(n) /\ n.ctx = s.ctx /\ \A D : ClientIn(n, D)
      /\ ForgetsSecrets(n) /\ n.journal = <<>> /\ n.replayed = <<>>
      /\ n.fb = <<>> /\ n.ckpt = NoCheckpoint
  BY NewClientIs
<1>2. c = [n EXCEPT !.id = s.id, !.rev = s.rev]
  BY DEF WithoutRecoveryState
<1> HIDE DEF n, c
<1>3. /\ DOMAIN c = DOMAIN n /\ c.ctx = n.ctx /\ c.id = s.id /\ c.fb = n.fb /\ c.ckpt = n.ckpt
      /\ c.snap = n.snap /\ c.replayed = n.replayed /\ c.journal = n.journal /\ c.ns = n.ns
      /\ c.known = n.known /\ c.rev = s.rev /\ c.highest = n.highest
  BY <1>1, <1>2 DEF IsClient
<1>4. IsClient(c) /\ (\A D : ClientIn(c, D)) /\ ForgetsSecrets(c)
  BY <1>1, <1>3 DEF IsClient, ClientIn, ForgetsSecrets
<1>5. QED
  BY <1>1, <1>3, <1>4 DEF c

\* Nothing of the composition is left in the client, which has no session
Parted(w, v, D) ==
    /\ Along(w, v, D) /\ v.s.id = 0 /\ v.s.journal = <<>> /\ v.s.replayed = <<>>

\* A finalized client has no session and nothing to recover.
LEMMA FinalizeHolds ==
    ASSUME NEW w, NEW D, Good(w, D), NEW commit, NEW v \in FinalizeWithoutUITarget(w, commit)
    PROVE  Parted(w, v, D) /\ v.ui = w.ui
<1>1. PICK b : \E u \in Dispose(w, b) : v = [u EXCEPT !.s = WithoutRecoveryState(Unbound(u).s)]
  BY DEF FinalizeWithoutUITarget
<1>2. PICK u \in Dispose(w, b) : v = [u EXCEPT !.s = WithoutRecoveryState(Unbound(u).s)]
  BY <1>1
<1>3. Along(w, u, D) /\ u.ui = w.ui /\ Owned(u, 0)
  BY <1>2, DisposeHolds
<1>4. Good(u, D) /\ Held(u, D)
  BY <1>3 DEF Along, Good
<1>5. Rebound(u, Unbound(u), 0, D)
  BY <1>3, <1>4, UnboundHolds
<1> DEFINE c == WithoutRecoveryState(Unbound(u).s)
<1>6. Unbound(u).s.ctx = u.s.ctx /\ Unbound(u).s.id = 0
  BY <1>5 DEF Rebound, Along, Within
<1>61. Unbound(u).s.id \in Nat /\ Unbound(u).s.rev \in Nat
  BY <1>5 DEF Rebound, Along, Good, Held, ClientIn
<1>7. /\ IsClient(c) /\ c.ctx = u.s.ctx /\ c.id = 0 /\ ClientIn(c, D)
      /\ ForgetsSecrets(c) /\ c.journal = <<>> /\ c.replayed = <<>>
  BY <1>6, <1>61, WithoutRecoveryStateIs
<1>8. v = [u EXCEPT !.s = c]
  BY <1>2
<1> HIDE DEF c
<1>9. Recast(u, v, c, D)
  BY <1>3, <1>4, <1>7, <1>8, ClientChange
<1>10. QED
  BY <1>3, <1>7, <1>9, AlongThen DEF Recast, Parted

\* The composition leaves the screen.
LEMMA DiscardLocalHolds ==
    ASSUME NEW w, NEW D, Good(w, D)
    PROVE  LET v == DiscardLocalComposition(w)
           IN  /\ Along(w, v, D) /\ v.s = w.s /\ v.ui.comp = <<>>
               /\ v.srv = w.srv /\ v.net = w.net
<1> DEFINE d == w.h.dropped \cup ToSet(w.ui.comp)
           n == [[[w.ui EXCEPT !.phase = "idle"] EXCEPT !.comp = <<>>] EXCEPT !.learn = FALSE]
           v == DiscardLocalComposition(w)
<1>1. v = [[w EXCEPT !.ui = n] EXCEPT !.h = [w.h EXCEPT !.dropped = d]]
  BY DEF DiscardLocalComposition, Good, Held, Net, Shape
<1>2. /\ DOMAIN n = DOMAIN w.ui /\ n.comp = <<>> /\ n.active = w.ui.active /\ n.ctx = w.ui.ctx
      /\ n.avail = w.ui.avail /\ n.phase = "idle" /\ n.learn = FALSE
  BY DEF Good, Held, Net, Shape
<1>21. d \subseteq Typed(w)
  BY ToSetIn DEF Good, Held, ScreenIn, PastIn
<1> HIDE DEF v, n, d
<1>3. /\ DOMAIN v = DOMAIN w /\ v.s = w.s /\ v.ui = n /\ v.srv = w.srv /\ v.net = w.net
      /\ v.h = [w.h EXCEPT !.dropped = d]
  BY <1>1 DEF Good, Held, Net, Shape
<1>4. /\ DOMAIN v.h = DOMAIN w.h /\ v.h.typed = w.h.typed /\ v.h.dom = w.h.dom
      /\ v.h.app = w.h.app /\ v.h.orphans = w.h.orphans /\ v.h.events = w.h.events
      /\ v.h.taught = w.h.taught /\ v.h.deleted = w.h.deleted /\ v.h.faults = w.h.faults
      /\ v.h.shown = w.h.shown /\ v.h.undone = w.h.undone /\ v.h.dropped = d
  BY <1>3 DEF Good, Held, Net, Shape
<1>5. Shape(v)
  BY <1>2, <1>3, <1>4 DEF Shape, Good, Held, Net
<1>6. Net(v)
  BY <1>3, <1>4, <1>5 DEF Good, Held, Net, Wired
<1>7. Held(v, D)
  <2>1. ClientIn(v.s, D) /\ ForgetsSecrets(v.s) /\ Typed(v) = Typed(w)
    BY <1>3, <1>4 DEF Held, Good, Typed
  <2>2. v.ui.comp = <<>> /\ <<>> \in Seq(D)
    BY <1>2, <1>3
  <2>3. ScreenIn(v.ui, D) /\ PastIn(v.h, Typed(v))
    BY <1>2, <1>21, <1>3, <1>4, <2>1, <2>2 DEF Held, Good, ScreenIn, PastIn, Phases
  <2>4. Linked(v, Typed(v))
    BY <1>3, <1>4, <1>5, <2>1 DEF Held, Good, Linked
  <2>5. QED
    BY <1>6, <2>1, <2>3, <2>4 DEF Held, Good
<1>8. Owned(v, v.s.id) /\ Compat(v, v.s.id, D)
  BY <1>3 DEF Good, Owned, Closing, Compat
<1>9. \A k : Compat(w, k, D) => Compat(v, k, D)
  BY <1>3 DEF Compat
<1>10. Within(w, v, D)
  BY <1>2, <1>3, <1>4, <1>9 DEF Within
<1>11. QED
  BY <1>2, <1>3, <1>7, <1>8, <1>10 DEF Along, Good, v

\* A rejected recovery gives up session and composition.
LEMMA GiveUpHolds ==
    ASSUME NEW w, NEW D, Good(w, D), NEW v \in GiveUp(w)
    PROVE  Parted(w, v, D) /\ v.ui.comp = <<>>
<1>1. PICK u \in FinalizeWithoutUITarget(w, FALSE) : v = DiscardLocalComposition(u)
  BY DEF GiveUp
<1>2. Parted(w, u, D)
  BY FinalizeHolds
<1>3. Along(u, v, D) /\ v.s = u.s /\ v.ui.comp = <<>>
  BY <1>1, <1>2, DiscardLocalHolds DEF Parted, Along
<1>4. QED
  BY <1>2, <1>3, AlongThen DEF Parted

------------------------------------------------------------------------------
(* Receiving a response                                                    *)

\* A global effect ID is a number within the client's range.
LEMMA ObserveHolds ==
    ASSUME NEW ns, Numbered(ns), NEW id \in Nat
    PROVE  Numbered(Observe(ns, id)) /\ GlobalID(ns, id) \in EffectIDs
<1> DEFINE a == Anchor(ns, id)
           g == GlobalID(ns, id)
<1>0. MaxID \in Nat \ {0}
  BY MaxIDAssumption
<1>1. Numbered(a)
  <2>1. CASE ns.anchored
    BY <2>1 DEF Anchor
  <2>2. CASE ~ns.anchored
    <3>1. a = [ns EXCEPT !.anchored = TRUE, !.raw = id, !.global = ns.next]
      BY <2>2 DEF Anchor
    <3>2. ns.next \in EffectIDs
      BY <1>0 DEF Numbered, EffectIDs
    <3> HIDE DEF a
    <3>3. QED
      BY <3>1, <3>2 DEF Numbered
  <2>3. QED
    BY <2>1, <2>2
<1>2. g = IF id = 0 \/ ~Mappable(a, id) THEN 0 ELSE a.global + (id - a.raw)
  BY DEF GlobalID
<1>3. Mappable(a, id) => id >= a.raw /\ id - a.raw <= MaxID - a.global
  BY DEF Mappable
<1> HIDE DEF a, g
<1>4. a.raw \in Nat /\ a.global \in 0 .. MaxID /\ a.next \in 1 .. MaxID
  BY <1>1 DEF Numbered, EffectIDs
<1>5. g \in 0 .. MaxID
  BY <1>0, <1>2, <1>3, <1>4
<1>6. Observe(ns, id) = IF id = 0 THEN ns
                        ELSE IF g = 0 THEN a
                        ELSE IF g = MaxID THEN [a EXCEPT !.next = g]
                        ELSE [a EXCEPT !.next = IF a.next > g + 1 THEN a.next ELSE g + 1]
  BY DEF Observe, a, g
<1>7. \A k \in 1 .. MaxID : Numbered([a EXCEPT !.next = k])
  BY <1>1 DEF Numbered
<1>8. g # 0 => g \in 1 .. MaxID /\ (g # MaxID => g + 1 \in 1 .. MaxID)
  BY <1>0, <1>5
<1>9. Numbered(Observe(ns, id))
  BY <1>1, <1>4, <1>6, <1>7, <1>8
<1>10. QED
  BY <1>5, <1>9 DEF g, EffectIDs

Normalized(s, n, D) ==
    n.fx \in Seq(Effects(D)) /\ \E x : Numbered(x) /\ n.s = [s EXCEPT !.ns = x]

\* Renumbered effects carry the same text.
LEMMA NormalizeHolds ==
    ASSUME NEW D, NEW s, Numbered(s.ns), NEW r, r.snap.fx \in Seq(Effects(D))
    PROVE  Normalized(s, NormalizeEffectIDs(s, r), D)
<1> DEFINE fx == r.snap.fx
           L == Len(fx)
           ns[n \in 0 .. L] == IF n = 0 THEN s.ns ELSE Observe(ns[n - 1], fx[n].id)
           init == s.ns
           Rec(f, N) == f = [n \in 0 .. N |-> IF n = 0 THEN init ELSE Observe(f[n - 1], fx[n].id)]
           Bad == {N \in 0 .. L : ~ \E f : Rec(f, N)}
           Lost == {n \in 0 .. L : ~ Numbered(ns[n])}
           gx == [n \in 1 .. L |-> [fx[n] EXCEPT !.id = GlobalID(ns[n - 1], fx[n].id)]]
           o == NormalizeEffectIDs(s, r)
<1>1. L \in Nat /\ \A n \in 1 .. L : fx[n] \in Effects(D)
  OBVIOUS
<1>2. \A n \in 1 .. L : DOMAIN fx[n] = {"id", "text"} /\ fx[n].id \in Nat /\ fx[n].text \in Seq(D)
  BY <1>1 DEF Effects
<1>3. o.s = [s EXCEPT !.ns = ns[L]] /\ o.fx = gx
  BY DEF NormalizeEffectIDs
<1>4. ASSUME NEW f, Rec(f, L) PROVE Rec(ns, L)
  BY <1>4
<1> HIDE DEF fx, L, ns, init
<1>5. \E f : Rec(f, L)
  <2> SUFFICES ASSUME ~ \E f : Rec(f, L) PROVE FALSE
    OBVIOUS
  <2>1. L \in Bad /\ Bad \subseteq Nat
    BY <1>1
  <2>2. PICK N \in Bad : \A K \in Bad : N <= K
    <3> HIDE DEF Bad
    <3>1. QED
      BY <2>1, LeastNumber
  <2>3. N \in 0 .. L /\ ~ \E f : Rec(f, N)
    BY <2>2
  <2>4. CASE N = 0
    <3>1. Rec([n \in 0 .. 0 |-> init], 0)
      OBVIOUS
    <3>2. QED
      BY <2>3, <2>4, <3>1
  <2>5. CASE N > 0
    <3>1. N \in 1 .. L /\ N - 1 \in 0 .. L /\ ~ N <= N - 1
      BY <1>1, <2>3, <2>5
    <3>2. PICK g : Rec(g, N - 1)
      BY <2>2, <3>1
    <3> DEFINE f == [n \in 0 .. N |-> IF n = 0 THEN init ELSE Observe(g[n - 1], fx[n].id)]
    <3>3. \A n \in 0 .. N : n # 0 => f[n - 1] = g[n - 1]
      BY <3>1, <3>2
    <3>4. Rec(f, N)
      BY <3>3
    <3>5. QED
      BY <2>3, <3>4
  <2>6. QED
    BY <1>1, <2>3, <2>4, <2>5
<1>6. ns = [n \in 0 .. L |-> IF n = 0 THEN init ELSE Observe(ns[n - 1], fx[n].id)]
  BY <1>4, <1>5
<1>7. Lost = {}
  <2> SUFFICES ASSUME Lost # {} PROVE FALSE
    OBVIOUS
  <2>1. Lost \subseteq Nat
    BY <1>1
  <2>2. PICK n \in Lost : \A k \in Lost : n <= k
    <3> HIDE DEF Lost
    <3>1. QED
      BY <2>1, LeastNumber
  <2>3. n \in 0 .. L /\ ~ Numbered(ns[n])
    BY <2>2
  <2>4. n # 0
    BY <1>1, <1>6, <2>3 DEF init
  <2>5. n \in 1 .. L /\ n - 1 \in 0 .. L /\ ~ n <= n - 1
    BY <1>1, <2>3, <2>4
  <2>6. Numbered(ns[n - 1]) /\ fx[n].id \in Nat
    BY <1>2, <2>2, <2>5
  <2>7. ns[n] = Observe(ns[n - 1], fx[n].id)
    BY <1>6, <2>5
  <2>8. QED
    BY <2>3, <2>6, <2>7, ObserveHolds
<1>8. \A n \in 0 .. L : Numbered(ns[n])
  BY <1>7
<1>9. Numbered(ns[L])
  BY <1>1, <1>8
<1>10. \A n \in 1 .. L : gx[n] \in Effects(D)
  <2> TAKE n \in 1 .. L
  <2>1. n - 1 \in 0 .. L
    BY <1>1
  <2>20. Numbered(ns[n - 1]) /\ fx[n].id \in Nat
    BY <1>2, <1>8, <2>1
  <2>21. GlobalID(ns[n - 1], fx[n].id) \in EffectIDs
    BY <2>20, ObserveHolds
  <2>2. GlobalID(ns[n - 1], fx[n].id) \in Nat
    BY <2>21, MaxIDAssumption DEF EffectIDs
  <2>3. gx[n] = [fx[n] EXCEPT !.id = GlobalID(ns[n - 1], fx[n].id)]
    OBVIOUS
  <2>4. fx[n] \in Effects(D)
    BY <1>1
  <2>5. QED
    BY <2>2, <2>3, <2>4 DEF Effects
<1>11. gx \in Seq(Effects(D))
  BY <1>1, <1>10
<1>12. QED
  BY <1>3, <1>9, <1>11 DEF o, Normalized

\* Replacing the effects of a response
LEMMA EffectsReplaced ==
    ASSUME NEW D, NEW r, Reply(r, D), NEW fx \in Seq(Effects(D)),
           NEW o, o = [r EXCEPT !.snap.fx = fx]
    PROVE  Reply(o, D) /\ o.st = r.st /\ o.sid = r.sid
<1> DEFINE n == [r.snap EXCEPT !.fx = fx]
<1>1. o = [r EXCEPT !.snap = n]
  OBVIOUS
<1>2. /\ DOMAIN n = DOMAIN r.snap /\ n.comp = r.snap.comp /\ n.ck = r.snap.ck /\ n.fx = fx
  BY DEF Reply, Snapshots
<1>20. n.rev = r.snap.rev /\ n.phase = r.snap.phase /\ n.learn = r.snap.learn
  BY DEF Reply, Snapshots
<1> HIDE DEF n
<1>3. n \in Snapshots(D)
  <2>1. n = [rev |-> n.rev, phase |-> n.phase, comp |-> n.comp, learn |-> n.learn,
             ck |-> n.ck, fx |-> n.fx]
    BY DEF n, Reply, Snapshots
  <2>2. QED
    BY <1>2, <1>20, <2>1 DEF Reply, Snapshots
<1>4. DOMAIN o = DOMAIN r /\ o.st = r.st /\ o.sid = r.sid /\ o.snap = n
  BY <1>1 DEF Reply, IsResponse
<1>5. QED
  BY <1>3, <1>4 DEF Reply, IsResponse

\* A response that is not trusted carries no effects.
LEMMA TrustedHolds ==
    ASSUME NEW D, NEW r, Reply(r, D)
    PROVE  Reply(Trusted(r), D) /\ Trusted(r).st = r.st
<1>1. CASE IsSuccessful(r)
  BY <1>1 DEF Trusted
<1>2. CASE ~IsSuccessful(r)
  <2>1. Trusted(r) = [r EXCEPT !.snap.fx = <<>>]
    BY <1>2 DEF Trusted
  <2> DEFINE none == <<>>
  <2>2. none \in Seq(Effects(D)) /\ Trusted(r) = [r EXCEPT !.snap.fx = none]
    BY <2>1
  <2> HIDE DEF none
  <2>3. QED
    BY <2>2, EffectsReplaced
<1>3. QED
  BY <1>1, <1>2

\* A snapshot taken over by client c
LEMMA UpdateSnapshotHolds ==
    ASSUME NEW D, NEW c, IsClient(c), ClientIn(c, D), ForgetsSecrets(c),
           NEW r, Reply(r, D)
    PROVE  LET d == UpdateSnapshot(c, r)
           IN  /\ IsClient(d) /\ d.ctx = c.ctx /\ d.id = c.id
               /\ ClientIn(d, D) /\ ForgetsSecrets(d) /\ d.journal = c.journal
<1> DEFINE n == r.snap
           unsafe == n.phase # "composing" \/ Suggestions
           ck == IF n.ck = NoCheckpoint THEN c.ckpt ELSE n.ck
           m == [n EXCEPT !.fx = <<>>]
           d == UpdateSnapshot(c, r)
<1>1. \/ d = c
      \/ d = [c EXCEPT !.rev = n.rev]
      \/ c.ctx.secure /\ d = [c EXCEPT !.rev = n.rev, !.ckpt = NoCheckpoint, !.fb = <<>>,
                            !.snap = NoSnapshot, !.known = FALSE, !.unsafe = unsafe]
      \/ ~c.ctx.secure /\ d = [c EXCEPT !.rev = n.rev, !.fb = n.comp, !.ckpt = ck,
                            !.snap = m, !.known = TRUE, !.unsafe = unsafe]
  BY DEF UpdateSnapshot
<1>2. m \in Snapshots(D)
  <2> DEFINE none == <<>>
  <2>1. none \in Seq(Effects(D)) /\ m = [n EXCEPT !.fx = none]
    OBVIOUS
  <2> HIDE DEF m, none
  <2>2. QED
    BY <2>1 DEF Reply, Snapshots
<1>3. n.comp \in Seq(D) /\ ck \in Checkpoints(D)
  BY DEF Reply, Snapshots, ClientIn
<1>4. /\ NoCheckpoint \in Checkpoints(D) /\ NoSnapshot \in Snapshots(D)
      /\ <<>> \in Seq(D) /\ n.rev \in Nat
  BY NoSnapshotTyped DEF Reply, Snapshots
<1> HIDE DEF unsafe, ck, m, d
<1>5. CASE d = c \/ d = [c EXCEPT !.rev = n.rev]
  <2>1. /\ DOMAIN d = DOMAIN c /\ d.ctx = c.ctx /\ d.id = c.id /\ d.fb = c.fb
        /\ d.ckpt = c.ckpt /\ d.snap = c.snap /\ d.replayed = c.replayed
        /\ d.journal = c.journal /\ d.ns = c.ns /\ d.known = c.known
        /\ d.rev \in {c.rev, n.rev} /\ d.highest = c.highest
    BY <1>5 DEF IsClient
  <2>2. QED
    BY <1>4, <2>1 DEF IsClient, ClientIn, ForgetsSecrets, d
<1>6. CASE c.ctx.secure /\ d = [c EXCEPT !.rev = n.rev, !.ckpt = NoCheckpoint, !.fb = <<>>,
                            !.snap = NoSnapshot, !.known = FALSE, !.unsafe = unsafe]
  <2>1. /\ DOMAIN d = DOMAIN c /\ d.ctx = c.ctx /\ d.id = c.id /\ d.fb = <<>>
        /\ d.ckpt = NoCheckpoint /\ d.snap = NoSnapshot /\ d.replayed = c.replayed
        /\ d.journal = c.journal /\ d.ns = c.ns /\ d.known = FALSE
        /\ d.rev = n.rev /\ d.highest = c.highest
    BY <1>6 DEF IsClient
  <2>2. ClientIn(d, D)
    BY <1>4, <2>1 DEF ClientIn
  <2>3. ForgetsSecrets(d)
    BY <1>6, <2>1 DEF ForgetsSecrets
  <2>4. QED
    BY <2>1, <2>2, <2>3 DEF IsClient, d
<1>7. CASE ~c.ctx.secure /\ d = [c EXCEPT !.rev = n.rev, !.fb = n.comp, !.ckpt = ck,
                            !.snap = m, !.known = TRUE, !.unsafe = unsafe]
  <2>1. /\ DOMAIN d = DOMAIN c /\ d.ctx = c.ctx /\ d.id = c.id /\ d.fb = n.comp
        /\ d.ckpt = ck /\ d.snap = m /\ d.replayed = c.replayed
        /\ d.journal = c.journal /\ d.ns = c.ns /\ d.rev = n.rev /\ d.highest = c.highest
    BY <1>7 DEF IsClient
  <2>2. ClientIn(d, D)
    BY <1>2, <1>3, <1>4, <2>1 DEF ClientIn
  <2>3. ForgetsSecrets(d)
    BY <1>7, <2>1 DEF ForgetsSecrets
  <2>4. QED
    BY <2>1, <2>2, <2>3 DEF IsClient, d
<1>8. QED
  BY <1>1, <1>5, <1>6, <1>7

\* o is an outcome with a response for the context of w
Answered(w, o, D) == Along(w, o.w, D) /\ Reply(o.r, D)

\* What a response leaves in the client is of the session's domain.
LEMMA ReceivedHolds ==
    ASSUME NEW w, NEW D, Good(w, D), NEW r, Reply(r, D)
    PROVE  LET o == Received(w, r)
           IN  /\ Answered(w, o, D) /\ o.r.st = r.st /\ o.w.s.id = w.s.id /\ o.w.ui = w.ui
               /\ o.w.s.journal = w.s.journal
<1> DEFINE t == Trusted(r)
           n == NormalizeEffectIDs(w.s, t)
           out == [t EXCEPT !.snap.fx = n.fx]
           c == UpdateSnapshot(n.s, out)
           o == Received(w, r)
<1>0. IsClient(w.s) /\ ClientIn(w.s, D) /\ ForgetsSecrets(w.s)
  BY DEF Good, Held, Net, Shape, IsClient
<1>1. Reply(t, D) /\ t.st = r.st
  BY TrustedHolds
<1>2. Numbered(w.s.ns) /\ t.snap.fx \in Seq(Effects(D))
  BY <1>0, <1>1 DEF ClientIn, Reply, Snapshots
<1>3. o = [w |-> [w EXCEPT !.s = c], r |-> out]
  BY DEF Received, Stored
<1> HIDE DEF t
<1>4. Normalized(w.s, n, D)
  BY <1>2, NormalizeHolds
<1>5. PICK x : Numbered(x) /\ n.s = [w.s EXCEPT !.ns = x]
  BY <1>4 DEF Normalized
<1> HIDE DEF n
<1>6. /\ DOMAIN n.s = DOMAIN w.s /\ n.s.ctx = w.s.ctx /\ n.s.id = w.s.id /\ n.s.fb = w.s.fb
      /\ n.s.ckpt = w.s.ckpt /\ n.s.snap = w.s.snap /\ n.s.replayed = w.s.replayed
      /\ n.s.journal = w.s.journal /\ n.s.ns = x /\ n.s.known = w.s.known
      /\ n.s.rev = w.s.rev /\ n.s.highest = w.s.highest
  BY <1>0, <1>5 DEF IsClient
<1>7. IsClient(n.s) /\ ClientIn(n.s, D) /\ ForgetsSecrets(n.s)
  BY <1>0, <1>5, <1>6 DEF IsClient, ClientIn, ForgetsSecrets
<1>8. Reply(out, D) /\ out.st = t.st
  BY <1>1, <1>4, EffectsReplaced DEF Normalized
<1> HIDE DEF out
<1>9. /\ IsClient(c) /\ c.ctx = n.s.ctx /\ c.id = n.s.id
      /\ ClientIn(c, D) /\ ForgetsSecrets(c) /\ c.journal = n.s.journal
  BY <1>7, <1>8, UpdateSnapshotHolds
<1> HIDE DEF c, o
<1>10. o.w = [w EXCEPT !.s = c] /\ o.r = out
  BY <1>3
<1>11. Recast(w, o.w, c, D)
  BY <1>6, <1>9, <1>10, ClientChange
<1>12. QED
  BY <1>1, <1>6, <1>8, <1>9, <1>10, <1>11 DEF Recast, Answered, o

\* v is w with another client session; the rest is the same
Touched(w, v, D) == Along(w, v, D) /\ v.s.id = w.s.id /\ v.ui = w.ui /\ v.h = w.h

\* The client kept its context, and what it kept is of D.
LEMMA TouchedHolds ==
    ASSUME NEW w, NEW D, Good(w, D), NEW c, IsClient(c), c.ctx = w.s.ctx,
           ClientIn(c, D), ForgetsSecrets(c), c.id = w.s.id, NEW v, v = [w EXCEPT !.s = c]
    PROVE  Touched(w, v, D) /\ v.s = c
<1>1. Recast(w, v, c, D)
  BY ClientChange
<1>2. QED
  BY <1>1 DEF Recast, Touched

\* Buffered effects are of D.
LEMMA ReplayedHolds ==
    ASSUME NEW w, NEW D, Good(w, D), NEW fx \in Seq(Effects(D)), w.s.ctx.secure => fx = <<>>,
           NEW v, v = [w EXCEPT !.s.replayed = fx]
    PROVE  Touched(w, v, D) /\ v.s.journal = w.s.journal
<1> DEFINE c == [w.s EXCEPT !.replayed = fx]
<1>1. v = [w EXCEPT !.s = c]
  OBVIOUS
<1>2. /\ IsClient(c) /\ c.ctx = w.s.ctx /\ c.id = w.s.id /\ c.fb = w.s.fb
      /\ c.ckpt = w.s.ckpt /\ c.snap = w.s.snap /\ c.replayed = fx
      /\ c.journal = w.s.journal /\ c.ns = w.s.ns /\ c.known = w.s.known
      /\ c.rev = w.s.rev /\ c.highest = w.s.highest
  BY DEF Good, Held, Net, Shape, IsClient
<1> HIDE DEF c
<1>3. ClientIn(c, D) /\ ForgetsSecrets(c)
  BY <1>2 DEF Good, Held, ClientIn, ForgetsSecrets
<1>4. Touched(w, v, D)
  BY <1>1, <1>2, <1>3, TouchedHolds
<1>5. v.s = c
  <2>1. "s" \in DOMAIN w
    BY DEF Good, Held, Net, Shape
  <2>2. QED
    BY <1>1, <2>1
<1>6. QED
  BY <1>2, <1>4, <1>5

\* The effects of an answer go to the buffer.
LEMMA CollectHolds ==
    ASSUME NEW w, NEW D, Good(w, D), ~w.s.ctx.secure, NEW r, Reply(r, D)
    PROVE  LET v == CollectResponseEffects(w, r)
           IN  Touched(w, v, D) /\ v.s.journal = w.s.journal
<1> DEFINE fx == w.s.replayed \o r.snap.fx
<1> DEFINE v == CollectResponseEffects(w, r)
<1>1. fx \in Seq(Effects(D))
  BY DEF Good, Held, ClientIn, Reply, Snapshots
<1>2. v = [w EXCEPT !.s.replayed = fx]
  BY DEF CollectResponseEffects
<1> HIDE DEF fx, v
<1>3. Touched(w, v, D) /\ v.s.journal = w.s.journal
  BY <1>1, <1>2, ReplayedHolds
<1>4. QED
  BY <1>3 DEF v

\* Buffered effects are put in front of a response.
LEMMA AttachHolds ==
    ASSUME NEW w, NEW D, Good(w, D), NEW r, Reply(r, D)
    PROVE  LET o == AttachReplayedEffects(w, r)
           IN  /\ Touched(w, o.w, D) /\ o.w.s.journal = w.s.journal
               /\ Reply(o.r, D) /\ o.r.st = r.st
<1> DEFINE o == AttachReplayedEffects(w, r)
           none == <<>>
           fx == w.s.replayed \o r.snap.fx
<1>1. CASE ~HasSnapshot(r)
  <2>1. o.w = w /\ o.r = r
    BY <1>1 DEF AttachReplayedEffects
  <2>2. QED
    BY <2>1, AlongSelf DEF Touched
<1>2. CASE HasSnapshot(r)
  <2>1. o.w = [w EXCEPT !.s.replayed = none] /\ o.r = [r EXCEPT !.snap.fx = fx]
    BY <1>2 DEF AttachReplayedEffects
  <2>2. none \in Seq(Effects(D)) /\ none = <<>> /\ fx \in Seq(Effects(D))
    BY DEF Good, Held, ClientIn, Reply, Snapshots
  <2> DEFINE v == o.w
  <2> HIDE DEF o, none, fx, v
  <2>6. v = [w EXCEPT !.s.replayed = none]
    BY <2>1 DEF v
  <2>7. none \in Seq(Effects(D)) /\ (w.s.ctx.secure => none = <<>>)
    BY <2>2
  <2>8. fx \in Seq(Effects(D))
    BY <2>2
  <2>9. Touched(w, v, D) /\ v.s.journal = w.s.journal
    BY <2>6, <2>7, ReplayedHolds
  <2>3. Touched(w, o.w, D) /\ o.w.s.journal = w.s.journal
    BY <2>9 DEF v
  <2>4. Reply(o.r, D) /\ o.r.st = r.st
    BY <2>1, <2>2, EffectsReplaced
  <2>5. QED
    BY <2>3, <2>4 DEF o
<1>3. QED
  BY <1>1, <1>2

\* A response is handed over with the buffered effects.
LEMMA HandoffHolds ==
    ASSUME NEW w, NEW D, Good(w, D), NEW st, NEW o,
           o = HandoffResponse(w, st) \/ o = HandoffIfBuffered(w)
    PROVE  Touched(w, o.w, D) /\ Reply(o.r, D) /\ o.w.s.journal = w.s.journal
<1>1. ASSUME NEW t, o = HandoffResponse(w, t)
      PROVE  Touched(w, o.w, D) /\ Reply(o.r, D) /\ o.w.s.journal = w.s.journal
  <2>1. CASE ~w.s.known
    <3>1. o.w = w /\ o.r = NoResponse
      BY <1>1, <2>1 DEF HandoffResponse
    <3>2. QED
      BY <3>1, AlongSelf, NoReply DEF Touched
  <2>2. CASE w.s.known
    <3> DEFINE r == Response(t, w.s.snap)
    <3>1. o = AttachReplayedEffects(w, r)
      BY <1>1, <2>2 DEF HandoffResponse
    <3>2. Reply(r, D)
      BY ReplyIs DEF Good, Held, ClientIn
    <3> HIDE DEF r
    <3>3. QED
      BY <3>1, <3>2, AttachHolds
  <2>3. QED
    BY <2>1, <2>2
<1>2. CASE o = HandoffIfBuffered(w)
  <2>1. CASE w.s.replayed = <<>>
    <3>1. o.w = w /\ o.r = NoResponse
      BY <1>2, <2>1 DEF HandoffIfBuffered
    <3>2. QED
      BY <3>1, AlongSelf, NoReply DEF Touched
  <2>2. CASE w.s.replayed # <<>>
    BY <1>1, <1>2, <2>2 DEF HandoffIfBuffered
  <2>3. QED
    BY <2>1, <2>2
<1>3. QED
  BY <1>1, <1>2

\* The server numbers its effects anew
LEMMA FreshNamespaceHolds ==
    ASSUME NEW w, NEW D, Good(w, D), NEW v,
           \/ v = [w EXCEPT !.s.ns = BeginFresh(@)]
           \/ v = [w EXCEPT !.s.ns = BeginFresh(@), !.s.unsafe = FALSE]
    PROVE  /\ Touched(w, v, D) /\ v.s.ckpt = w.s.ckpt /\ v.s.fb = w.s.fb
           /\ v.s.journal = w.s.journal
<1> DEFINE n == BeginFresh(w.s.ns)
           b == [w.s EXCEPT !.ns = n]
           c == [b EXCEPT !.unsafe = FALSE]
<1>0. Numbered(w.s.ns)
  BY DEF Good, Held, ClientIn
<1>1. Numbered(n)
  <2>1. n = [w.s.ns EXCEPT !.anchored = FALSE, !.raw = 0, !.global = 0]
    BY DEF BeginFresh
  <2>2. 0 \in EffectIDs
    BY MaxIDAssumption DEF EffectIDs
  <2> HIDE DEF n
  <2>3. QED
    BY <1>0, <2>1, <2>2 DEF Numbered
<1>2. v = [w EXCEPT !.s = b] \/ v = [w EXCEPT !.s = c]
  BY DEF Good, Held, Net, Shape
<1> HIDE DEF n
<1>3. \A d \in {b, c} :
          /\ IsClient(d) /\ d.ctx = w.s.ctx /\ d.id = w.s.id /\ d.fb = w.s.fb
          /\ d.ckpt = w.s.ckpt /\ d.snap = w.s.snap /\ d.replayed = w.s.replayed
          /\ d.journal = w.s.journal /\ d.ns = n /\ d.known = w.s.known
          /\ d.rev = w.s.rev /\ d.highest = w.s.highest
  BY DEF Good, Held, Net, Shape, IsClient
<1>4. \A d \in {b, c} : ClientIn(d, D) /\ ForgetsSecrets(d)
  BY <1>1, <1>3 DEF Good, Held, ClientIn, ForgetsSecrets
<1>5. PICK d \in {b, c} : v = [w EXCEPT !.s = d]
  BY <1>2
<1> HIDE DEF b, c
<1>6. Touched(w, v, D) /\ v.s = d
  BY <1>3, <1>4, <1>5, TouchedHolds
<1>7. QED
  BY <1>3, <1>6

------------------------------------------------------------------------------
(* Recovery                                                                *)

\* Two changes of the client in a row.
LEMMA TouchedThen ==
    ASSUME NEW w, NEW v, NEW u, NEW D, Touched(w, v, D), Touched(v, u, D)
    PROVE  Touched(w, u, D)
BY AlongThen DEF Touched

\* A restore or a text fallback carries text of the session's domain only.
LEMMA RecoveryActionsIn ==
    ASSUME NEW D
    PROVE  /\ \A t \in Seq(D) : IsAction(InsertText(t), D)
           /\ \A ck : ck \in Checkpoints(D) => IsAction(RestoreCheckpoint(ck), D)
<1>1. ASSUME NEW t \in Seq(D) PROVE IsAction(InsertText(t), D)
  <2>1. InsertText(t).op = "insertText" /\ InsertText(t).text = t
        /\ InsertText(t).ck = NoCheckpoint
    BY DEF InsertText, Act
  <2>2. QED
    BY <2>1, NoSnapshotTyped DEF IsAction, Ops
<1>2. ASSUME NEW ck, ck \in Checkpoints(D) PROVE IsAction(RestoreCheckpoint(ck), D)
  <2>1. RestoreCheckpoint(ck).op = "restore" /\ RestoreCheckpoint(ck).text = <<>>
        /\ RestoreCheckpoint(ck).ck = ck
    BY DEF RestoreCheckpoint, Act
  <2>2. QED
    BY <1>2, <2>1 DEF IsAction, Ops
<1>3. QED
  BY <1>1, <1>2

Recovered(w, o, D) ==
    /\ Along(w, o.w, D) /\ o.w.s.id = w.s.id /\ o.w.s.journal = w.s.journal
    /\ o.res \in {"recovered", "uncertain", "rejected", "nothing"}

\* An accepted recovery action leaves text of D.
LEMMA RestoredHolds ==
    ASSUME NEW w, NEW D, Good(w, D), ~w.s.ctx.secure, NEW act, NEW r, Reply(r, D)
    PROVE  Recovered(w, Restored(w, act, r), D)
<1> DEFINE v == IF act.op = "restore" THEN w
                ELSE [w EXCEPT !.s.ns = BeginFresh(@), !.s.unsafe = FALSE]
           p == Received(v, r)
           o == Restored(w, act, r)
<1>1. Touched(w, v, D) /\ v.s.journal = w.s.journal
  <2>1. CASE act.op = "restore"
    BY <2>1, AlongSelf DEF Touched
  <2>2. CASE act.op # "restore"
    BY <2>2, FreshNamespaceHolds
  <2>3. QED
    BY <2>1, <2>2
<1>2. o = [w |-> CollectResponseEffects(p.w, p.r), res |-> "recovered"]
  BY DEF Restored
<1> HIDE DEF v
<1>3. Answered(v, p, D) /\ p.w.s.id = v.s.id /\ p.w.s.journal = v.s.journal
  BY <1>1, ReceivedHolds DEF Touched, Along
<1> HIDE DEF p
<1>4. ~p.w.s.ctx.secure
  BY <1>1, <1>3 DEF Touched, Answered, Along, Within
<1> DEFINE u == CollectResponseEffects(p.w, p.r)
<1>5. Touched(p.w, u, D) /\ u.s.journal = p.w.s.journal
  BY <1>3, <1>4, CollectHolds DEF Answered, Along
<1>6. o.w = u /\ o.res = "recovered"
  BY <1>2
<1> HIDE DEF o, u
<1>7. Along(w, o.w, D) /\ o.w.s.id = w.s.id /\ o.w.s.journal = w.s.journal
  BY <1>1, <1>3, <1>5, <1>6, AlongThen DEF Touched, Answered
<1>8. QED
  BY <1>6, <1>7 DEF Recovered, o

\* One attempt to recover.
LEMMA RecoverOnceHolds ==
    ASSUME NEW w, NEW D, Good(w, D), ~w.s.ctx.secure, NEW act, IsAction(act, D),
           NEW o \in RecoverOnce(w, act)
    PROVE  Recovered(w, o, D)
<1> DEFINE a == [rid |-> FreshRid(w), act |-> act, exp |-> 0]
<1>1. PICK p \in Send(w, a, FALSE, TRUE) :
        \/ o = Restored(p.w, act, p.r)
        \/ o = [w |-> p.w, res |-> "uncertain"]
        \/ o = [w |-> p.w, res |-> "rejected"]
  BY DEF RecoverOnce
<1>2. a.act = act
  OBVIOUS
<1> HIDE DEF a
<1>3. Acted(w, p, D)
  BY <1>2, SendHolds
<1>4. Good(p.w, D) /\ ~p.w.s.ctx.secure /\ Reply(p.r, D) /\ p.w.s = w.s /\ Along(w, p.w, D)
  BY <1>3 DEF Acted, Along
<1>5. CASE o = Restored(p.w, act, p.r)
  <2>1. Recovered(p.w, o, D)
    BY <1>4, <1>5, RestoredHolds
  <2>2. QED
    BY <1>4, <2>1, AlongThen DEF Recovered
<1>6. CASE o = [w |-> p.w, res |-> "uncertain"] \/ o = [w |-> p.w, res |-> "rejected"]
  <2>1. o.w = p.w /\ o.res \in {"uncertain", "rejected"}
    BY <1>6
  <2>2. QED
    BY <1>4, <2>1 DEF Recovered
<1>7. QED
  BY <1>1, <1>5, <1>6

\* The attempts to recover, in turn.
LEMMA RecoverWithHolds ==
    ASSUME NEW w, NEW D, Good(w, D), ~w.s.ctx.secure, NEW act, IsAction(act, D),
           NEW o \in RecoverWith(w, act)
    PROVE  Recovered(w, o, D)
<1>1. PICK p \in RecoverOnce(w, act) : o = p \/ o \in RecoverOnce(p.w, InsertText(p.w.s.fb))
  BY DEF RecoverWith, OnceMore
<1>2. Recovered(w, p, D)
  BY RecoverOnceHolds
<1>3. CASE o = p
  BY <1>2, <1>3
<1>4. CASE o \in RecoverOnce(p.w, InsertText(p.w.s.fb))
  <2>1. Good(p.w, D) /\ ~p.w.s.ctx.secure /\ p.w.s.fb \in Seq(D)
    BY <1>2 DEF Recovered, Along, Within, Good, Held, ClientIn
  <2>2. IsAction(InsertText(p.w.s.fb), D)
    BY <2>1, RecoveryActionsIn
  <2>3. Recovered(p.w, o, D)
    BY <1>4, <2>1, <2>2, RecoverOnceHolds
  <2>4. QED
    BY <1>2, <2>3, AlongThen DEF Recovered
<1>5. QED
  BY <1>1, <1>3, <1>4

\* In a secure field there is nothing to recover
LEMMA RecoverHolds ==
    ASSUME NEW w, NEW D, Good(w, D), NEW o \in Recover(w)
    PROVE  Recovered(w, o, D)
<1>1. CASE w.s.ckpt # NoCheckpoint \/ CanUseStoredTextFallback(w.s)
  <2> DEFINE act == IF w.s.ckpt # NoCheckpoint THEN RestoreCheckpoint(w.s.ckpt)
                    ELSE InsertText(w.s.fb)
  <2>1. o \in RecoverWith(w, act)
    BY <1>1 DEF Recover
  <2>2. ~w.s.ctx.secure
    BY <1>1 DEF Good, Held, ForgetsSecrets, CanUseStoredTextFallback
  <2>3. IsAction(act, D)
    BY RecoveryActionsIn DEF Good, Held, ClientIn
  <2> HIDE DEF act
  <2>4. QED
    BY <2>1, <2>2, <2>3, RecoverWithHolds
<1>2. CASE ~ (w.s.ckpt # NoCheckpoint \/ CanUseStoredTextFallback(w.s))
  <2>1. o = [w |-> w, res |-> IF w.s.fb = <<>> THEN "nothing" ELSE "rejected"]
    BY <1>2 DEF Recover
  <2>2. o.w = w /\ o.res \in {"nothing", "rejected"}
    BY <2>1
  <2>3. QED
    BY <2>2, AlongSelf DEF Recovered
<1>3. QED
  BY <1>1, <1>2

\* updateContext restores the composition in its new session.
LEMMA RestoreCompositionHolds ==
    ASSUME NEW w, NEW D, Good(w, D), NEW o \in RestoreComposition(w)
    PROVE  Along(w, o.w, D) /\ Leaves(w, o.w)
<1>1. PICK p \in Recover(w) :
        o \in CASE p.res = "recovered" -> {[w |-> p.w, ok |-> TRUE]}
                [] p.res = "nothing" ->
                       {[w |-> [p.w EXCEPT !.s.ns = BeginFresh(@)], ok |-> TRUE]}
                [] p.res = "uncertain" ->
                       {[w |-> v, ok |-> FALSE] : v \in DiscardServerNamespace(p.w)}
                [] p.res = "rejected" ->
                       {[w |-> v, ok |-> FALSE] : v \in GiveUp(p.w)}
  BY DEF RestoreComposition
<1>2. Recovered(w, p, D)
  BY RecoverHolds
<1>3. Good(p.w, D) /\ Along(w, p.w, D) /\ p.w.s.journal = w.s.journal
  BY <1>2 DEF Recovered, Along
<1>4. Along(p.w, o.w, D) /\ Leaves(p.w, o.w)
  <2>1. CASE p.res = "recovered"
    <3>1. o = [w |-> p.w, ok |-> TRUE]
      BY <1>1, <2>1
    <3>2. QED
      BY <1>3, <3>1, AlongSelf DEF Leaves
  <2>2. CASE p.res = "nothing"
    <3> DEFINE v == [p.w EXCEPT !.s.ns = BeginFresh(@)]
    <3>1. o = [w |-> v, ok |-> TRUE]
      BY <1>1, <2>2
    <3>2. Touched(p.w, v, D) /\ v.s.journal = p.w.s.journal
      BY <1>3, FreshNamespaceHolds
    <3> HIDE DEF v
    <3>3. QED
      BY <3>1, <3>2 DEF Touched, Leaves
  <2>3. CASE p.res = "uncertain"
    <3>1. o.w \in DiscardServerNamespace(p.w)
      BY <1>1, <2>3
    <3>2. QED
      BY <1>3, <3>1, DiscardServerNamespaceHolds DEF Leaves
  <2>4. CASE p.res = "rejected"
    <3>1. o.w \in GiveUp(p.w)
      BY <1>1, <2>4
    <3>2. QED
      BY <1>3, <3>1, GiveUpHolds DEF Parted, Leaves
  <2>5. QED
    BY <1>2, <2>1, <2>2, <2>3, <2>4 DEF Recovered
<1>5. QED
  BY <1>3, <1>4, AlongThen DEF Leaves

------------------------------------------------------------------------------
(* Another context                                                         *)

\* v is w with client session c
Replaced(w, v, c, D) == Good(v, D) /\ v.s = c /\ v.ui = w.ui /\ v.h = w.h

\* A client without a session may be any client
LEMMA EnteredHolds ==
    ASSUME NEW w, NEW D, Net(w), Linked(w, Typed(w)), D \subseteq Typed(w),
           ScreenIn(w.ui, D), PastIn(w.h, Typed(w)), Owned(w, 0),
           NEW c, IsClient(c), ClientIn(c, D), ForgetsSecrets(c), c.id = 0,
           NEW v, v = [w EXCEPT !.s = c]
    PROVE  Replaced(w, v, c, D)
<1>1. /\ DOMAIN v = DOMAIN w /\ v.s = c /\ v.ui = w.ui /\ v.srv = w.srv
      /\ v.net = w.net /\ v.h = w.h
  BY DEF Net, Shape
<1>2. Shape(v)
  BY <1>1 DEF Shape, Net, IsClient
<1>3. Net(v)
  BY <1>1, <1>2 DEF Net, Wired
<1>4. Owned(v, 0) /\ Compat(v, 0, D)
  BY <1>1 DEF Owned, Closing, Compat
<1>5. Linked(v, Typed(v)) /\ Typed(v) = Typed(w)
  BY <1>1, <1>2 DEF Linked, Typed, ClientIn, JournalIn
<1>6. QED
  BY <1>1, <1>3, <1>4, <1>5 DEF Good, Held, Replaced

\* v is w with nothing changed but the session and perhaps the context
Shifted(w, v, ctx, D) ==
    /\ Good(v, D) /\ v.s.ctx \in {w.s.ctx, ctx} /\ v.ui.ctx = w.ui.ctx
    /\ v.ui.active = w.ui.active /\ v.h.typed = w.h.typed /\ v.h.dom = w.h.dom
    /\ v.h.app = w.h.app /\ v.h.events = w.h.events

\* The steps of updateContext: o is reached from the entered context
Reentered(w, c, ctx) ==
    IF ContextChanged(w.s.ctx, ctx)
    THEN [c EXCEPT !.s = [(IF ClearsPreedit(w.s.ctx, ctx) THEN WithoutRecoveryState(@)
                           ELSE @) EXCEPT !.ctx = ctx]]
    ELSE c

Updated(w, ctx, c, o) ==
    \/ ~c.ok /\ o = c
    \/ /\ c.ok
       /\ \E p \in Open(Reentered(w, c.w, ctx), TRUE) :
             o = p \/ (~ClearsPreedit(w.s.ctx, ctx) /\ o \in RestoreComposition(p.w))

\* The steps of updateContext.
LEMMA UpdateContextIs ==
    ASSUME NEW w, NEW ctx, NEW o \in UpdateContext(w, ctx),
           ContextChanged(w.s.ctx, ctx) \/ w.s.id = 0
    PROVE  \E c \in IF ContextChanged(w.s.ctx, ctx) THEN Close(w)
                   ELSE {[w |-> w, ok |-> TRUE]} : Updated(w, ctx, c, o)
<1> DEFINE changed == ContextChanged(w.s.ctx, ctx)
           clears == ClearsPreedit(w.s.ctx, ctx)
           entered(v) ==
               IF ~changed THEN v
               ELSE [v EXCEPT !.s = [(IF clears THEN WithoutRecoveryState(@) ELSE @)
                                       EXCEPT !.ctx = ctx]]
           Begun == IF changed THEN Close(w) ELSE {[w |-> w, ok |-> TRUE]}
           Rest(p) == IF ~p.ok \/ ctx.secure \/ clears THEN {p}
                      ELSE RestoreComposition(p.w)
           Next1(c) == IF ~c.ok THEN {c} ELSE UNION {Rest(p) : p \in Open(entered(c.w), TRUE)}
<1>1. UpdateContext(w, ctx) = UNION {Next1(c) : c \in Begun}
  BY DEF UpdateContext
<1>2. PICK c \in Begun : o \in Next1(c)
  <2> HIDE DEF Next1, Begun
  <2>1. QED
    BY <1>1
<1>3. entered(c.w) = Reentered(w, c.w, ctx)
  BY DEF Reentered
<1>4. CASE ~c.ok
  BY <1>2, <1>4 DEF Updated
<1>5. CASE c.ok
  <2>1. o \in UNION {Rest(p) : p \in Open(entered(c.w), TRUE)}
    BY <1>2, <1>5
  <2> HIDE DEF entered
  <2>2. PICK p \in Open(entered(c.w), TRUE) : o \in Rest(p)
    <3> HIDE DEF Rest
    <3>1. QED
      BY <2>1
  <2>3. o = p \/ (~clears /\ o \in RestoreComposition(p.w))
    BY <2>2
  <2>4. QED
    BY <1>3, <1>5, <2>2, <2>3 DEF Updated
<1>6. QED
  BY <1>2, <1>4, <1>5

\* updateContext in the same context stays in its domain.
LEMMA SameContextHolds ==
    ASSUME NEW w, NEW D, Good(w, D), NEW o \in UpdateContext(w, w.s.ctx)
    PROVE  Along(w, o.w, D) /\ Leaves(w, o.w)
<1>1. CASE w.s.id # 0
  <2>1. o = [w |-> w, ok |-> TRUE]
    BY <1>1 DEF UpdateContext, ContextChanged
  <2>2. QED
    BY <2>1, AlongSelf DEF Leaves
<1>2. CASE w.s.id = 0
  <2>1. PICK p \in Open(w, TRUE) : o = p \/ o \in RestoreComposition(p.w)
    <3>1. PICK c \in {[w |-> w, ok |-> TRUE]} : Updated(w, w.s.ctx, c, o)
      BY <1>2, UpdateContextIs DEF ContextChanged
    <3>2. c.w = w /\ c.ok
      OBVIOUS
    <3>3. Reentered(w, w, w.s.ctx) = w
      BY DEF Reentered, ContextChanged
    <3>4. QED
      BY <3>1, <3>2, <3>3 DEF Updated
  <2>2. Along(w, p.w, D) /\ p.w.s.journal = w.s.journal
    BY <1>2, OpenHolds
  <2>3. o = p \/ (Along(p.w, o.w, D) /\ Leaves(p.w, o.w))
    BY <2>1, <2>2, RestoreCompositionHolds DEF Along
  <2>4. QED
    BY <2>2, <2>3, AlongThen DEF Leaves
<1>3. QED
  BY <1>1, <1>2

\* updateContext to another frontend stays in the domain.
LEMMA SameDomainHolds ==
    ASSUME NEW w, NEW D, Good(w, D), NEW ctx, ContextChanged(w.s.ctx, ctx),
           ~ClearsPreedit(w.s.ctx, ctx), NEW o \in UpdateContext(w, ctx)
    PROVE  Shifted(w, o.w, ctx, D) /\ Leaves(w, o.w)
<1> DEFINE entered(v) == [v EXCEPT !.s = [@ EXCEPT !.ctx = ctx]]
<1>1. PICK c \in Close(w) :
        \/ o = c
        \/ /\ c.ok
           /\ \E p \in Open(entered(c.w), TRUE) : o = p \/ o \in RestoreComposition(p.w)
  <2>1. PICK c \in Close(w) : Updated(w, ctx, c, o)
    BY UpdateContextIs
  <2>2. Reentered(w, c.w, ctx) = entered(c.w)
    BY DEF Reentered
  <2>3. QED
    BY <2>1, <2>2 DEF Updated
<1>2. Along(w, c.w, D) /\ c.w.s.journal = w.s.journal /\ (c.ok => c.w.s.id = 0)
  BY CloseHolds
<1>3. CASE o = c
  BY <1>2, <1>3 DEF Along, Within, Shifted, Leaves
<1>4. CASE c.ok /\ \E p \in Open(entered(c.w), TRUE) : o = p \/ o \in RestoreComposition(p.w)
  <2> DEFINE u == c.w
             d == [u.s EXCEPT !.ctx = ctx]
             v == entered(u)
  <2>1. u.s.id = 0 /\ Good(u, D) /\ Within(w, u, D) /\ u.s.journal = w.s.journal
    BY <1>2, <1>4 DEF Along
  <2>2. u.s.ctx = w.s.ctx /\ (w.s.ctx.secure <=> ctx.secure)
    BY <2>1 DEF Within, ClearsPreedit
  <2>3. v = [u EXCEPT !.s = d]
    OBVIOUS
  <2>4. PICK p \in Open(v, TRUE) : o = p \/ o \in RestoreComposition(p.w)
    BY <1>4
  <2> HIDE DEF u, entered, v
  <2>5. /\ IsClient(d) /\ d.ctx = ctx /\ d.id = u.s.id /\ d.fb = u.s.fb
        /\ d.ckpt = u.s.ckpt /\ d.snap = u.s.snap /\ d.replayed = u.s.replayed
        /\ d.journal = u.s.journal /\ d.ns = u.s.ns /\ d.known = u.s.known
        /\ d.rev = u.s.rev /\ d.highest = u.s.highest
    BY <2>1 DEF Good, Held, Net, Shape, IsClient
  <2> HIDE DEF d
  <2>6. ClientIn(d, D)
    BY <2>1, <2>5 DEF Good, Held, ClientIn
  <2>7. ForgetsSecrets(d)
    BY <2>1, <2>2, <2>5, Zenon DEF Good, Held, ForgetsSecrets
  <2>8. /\ Net(u) /\ Linked(u, Typed(u)) /\ D \subseteq Typed(u)
        /\ ScreenIn(u.ui, D) /\ PastIn(u.h, Typed(u)) /\ Owned(u, 0)
    BY <2>1 DEF Good, Held
  <2>91. Replaced(u, v, d, D)
    BY <2>1, <2>3, <2>5, <2>6, <2>7, <2>8, EnteredHolds
  <2>9. Good(v, D) /\ v.s = d /\ v.ui = u.ui /\ v.h = u.h
    BY <2>91 DEF Replaced
  <2>10. Along(v, p.w, D) /\ p.w.s.journal = v.s.journal
    <3>1. v.s.id = 0 /\ p \in Open(v, TRUE)
      BY <2>1, <2>4, <2>5, <2>9
    <3>2. QED
      BY <2>9, <3>1, OpenHolds
  <2>11. o = p \/ (Along(p.w, o.w, D) /\ Leaves(p.w, o.w))
    BY <2>4, <2>10, RestoreCompositionHolds DEF Along
  <2>12. Along(v, o.w, D)
    BY <2>10, <2>11, AlongThen
  <2>13. Shifted(w, o.w, ctx, D)
    BY <2>1, <2>5, <2>9, <2>12 DEF Along, Within, Shifted
  <2>14. Leaves(w, o.w)
    BY <2>1, <2>5, <2>9, <2>10, <2>11 DEF Leaves
  <2>15. QED
    BY <2>13, <2>14
<1>5. QED
  BY <1>1, <1>3, <1>4

\* Nothing of the composition crosses the boundary
Crossed(w, v, ctx, D) ==
    Shifted(w, v, ctx, D) /\ v.s.ctx = ctx /\ v.s.journal = <<>>

\* updateContext across domains starts from nothing.
LEMMA CrossingHolds ==
    ASSUME NEW w, NEW D, Good(w, D), NEW ctx, ClearsPreedit(w.s.ctx, ctx),
           w.s.id = 0, ~HasDeferredWork(w.s), w.ui.comp = <<>>,
           NEW o \in UpdateContext(w, ctx), NEW E, E \subseteq Typed(w)
    PROVE  Crossed(w, o.w, ctx, E)
<1> DEFINE b == WithoutRecoveryState(w.s)
           c == [b EXCEPT !.ctx = ctx]
           v == [w EXCEPT !.s = c]
<1>1. ContextChanged(w.s.ctx, ctx)
  BY DEF ContextChanged, ClearsPreedit
<1>2. Close(w) = {[w |-> w, ok |-> TRUE]}
  BY DEF Close
<1>3. o \in Open(v, TRUE)
  <2>1. PICK d \in {[w |-> w, ok |-> TRUE]} : Updated(w, ctx, d, o)
    BY <1>1, <1>2, UpdateContextIs
  <2>2. d.w = w /\ d.ok
    OBVIOUS
  <2>3. Reentered(w, w, ctx) = v
    BY <1>1 DEF Reentered
  <2>4. QED
    BY <2>1, <2>2, <2>3 DEF Updated
<1>4. /\ IsClient(b) /\ b.id = 0 /\ ClientIn(b, E) /\ ~b.known /\ b.journal = <<>>
      /\ b.replayed = <<>> /\ b.fb = <<>> /\ b.ckpt = NoCheckpoint
  <2>1. /\ IsClient(b) /\ b.id = 0 /\ ClientIn(b, E) /\ b.journal = <<>>
        /\ b.replayed = <<>> /\ b.fb = <<>> /\ b.ckpt = NoCheckpoint
    BY WithoutRecoveryStateIs DEF Good, Held, ClientIn
  <2>2. ~b.known
    BY DEF WithoutRecoveryState, NewClientSession
  <2>3. QED
    BY <2>1, <2>2
<1> HIDE DEF b
<1>5. /\ IsClient(c) /\ c.ctx = ctx /\ c.id = 0 /\ c.fb = b.fb /\ c.ckpt = b.ckpt
      /\ c.snap = b.snap /\ c.replayed = b.replayed
      /\ c.journal = b.journal /\ c.ns = b.ns /\ c.known = b.known
      /\ c.rev = b.rev /\ c.highest = b.highest
  BY <1>4 DEF IsClient
<1> HIDE DEF c
<1>6. ClientIn(c, E) /\ ForgetsSecrets(c)
  BY <1>4, <1>5 DEF ClientIn, ForgetsSecrets
<1>7. /\ Net(w) /\ Linked(w, Typed(w)) /\ PastIn(w.h, Typed(w)) /\ Owned(w, 0)
      /\ ScreenIn(w.ui, E)
  BY DEF Good, Held, ScreenIn
<1>71. v = [w EXCEPT !.s = c]
  OBVIOUS
<1> HIDE DEF v
<1>81. IsClient(c) /\ c.id = 0
  BY <1>4, <1>5
<1>82. Replaced(w, v, c, E)
  BY <1>6, <1>7, <1>71, <1>81, EnteredHolds
<1>8. Good(v, E) /\ v.s = c /\ v.ui = w.ui /\ v.h = w.h
  BY <1>82 DEF Replaced
<1>9. Along(v, o.w, E) /\ o.w.s.journal = v.s.journal
  BY <1>3, <1>5, <1>8, OpenHolds
<1>10. QED
  BY <1>4, <1>5, <1>8, <1>9 DEF Along, Within, Shifted, Crossed

------------------------------------------------------------------------------
(* Sending an action                                                       *)

\* a asks for act
Asks(a, act) ==
    DOMAIN a = {"rid", "act", "exp"} /\ a.act = act /\ a.rid \in Nat \ {0}

\* o is an outcome of asking for act
Executed(w, o, act, D) == Answered(w, o, D) /\ Asks(o.a, act)

\* o is an outcome of sending act, which leaves the journal alone
Sent(w, o, act, D) == Executed(w, o, act, D) /\ Leaves(w, o.w)

\* A request after a stretch of the handler.
LEMMA ExecutedThen ==
    ASSUME NEW w, NEW v, NEW o, NEW act, NEW D, Along(w, v, D), Executed(v, o, act, D)
    PROVE  Executed(w, o, act, D)
BY AlongThen DEF Executed, Answered

\* A request is finished by its answer.
LEMMA FinishedHolds ==
    ASSUME NEW o, NEW D, Good(o.w, D), Reply(o.r, D), NEW act, NEW a, Asks(a, act),
           NEW p \in Finished(o, a)
    PROVE  Sent(o.w, p, act, D)
<1>1. CASE IsUncertain(o.r)
  <2>1. p = [w |-> o.w, r |-> NoResponse, a |-> a]
    BY <1>1 DEF Finished
  <2>2. p.w = o.w /\ p.r = NoResponse /\ p.a = a
    BY <2>1
  <2>3. QED
    BY <2>2, AlongSelf, NoReply DEF Sent, Executed, Answered, Leaves
<1>2. CASE ~IsUncertain(o.r)
  <2> DEFINE n == Received(o.w, o.r)
  <2>1. p = [w |-> n.w, r |-> n.r, a |-> a]
    BY <1>2 DEF Finished
  <2>2. Answered(o.w, n, D) /\ n.w.s.journal = o.w.s.journal
    BY ReceivedHolds
  <2> HIDE DEF n
  <2>3. p.w = n.w /\ p.r = n.r /\ p.a = a
    BY <2>1
  <2>4. QED
    BY <2>2, <2>3 DEF Sent, Executed, Answered, Leaves
<1>3. QED
  BY <1>1, <1>2

\* Without a live session of another, any binding will do.
LEMMA OwnedByAny ==
    ASSUME NEW w, NEW k, Owned(w, 0)
    PROVE  Owned(w, k)
BY DEF Owned

\* v comes after w without a session of its own
LEMMA StillBoundHolds ==
    ASSUME NEW w, NEW D, Good(w, D), NEW v, Along(w, v, D), Leaves(w, v),
           v.s.id = 0, NEW act, NEW a, Asks(a, act)
    PROVE  Sent(w, StillBound(v, w.s, a), act, D)
<1> DEFINE k == w.s.id
           u == Bound(v, k, w.s.rev)
           o == StillBound(v, w.s, a)
<1>1. Held(v, D) /\ Owned(v, 0)
  BY DEF Along, Good
<1>2. Owned(v, k)
  BY <1>1, OwnedByAny
<1>3. Compat(v, k, D)
  BY DEF Good, Along, Within
<1>31. k \in Nat /\ w.s.rev \in Nat
  BY DEF Good, Held, ClientIn
<1>4. Rebound(v, u, k, D)
  BY <1>1, <1>2, <1>3, <1>31, BindingHolds
<1>5. o = [w |-> u, r |-> NoResponse, a |-> a]
  BY DEF StillBound, Bound
<1> HIDE DEF u, o
<1>6. o.w = u /\ o.r = NoResponse /\ o.a = a
  BY <1>5
<1>7. Along(w, u, D) /\ Leaves(w, u)
  BY <1>4, AlongThen DEF Rebound, Leaves
<1>8. Sent(w, o, act, D)
  BY <1>6, <1>7, NoReply DEF Sent, Executed, Answered, Leaves
<1>9. QED
  BY <1>8 DEF o

\* The request of w met no session; q is what became of its recovery
LEMMA ResendHolds ==
    ASSUME NEW w, NEW D, Good(w, D), NEW q, Along(w, q.w, D), Leaves(w, q.w),
           NEW act, IsAction(act, D), NEW a, Asks(a, act), NEW tryConnect,
           NEW o \in ResendAfter(q, w.s, a, tryConnect)
    PROVE  Sent(w, o, act, D)
<1> DEFINE n == [q.w EXCEPT !.s.ns = BeginFresh(@)]
           v == IF q.res = "recovered" THEN q.w ELSE DiscardLocalComposition(n)
           b == [a EXCEPT !.exp = v.s.rev]
<1>0. Good(q.w, D)
  BY DEF Along
<1>1. CASE q.res = "uncertain"
  <2>1. PICK u \in DiscardServerNamespace(q.w) : o = StillBound(u, w.s, a)
    BY <1>1 DEF ResendAfter
  <2>2. Along(q.w, u, D) /\ u.s.id = 0 /\ u.s.journal = q.w.s.journal
    BY <1>0, <2>1, DiscardServerNamespaceHolds
  <2>3. Along(w, u, D) /\ Leaves(w, u)
    BY <2>2, AlongThen DEF Leaves
  <2>4. QED
    BY <2>1, <2>2, <2>3, StillBoundHolds
<1>2. CASE q.res = "rejected"
  <2>1. PICK u \in GiveUp(q.w) : o = [w |-> u, r |-> NoResponse, a |-> a]
    BY <1>2 DEF ResendAfter
  <2>2. Parted(q.w, u, D)
    BY <1>0, <2>1, GiveUpHolds
  <2>3. Along(w, u, D) /\ Leaves(w, u)
    BY <2>2, AlongThen DEF Parted, Leaves
  <2>4. o.w = u /\ o.r = NoResponse /\ o.a = a
    BY <2>1
  <2>5. QED
    BY <2>3, <2>4, NoReply DEF Sent, Executed, Answered, Leaves
<1>3. CASE q.res \notin {"uncertain", "rejected"}
  <2>1. PICK p \in Send(v, b, FALSE, tryConnect) : o \in Finished(p, b)
    BY <1>3 DEF ResendAfter
  <2>2. Along(w, v, D) /\ v.s.journal = q.w.s.journal
    <3>1. Touched(q.w, n, D) /\ n.s.journal = q.w.s.journal
      BY <1>0, FreshNamespaceHolds
    <3> HIDE DEF n
    <3>2. Along(q.w, n, D) /\ Good(n, D)
      BY <3>1 DEF Touched, Along
    <3> DEFINE m == DiscardLocalComposition(n)
    <3>3. Along(n, m, D) /\ m.s = n.s
      BY <3>2, DiscardLocalHolds
    <3>4. v = q.w \/ v = m
      BY DEF n
    <3> HIDE DEF m, v
    <3>5. Along(q.w, m, D)
      BY <3>2, <3>3, AlongThen
    <3>6. Along(w, m, D)
      BY <3>5, AlongThen
    <3>7. QED
      BY <3>1, <3>3, <3>4, <3>6
  <2> HIDE DEF v
  <2>3. Asks(b, act)
    BY DEF Asks
  <2> HIDE DEF b
  <2>4. Good(v, D) /\ IsAction(b.act, D)
    BY <2>2, <2>3 DEF Along, Asks
  <2>5. Acted(v, p, D)
    BY <2>1, <2>4, SendHolds
  <2>6. Along(v, p.w, D) /\ Good(p.w, D) /\ Reply(p.r, D) /\ p.w.s = v.s
    BY <2>5 DEF Acted, Along
  <2>7. Sent(p.w, o, act, D)
    BY <2>1, <2>3, <2>6, FinishedHolds
  <2>8. Along(w, p.w, D)
    BY <2>2, <2>6, AlongThen
  <2>9. QED
    BY <2>2, <2>6, <2>7, <2>8, ExecutedThen DEF Sent, Leaves
<1>4. QED
  BY <1>1, <1>2, <1>3

\* executeV2, with recovery and the second attempt.
LEMMA ExecuteHolds ==
    ASSUME NEW w, NEW D, Good(w, D), NEW act, IsAction(act, D), NEW a, Asks(a, act),
           NEW tryConnect, NEW recovers, NEW lifecycle,
           NEW o \in ExecuteV2(w, a, tryConnect, recovers, lifecycle)
    PROVE  Sent(w, o, act, D)
<1> DEFINE Again(p) == IF ~p.ok THEN {StillBound(p.w, w.s, a)}
                       ELSE UNION {ResendAfter(q, w.s, a, tryConnect) : q \in Recover(p.w)}
           Rest(p) == IF p.r.st # "gone" \/ ~recovers THEN Finished(p, a)
                      ELSE UNION {Again(x) : x \in Open([p.w EXCEPT !.s.id = 0], tryConnect)}
<1>1. ExecuteV2(w, a, tryConnect, recovers, lifecycle)
        = UNION {Rest(p) : p \in Send(w, a, lifecycle, tryConnect)}
  BY DEF ExecuteV2
<1>2. PICK p \in Send(w, a, lifecycle, tryConnect) : o \in Rest(p)
  <2> HIDE DEF Rest
  <2>1. QED
    BY <1>1
<1>3. Acted(w, p, D)
  BY SendHolds DEF Asks
<1>4. Along(w, p.w, D) /\ Good(p.w, D) /\ Reply(p.r, D) /\ p.w.s = w.s
  BY <1>3 DEF Acted, Along
<1>5. CASE p.r.st # "gone" \/ ~recovers
  <2>1. o \in Finished(p, a)
    BY <1>2, <1>5
  <2>2. Sent(p.w, o, act, D)
    BY <1>4, <2>1, FinishedHolds
  <2>3. QED
    BY <1>4, <2>2, ExecutedThen DEF Sent, Leaves
<1>6. CASE ~ (p.r.st # "gone" \/ ~recovers)
  <2> DEFINE u == [p.w EXCEPT !.s.id = 0]
  <2>1. o \in UNION {Again(x) : x \in Open(u, tryConnect)}
    BY <1>2, <1>6
  <2>2. u = Bound(p.w, 0, p.w.s.rev)
    BY <1>4 DEF Bound, Good, Held, Net, Shape
  <2>3. Owned(p.w, 0)
    BY <1>3, <1>4, <1>6 DEF Acted, Good, Owned
  <2>4. Held(p.w, D) /\ Compat(p.w, 0, D) /\ p.w.s.rev \in Nat /\ 0 \in Nat
    BY <1>4 DEF Good, Compat, Held, ClientIn
  <2> HIDE DEF u
  <2>5. Rebound(p.w, u, 0, D)
    BY <2>2, <2>3, <2>4, BindingHolds
  <2>6. PICK x \in Open(u, tryConnect) : o \in Again(x)
    <3> HIDE DEF Again
    <3>1. QED
      BY <2>1
  <2>7. Good(u, D) /\ u.s.id = 0 /\ Along(p.w, u, D) /\ u.s.journal = w.s.journal
    BY <1>4, <2>5 DEF Rebound, Along
  <2>8. Along(u, x.w, D) /\ x.w.s.journal = u.s.journal /\ (~x.ok => x.w.s.id = 0)
    BY <2>6, <2>7, OpenHolds
  <2>9. Along(w, x.w, D) /\ Leaves(w, x.w)
    BY <1>4, <2>7, <2>8, AlongThen DEF Leaves
  <2>10. CASE ~x.ok
    <3>1. o = StillBound(x.w, w.s, a)
      BY <2>6, <2>10
    <3>2. QED
      BY <2>8, <2>9, <2>10, <3>1, StillBoundHolds
  <2>11. CASE x.ok
    <3>1. PICK q \in Recover(x.w) : o \in ResendAfter(q, w.s, a, tryConnect)
      BY <2>6, <2>11
    <3>2. Recovered(x.w, q, D)
      BY <2>9, <3>1, RecoverHolds DEF Along
    <3>3. Along(w, q.w, D) /\ Leaves(w, q.w)
      BY <2>9, <3>2, AlongThen DEF Recovered, Leaves
    <3>4. QED
      BY <3>1, <3>3, ResendHolds
  <2>12. QED
    BY <2>10, <2>11
<1>7. QED
  BY <1>5, <1>6

------------------------------------------------------------------------------
(* The journal                                                             *)

\* A request becomes an entry of the journal.
LEMMA JournalEntryHolds ==
    ASSUME NEW D, NEW act, IsAction(act, D), NEW a, Asks(a, act), NEW s
    PROVE  EntryIn(JournalEntry(s, a), D)
BY DEF JournalEntry, EntryIn, Asks

\* One entry of the journal changes.
LEMMA JournalExcept ==
    ASSUME NEW D, NEW j, JournalIn(j, D), NEW k, NEW e, k \in DOMAIN j => EntryIn(e, D),
           NEW i, i = [j EXCEPT ![k] = e]
    PROVE  JournalIn(i, D)
<1>1. Len(j) \in Nat /\ DOMAIN j = 1 .. Len(j)
  BY SeqDomain DEF JournalIn
<1>2. IsSeq(i) /\ Len(i) = Len(j) /\ \A n \in 1 .. Len(j) : i[n] = IF n = k THEN e ELSE j[n]
  <2>1. IsSeq(j)
    BY DEF JournalIn
  <2>2. PutAt(j, k, e, i)
    BY <2>1, SeqExcept
  <2>3. QED
    BY <2>2 DEF PutAt
<1>3. DOMAIN i = 1 .. Len(j)
  BY <1>2, SeqDomain
<1>4. \A n \in DOMAIN i : EntryIn(i[n], D)
  BY <1>1, <1>2, <1>3 DEF JournalIn
<1>5. QED
  BY <1>2, <1>4 DEF JournalIn

\* An entry is marked as sent.
LEMMA MarkSentHolds ==
    ASSUME NEW D, NEW j, JournalIn(j, D), NEW rid
    PROVE  JournalIn(MarkSent(j, rid), D)
<1> DEFINE k == IndexOf(j, rid)
           e == [j[k] EXCEPT !.sent = TRUE]
<1>1. k \in DOMAIN j => EntryIn(e, D)
  BY DEF JournalIn, EntryIn
<1>2. MarkSent(j, rid) = j \/ MarkSent(j, rid) = [j EXCEPT ![k] = e]
  BY DEF MarkSent
<1> HIDE DEF k, e
<1>3. QED
  BY <1>1, <1>2, JournalExcept

\* An entry takes the form in which it was last sent.
LEMMA ReplaceHolds ==
    ASSUME NEW D, NEW j, JournalIn(j, D), NEW rid, NEW e, EntryIn(e, D)
    PROVE  JournalIn(Replace(j, rid, e), D)
<1> DEFINE k == IndexOf(j, rid)
<1>1. Replace(j, rid, e) = j \/ Replace(j, rid, e) = [j EXCEPT ![k] = e]
  BY DEF Replace
<1> HIDE DEF k
<1>2. QED
  BY <1>1, JournalExcept

\* The journal moves to the new session.
LEMMA RebaseHolds ==
    ASSUME NEW D, NEW j, JournalIn(j, D), NEW rid, NEW sent, NEW exp, NEW sid
    PROVE  JournalIn(Rebase(j, rid, sent, exp, sid), D)
<1> DEFINE k == IndexOf(j, rid)
           d == [j[k] EXCEPT !.exp = exp]
           i == [j EXCEPT ![k] = d]
           e == [i[k] EXCEPT !.sid = sid]
<1>1. k \in DOMAIN j => EntryIn(d, D)
  BY DEF JournalIn, EntryIn
<1>2. Rebase(j, rid, sent, exp, sid) = j \/ Rebase(j, rid, sent, exp, sid) = [i EXCEPT ![k] = e]
  BY DEF Rebase
<1> HIDE DEF k, d
<1>3. JournalIn(i, D)
  BY <1>1, JournalExcept
<1> HIDE DEF i
<1>4. k \in DOMAIN i => EntryIn(e, D)
  BY <1>3 DEF JournalIn, EntryIn
<1> HIDE DEF e
<1>5. QED
  BY <1>2, <1>3, <1>4, JournalExcept

\* One more entry.
LEMMA JournalAppend ==
    ASSUME NEW D, NEW j, JournalIn(j, D), NEW e, EntryIn(e, D)
    PROVE  JournalIn(Append(j, e), D)
<1>1. /\ IsSeq(Append(j, e)) /\ Len(Append(j, e)) = Len(j) + 1
      /\ \A i \in 1 .. Len(j) : Append(j, e)[i] = j[i]
      /\ Append(j, e)[Len(j) + 1] = e
  BY SeqAppend DEF JournalIn
<1>2. Len(j) \in Nat /\ DOMAIN j = 1 .. Len(j) /\ DOMAIN Append(j, e) = 1 .. Len(j) + 1
  BY <1>1, SeqDomain DEF JournalIn
<1>3. \A i \in DOMAIN Append(j, e) : EntryIn(Append(j, e)[i], D)
  BY <1>1, <1>2 DEF JournalIn
<1>4. QED
  BY <1>1, <1>3 DEF JournalIn

\* A request is recorded.
LEMMA RecordHolds ==
    ASSUME NEW D, NEW j, JournalIn(j, D), NEW e, EntryIn(e, D)
    PROVE  JournalIn(Record(j, e), D)
BY JournalAppend DEF Record

\* p with e, unless that is the request to be left out
Sifted(p, e, rid) == p \o (IF e.rid = rid THEN <<>> ELSE <<e>>)

\* kept holds what is left of the first entries
Sifting(j, rid, kept, n) ==
    kept = [i \in 0 .. n |-> IF i = 0 THEN <<>> ELSE Sifted(kept[i - 1], j[i], rid)]

\* An acknowledgement goes through the journal entry by entry.
LEMMA AcknowledgeIs ==
    ASSUME NEW j, IsSeq(j), NEW rid
    PROVE  \E kept : Sifting(j, rid, kept, Len(j)) /\ Acknowledge(j, rid) = kept[Len(j)]
<1> DEFINE L == Len(j)
           kept[n \in 0 .. L] ==
               IF n = 0 THEN <<>>
               ELSE kept[n - 1] \o (IF j[n].rid = rid THEN <<>> ELSE <<j[n]>>)
           Bad == {N \in 0 .. L : ~ \E f : Sifting(j, rid, f, N)}
           acked == Acknowledge(j, rid)
<1>1. L \in Nat
  BY SeqDomain
<1>2. acked = kept[L]
  BY DEF Acknowledge
<1>3. ASSUME NEW f, Sifting(j, rid, f, L) PROVE Sifting(j, rid, kept, L)
  BY <1>3 DEF Sifting, Sifted
<1> HIDE DEF L, kept, acked
<1>4. \E f : Sifting(j, rid, f, L)
  <2> SUFFICES ASSUME ~ \E f : Sifting(j, rid, f, L) PROVE FALSE
    OBVIOUS
  <2>1. L \in Bad /\ Bad \subseteq Nat
    BY <1>1
  <2>2. PICK N \in Bad : \A K \in Bad : N <= K
    <3> HIDE DEF Bad
    <3>1. QED
      BY <2>1, LeastNumber
  <2>3. N \in 0 .. L /\ ~ \E f : Sifting(j, rid, f, N)
    BY <2>2
  <2>4. CASE N = 0
    <3>1. Sifting(j, rid, [n \in 0 .. 0 |-> <<>>], 0)
      BY DEF Sifting
    <3>2. QED
      BY <2>3, <2>4, <3>1
  <2>5. CASE N > 0
    <3>1. N \in 1 .. L /\ N - 1 \in 0 .. L /\ ~ N <= N - 1
      BY <1>1, <2>3, <2>5
    <3>2. PICK g : Sifting(j, rid, g, N - 1)
      BY <2>2, <3>1
    <3> DEFINE f == [n \in 0 .. N |->
                        IF n = 0 THEN <<>> ELSE Sifted(g[n - 1], j[n], rid)]
    <3>3. \A n \in 0 .. N : n # 0 => f[n - 1] = g[n - 1]
      BY <3>1, <3>2 DEF Sifting
    <3>4. Sifting(j, rid, f, N)
      BY <3>3 DEF Sifting
    <3>5. QED
      BY <2>3, <3>4
  <2>6. QED
    BY <1>1, <2>3, <2>4, <2>5
<1>5. Sifting(j, rid, kept, L)
  BY <1>3, <1>4
<1>6. QED
  BY <1>2, <1>5 DEF L, acked

\* An entry stays or is left out.
LEMMA SiftedIs ==
    ASSUME NEW p, IsSeq(p), NEW e, NEW rid
    PROVE  \/ e.rid = rid /\ Sifted(p, e, rid) = p
           \/ e.rid # rid /\ Sifted(p, e, rid) = Append(p, e)
<1> DEFINE S == {p[i] : i \in DOMAIN p} \cup {e}
<1>1. p \in Seq(S) /\ e \in S
  BY DEF IsSeq
<1> HIDE DEF S
<1>2. p \o <<>> = p /\ p \o <<e>> = Append(p, e)
  BY <1>1
<1>3. QED
  BY <1>2 DEF Sifted

\* An acknowledged request leaves the journal.
LEMMA AcknowledgeHolds ==
    ASSUME NEW D, NEW j, JournalIn(j, D), NEW rid
    PROVE  JournalIn(Acknowledge(j, rid), D)
<1> DEFINE L == Len(j)
           acked == Acknowledge(j, rid)
<1>1. IsSeq(j) /\ L \in Nat /\ DOMAIN j = 1 .. L
  BY SeqDomain DEF JournalIn
<1>2. PICK kept : Sifting(j, rid, kept, L) /\ acked = kept[L]
  BY <1>1, AcknowledgeIs
<1> DEFINE Lost == {n \in 0 .. L : ~ JournalIn(kept[n], D)}
<1>3. JournalIn(<<>>, D)
  BY EmptyIsSeq DEF JournalIn
<1>4. ASSUME NEW p, JournalIn(p, D), NEW n \in 1 .. L
      PROVE  JournalIn(Sifted(p, j[n], rid), D)
  <2>1. IsSeq(p) /\ EntryIn(j[n], D)
    BY <1>1, <1>4 DEF JournalIn
  <2>2. JournalIn(Append(p, j[n]), D)
    BY <1>4, <2>1, JournalAppend
  <2>3. QED
    BY <1>4, <2>1, <2>2, SiftedIs
<1> HIDE DEF L, acked
<1>5. Lost = {}
  <2> SUFFICES ASSUME Lost # {} PROVE FALSE
    OBVIOUS
  <2>1. Lost \subseteq Nat
    BY <1>1
  <2>2. PICK n \in Lost : \A k \in Lost : n <= k
    <3> HIDE DEF Lost
    <3>1. QED
      BY <2>1, LeastNumber
  <2>3. n \in 0 .. L /\ ~ JournalIn(kept[n], D)
    BY <2>2
  <2>4. n # 0
    BY <1>1, <1>2, <1>3, <2>3 DEF Sifting
  <2>5. n \in 1 .. L /\ n - 1 \in 0 .. L /\ ~ n <= n - 1
    BY <1>1, <2>3, <2>4
  <2>6. JournalIn(kept[n - 1], D)
    BY <2>2, <2>5
  <2>7. kept[n] = Sifted(kept[n - 1], j[n], rid)
    BY <1>2, <2>5 DEF Sifting
  <2>8. QED
    BY <1>4, <2>3, <2>5, <2>6, <2>7
<1>6. QED
  BY <1>1, <1>2, <1>5 DEF acked

\* v is w with the journal j
Refiled(w, v, j, D) == Touched(w, v, D) /\ v.s.journal = j

\* The journal of a field that is not secure may change
LEMMA JournalChange ==
    ASSUME NEW w, NEW D, Good(w, D), NEW j, JournalIn(j, D), w.s.ctx.secure => j = <<>>,
           NEW v, v = [w EXCEPT !.s.journal = j]
    PROVE  Refiled(w, v, j, D)
<1> DEFINE c == [w.s EXCEPT !.journal = j]
<1>1. v = [w EXCEPT !.s = c]
  OBVIOUS
<1>2. /\ IsClient(c) /\ c.ctx = w.s.ctx /\ c.id = w.s.id /\ c.fb = w.s.fb
      /\ c.ckpt = w.s.ckpt /\ c.snap = w.s.snap /\ c.replayed = w.s.replayed
      /\ c.journal = j /\ c.ns = w.s.ns /\ c.known = w.s.known
      /\ c.rev = w.s.rev /\ c.highest = w.s.highest
  BY DEF Good, Held, Net, Shape, IsClient
<1> HIDE DEF c
<1>3. ClientIn(c, D) /\ ForgetsSecrets(c)
  BY <1>2 DEF Good, Held, ClientIn, ForgetsSecrets
<1>4. Touched(w, v, D)
  BY <1>1, <1>2, <1>3, TouchedHolds
<1>5. v.s = c
  <2>1. "s" \in DOMAIN w
    BY DEF Good, Held, Net, Shape
  <2>2. QED
    BY <1>1, <2>1
<1>6. QED
  BY <1>2, <1>4, <1>5 DEF Refiled

\* The journal of a good world is of its domain.
LEMMA JournalOf ==
    ASSUME NEW w, NEW D, Good(w, D)
    PROVE  JournalIn(w.s.journal, D)
BY DEF Good, Held, ClientIn

------------------------------------------------------------------------------
(* The journal stays brief                                                 *)

\* Entries of which a journal must not hold two: the same request, or two
\* decisions, or two actions that are not decisions
Alike(d, e) == d.rid = e.rid \/ (d.act.op = "resolve" <=> e.act.op = "resolve")

Brief(j) == \A i, k \in DOMAIN j : Alike(j[i], j[k]) => i = k

\* d and e are the same request, though perhaps bound to other sessions
Same(d, e) == d.rid = e.rid /\ d.act = e.act

\* i holds the requests of j, in the same order
Requests(j, i) == Len(i) = Len(j) /\ \A n \in 1 .. Len(j) : Same(j[n], i[n])

\* A new request bears a number.
LEMMA FreshRidIn ==
    ASSUME NEW w, NEW D, Good(w, D)
    PROVE  FreshRid(w) \in Nat \ {0}
BY FreshRidTyped DEF Good, Held

\* A new request is like none of the journal.
LEMMA FreshRidIsNew ==
    ASSUME NEW w, NEW D, Good(w, D)
    PROVE  \A i \in DOMAIN w.s.journal : w.s.journal[i].rid # FreshRid(w)
<1> DEFINE j == w.s.journal
           q == w.net.queue
           cache == w.srv.cache
           J == {j[i].rid : i \in DOMAIN j}
           C == {e.rid : e \in cache}
           Q == {q[i].m.rid : i \in DOMAIN q}
           used == J \cup C \cup Q
<1>1. IsSeq(j) /\ IsSeq(q) /\ IsFiniteSet(cache)
  BY DEF Good, Held, ClientIn, JournalIn, Net, Wired, IsSession
<1>2. FreshRid(w) = Unused(used)
  BY DEF FreshRid
<1>3. IsFiniteSet(DOMAIN j) /\ IsFiniteSet(DOMAIN q)
  <2>1. ASSUME NEW p, IsSeq(p) PROVE IsFiniteSet(DOMAIN p)
    BY <2>1, SeqDomain, FS_Interval
  <2>2. QED
    BY <1>1, <2>1
<1>4. IsFiniteSet(J)
  <2> DEFINE f == [i \in DOMAIN j |-> j[i].rid]
  <2>1. J = {f[i] : i \in DOMAIN j}
    OBVIOUS
  <2> HIDE DEF f, J
  <2>2. QED
    BY <1>3, <2>1, ImageIsFinite
<1>5. IsFiniteSet(C)
  <2> DEFINE f == [e \in cache |-> e.rid]
  <2>1. C = {f[e] : e \in cache}
    OBVIOUS
  <2> HIDE DEF f, C
  <2>2. QED
    BY <1>1, <2>1, ImageIsFinite
<1>6. IsFiniteSet(Q)
  <2> DEFINE f == [i \in DOMAIN q |-> q[i].m.rid]
  <2>1. Q = {f[i] : i \in DOMAIN q}
    OBVIOUS
  <2> HIDE DEF f, Q
  <2>2. QED
    BY <1>3, <2>1, ImageIsFinite
<1>7. \A i \in DOMAIN j : j[i].rid \in used
  OBVIOUS
<1> HIDE DEF J, C, Q
<1>8. IsFiniteSet(used)
  BY <1>4, <1>5, <1>6, FS_Union
<1> HIDE DEF used
<1>9. Unused(used) \notin used
  BY <1>8, UnusedIsNew
<1>10. QED
  BY <1>2, <1>7, <1>9

\* The empty journal is brief.
LEMMA EmptyIsBrief == Brief(<<>>)
<1>1. DOMAIN <<>> = {}
  OBVIOUS
<1>2. QED
  BY <1>1 DEF Brief

\* The same requests are as brief.
LEMMA RequestsBrief ==
    ASSUME NEW j, IsSeq(j), Brief(j), NEW i, IsSeq(i), Requests(j, i)
    PROVE  Brief(i)
<1>1. DOMAIN j = 1 .. Len(j) /\ DOMAIN i = DOMAIN j
  BY SeqDomain DEF Requests
<1>2. ASSUME NEW m \in DOMAIN i, NEW n \in DOMAIN i, Alike(i[m], i[n])
      PROVE  m = n
  <2>1. Same(j[m], i[m]) /\ Same(j[n], i[n])
    BY <1>1, <1>2 DEF Requests
  <2>2. Alike(j[m], j[n])
    BY <1>2, <2>1 DEF Alike, Same
  <2>3. QED
    BY <1>1, <1>2, <2>2 DEF Brief
<1>3. QED
  BY <1>2 DEF Brief

\* The place of a request that the journal has.
LEMMA IndexOfHolds ==
    ASSUME NEW j, IsSeq(j), NEW rid, Has(j, rid)
    PROVE  IndexOf(j, rid) \in DOMAIN j /\ j[IndexOf(j, rid)].rid = rid
<1> DEFINE T == {i \in DOMAIN j : j[i].rid = rid}
           First(i) == j[i].rid = rid /\ \A k \in 1 .. (i - 1) : j[k].rid # rid
<1>1. DOMAIN j = 1 .. Len(j) /\ Len(j) \in Nat
  BY SeqDomain
<1>2. T \subseteq Nat /\ T # {}
  BY <1>1 DEF Has
<1>3. PICK i \in T : \A k \in T : i <= k
  <2> HIDE DEF T
  <2>1. QED
    BY <1>2, LeastNumber
<1>4. i \in DOMAIN j /\ First(i)
  <2>1. \A k \in 1 .. (i - 1) : k \in DOMAIN j /\ ~ i <= k
    BY <1>1, <1>3
  <2>2. QED
    BY <1>3, <2>1
<1>5. IndexOf(j, rid) = CHOOSE n \in DOMAIN j : First(n)
  BY DEF IndexOf
<1>6. QED
  BY <1>4, <1>5

\* An entry that changes into the same request.
LEMMA SameExcept ==
    ASSUME NEW j, IsSeq(j), NEW k, NEW e, k \in DOMAIN j => Same(j[k], e),
           NEW i, i = [j EXCEPT ![k] = e]
    PROVE  IsSeq(i) /\ Requests(j, i)
<1>1. PutAt(j, k, e, i)
  BY SeqExcept
<1>2. DOMAIN j = 1 .. Len(j)
  BY SeqDomain
<1>3. QED
  BY <1>1, <1>2 DEF PutAt, Requests, Same

\* Nothing changes.
LEMMA RequestsSelf == \A j : Requests(j, j)
BY DEF Requests, Same

\* Marking and moving an entry leaves its request alone.
LEMMA MarkedRequests ==
    ASSUME NEW D, NEW j, JournalIn(j, D), NEW rid
    PROVE  Requests(j, MarkSent(j, rid))
<1> DEFINE k == IndexOf(j, rid)
           e == [j[k] EXCEPT !.sent = TRUE]
<1>1. k \in DOMAIN j => Same(j[k], e)
  BY DEF JournalIn, EntryIn, Same
<1>2. MarkSent(j, rid) = j \/ MarkSent(j, rid) = [j EXCEPT ![k] = e]
  BY DEF MarkSent
<1>3. IsSeq(j)
  BY DEF JournalIn
<1> HIDE DEF k, e
<1>4. QED
  BY <1>1, <1>2, <1>3, SameExcept, RequestsSelf

\* So does binding it to another session.
LEMMA RebasedRequests ==
    ASSUME NEW D, NEW j, JournalIn(j, D), NEW rid, NEW sent, NEW exp, NEW sid
    PROVE  Requests(j, Rebase(j, rid, sent, exp, sid))
<1> DEFINE k == IndexOf(j, rid)
           d == [j[k] EXCEPT !.exp = exp]
           i == [j EXCEPT ![k] = d]
           e == [i[k] EXCEPT !.sid = sid]
<1>1. k \in DOMAIN j => Same(j[k], d) /\ EntryIn(d, D)
  BY DEF JournalIn, EntryIn, Same
<1>2. Rebase(j, rid, sent, exp, sid) = j \/ Rebase(j, rid, sent, exp, sid) = [i EXCEPT ![k] = e]
  BY DEF Rebase
<1>3. IsSeq(j)
  BY DEF JournalIn
<1> HIDE DEF k, d
<1>4. IsSeq(i) /\ Requests(j, i)
  BY <1>1, <1>3, SameExcept
<1>5. JournalIn(i, D)
  BY <1>1, JournalExcept
<1> HIDE DEF i
<1>6. k \in DOMAIN i => Same(i[k], e)
  BY <1>5 DEF JournalIn, EntryIn, Same
<1> HIDE DEF e
<1>7. [i EXCEPT ![k] = e] = [i EXCEPT ![k] = e] => Requests(i, [i EXCEPT ![k] = e])
  BY <1>4, <1>6, SameExcept
<1>8. Requests(j, [i EXCEPT ![k] = e])
  BY <1>4, <1>7 DEF Requests, Same
<1>9. QED
  BY <1>2, <1>8, RequestsSelf

\* e is a request of j, other than rid
Comes(e, j, rid) == e.rid # rid /\ \E k \in DOMAIN j : Same(j[k], e)

\* p is brief and holds requests of the first n entries of j, other than rid
Leftover(j, rid, n, p) ==
    /\ IsSeq(p) /\ Brief(p)
    /\ \A m \in DOMAIN p :
          p[m].rid # rid /\ \E k \in DOMAIN j : k <= n /\ Same(j[k], p[m])

\* What an acknowledgement leaves is brief, too.
LEMMA AcknowledgedBrief ==
    ASSUME NEW j, IsSeq(j), Brief(j), NEW rid
    PROVE  LET i == Acknowledge(j, rid)
           IN  Brief(i) /\ \A n \in DOMAIN i : Comes(i[n], j, rid)
<1> DEFINE L == Len(j)
           acked == Acknowledge(j, rid)
<1>1. L \in Nat /\ DOMAIN j = 1 .. L
  BY SeqDomain
<1>2. PICK kept : Sifting(j, rid, kept, L) /\ acked = kept[L]
  BY AcknowledgeIs
<1> DEFINE Lost == {n \in 0 .. L : ~ Leftover(j, rid, n, kept[n])}
<1>3. Leftover(j, rid, 0, <<>>)
  BY EmptyIsSeq, EmptyIsBrief, SeqDomain DEF Leftover
<1>4. ASSUME NEW n \in 1 .. L, NEW p, Leftover(j, rid, n - 1, p)
      PROVE  Leftover(j, rid, n, Sifted(p, j[n], rid))
  <2>1. IsSeq(p) /\ Brief(p)
    BY <1>4 DEF Leftover
  <2>2. \A m \in DOMAIN p : /\ p[m].rid # rid
                            /\ \E k \in DOMAIN j : k < n /\ k <= n /\ Same(j[k], p[m])
    BY <1>1, <1>4 DEF Leftover
  <2>3. CASE Sifted(p, j[n], rid) = p
    BY <2>1, <2>2, <2>3 DEF Leftover
  <2>4. CASE j[n].rid # rid /\ Sifted(p, j[n], rid) = Append(p, j[n])
    <3> DEFINE q == Append(p, j[n])
    <3>1. /\ IsSeq(q) /\ Len(q) = Len(p) + 1 /\ q[Len(p) + 1] = j[n]
          /\ \A m \in 1 .. Len(p) : q[m] = p[m]
      BY <2>1, SeqAppend
    <3>2. /\ Len(p) \in Nat /\ DOMAIN p = 1 .. Len(p)
          /\ DOMAIN q = 1 .. (Len(p) + 1)
      BY <2>1, <3>1, SeqDomain
    <3> HIDE DEF q
    <3>3. \A m \in DOMAIN p : ~ Alike(p[m], j[n]) /\ ~ Alike(j[n], p[m])
      <4>1. TAKE m \in DOMAIN p
      <4>2. PICK k \in DOMAIN j : k < n /\ Same(j[k], p[m])
        BY <2>2
      <4>3. ~ Alike(j[k], j[n])
        BY <1>1, <4>2 DEF Brief
      <4>4. QED
        BY <4>2, <4>3 DEF Alike, Same
    <3>4. \A m \in DOMAIN q : m \in DOMAIN p \/ m = Len(p) + 1
      BY <3>2
    <3>5. Brief(q)
      <4>1. ASSUME NEW m \in DOMAIN q, NEW k \in DOMAIN q, Alike(q[m], q[k])
            PROVE  m = k
        <5>1. CASE m \in DOMAIN p /\ k \in DOMAIN p
          BY <2>1, <3>1, <3>2, <4>1, <5>1 DEF Brief
        <5>2. CASE m \notin DOMAIN p \/ k \notin DOMAIN p
          BY <3>1, <3>2, <3>3, <3>4, <4>1, <5>2
        <5>3. QED
          BY <5>1, <5>2
      <4>2. QED
        BY <4>1 DEF Brief
    <3>6. ASSUME NEW m \in DOMAIN q
          PROVE  q[m].rid # rid /\ \E k \in DOMAIN j : k <= n /\ Same(j[k], q[m])
      <4>1. CASE m \in DOMAIN p
        BY <2>2, <3>1, <3>2, <4>1
      <4>2. CASE m = Len(p) + 1
        BY <1>1, <2>4, <3>1, <4>2 DEF Same
      <4>3. QED
        BY <3>4, <3>6, <4>1, <4>2
    <3>7. QED
      BY <2>4, <3>1, <3>5, <3>6 DEF Leftover, q
  <2>5. QED
    BY <2>1, <2>3, <2>4, SiftedIs
<1> HIDE DEF L, acked
<1>5. Lost = {}
  <2> SUFFICES ASSUME Lost # {} PROVE FALSE
    OBVIOUS
  <2>1. Lost \subseteq Nat
    BY <1>1
  <2>2. PICK n \in Lost : \A k \in Lost : n <= k
    <3> HIDE DEF Lost
    <3>1. QED
      BY <2>1, LeastNumber
  <2>3. n \in 0 .. L /\ ~ Leftover(j, rid, n, kept[n])
    BY <2>2
  <2>4. n # 0
    BY <1>1, <1>2, <1>3, <2>3 DEF Sifting
  <2>5. n \in 1 .. L /\ n - 1 \in 0 .. L /\ ~ n <= n - 1
    BY <1>1, <2>3, <2>4
  <2>6. Leftover(j, rid, n - 1, kept[n - 1])
    BY <2>2, <2>5
  <2>7. kept[n] = Sifted(kept[n - 1], j[n], rid)
    BY <1>2, <2>5 DEF Sifting
  <2>8. QED
    BY <1>4, <2>3, <2>5, <2>6, <2>7
<1>6. Leftover(j, rid, L, acked)
  BY <1>1, <1>2, <1>5
<1>7. QED
  BY <1>6 DEF Leftover, Comes, acked

\* Request rid of j, if j has it, asks for act
Names(j, rid, act) == \A n \in DOMAIN j : j[n].rid = rid => j[n].act = act

\* Replaying an entry under its own request ID leaves its request alone.
LEMMA ReplacedRequests ==
    ASSUME NEW j, IsSeq(j), NEW e, Names(j, e.rid, e.act)
    PROVE  Requests(j, Replace(j, e.rid, e))
<1> DEFINE k == IndexOf(j, e.rid)
<1>1. CASE CanReplace(j, e.rid, e)
  <2>1. k \in DOMAIN j /\ j[k].rid = e.rid
    BY <1>1, IndexOfHolds DEF CanReplace
  <2>2. Replace(j, e.rid, e) = [j EXCEPT ![k] = e]
    BY <1>1 DEF Replace
  <2> HIDE DEF k
  <2>3. Same(j[k], e)
    BY <2>1 DEF Names, Same
  <2>4. QED
    BY <2>2, <2>3, SameExcept
<1>2. CASE ~CanReplace(j, e.rid, e)
  BY <1>2, RequestsSelf DEF Replace
<1>3. QED
  BY <1>1, <1>2

\* i is brief and holds request b of action act, if it has b at all, and requests
\* of j other than a
Carries(j, a, i, b, act) ==
    /\ Brief(i)
    /\ \A n \in DOMAIN i : \/ i[n].rid = b /\ i[n].act = act
                           \/ i[n].rid # b /\ Comes(i[n], j, a)

\* A journal carries its own requests.
LEMMA CarriesSelf ==
    ASSUME NEW j, IsSeq(j), Brief(j), NEW a, NEW act, Names(j, a, act),
           NEW i, IsSeq(i), Requests(j, i)
    PROVE  Carries(j, a, i, a, act) /\ Names(i, a, act)
<1>1. DOMAIN j = 1 .. Len(j) /\ DOMAIN i = DOMAIN j
  BY SeqDomain DEF Requests
<1>2. Brief(i)
  BY RequestsBrief
<1>3. \A n \in DOMAIN i : Same(j[n], i[n])
  BY <1>1 DEF Requests
<1>4. Names(i, a, act)
  BY <1>1, <1>3 DEF Names, Same
<1>5. QED
  BY <1>1, <1>2, <1>3, <1>4 DEF Carries, Names, Comes, Same

\* The empty journal carries nothing.
LEMMA CarriesNone == \A j, a, b, act : Carries(j, a, <<>>, b, act)
<1>1. DOMAIN <<>> = {}
  OBVIOUS
<1>2. QED
  BY <1>1, EmptyIsBrief DEF Carries

\* What it carries can be named.
LEMMA CarriedNames ==
    ASSUME NEW j, NEW a, NEW i, NEW b, NEW act, Carries(j, a, i, b, act)
    PROVE  Names(i, b, act)
BY DEF Carries, Names

\* Two attempts in a row.
LEMMA CarriesThen ==
    ASSUME NEW j, NEW a, NEW i, NEW b, NEW h, NEW c, NEW act,
           Carries(j, a, i, b, act), Carries(i, b, h, c, act)
    PROVE  Carries(j, a, h, c, act)
<1>1. ASSUME NEW n \in DOMAIN h, ~ (h[n].rid = c /\ h[n].act = act)
      PROVE  h[n].rid # c /\ Comes(h[n], j, a)
  <2>1. h[n].rid # c /\ h[n].rid # b
    BY <1>1 DEF Carries, Comes
  <2>2. PICK m \in DOMAIN i : Same(i[m], h[n])
    BY <1>1 DEF Carries, Comes
  <2>3. Comes(i[m], j, a)
    BY <2>1, <2>2 DEF Carries, Same
  <2>4. QED
    BY <2>1, <2>2, <2>3 DEF Comes, Same
<1>2. QED
  BY <1>1 DEF Carries

\* The same requests may be carried on.
LEMMA CarriesFrom ==
    ASSUME NEW j, IsSeq(j), NEW i, IsSeq(i), Requests(j, i),
           NEW a, NEW h, NEW b, NEW act, Carries(i, a, h, b, act)
    PROVE  Carries(j, a, h, b, act)
<1>1. DOMAIN j = 1 .. Len(j) /\ DOMAIN i = DOMAIN j
  BY SeqDomain DEF Requests
<1>2. \A n \in DOMAIN i : Same(j[n], i[n])
  BY <1>1 DEF Requests
<1>3. \A e : Comes(e, i, a) => Comes(e, j, a)
  BY <1>1, <1>2 DEF Comes, Same
<1>4. QED
  BY <1>3 DEF Carries

\* An acknowledged request is carried no more.
LEMMA CarriesOthers ==
    ASSUME NEW j, IsSeq(j), Brief(j), NEW a, NEW act
    PROVE  LET i == Acknowledge(j, a)
           IN  Carries(j, a, i, a, act) /\ \A n \in DOMAIN i : i[n].rid # a
<1> DEFINE i == Acknowledge(j, a)
<1>1. Brief(i) /\ \A n \in DOMAIN i : Comes(i[n], j, a)
  BY AcknowledgedBrief
<1> HIDE DEF i
<1>2. Carries(j, a, i, a, act) /\ \A n \in DOMAIN i : i[n].rid # a
  BY <1>1 DEF Carries, Comes
<1>3. QED
  BY <1>2 DEF i

\* A stale request is carried on under its new ID.
LEMMA CarriesRenewed ==
    ASSUME NEW j, IsSeq(j), Brief(j), NEW a, NEW e, Names(j, a, e.act),
           \A n \in DOMAIN j : j[n].rid # e.rid
    PROVE  Carries(j, a, Replace(j, a, e), e.rid, e.act)
<1> DEFINE k == IndexOf(j, a)
           i == Replace(j, a, e)
<1>1. CASE Has(j, a)
  <2>1. k \in DOMAIN j /\ j[k].rid = a
    BY <1>1, IndexOfHolds
  <2>2. CanReplace(j, a, e)
    BY <1>1 DEF CanReplace
  <2>3. i = [j EXCEPT ![k] = e]
    BY <2>2 DEF Replace
  <2> HIDE DEF k, i
  <2>4. PutAt(j, k, e, i)
    BY <2>3, SeqExcept
  <2>5. DOMAIN j = 1 .. Len(j) /\ DOMAIN i = DOMAIN j
    BY <2>4, SeqDomain DEF PutAt
  <2>6. \A n \in DOMAIN i : i[n] = IF n = k THEN e ELSE j[n]
    BY <2>4, <2>5 DEF PutAt
  <2>7. e.act = j[k].act
    BY <2>1 DEF Names
  <2>8. Brief(i)
    <3>1. ASSUME NEW m \in DOMAIN i, NEW n \in DOMAIN i, Alike(i[m], i[n])
          PROVE  m = n
      <4>1. Alike(j[m], j[n])
        BY <2>1, <2>5, <2>6, <2>7, <3>1 DEF Alike
      <4>2. QED
        BY <2>5, <3>1, <4>1 DEF Brief
    <3>2. QED
      BY <3>1 DEF Brief
  <2>9. ASSUME NEW n \in DOMAIN i, n # k
        PROVE  i[n].rid # e.rid /\ Comes(i[n], j, a)
    <3>1. i[n] = j[n] /\ n \in DOMAIN j
      BY <2>5, <2>6, <2>9
    <3>2. j[n].rid # a
      BY <2>1, <2>9, <3>1 DEF Brief, Alike
    <3>3. QED
      BY <3>1, <3>2 DEF Comes, Same
  <2>10. Carries(j, a, i, e.rid, e.act)
    BY <2>6, <2>8, <2>9 DEF Carries
  <2>11. QED
    BY <2>10 DEF i
<1>2. CASE ~Has(j, a)
  <2>1. i = j
    BY <1>2 DEF Replace, CanReplace
  <2> HIDE DEF i
  <2>2. \A n \in DOMAIN j : j[n].rid # e.rid /\ Comes(j[n], j, a)
    BY <1>2 DEF Has, Comes, Same
  <2>3. Carries(j, a, i, e.rid, e.act)
    BY <2>1, <2>2 DEF Carries
  <2>4. QED
    BY <2>3 DEF i
<1>3. QED
  BY <1>1, <1>2

\* A new entry unlike all others keeps the journal brief.
LEMMA AppendBrief ==
    ASSUME NEW j, IsSeq(j), Brief(j), NEW e, \A n \in DOMAIN j : ~ Alike(j[n], e)
    PROVE  Brief(Append(j, e)) /\ Names(Append(j, e), e.rid, e.act)
<1> DEFINE q == Append(j, e)
<1>1. /\ IsSeq(q) /\ Len(q) = Len(j) + 1 /\ q[Len(j) + 1] = e
      /\ \A m \in 1 .. Len(j) : q[m] = j[m]
  BY SeqAppend
<1>2. Len(j) \in Nat /\ DOMAIN j = 1 .. Len(j) /\ DOMAIN q = 1 .. (Len(j) + 1)
  BY <1>1, SeqDomain
<1> HIDE DEF q
<1>3. \A m \in DOMAIN j : ~ Alike(j[m], e) /\ ~ Alike(e, j[m])
  BY DEF Alike
<1>4. \A m \in DOMAIN q : m \in DOMAIN j \/ m = Len(j) + 1
  BY <1>2
<1>5. ASSUME NEW m \in DOMAIN q, NEW k \in DOMAIN q, Alike(q[m], q[k])
      PROVE  m = k
  <2>1. CASE m \in DOMAIN j /\ k \in DOMAIN j
    BY <1>1, <1>2, <1>5, <2>1 DEF Brief
  <2>2. CASE m \notin DOMAIN j \/ k \notin DOMAIN j
    BY <1>1, <1>2, <1>3, <1>4, <1>5, <2>2
  <2>3. QED
    BY <2>1, <2>2
<1>6. ASSUME NEW m \in DOMAIN q, q[m].rid = e.rid PROVE q[m].act = e.act
  <2>1. m \notin DOMAIN j
    BY <1>1, <1>2, <1>6 DEF Alike
  <2>2. QED
    BY <1>1, <1>4, <1>6, <2>1
<1>7. Brief(q) /\ Names(q, e.rid, e.act)
  BY <1>5, <1>6 DEF Brief, Names
<1>8. QED
  BY <1>7 DEF q

\* A request that is recorded is named.
LEMMA RecordBrief ==
    ASSUME NEW j, IsSeq(j), Brief(j), NEW e, \A n \in DOMAIN j : ~ Alike(j[n], e)
    PROVE  Brief(Record(j, e)) /\ Names(Record(j, e), e.rid, e.act)
<1>1. Names(j, e.rid, e.act)
  BY DEF Names, Alike
<1>2. Record(j, e) \in {j, Append(j, e)}
  BY DEF Record
<1>3. QED
  BY <1>1, <1>2, AppendBrief

\* A brief journal holds two entries at most.
LEMMA BriefIsShort ==
    ASSUME NEW j, IsSeq(j), Brief(j)
    PROVE  /\ Len(j) <= 2 /\ Cardinality(ResolutionsIn(j)) <= 1
           /\ \A i, k \in DOMAIN j : j[i].rid = j[k].rid => i = k
<1>1. DOMAIN j = 1 .. Len(j) /\ Len(j) \in Nat
  BY SeqDomain
<1>2. Len(j) <= 2
  <2> SUFFICES ASSUME ~ Len(j) <= 2 PROVE FALSE
    OBVIOUS
  <2>1. 1 \in DOMAIN j /\ 2 \in DOMAIN j /\ 3 \in DOMAIN j
    BY <1>1
  <2>2. Alike(j[1], j[2]) \/ Alike(j[1], j[3]) \/ Alike(j[2], j[3])
    BY DEF Alike
  <2>3. 1 = 2 \/ 1 = 3 \/ 2 = 3
    BY <2>1, <2>2 DEF Brief
  <2>4. QED
    BY <2>3
<1> DEFINE R == ResolutionsIn(j)
<1>3. Cardinality(R) <= 1
  <2>1. \A i, k \in R : i = k
    BY DEF ResolutionsIn, Brief, Alike
  <2>2. R = {} \/ \E i : R = {i}
    BY <2>1
  <2> HIDE DEF R
  <2>3. Cardinality(R) = 0 \/ Cardinality(R) = 1
    BY <2>2, FS_EmptySet, FS_Singleton
  <2>4. QED
    BY <2>3
<1>4. \A i, k \in DOMAIN j : j[i].rid = j[k].rid => i = k
  BY DEF Brief, Alike
<1>5. QED
  BY <1>2, <1>3, <1>4

------------------------------------------------------------------------------
(* Journaled requests                                                      *)

\* A session is open, or the request waits.
LEMMA EnsureOpenHolds ==
    ASSUME NEW w, NEW D, Good(w, D), NEW tryConnect, NEW o \in EnsureOpen(w, tryConnect)
    PROVE  Along(w, o.w, D) /\ o.w.s.journal = w.s.journal
<1>1. CASE w.s.id # 0
  <2>1. o = [w |-> w, ok |-> TRUE]
    BY <1>1 DEF EnsureOpen
  <2>2. QED
    BY <2>1, AlongSelf
<1>2. CASE w.s.id = 0
  BY <1>2, OpenHolds DEF EnsureOpen
<1>3. QED
  BY <1>1, <1>2

\* Response r decides about a request for act, which leaves the journal.
Settles(r, act) ==
    ~IsUncertain(r) /\ (IsSuccessful(r) \/ (~IsStale(r) /\ act.op # "resolve"))

\* The journal after an attempt that was answered
Settlement(v, a, r, collect, o) ==
    LET renewal == [rid |-> FreshRid(v), act |-> a.act, exp |-> v.s.rev]
        collected == IF collect THEN CollectResponseEffects(v, r) ELSE v
    IN  \/ /\ Settles(r, a.act)
           /\ \/ o = [w |-> [collected EXCEPT !.s.journal = Acknowledge(@, a.rid)],
                      r |-> r, a |-> a]
              \/ o = [w |-> [v EXCEPT !.s.journal = Acknowledge(@, a.rid)],
                      r |-> r, a |-> a]
        \/ /\ ~Settles(r, a.act)
           /\ \/ o = [w |-> v, r |-> r, a |-> a]
              \/ o = [w |-> [v EXCEPT !.s.journal =
                                Replace(@, a.rid, JournalEntry(v.s, renewal))],
                      r |-> r, a |-> renewal]

\* What remains of the journal of the attempt, o, at request a for act
Carried(j, a, o, act) ==
    LET i == o.w.s.journal
    IN  /\ Carries(j, a, i, o.a.rid, act)
        /\ Settles(o.r, act) => \A n \in DOMAIN i : i[n].rid # o.a.rid

\* An acknowledgement changes the journal only.
LEMMA AckedHolds ==
    ASSUME NEW v, NEW D, Good(v, D), ~v.s.ctx.secure, NEW rid,
           NEW u, u = [v EXCEPT !.s.journal = Acknowledge(@, rid)]
    PROVE  Refiled(v, u, Acknowledge(v.s.journal, rid), D)
<1> DEFINE j == Acknowledge(v.s.journal, rid)
<1>1. JournalIn(j, D)
  BY JournalOf, AcknowledgeHolds
<1>2. u = [v EXCEPT !.s.journal = j]
  OBVIOUS
<1> HIDE DEF j
<1>3. Refiled(v, u, j, D)
  BY <1>1, <1>2, JournalChange
<1>4. QED
  BY <1>3 DEF j

\* So does the renewal of an entry.
LEMMA RenewedHolds ==
    ASSUME NEW v, NEW D, Good(v, D), ~v.s.ctx.secure, NEW rid, NEW e, EntryIn(e, D),
           NEW u, u = [v EXCEPT !.s.journal = Replace(@, rid, e)]
    PROVE  Refiled(v, u, Replace(v.s.journal, rid, e), D)
<1> DEFINE j == Replace(v.s.journal, rid, e)
<1>1. JournalIn(j, D)
  BY JournalOf, ReplaceHolds
<1>2. u = [v EXCEPT !.s.journal = j]
  OBVIOUS
<1> HIDE DEF j
<1>3. Refiled(v, u, j, D)
  BY <1>1, <1>2, JournalChange
<1>4. QED
  BY <1>3 DEF j

\* An answered entry leaves the journal, or waits in it under its own ID or a
\* new one.
LEMMA SettlementHolds ==
    ASSUME NEW v, NEW D, Good(v, D), ~v.s.ctx.secure, NEW act, IsAction(act, D),
           NEW a, Asks(a, act), NEW r, Reply(r, D), NEW collect, NEW o,
           Settlement(v, a, r, collect, o)
    PROVE  /\ Executed(v, o, act, D)
           /\ Brief(v.s.journal) /\ Names(v.s.journal, a.rid, act)
                => Carried(v.s.journal, a.rid, o, act)
<1> DEFINE renewal == [rid |-> FreshRid(v), act |-> a.act, exp |-> v.s.rev]
           e == JournalEntry(v.s, renewal)
           collected == IF collect THEN CollectResponseEffects(v, r) ELSE v
           Acked(u) == [u EXCEPT !.s.journal = Acknowledge(@, a.rid)]
           n == [v EXCEPT !.s.journal = Replace(@, a.rid, e)]
           j == v.s.journal
<1>1. IsSeq(j)
  BY JournalOf DEF JournalIn
<1>2. Touched(v, collected, D) /\ collected.s.journal = v.s.journal
  BY CollectHolds, AlongSelf DEF Touched
<1>3. Asks(renewal, act) /\ renewal.rid = FreshRid(v) /\ e.rid = FreshRid(v) /\ e.act = act
  BY FreshRidIn DEF Asks, JournalEntry
<1>4. \/ /\ Settles(r, act)
         /\ \/ o = [w |-> Acked(collected), r |-> r, a |-> a]
            \/ o = [w |-> Acked(v), r |-> r, a |-> a]
      \/ /\ ~Settles(r, act)
         /\ \/ o = [w |-> v, r |-> r, a |-> a]
            \/ o = [w |-> n, r |-> r, a |-> renewal]
  BY DEF Settlement, Asks
<1>5. EntryIn(e, D)
  <2> HIDE DEF renewal
  <2>1. QED
    BY <1>3, JournalEntryHolds
<1>6. n = [v EXCEPT !.s.journal = Replace(@, a.rid, e)]
  OBVIOUS
<1> HIDE DEF renewal, collected, e, n
<1>7. Good(collected, D) /\ ~collected.s.ctx.secure /\ Along(v, collected, D)
  BY <1>2 DEF Touched, Along, Within
<1>8. ASSUME NEW u, Good(u, D), ~u.s.ctx.secure, Along(v, u, D), u.s.journal = v.s.journal,
             o = [w |-> Acked(u), r |-> r, a |-> a]
      PROVE  Executed(v, o, act, D) /\ (Brief(j) /\ Names(j, a.rid, act) => Carried(j, a.rid, o, act))
  <2> DEFINE k == Acked(u)
  <2>1. k = [u EXCEPT !.s.journal = Acknowledge(@, a.rid)] /\ o.w = k /\ o.r = r /\ o.a = a
    BY <1>8
  <2> HIDE DEF k, Acked
  <2>7. Refiled(u, k, Acknowledge(u.s.journal, a.rid), D)
    BY <1>8, <2>1, AckedHolds
  <2>2. Touched(u, k, D) /\ k.s.journal = Acknowledge(j, a.rid)
    BY <1>8, <2>7 DEF Refiled
  <2>3. Along(v, k, D)
    BY <1>8, <2>2, AlongThen DEF Touched
  <2>4. Executed(v, o, act, D)
    BY <2>1, <2>3 DEF Executed, Answered
  <2>5. ASSUME Brief(j), Names(j, a.rid, act)
        PROVE  /\ Carries(j, a.rid, k.s.journal, a.rid, act)
               /\ \A m \in DOMAIN k.s.journal : k.s.journal[m].rid # a.rid
    BY <1>1, <2>2, <2>5, CarriesOthers
  <2>6. QED
    BY <2>1, <2>4, <2>5 DEF Carried
<1>9. CASE o = [w |-> v, r |-> r, a |-> a] /\ ~Settles(r, act)
  <2>1. o.w = v /\ o.r = r /\ o.a = a
    BY <1>9
  <2>2. Executed(v, o, act, D)
    BY <2>1, AlongSelf DEF Executed, Answered
  <2>3. ASSUME Brief(j), Names(j, a.rid, act) PROVE Carries(j, a.rid, j, a.rid, act)
    BY <1>1, <2>3, CarriesSelf, RequestsSelf
  <2>4. QED
    BY <1>9, <2>1, <2>2, <2>3 DEF Carried
<1>10. CASE o = [w |-> n, r |-> r, a |-> renewal] /\ ~Settles(r, act)
  <2>1. o.w = n /\ o.r = r /\ o.a = renewal
    BY <1>10
  <2>6. Refiled(v, n, Replace(v.s.journal, a.rid, e), D)
    BY <1>5, <1>6, RenewedHolds
  <2>2. Touched(v, n, D) /\ n.s.journal = Replace(j, a.rid, e)
    BY <2>6 DEF Refiled
  <2>3. Executed(v, o, act, D)
    BY <1>3, <2>1, <2>2 DEF Executed, Answered, Touched
  <2>4. ASSUME Brief(j), Names(j, a.rid, act) PROVE Carries(j, a.rid, n.s.journal, renewal.rid, act)
    <3>1. Names(j, a.rid, e.act) /\ \A m \in DOMAIN j : j[m].rid # e.rid
      BY <1>3, <2>4, FreshRidIsNew
    <3>2. Carries(j, a.rid, Replace(j, a.rid, e), e.rid, e.act)
      BY <1>1, <2>4, <3>1, CarriesRenewed
    <3>3. QED
      BY <1>3, <2>2, <3>2
  <2>5. QED
    BY <1>10, <2>1, <2>3, <2>4 DEF Carried
<1>11. CASE o = [w |-> Acked(collected), r |-> r, a |-> a]
  BY <1>2, <1>7, <1>8, <1>11
<1>12. CASE o = [w |-> Acked(v), r |-> r, a |-> a]
  BY AlongSelf, <1>8, <1>12
<1>13. QED
  BY <1>4, <1>9, <1>10, <1>11, <1>12

\* The request is about to be sent.
Marked(w, a) == [w EXCEPT !.s.journal = MarkSent(@, a.rid)]

\* x was sent in a session that w was not bound to
Reposted(w, x, a) ==
    IF x.w.s.id \in {0, w.s.id} THEN x.w
    ELSE [x.w EXCEPT !.s.journal = Rebase(@, a.rid, TRUE, x.a.exp, x.w.s.id)]

\* The steps of an attempt
Attempted(w, a, tryConnect, collect, lifecycle, o) ==
    \/ o = [w |-> w, r |-> NoResponse, a |-> a]
    \/ \E q \in EnsureOpen(Marked(w, a), tryConnect) :
          \/ o = [w |-> q.w, r |-> NoResponse, a |-> a]
          \/ \E x \in ExecuteV2(q.w, a, tryConnect, ~lifecycle, lifecycle) :
                  Settlement(Reposted(w, x, a), a, x.r, collect, o)

\* An attempt goes through these steps.
LEMMA AttemptIs ==
    ASSUME NEW w, NEW a, NEW tryConnect, NEW collect, NEW lifecycle,
           NEW o \in AttemptJournaled(w, a, tryConnect, collect, lifecycle)
    PROVE  Attempted(w, a, tryConnect, collect, lifecycle, o)
<1> DEFINE bound == w.s.id
           marked == [w EXCEPT !.s.journal = MarkSent(@, a.rid)]
           rebound(x) ==
               IF x.w.s.id \in {0, bound} THEN x.w
               ELSE [x.w EXCEPT !.s.journal = Rebase(@, a.rid, TRUE, x.a.exp, x.w.s.id)]
           renewal(v) == [rid |-> FreshRid(v), act |-> a.act, exp |-> v.s.rev]
           renewed(v) == [v EXCEPT !.s.journal =
                              Replace(@, a.rid, JournalEntry(v.s, renewal(v)))]
           acknowledged(v) == [v EXCEPT !.s.journal = Acknowledge(@, a.rid)]
           collected(v, r) == IF collect THEN CollectResponseEffects(v, r) ELSE v
           settled(v, r) ==
               IF IsSuccessful(r)
               THEN [w |-> acknowledged(collected(v, r)), r |-> r, a |-> a]
               ELSE IF IsUncertain(r) THEN [w |-> v, r |-> r, a |-> a]
               ELSE IF IsStale(r) \/ a.act.op = "resolve"
               THEN [w |-> renewed(v), r |-> r, a |-> renewal(v)]
               ELSE [w |-> acknowledged(v), r |-> r, a |-> a]
           Tried(q) == {settled(rebound(x), x.r) :
                          x \in ExecuteV2(q.w, a, tryConnect, ~lifecycle, lifecycle)}
           Rest(q) == IF ~q.ok THEN {[w |-> q.w, r |-> NoResponse, a |-> a]} ELSE Tried(q)
<1>1. ASSUME NEW v, NEW r PROVE Settlement(v, a, r, collect, settled(v, r))
  <2>1. /\ IsSuccessful(r) => ~IsUncertain(r)
        /\ IsStale(r) => ~IsSuccessful(r) /\ ~IsUncertain(r)
    BY DEF IsSuccessful, IsUncertain, IsStale
  <2>2. QED
    BY <2>1 DEF Settlement, Settles
<1>2. AttemptJournaled(w, a, tryConnect, collect, lifecycle)
        = IF ~Has(w.s.journal, a.rid) THEN {[w |-> w, r |-> NoResponse, a |-> a]}
          ELSE UNION {Rest(q) : q \in EnsureOpen(marked, tryConnect)}
  BY DEF AttemptJournaled
<1>3. marked = Marked(w, a) /\ \A x : rebound(x) = Reposted(w, x, a)
  BY DEF Marked, Reposted
<1> HIDE DEF settled, rebound, marked
<1>4. CASE o \in UNION {Rest(q) : q \in EnsureOpen(marked, tryConnect)}
  <2>1. PICK q \in EnsureOpen(marked, tryConnect) : o \in Rest(q)
    <3> HIDE DEF Rest
    <3>1. QED
      BY <1>4
  <2>2. CASE ~q.ok
    BY <1>3, <2>1, <2>2 DEF Attempted
  <2>3. CASE q.ok
    <3>1. PICK x \in ExecuteV2(q.w, a, tryConnect, ~lifecycle, lifecycle) :
              o = settled(rebound(x), x.r)
      BY <2>1, <2>3
    <3>2. Settlement(Reposted(w, x, a), a, x.r, collect, o)
      BY <1>1, <1>3, <3>1
    <3>3. QED
      BY <1>3, <2>1, <3>1, <3>2 DEF Attempted
  <2>4. QED
    BY <2>2, <2>3
<1>5. CASE o = [w |-> w, r |-> NoResponse, a |-> a]
  BY <1>5 DEF Attempted
<1>6. QED
  BY <1>2, <1>4, <1>5

\* Before it is sent, an entry is marked.
LEMMA MarkedHolds ==
    ASSUME NEW w, NEW D, Good(w, D), ~w.s.ctx.secure, NEW a
    PROVE  Touched(w, Marked(w, a), D) /\ Requests(w.s.journal, Marked(w, a).s.journal)
<1> DEFINE j == MarkSent(w.s.journal, a.rid)
           v == Marked(w, a)
<1>1. JournalIn(j, D) /\ Requests(w.s.journal, j)
  BY JournalOf, MarkSentHolds, MarkedRequests
<1>2. v = [w EXCEPT !.s.journal = j]
  BY DEF Marked
<1> HIDE DEF j, v
<1>3. Refiled(w, v, j, D)
  BY <1>1, <1>2, JournalChange
<1>4. QED
  BY <1>1, <1>3 DEF Refiled, v

\* Afterwards it may belong to another session.
LEMMA RepostedHolds ==
    ASSUME NEW w, NEW D, NEW x, Good(x.w, D), ~x.w.s.ctx.secure, NEW a
    PROVE  /\ Along(x.w, Reposted(w, x, a), D)
           /\ Requests(x.w.s.journal, Reposted(w, x, a).s.journal)
<1> DEFINE j == Rebase(x.w.s.journal, a.rid, TRUE, x.a.exp, x.w.s.id)
           u == x.w
           v == Reposted(w, x, a)
<1>1. CASE x.w.s.id \in {0, w.s.id}
  <2>1. v = u
    BY <1>1 DEF Reposted
  <2>2. QED
    BY <2>1, AlongSelf, RequestsSelf
<1>2. CASE x.w.s.id \notin {0, w.s.id}
  <2>1. JournalIn(j, D) /\ Requests(u.s.journal, j)
    BY JournalOf, RebaseHolds, RebasedRequests
  <2>2. v = [u EXCEPT !.s.journal = j]
    BY <1>2 DEF Reposted
  <2>3. Good(u, D) /\ ~u.s.ctx.secure
    OBVIOUS
  <2> HIDE DEF j, v, u
  <2>4. Refiled(u, v, j, D)
    BY <2>1, <2>2, <2>3, JournalChange
  <2>5. QED
    BY <2>1, <2>4 DEF Refiled, Touched, u, v
<1>3. QED
  BY <1>1, <1>2

\* o is an outcome of a journaled request a for act, w the world before
Delivered(w, a, o, act, D) ==
    /\ Executed(w, o, act, D)
    /\ Brief(w.s.journal) /\ Names(w.s.journal, a.rid, act)
         => Carried(w.s.journal, a.rid, o, act)

\* One attempt at a journaled request.
LEMMA AttemptHolds ==
    ASSUME NEW w, NEW D, Good(w, D), ~w.s.ctx.secure, NEW act, IsAction(act, D),
           NEW a, Asks(a, act), NEW tryConnect, NEW collect, NEW lifecycle,
           NEW o \in AttemptJournaled(w, a, tryConnect, collect, lifecycle)
    PROVE  Delivered(w, a, o, act, D)
<1> DEFINE m == Marked(w, a)
           j == w.s.journal
<1>1. Attempted(w, a, tryConnect, collect, lifecycle, o)
  BY AttemptIs
<1>2. IsSeq(j) /\ ~Settles(NoResponse, act)
  BY JournalOf, NoResponseIs DEF JournalIn, Settles, IsUncertain
<1>3. CASE o = [w |-> w, r |-> NoResponse, a |-> a]
  <2>1. o.w = w /\ o.r = NoResponse /\ o.a = a
    BY <1>3
  <2>2. Executed(w, o, act, D)
    BY <2>1, AlongSelf, NoReply DEF Executed, Answered
  <2>3. ASSUME Brief(j), Names(j, a.rid, act) PROVE Carries(j, a.rid, j, a.rid, act)
    BY <1>2, <2>3, CarriesSelf, RequestsSelf
  <2>4. QED
    BY <1>2, <2>1, <2>2, <2>3 DEF Delivered, Carried
<1>4. ASSUME NEW q \in EnsureOpen(m, tryConnect),
             \/ o = [w |-> q.w, r |-> NoResponse, a |-> a]
             \/ \E x \in ExecuteV2(q.w, a, tryConnect, ~lifecycle, lifecycle) :
                    Settlement(Reposted(w, x, a), a, x.r, collect, o)
      PROVE  Delivered(w, a, o, act, D)
  <2>1. Touched(w, m, D) /\ Requests(j, m.s.journal)
    BY MarkedHolds
  <2> HIDE DEF m
  <2>2. Along(w, m, D) /\ Good(m, D)
    BY <2>1 DEF Touched, Along
  <2>3. Along(m, q.w, D) /\ q.w.s.journal = m.s.journal
    BY <1>4, <2>2, EnsureOpenHolds
  <2>4. Along(w, q.w, D) /\ Good(q.w, D)
    BY <2>2, <2>3, AlongThen DEF Along
  <2>5. IsSeq(q.w.s.journal) /\ Requests(j, q.w.s.journal)
    BY <2>1, <2>3, <2>4, JournalOf DEF JournalIn
  <2>6. ASSUME Brief(j), Names(j, a.rid, act)
        PROVE  Carries(j, a.rid, q.w.s.journal, a.rid, act)
    BY <1>2, <2>5, <2>6, CarriesSelf
  <2>7. CASE o = [w |-> q.w, r |-> NoResponse, a |-> a]
    <3>1. o.w = q.w /\ o.r = NoResponse /\ o.a = a
      BY <2>7
    <3>2. Executed(w, o, act, D)
      BY <2>4, <3>1, NoReply DEF Executed, Answered
    <3>3. QED
      BY <1>2, <2>6, <3>1, <3>2 DEF Delivered, Carried
  <2>8. ASSUME NEW x \in ExecuteV2(q.w, a, tryConnect, ~lifecycle, lifecycle),
               Settlement(Reposted(w, x, a), a, x.r, collect, o)
        PROVE  Delivered(w, a, o, act, D)
    <3> DEFINE v == Reposted(w, x, a)
               i == x.w.s.journal
    <3>1. Executed(q.w, x, act, D) /\ Leaves(q.w, x.w)
      BY <2>4, ExecuteHolds DEF Sent
    <3>2. Along(w, x.w, D) /\ Reply(x.r, D)
      BY <2>4, <3>1, AlongThen DEF Executed, Answered
    <3>3. Good(x.w, D) /\ ~x.w.s.ctx.secure
      BY <3>2 DEF Along, Within
    <3>4. Along(x.w, v, D) /\ Requests(i, v.s.journal)
      BY <3>3, RepostedHolds
    <3>5. Along(w, v, D) /\ Good(v, D) /\ ~v.s.ctx.secure
      BY <3>2, <3>4, AlongThen DEF Along, Within
    <3>6. IsSeq(i) /\ IsSeq(v.s.journal)
      BY <3>3, <3>5, JournalOf DEF JournalIn
    <3>7. Settlement(v, a, x.r, collect, o)
      BY <2>8
    <3> HIDE DEF v
    <3>8. /\ Executed(v, o, act, D)
          /\ Brief(v.s.journal) /\ Names(v.s.journal, a.rid, act)
               => Carried(v.s.journal, a.rid, o, act)
      BY <3>2, <3>5, <3>7, SettlementHolds
    <3>9. Executed(w, o, act, D)
      BY <3>5, <3>8, ExecutedThen
    <3>10. ASSUME Brief(j), Names(j, a.rid, act)
           PROVE  Carried(j, a.rid, o, act)
      <4>1. Carries(j, a.rid, i, a.rid, act)
        BY <2>6, <3>1, <3>10, CarriesNone DEF Leaves
      <4>2. Brief(i) /\ Names(i, a.rid, act)
        BY <4>1, CarriedNames DEF Carries
      <4>3. Carries(i, a.rid, v.s.journal, a.rid, act)
        BY <3>4, <3>6, <4>2, CarriesSelf
      <4>4. Brief(v.s.journal) /\ Names(v.s.journal, a.rid, act)
        BY <4>3, CarriedNames DEF Carries
      <4>5. Carried(v.s.journal, a.rid, o, act)
        BY <3>8, <4>4
      <4>6. Carries(j, a.rid, v.s.journal, a.rid, act)
        BY <4>1, <4>3, CarriesThen
      <4>7. Carries(v.s.journal, a.rid, o.w.s.journal, o.a.rid, act)
        BY <4>5 DEF Carried
      <4>8. Carries(j, a.rid, o.w.s.journal, o.a.rid, act)
        BY <4>6, <4>7, CarriesThen
      <4>9. QED
        BY <4>5, <4>8 DEF Carried
    <3>11. QED
      BY <3>9, <3>10 DEF Delivered
  <2>9. QED
    BY <1>4, <2>7, <2>8
<1>5. QED
  BY <1>1, <1>3, <1>4 DEF Attempted

\* A journaled request, with its retries.
LEMMA ExecuteJournaledHolds ==
    ASSUME NEW w, NEW D, Good(w, D), ~w.s.ctx.secure, NEW act, IsAction(act, D),
           NEW a, Asks(a, act), NEW tryConnect, NEW collect, NEW lifecycle,
           NEW o \in ExecuteJournaledV2(w, a, tryConnect, collect, lifecycle)
    PROVE  Delivered(w, a, o, act, D)
<1> DEFINE j == w.s.journal
<1>1. PICK p \in AttemptJournaled(w, a, tryConnect, collect, lifecycle) :
        o = p \/ o \in AttemptJournaled(p.w, p.a, tryConnect, collect, lifecycle)
  BY DEF ExecuteJournaledV2, OnceMore
<1>2. Delivered(w, a, p, act, D)
  BY AttemptHolds
<1>3. Along(w, p.w, D) /\ Good(p.w, D) /\ ~p.w.s.ctx.secure /\ Asks(p.a, act)
  BY <1>2 DEF Delivered, Executed, Answered, Along, Within
<1>4. CASE o \in AttemptJournaled(p.w, p.a, tryConnect, collect, lifecycle)
  <2>1. Delivered(p.w, p.a, o, act, D)
    BY <1>3, <1>4, AttemptHolds
  <2>2. Executed(w, o, act, D)
    BY <1>3, <2>1, ExecutedThen DEF Delivered
  <2>3. ASSUME Brief(j), Names(j, a.rid, act) PROVE Carried(j, a.rid, o, act)
    <3>1. Carries(j, a.rid, p.w.s.journal, p.a.rid, act)
      BY <1>2, <2>3 DEF Delivered, Carried
    <3>2. Brief(p.w.s.journal) /\ Names(p.w.s.journal, p.a.rid, act)
      BY <3>1, CarriedNames DEF Carries
    <3>3. Carried(p.w.s.journal, p.a.rid, o, act)
      BY <2>1, <3>2 DEF Delivered
    <3>4. Carries(p.w.s.journal, p.a.rid, o.w.s.journal, o.a.rid, act)
      BY <3>3 DEF Carried
    <3>5. Carries(j, a.rid, o.w.s.journal, o.a.rid, act)
      BY <3>1, <3>4, CarriesThen
    <3>6. QED
      BY <3>3, <3>5 DEF Carried
  <2>4. QED
    BY <2>2, <2>3 DEF Delivered
<1>5. QED
  BY <1>1, <1>2, <1>4

------------------------------------------------------------------------------
(* Replay                                                                  *)

Replaying(w, t, D) ==
    DOMAIN t = {"w", "ok", "term", "conf"} /\ Along(w, t.w, D) /\ Reply(t.term, D)

\* i holds only requests of todo after the first n
StillDue(todo, n, i) ==
    \A m \in DOMAIN i : \E k \in DOMAIN todo : k > n /\ Same(todo[k], i[m])

\* The turns of the first n entries of todo are over in t
Turned(todo, n, t) ==
    Brief(t.w.s.journal) /\ (t.ok => StillDue(todo, n, t.w.s.journal))

\* One more turn leads from t to y
NextTurn(t, e, y) ==
    \A todo : \A n \in DOMAIN todo :
        IsSeq(todo) /\ Brief(todo) /\ todo[n] = e /\ Turned(todo, n - 1, t)
            => Turned(todo, n, y)

\* One entry of the journal is replayed.
LEMMA ReplayEntryHolds ==
    ASSUME NEW w, NEW D, Good(w, D), ~w.s.ctx.secure, NEW t, Replaying(w, t, D),
           NEW e, EntryIn(e, D), NEW tryConnect, NEW lifecycle,
           NEW y \in ReplayEntry(t, e, tryConnect, lifecycle)
    PROVE  Replaying(w, y, D) /\ NextTurn(t, e, y)
<1> DEFINE u == t.w
           bound == e.sent /\ e.sid = u.s.id
           a == [rid |-> e.rid, act |-> e.act, exp |-> IF bound THEN e.exp ELSE u.s.rev]
           entry == JournalEntry(u.s, a)
           moved == IF bound THEN u ELSE [u EXCEPT !.s.journal = Replace(@, e.rid, entry)]
           next(o) ==
               IF IsSuccessful(o.r)
               THEN [t EXCEPT !.w = o.w, !.conf = @ \/ t.term # NoResponse]
               ELSE IF e.act.op = "resolve" \/ IsUncertain(o.r) \/ IsStale(o.r)
               THEN [t EXCEPT !.w = o.w, !.ok = FALSE]
               ELSE [t EXCEPT !.w = o.w, !.term = o.r]
           Tried == {next(o) : o \in ExecuteJournaledV2(moved, a, tryConnect, TRUE, lifecycle)}
<1>1. \/ y = t /\ ~t.ok
      \/ y = [t EXCEPT !.ok = FALSE]
      \/ t.ok /\ y \in Tried
  BY DEF ReplayEntry
<1>2. Good(u, D) /\ ~u.s.ctx.secure /\ Along(w, u, D)
  BY DEF Replaying, Along, Within
<1>3. Asks(a, e.act) /\ IsAction(e.act, D) /\ a.rid = e.rid
  BY DEF Asks, EntryIn
<1>10. entry.rid = e.rid /\ entry.act = e.act
  BY DEF JournalEntry
<1> HIDE DEF a
<1>4. EntryIn(entry, D)
  BY <1>3, JournalEntryHolds
<1> HIDE DEF entry
<1>5. /\ Touched(u, moved, D)
      /\ Names(u.s.journal, e.rid, e.act) => Requests(u.s.journal, moved.s.journal)
  <2>1. CASE bound
    BY <1>2, <2>1, AlongSelf, RequestsSelf DEF Touched
  <2>2. CASE ~bound
    <3> DEFINE j == Replace(u.s.journal, e.rid, entry)
    <3>1. JournalIn(j, D) /\ IsSeq(u.s.journal)
      BY <1>2, <1>4, JournalOf, ReplaceHolds DEF JournalIn
    <3>2. Names(u.s.journal, e.rid, e.act) => Requests(u.s.journal, j)
      BY <1>10, <3>1, ReplacedRequests
    <3>3. moved = [u EXCEPT !.s.journal = j]
      BY <2>2
    <3> HIDE DEF j, moved, u
    <3>4. Refiled(u, moved, j, D)
      BY <1>2, <3>1, <3>3, JournalChange
    <3>5. QED
      BY <3>2, <3>4 DEF Refiled
  <2>3. QED
    BY <2>1, <2>2
<1> HIDE DEF moved
<1>6. Good(moved, D) /\ ~moved.s.ctx.secure /\ Along(w, moved, D)
  BY <1>2, <1>5, AlongThen DEF Touched, Along, Within
<1>7. CASE (y = t /\ ~t.ok) \/ y = [t EXCEPT !.ok = FALSE]
  <2>1. DOMAIN y = DOMAIN t /\ y.w = t.w /\ ~y.ok /\ y.term = t.term
    BY <1>7 DEF Replaying
  <2>2. QED
    BY <2>1 DEF Replaying, NextTurn, Turned
<1>8. CASE t.ok /\ y \in Tried
  <2>1. PICK o \in ExecuteJournaledV2(moved, a, tryConnect, TRUE, lifecycle) : y = next(o)
    BY <1>8
  <2>2. Delivered(moved, a, o, e.act, D)
    BY <1>3, <1>6, <2>1, ExecuteJournaledHolds
  <2>3. Along(w, o.w, D) /\ Reply(o.r, D)
    BY <1>6, <2>2, AlongThen DEF Delivered, Executed, Answered
  <2>4. DOMAIN y = DOMAIN t /\ y.w = o.w /\ y.term \in {t.term, o.r}
    BY <2>1 DEF Replaying
  <2>5. y.ok => Settles(o.r, e.act)
    <3>1. IsSuccessful(o.r) => ~IsUncertain(o.r)
      BY DEF IsSuccessful, IsUncertain
    <3>2. QED
      BY <2>1, <3>1 DEF Settles, Replaying
  <2> HIDE DEF next, Tried, bound
  <2>6. ASSUME NEW todo, NEW n \in DOMAIN todo, IsSeq(todo), Brief(todo), todo[n] = e,
               Turned(todo, n - 1, t)
        PROVE  Turned(todo, n, y)
    <3> DEFINE i == u.s.journal
               h == o.w.s.journal
    <3>1. Brief(i) /\ StillDue(todo, n - 1, i) /\ IsSeq(i) /\ IsSeq(moved.s.journal)
      BY <1>2, <1>6, <1>8, <2>6, JournalOf DEF Turned, JournalIn
    <3>2. n \in Nat /\ DOMAIN todo \subseteq Nat
      BY <2>6, SeqDomain
    <3>3. \A k \in DOMAIN todo : todo[k].rid = e.rid => k = n
      BY <2>6 DEF Brief, Alike
    <3>4. Names(i, e.rid, e.act)
      BY <2>6, <3>1, <3>3 DEF Names, StillDue, Same
    <3>5. Requests(i, moved.s.journal)
      BY <1>5, <3>4
    <3>6. Brief(moved.s.journal) /\ Names(moved.s.journal, a.rid, e.act)
      BY <1>3, <3>1, <3>4, <3>5, CarriesSelf, RequestsBrief
    <3>7. Carried(moved.s.journal, e.rid, o, e.act)
      BY <1>3, <2>2, <3>6 DEF Delivered
    <3>8. Carries(moved.s.journal, e.rid, h, o.a.rid, e.act)
      BY <3>7 DEF Carried
    <3>9. Carries(i, e.rid, h, o.a.rid, e.act)
      BY <3>1, <3>5, <3>8, CarriesFrom
    <3>10. Brief(h)
      BY <3>9 DEF Carries
    <3>11. ASSUME y.ok PROVE StillDue(todo, n, h)
      <4>1. \A m \in DOMAIN h : Comes(h[m], i, e.rid)
        BY <2>5, <3>7, <3>9, <3>11 DEF Carried, Carries
      <4> SUFFICES ASSUME NEW m \in DOMAIN h
                   PROVE  \E k \in DOMAIN todo : k > n /\ Same(todo[k], h[m])
        BY DEF StillDue
      <4>2. PICK l \in DOMAIN i : Same(i[l], h[m])
        BY <4>1 DEF Comes
      <4>3. PICK k \in DOMAIN todo : k > n - 1 /\ Same(todo[k], i[l])
        BY <3>1 DEF StillDue
      <4>4. Same(todo[k], h[m]) /\ h[m].rid # e.rid
        BY <4>1, <4>2, <4>3 DEF Same, Comes
      <4>5. k # n
        BY <2>6, <4>4 DEF Same
      <4>6. k > n
        BY <3>2, <4>3, <4>5
      <4>7. QED
        BY <4>4, <4>6
    <3>12. QED
      BY <2>4, <3>10, <3>11 DEF Turned
  <2>7. NextTurn(t, e, y)
    BY <2>6 DEF NextTurn
  <2>8. QED
    BY <2>3, <2>4, <2>7 DEF Replaying
<1>9. QED
  BY <1>1, <1>7, <1>8

\* What the replay leaves of a brief journal is brief, and nothing if it is not
\* cut short.
WorkedOff(w, o) ==
    Brief(w.s.journal) =>
        Brief(o.w.s.journal) /\ (o.ok => o.w.s.journal = <<>>)

\* The journal is replayed, oldest entry first.
LEMMA ReplayHolds ==
    ASSUME NEW w, NEW D, Good(w, D), ~w.s.ctx.secure, NEW tryConnect, NEW lifecycle,
           NEW o \in ReplayPendingV2(w, tryConnect, lifecycle)
    PROVE  Replaying(w, o, D) /\ WorkedOff(w, o)
<1> DEFINE todo == w.s.journal
           L == Len(todo)
           init == {[w |-> w, ok |-> TRUE, term |-> NoResponse, conf |-> FALSE]}
           Turn(S, n) == UNION {ReplayEntry(t, todo[n], tryConnect, lifecycle) : t \in S}
           after[n \in 0 .. L] == IF n = 0 THEN init ELSE Turn(after[n - 1], n)
           Turns(n, t) == Replaying(w, t, D) /\ (Brief(todo) => Turned(todo, n, t))
           Inv(S, n) == \A t \in S : Turns(n, t)
           Rec(f, N) == f = [n \in 0 .. N |-> IF n = 0 THEN init ELSE Turn(f[n - 1], n)]
           Bad == {N \in 0 .. L : ~ \E f : Rec(f, N)}
           Lost == {n \in 0 .. L : ~ Inv(after[n], n)}
<1>1. /\ L \in Nat /\ DOMAIN todo = 1 .. L /\ IsSeq(todo)
      /\ \A n \in 1 .. L : EntryIn(todo[n], D)
  BY JournalOf, SeqDomain DEF JournalIn
<1>2. Inv(init, 0)
  <2>1. TAKE t \in init
  <2>2. DOMAIN t = {"w", "ok", "term", "conf"} /\ t.w = w /\ t.term = NoResponse
    BY <2>1
  <2>3. Replaying(w, t, D)
    BY <2>2, AlongSelf, NoReply DEF Replaying
  <2>4. StillDue(todo, 0, todo)
    BY <1>1 DEF StillDue, Same
  <2>5. QED
    BY <2>2, <2>3, <2>4 DEF Turned
<1>3. ASSUME NEW n \in 1 .. L, NEW S, Inv(S, n - 1)
      PROVE  Inv(Turn(S, n), n)
  <2>1. TAKE y \in Turn(S, n)
  <2>2. PICK t \in S : y \in ReplayEntry(t, todo[n], tryConnect, lifecycle)
    BY <2>1
  <2>3. Turns(n - 1, t)
    BY <1>3
  <2> HIDE DEF todo, L
  <2>4. Replaying(w, y, D) /\ NextTurn(t, todo[n], y)
    BY <1>1, <2>2, <2>3, ReplayEntryHolds
  <2>5. n \in DOMAIN todo
    BY <1>1
  <2>6. QED
    BY <1>1, <2>3, <2>4, <2>5 DEF NextTurn
<1>4. o \in after[L]
  BY DEF ReplayPendingV2, AfterTurns
<1>5. ASSUME NEW f, Rec(f, L) PROVE Rec(after, L)
  BY <1>5
<1> HIDE DEF init, Inv, Turn, L, after, todo
<1>6. \E f : Rec(f, L)
  <2> SUFFICES ASSUME ~ \E f : Rec(f, L) PROVE FALSE
    OBVIOUS
  <2>1. L \in Bad /\ Bad \subseteq Nat
    BY <1>1
  <2>2. PICK N \in Bad : \A K \in Bad : N <= K
    <3> HIDE DEF Bad
    <3>1. QED
      BY <2>1, LeastNumber
  <2>3. N \in 0 .. L /\ ~ \E f : Rec(f, N)
    BY <2>2
  <2>4. CASE N = 0
    <3>1. Rec([n \in 0 .. 0 |-> init], 0)
      OBVIOUS
    <3>2. QED
      BY <2>3, <2>4, <3>1
  <2>5. CASE N > 0
    <3>1. N \in 1 .. L /\ N - 1 \in 0 .. L /\ ~ N <= N - 1
      BY <1>1, <2>3, <2>5
    <3>2. PICK g : Rec(g, N - 1)
      BY <2>2, <3>1
    <3> DEFINE f == [n \in 0 .. N |-> IF n = 0 THEN init ELSE Turn(g[n - 1], n)]
    <3>3. \A n \in 0 .. N : n # 0 => f[n - 1] = g[n - 1]
      BY <3>1, <3>2
    <3>4. Rec(f, N)
      BY <3>3
    <3>5. QED
      BY <2>3, <3>4
  <2>6. QED
    BY <1>1, <2>3, <2>4, <2>5
<1>7. after = [n \in 0 .. L |-> IF n = 0 THEN init ELSE Turn(after[n - 1], n)]
  BY <1>5, <1>6
<1>8. Lost = {}
  <2> SUFFICES ASSUME Lost # {} PROVE FALSE
    OBVIOUS
  <2>1. Lost \subseteq Nat
    BY <1>1
  <2>2. PICK n \in Lost : \A k \in Lost : n <= k
    <3> HIDE DEF Lost
    <3>1. QED
      BY <2>1, LeastNumber
  <2>3. n \in 0 .. L /\ ~ Inv(after[n], n)
    BY <2>2
  <2>4. n # 0
    BY <1>1, <1>2, <1>7, <2>3
  <2>5. n \in 1 .. L /\ n - 1 \in 0 .. L /\ ~ n <= n - 1
    BY <1>1, <2>3, <2>4
  <2>6. Inv(after[n - 1], n - 1)
    BY <2>2, <2>5
  <2>7. after[n] = Turn(after[n - 1], n)
    BY <1>7, <2>5
  <2>8. QED
    BY <1>3, <2>3, <2>5, <2>6, <2>7
<1>9. Inv(after[L], L)
  BY <1>1, <1>8
<1>10. Replaying(w, o, D) /\ (Brief(todo) => Turned(todo, L, o))
  BY <1>4, <1>9 DEF Inv
<1>11. ASSUME Brief(todo), o.ok PROVE o.w.s.journal = <<>>
  <2>1. StillDue(todo, L, o.w.s.journal)
    BY <1>10, <1>11 DEF Turned
  <2>2. DOMAIN o.w.s.journal = {}
    BY <1>1, <2>1 DEF StillDue
  <2>3. IsSeq(o.w.s.journal)
    BY <1>10, JournalOf DEF Replaying, Along, JournalIn
  <2> DEFINE i == o.w.s.journal
  <2> HIDE DEF i
  <2>6. Len(i) \in Nat /\ DOMAIN i = 1 .. Len(i)
    BY <2>3, SeqDomain DEF i
  <2>7. 1 \notin 1 .. Len(i)
    BY <2>2, <2>6 DEF i
  <2>4. Len(o.w.s.journal) = 0
    BY <2>6, <2>7 DEF i
  <2>5. QED
    BY <2>3, <2>4, SeqOfNone
<1>12. Brief(todo) => Brief(o.w.s.journal)
  BY <1>10 DEF Turned
<1>13. QED
  BY <1>10, <1>11, <1>12 DEF WorkedOff, todo

------------------------------------------------------------------------------
(* The entry points                                                        *)

\* A brief journal stays brief.
Keeps(w, v) == Brief(w.s.journal) => Brief(v.s.journal)

\* A journal that is left alone or emptied does.
LEMMA LeavesKeeps ==
    ASSUME NEW w, NEW v, Leaves(w, v)
    PROVE  Keeps(w, v)
BY EmptyIsBrief DEF Leaves, Keeps

\* A secure field has no journal.
LEMMA SecureIsBrief ==
    ASSUME NEW w, NEW D, Good(w, D), w.s.ctx.secure
    PROVE  Brief(w.s.journal)
BY EmptyIsBrief DEF Good, Held, ForgetsSecrets

\* A request of a secure field is sent without a journal.
LEMMA ExecuteSecureHolds ==
    ASSUME NEW w, NEW D, Good(w, D), NEW act, IsAction(act, D), NEW o \in ExecuteSecure(w, act)
    PROVE  Answered(w, o, D)
<1> DEFINE a == [rid |-> FreshRid(w), act |-> act, exp |-> w.s.rev]
<1>1. Asks(a, act) /\ o \in ExecuteV2(w, a, TRUE, TRUE, FALSE)
  BY FreshRidIn DEF Asks, ExecuteSecure
<1> HIDE DEF a
<1>2. QED
  BY <1>1, ExecuteHolds DEF Sent, Executed

\* A request of a secure field leaves nothing behind.
LEMMA TransactSecureHolds ==
    ASSUME NEW w, NEW D, Good(w, D), NEW act, IsAction(act, D), NEW o \in TransactSecure(w, act)
    PROVE  Answered(w, o, D)
<1> DEFINE c == [[[w.s EXCEPT !.journal = <<>>] EXCEPT !.known = FALSE] EXCEPT !.snap = NoSnapshot]
           v == [w EXCEPT !.s.journal = <<>>, !.s.known = FALSE, !.s.snap = NoSnapshot]
<1>1. v = [w EXCEPT !.s = c]
  BY DEF Good, Held, Net, Shape
<1>2. /\ IsClient(c) /\ c.ctx = w.s.ctx /\ c.id = w.s.id /\ c.fb = w.s.fb
      /\ c.ckpt = w.s.ckpt /\ c.snap = NoSnapshot /\ c.replayed = w.s.replayed
      /\ c.journal = <<>> /\ c.ns = w.s.ns /\ c.known = FALSE
      /\ c.rev = w.s.rev /\ c.highest = w.s.highest
  BY DEF Good, Held, Net, Shape, IsClient
<1> HIDE DEF c
<1>3. PICK p \in ExecuteSecure(v, act) : o = p \/ o \in ExecuteSecure(p.w, act)
  BY DEF TransactSecure, OnceMore
<1> HIDE DEF v
<1>4. ClientIn(c, D) /\ ForgetsSecrets(c)
  BY <1>2, NoSnapshotTyped, EmptyIsSeq DEF Good, Held, ClientIn, ForgetsSecrets, JournalIn
<1>5. Touched(w, v, D)
  BY <1>1, <1>2, <1>4, TouchedHolds
<1>6. Along(w, v, D) /\ Good(v, D)
  BY <1>5 DEF Touched, Along
<1>7. Answered(v, p, D) /\ Good(p.w, D)
  BY <1>3, <1>6, ExecuteSecureHolds DEF Answered, Along
<1>8. CASE o = p
  BY <1>6, <1>7, <1>8, AlongThen DEF Answered
<1>9. CASE o \in ExecuteSecure(p.w, act)
  <2>1. Answered(p.w, o, D)
    BY <1>7, <1>9, ExecuteSecureHolds
  <2>2. Along(v, o.w, D)
    BY <1>7, <2>1, AlongThen DEF Answered
  <2>3. QED
    BY <1>6, <2>1, <2>2, AlongThen DEF Answered
<1>10. QED
  BY <1>3, <1>8, <1>9

\* A new request is recorded, sent and settled.
LEMMA JournaledHolds ==
    ASSUME NEW w, NEW D, Good(w, D), ~w.s.ctx.secure, NEW act, IsAction(act, D),
           NEW o \in Journaled(w, act)
    PROVE  Answered(w, o, D) /\ (w.s.journal = <<>> => Brief(o.w.s.journal))
<1> DEFINE a == [rid |-> FreshRid(w), act |-> act, exp |-> w.s.rev]
           e == JournalEntry(w.s, a)
           j == Record(w.s.journal, e)
           v == [w EXCEPT !.s.journal = j]
<1>1. \/ o = [w |-> w, r |-> NoResponse]
      \/ o \in ExecuteJournaledV2(v, a, TRUE, FALSE, FALSE)
  BY DEF Journaled
<1>2. Asks(a, act) /\ e.rid = a.rid /\ e.act = act
  BY FreshRidIn DEF Asks, JournalEntry
<1> HIDE DEF a
<1>3. EntryIn(e, D)
  BY <1>2, JournalEntryHolds
<1> HIDE DEF e
<1>4. JournalIn(j, D)
  BY <1>3, JournalOf, RecordHolds
<1>10. ASSUME w.s.journal = <<>> PROVE Brief(j) /\ Names(j, a.rid, act)
  <2>1. IsSeq(w.s.journal) /\ Brief(w.s.journal) /\ DOMAIN w.s.journal = {}
    BY <1>10, EmptyIsSeq, EmptyIsBrief
  <2>2. Brief(j) /\ Names(j, e.rid, e.act)
    BY <2>1, RecordBrief
  <2>3. QED
    BY <1>2, <2>2
<1>11. v = [w EXCEPT !.s.journal = j]
  OBVIOUS
<1> HIDE DEF j, v
<1>5. Refiled(w, v, j, D)
  BY <1>4, <1>11, JournalChange
<1>6. Along(w, v, D) /\ Good(v, D) /\ ~v.s.ctx.secure
  BY <1>5 DEF Refiled, Touched, Along, Within
<1>7. CASE o = [w |-> w, r |-> NoResponse]
  <2>1. o.w = w /\ o.r = NoResponse
    BY <1>7
  <2>2. QED
    BY <2>1, AlongSelf, NoReply, EmptyIsBrief DEF Answered
<1>8. CASE o \in ExecuteJournaledV2(v, a, TRUE, FALSE, FALSE)
  <2>1. Delivered(v, a, o, act, D)
    BY <1>2, <1>6, <1>8, ExecuteJournaledHolds
  <2>2. Answered(w, o, D)
    BY <1>6, <2>1, AlongThen DEF Delivered, Executed, Answered
  <2>3. w.s.journal = <<>> => Brief(o.w.s.journal)
    BY <1>5, <1>10, <2>1 DEF Refiled, Delivered, Carried, Carries
  <2>4. QED
    BY <2>2, <2>3
<1>9. QED
  BY <1>1, <1>7, <1>8

\* An answer after a stretch of the handler.
LEMMA AnsweredThen ==
    ASSUME NEW w, NEW v, NEW o, NEW D, Along(w, v, D), Answered(v, o, D)
    PROVE  Answered(w, o, D)
BY AlongThen DEF Answered

\* An answer of D is handed over.
LEMMA HandedOver ==
    ASSUME NEW w, NEW D, NEW v, Along(w, v, D), NEW st, NEW o,
           o = HandoffResponse(v, st) \/ o = HandoffIfBuffered(v)
    PROVE  Answered(w, o, D) /\ o.w.s.journal = v.s.journal
<1>1. Touched(v, o.w, D) /\ Reply(o.r, D) /\ o.w.s.journal = v.s.journal
  BY HandoffHolds DEF Along
<1>2. QED
  BY <1>1, AlongThen DEF Touched, Answered

\* transactV2 is answered with text of the domain.
LEMMA TransactV2Holds ==
    ASSUME NEW w, NEW D, Good(w, D), NEW act, IsAction(act, D), NEW o \in TransactV2(w, act)
    PROVE  Answered(w, o, D) /\ Keeps(w, o.w)
<1> DEFINE Handed(p) == IF IsUncertain(p.r) THEN HandoffIfBuffered(p.w)
                        ELSE AttachReplayedEffects(p.w, p.r)
           Last1(t) == IF ~t.ok THEN {HandoffIfBuffered(t.w)}
                       ELSE {Handed(p) : p \in Journaled(t.w, act)}
           Rest(q) == CASE ~q.ok -> {[w |-> q.w, r |-> NoResponse]}
                        [] q.ok /\ w.s.ctx.secure -> TransactSecure(q.w, act)
                        [] OTHER -> UNION {Last1(t) : t \in ReplayPendingV2(q.w, TRUE, FALSE)}
<1>1. TransactV2(w, act) = UNION {Rest(q) : q \in EnsureOpen(w, TRUE)}
  BY DEF TransactV2
<1>2. PICK q \in EnsureOpen(w, TRUE) : o \in Rest(q)
  <2> HIDE DEF Rest
  <2>1. QED
    BY <1>1
<1>3. Along(w, q.w, D) /\ q.w.s.journal = w.s.journal
  BY <1>2, EnsureOpenHolds
<1>4. Good(q.w, D) /\ q.w.s.ctx = w.s.ctx
  BY <1>3 DEF Along, Within
<1>5. CASE ~q.ok
  <2>1. Rest(q) = {[w |-> q.w, r |-> NoResponse]}
    BY <1>5
  <2> HIDE DEF Rest
  <2>2. o = [w |-> q.w, r |-> NoResponse]
    BY <1>2, <2>1
  <2>3. o.w = q.w /\ o.r = NoResponse
    BY <2>2
  <2>4. QED
    BY <1>3, <2>3, NoReply DEF Answered, Keeps
<1>6. CASE q.ok /\ w.s.ctx.secure
  <2>1. Rest(q) = TransactSecure(q.w, act)
    BY <1>6
  <2>2. Answered(q.w, o, D)
    BY <1>2, <1>4, <2>1, TransactSecureHolds
  <2>3. Answered(w, o, D)
    BY <1>3, <2>2, AnsweredThen
  <2>4. Good(o.w, D) /\ o.w.s.ctx.secure
    BY <1>6, <2>3 DEF Answered, Along, Within
  <2>5. QED
    BY <2>3, <2>4, SecureIsBrief DEF Keeps
<1>7. CASE q.ok /\ ~w.s.ctx.secure
  <2>1. Rest(q) = UNION {Last1(t) : t \in ReplayPendingV2(q.w, TRUE, FALSE)}
    BY <1>7
  <2>2. PICK t \in ReplayPendingV2(q.w, TRUE, FALSE) : o \in Last1(t)
    <3> HIDE DEF Last1, Rest
    <3>1. QED
      BY <1>2, <2>1
  <2>3. Replaying(q.w, t, D) /\ WorkedOff(q.w, t)
    BY <1>4, <1>7, <2>2, ReplayHolds
  <2>4. Along(w, t.w, D)
    BY <1>3, <2>3, AlongThen DEF Replaying
  <2>5. Good(t.w, D) /\ ~t.w.s.ctx.secure
    BY <1>7, <2>4 DEF Along, Within
  <2>6. CASE ~t.ok
    <3>1. o = HandoffIfBuffered(t.w)
      BY <2>2, <2>6
    <3>2. QED
      BY <1>3, <2>3, <2>4, <3>1, HandedOver DEF WorkedOff, Keeps
  <2>7. CASE t.ok
    <3>1. PICK p \in Journaled(t.w, act) : o = Handed(p)
      BY <2>2, <2>7
    <3>2. Answered(t.w, p, D) /\ (t.w.s.journal = <<>> => Brief(p.w.s.journal))
      BY <2>5, <3>1, JournaledHolds
    <3>3. Answered(w, p, D)
      BY <2>4, <3>2, AnsweredThen
    <3>7. Keeps(w, p.w)
      BY <1>3, <2>3, <2>7, <3>2 DEF WorkedOff, Keeps
    <3>4. CASE IsUncertain(p.r)
      <4>1. o = HandoffIfBuffered(p.w)
        BY <3>1, <3>4
      <4>2. QED
        BY <3>3, <3>7, <4>1, HandedOver DEF Answered, Keeps
    <3>5. CASE ~IsUncertain(p.r)
      <4>1. o = AttachReplayedEffects(p.w, p.r)
        BY <3>1, <3>5
      <4>2. Good(p.w, D) /\ Reply(p.r, D) /\ Along(w, p.w, D)
        BY <3>3 DEF Answered, Along
      <4> DEFINE x == p.w
                 r == p.r
      <4> HIDE DEF x, r
      <4>a. Good(x, D) /\ Reply(r, D)
        BY <4>2 DEF x, r
      <4>b. LET a == AttachReplayedEffects(x, r)
            IN  Touched(x, a.w, D) /\ Reply(a.r, D) /\ a.w.s.journal = x.s.journal
        BY <4>a, AttachHolds
      <4>3. Touched(p.w, o.w, D) /\ Reply(o.r, D) /\ o.w.s.journal = p.w.s.journal
        BY <4>1, <4>b DEF x, r
      <4>4. QED
        BY <3>7, <4>2, <4>3, AlongThen DEF Touched, Answered, Keeps
    <3>6. QED
      BY <3>4, <3>5
  <2>8. QED
    BY <2>6, <2>7
<1>8. QED
  BY <1>5, <1>6, <1>7

\* The decision about learning is answered with text of the domain.
LEMMA TransactDurableHolds ==
    ASSUME NEW w, NEW D, Good(w, D), NEW commit, NEW o \in TransactV2Durable(w, commit)
    PROVE  Answered(w, o, D) /\ Keeps(w, o.w)
<1> DEFINE act == ResolvePendingLearning(commit)
           a == [rid |-> FreshRid(w), act |-> act, exp |-> w.s.rev]
           e == JournalEntry(w.s, a)
           j == Record(w.s.journal, e)
           v == [w EXCEPT !.s.journal = j]
<1>1. \/ o = [w |-> w, r |-> NoResponse]
      \/ /\ ~w.s.ctx.secure /\ ResolutionsIn(w.s.journal) = {}
         /\ o = [w |-> v, r |-> NoResponse] \/ o \in ExecuteJournaledV2(v, a, FALSE, FALSE, TRUE)
  BY DEF TransactV2Durable
<1>2. Asks(a, act) /\ IsAction(act, D)
  BY NoActIn, FreshRidIn DEF Asks, Ops
<1>8. /\ a.rid = FreshRid(w) /\ e.rid = a.rid /\ e.act = act
      /\ act.op = "resolve"
  BY DEF JournalEntry, ResolvePendingLearning, Act
<1> HIDE DEF a, act
<1>3. EntryIn(e, D)
  BY <1>2, JournalEntryHolds
<1> HIDE DEF e
<1>4. JournalIn(j, D)
  BY <1>3, JournalOf, RecordHolds
<1>9. ASSUME Brief(w.s.journal), ResolutionsIn(w.s.journal) = {}
      PROVE  Brief(j) /\ Names(j, a.rid, act)
  <2>1. IsSeq(w.s.journal) /\ \A n \in DOMAIN w.s.journal : w.s.journal[n].rid # FreshRid(w)
    BY JournalOf, FreshRidIsNew DEF JournalIn
  <2>2. \A n \in DOMAIN w.s.journal : ~Alike(w.s.journal[n], e)
    BY <1>8, <1>9, <2>1 DEF Alike, ResolutionsIn
  <2>3. Brief(j) /\ Names(j, e.rid, e.act)
    BY <1>9, <2>1, <2>2, RecordBrief
  <2>4. QED
    BY <1>8, <2>3
<1>10. v = [w EXCEPT !.s.journal = j]
  OBVIOUS
<1> HIDE DEF j, v
<1>5. CASE o = [w |-> w, r |-> NoResponse]
  <2>1. o.w = w /\ o.r = NoResponse
    BY <1>5
  <2>2. QED
    BY <2>1, AlongSelf, NoReply DEF Answered, Keeps
<1>6. CASE ~w.s.ctx.secure /\ ResolutionsIn(w.s.journal) = {} /\ (o = [w |-> v, r |-> NoResponse]
                               \/ o \in ExecuteJournaledV2(v, a, FALSE, FALSE, TRUE))
  <2>1. Refiled(w, v, j, D)
    BY <1>4, <1>6, <1>10, JournalChange
  <2>2. Along(w, v, D) /\ Good(v, D) /\ ~v.s.ctx.secure /\ v.s.journal = j
    BY <1>6, <2>1 DEF Refiled, Touched, Along, Within
  <2>3. CASE o = [w |-> v, r |-> NoResponse]
    <3>1. o.w = v /\ o.r = NoResponse
      BY <2>3
    <3>2. QED
      BY <1>6, <1>9, <2>2, <3>1, NoReply DEF Answered, Keeps
  <2>4. CASE o \in ExecuteJournaledV2(v, a, FALSE, FALSE, TRUE)
    <3>1. Delivered(v, a, o, act, D)
      BY <1>2, <2>2, <2>4, ExecuteJournaledHolds
    <3>2. Answered(w, o, D)
      BY <2>2, <3>1, AlongThen DEF Delivered, Executed, Answered
    <3>3. Keeps(w, o.w)
      BY <1>6, <1>9, <2>2, <3>1 DEF Delivered, Carried, Carries, Keeps
    <3>4. QED
      BY <3>2, <3>3
  <2>5. QED
    BY <1>6, <2>3, <2>4
<1>7. QED
  BY <1>1, <1>5, <1>6

\* A secure field defers nothing
LEMMA DropDeferredHolds ==
    ASSUME NEW w, NEW D, Good(w, D), NEW v,
           v = [w EXCEPT !.s = [WithoutRecoveryState(@)
                    EXCEPT !.ckpt = w.s.ckpt, !.fb = w.s.fb, !.unsafe = w.s.unsafe]]
    PROVE  Touched(w, v, D) /\ v.s.journal = <<>>
<1> DEFINE b == WithoutRecoveryState(w.s)
           c == [b EXCEPT !.ckpt = w.s.ckpt, !.fb = w.s.fb, !.unsafe = w.s.unsafe]
<1>1. v = [w EXCEPT !.s = c]
  OBVIOUS
<1>2. /\ IsClient(b) /\ b.ctx = w.s.ctx /\ b.id = w.s.id /\ ClientIn(b, D)
      /\ b.journal = <<>> /\ b.replayed = <<>>
  BY WithoutRecoveryStateIs DEF Good, Held, ClientIn
<1>3. ~b.known
  BY DEF WithoutRecoveryState, NewClientSession
<1> HIDE DEF b
<1>4. /\ IsClient(c) /\ c.ctx = b.ctx /\ c.id = b.id /\ c.fb = w.s.fb /\ c.ckpt = w.s.ckpt
      /\ c.snap = b.snap /\ c.replayed = b.replayed /\ c.journal = b.journal
      /\ c.ns = b.ns /\ c.known = b.known /\ c.rev = b.rev /\ c.highest = b.highest
  BY <1>2 DEF IsClient
<1> HIDE DEF c
<1>5. ClientIn(c, D) /\ ForgetsSecrets(c)
  BY <1>2, <1>3, <1>4 DEF Good, Held, ClientIn, ForgetsSecrets
<1>6. Touched(w, v, D)
  BY <1>1, <1>2, <1>4, <1>5, TouchedHolds
<1>7. v.s = c
  <2>1. "s" \in DOMAIN w
    BY DEF Good, Held, Net, Shape
  <2>2. QED
    BY <1>1, <2>1
<1>8. QED
  BY <1>2, <1>4, <1>6, <1>7

\* flushPendingV2 is answered with text of the domain.
LEMMA FlushPendingHolds ==
    ASSUME NEW w, NEW D, Good(w, D), NEW tryConnect, NEW o \in FlushPendingV2(w, tryConnect)
    PROVE  Answered(w, o, D) /\ Keeps(w, o.w)
<1> DEFINE dropped == [w EXCEPT !.s = [WithoutRecoveryState(@)
                         EXCEPT !.ckpt = w.s.ckpt, !.fb = w.s.fb, !.unsafe = w.s.unsafe]]
           Result(done, p) == [w |-> p.w, done |-> done, r |-> p.r]
           failure(t) == IF t.w.s.known /\ t.conf THEN HandoffResponse(t.w, "handoff")
                         ELSE AttachReplayedEffects(t.w, t.term)
           replayed(t) ==
               CASE t.term # NoResponse -> {Result(t.w.s.journal = <<>>, failure(t))}
                 [] t.term = NoResponse /\ ~t.ok -> {Result(FALSE, HandoffIfBuffered(t.w))}
                 [] OTHER -> {Result(HandoffResponse(t.w, "success").r # NoResponse,
                                     HandoffResponse(t.w, "success"))}
<1>1. \/ \E v \in {w, dropped} : o.w = v /\ o.r = NoResponse
      \/ /\ ~w.s.ctx.secure
         /\ o \in UNION {replayed(t) : t \in ReplayPendingV2(w, tryConnect, ~tryConnect)}
  BY DEF FlushPendingV2
<1>2. ASSUME NEW v \in {w, dropped}, o.w = v, o.r = NoResponse
      PROVE  Answered(w, o, D) /\ Keeps(w, o.w)
  <2>1. Along(w, v, D) /\ Leaves(w, v)
    BY AlongSelf, DropDeferredHolds DEF Touched, Leaves
  <2>2. QED
    BY <1>2, <2>1, NoReply, LeavesKeeps DEF Answered
<1>3. CASE /\ ~w.s.ctx.secure
           /\ o \in UNION {replayed(t) : t \in ReplayPendingV2(w, tryConnect, ~tryConnect)}
  <2>1. PICK t \in ReplayPendingV2(w, tryConnect, ~tryConnect) : o \in replayed(t)
    <3> HIDE DEF replayed
    <3>1. QED
      BY <1>3
  <2>2. Replaying(w, t, D) /\ WorkedOff(w, t)
    BY <1>3, <2>1, ReplayHolds
  <2>3. Along(w, t.w, D) /\ Good(t.w, D) /\ Reply(t.term, D) /\ Keeps(w, t.w)
    BY <2>2 DEF Replaying, Along, WorkedOff, Keeps
  <2>4. PICK p : /\ o.w = p.w /\ o.r = p.r
                 /\ \/ p = HandoffResponse(t.w, "handoff") \/ p = HandoffResponse(t.w, "success")
                    \/ p = HandoffIfBuffered(t.w) \/ p = AttachReplayedEffects(t.w, t.term)
    <3>1. CASE t.term # NoResponse
      <4>1. o = Result(t.w.s.journal = <<>>, failure(t))
        BY <2>1, <3>1
      <4>2. o.w = failure(t).w /\ o.r = failure(t).r
        BY <4>1
      <4>3. QED
        BY <4>2
    <3>2. CASE t.term = NoResponse /\ ~t.ok
      <4>1. o = Result(FALSE, HandoffIfBuffered(t.w))
        BY <2>1, <3>2
      <4>2. QED
        BY <4>1
    <3>3. CASE t.term = NoResponse /\ t.ok
      <4>1. o = Result(HandoffResponse(t.w, "success").r # NoResponse,
                       HandoffResponse(t.w, "success"))
        BY <2>1, <3>3
      <4>2. QED
        BY <4>1
    <3>4. QED
      BY <3>1, <3>2, <3>3
  <2>5. CASE p # AttachReplayedEffects(t.w, t.term)
    <3>1. Answered(w, p, D) /\ p.w.s.journal = t.w.s.journal
      BY <2>3, <2>4, <2>5, HandedOver
    <3>2. QED
      BY <2>3, <2>4, <3>1 DEF Answered, Keeps
  <2>6. CASE p = AttachReplayedEffects(t.w, t.term)
    <3> DEFINE x == t.w
               r == t.term
    <3> HIDE DEF x, r
    <3>a. Good(x, D) /\ Reply(r, D)
      BY <2>3, Zenon DEF x, r
    <3>b. LET a == AttachReplayedEffects(x, r)
          IN  Touched(x, a.w, D) /\ Reply(a.r, D) /\ a.w.s.journal = x.s.journal
      BY <3>a, AttachHolds
    <3>1. /\ Touched(t.w, p.w, D) /\ Reply(p.r, D)
          /\ p.w.s.journal = t.w.s.journal
      BY <2>6, <3>b DEF x, r
    <3>2. QED
      BY <2>3, <2>4, <3>1, AlongThen DEF Touched, Answered, Keeps
  <2>7. QED
    BY <2>5, <2>6
<1>4. QED
  BY <1>1, <1>2, <1>3
====
