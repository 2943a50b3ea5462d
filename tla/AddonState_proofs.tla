-------------------------- MODULE AddonState_proofs --------------------------
(***************************************************************************)
(* Proofs about the addon, for any keys, events, contexts and faults: one  *)
(* session lives at a time, the text of each program and kind of field     *)
(* stays apart and is delivered only where it was typed, and nothing of a  *)
(* secure field is kept.  The journal stays short, and all that was shown, *)
(* delivered, taught or deleted was typed.                                 *)
(*                                                                         *)
(* The world is good for the keystrokes typed in the domain of its session.*)
(* Every handler makes Progress: it stays in the domain, and gives the     *)
(* application text of that domain only.  A context change leaves the      *)
(* domain only after everything that held its text was emptied.            *)
(***************************************************************************)
EXTENDS AddonState, SessionClient_proofs

\* A context a session may have: one that occurs, or that of a HazkeyState
\* before its input context is complete
IsContext(c) ==
    c \in Contexts \cup {EmptyContext} /\ DOMAIN c = {"program", "frontend", "secure"}

\* A domain is a program and a kind of field.
LEMMA DomainIs ==
    ASSUME NEW c, NEW d, IsContext(c), IsContext(d)
    PROVE  Domain(c) = Domain(d) <=> c.program = d.program /\ c.secure = d.secure
<1>1. /\ DOMAIN Domain(c) = DOMAIN c /\ Domain(c).program = c.program
      /\ Domain(c).secure = c.secure /\ Domain(c).frontend = ""
  BY DEF Domain, IsContext
<1>2. /\ DOMAIN Domain(d) = DOMAIN d /\ Domain(d).program = d.program
      /\ Domain(d).secure = d.secure /\ Domain(d).frontend = ""
  BY DEF Domain, IsContext
<1>3. ASSUME c.program = d.program, c.secure = d.secure
      PROVE  Domain(c) = Domain(d)
  <2>1. Domain(c) = [x \in DOMAIN c |-> IF x = "frontend" THEN "" ELSE c[x]]
    BY DEF Domain, IsContext
  <2>2. Domain(d) = [x \in DOMAIN c |-> IF x = "frontend" THEN "" ELSE d[x]]
    BY DEF Domain, IsContext
  <2>3. \A x \in DOMAIN c : x # "frontend" => c[x] = d[x]
    BY <1>3 DEF IsContext
  <2>4. QED
    BY <2>1, <2>2, <2>3
<1>4. QED
  BY <1>1, <1>2, <1>3

\* The keystrokes typed in the domain of the client session
Own(w) == {t \in DOMAIN w.h.dom : Domain(w.h.dom[t]) = Domain(w.s.ctx)}

\* q is p with more text of D
Extended(p, q, D) ==
    /\ IsSeq(q) /\ Len(p) <= Len(q) /\ \A i \in 1 .. Len(p) : q[i] = p[i]
    /\ \A i \in (Len(p) + 1) .. Len(q) : q[i] \in D

\* No text came.
LEMMA ExtendedSelf ==
    ASSUME NEW p, IsSeq(p), NEW D
    PROVE  Extended(p, p, D)
BY SeqDomain DEF Extended

\* Text came twice.
LEMMA ExtendedThen ==
    ASSUME NEW p, IsSeq(p), NEW q, NEW r, NEW D, Extended(p, q, D), Extended(q, r, D)
    PROVE  Extended(p, r, D)
<1>1. Len(p) \in Nat /\ Len(q) \in Nat /\ Len(r) \in Nat
  BY SeqDomain DEF Extended
<1>2. Len(p) <= Len(q) /\ Len(q) <= Len(r) /\ IsSeq(r)
  BY DEF Extended
<1>3. \A i \in 1 .. Len(p) : r[i] = p[i]
  BY <1>1, <1>2 DEF Extended
<1>4. \A i \in (Len(p) + 1) .. Len(r) : r[i] \in D
  <2> TAKE i \in (Len(p) + 1) .. Len(r)
  <2>1. CASE i <= Len(q)
    <3>1. i \in (Len(p) + 1) .. Len(q) /\ i \in 1 .. Len(q)
      BY <1>1, <1>2, <2>1
    <3>2. QED
      BY <3>1 DEF Extended
  <2>2. CASE ~ i <= Len(q)
    <3>1. i \in (Len(q) + 1) .. Len(r)
      BY <1>1, <1>2, <2>2
    <3>2. QED
      BY <3>1 DEF Extended
  <2>3. QED
    BY <2>1, <2>2
<1>5. QED
  BY <1>1, <1>2, <1>3, <1>4 DEF Extended

\* A sequence over a set is one over a larger set.
LEMMA SeqMore ==
    ASSUME NEW D, NEW E, D \subseteq E, NEW q \in Seq(D)
    PROVE  q \in Seq(E)
<1>1. Len(q) \in Nat /\ q = [i \in 1 .. Len(q) |-> q[i]] /\ \A i \in 1 .. Len(q) : q[i] \in D
  OBVIOUS
<1>2. q \in [1 .. Len(q) -> E]
  BY <1>1
<1>3. QED
  BY <1>1, <1>2

\* Text of D came.
LEMMA TextExtends ==
    ASSUME NEW p, IsSeq(p), NEW D, NEW text \in Seq(D)
    PROVE  Extended(p, p \o text, D)
<1> DEFINE S == {p[i] : i \in DOMAIN p}
           T == S \cup D
<1>1. p \in Seq(S) /\ S \subseteq T /\ D \subseteq T
  BY DEF IsSeq
<1>2. \A i \in 1 .. Len(text) : text[i] \in D
  OBVIOUS
<1> HIDE DEF S, T
<1>3. p \in Seq(T) /\ text \in Seq(T)
  BY <1>1, SeqMore
<1>4. p \o text \in Seq(T) /\ Len(p \o text) = Len(p) + Len(text)
      /\ Len(p) \in Nat /\ Len(text) \in Nat
      /\ (\A i \in 1 .. Len(p) : (p \o text)[i] = p[i])
      /\ \A i \in (Len(p) + 1) .. Len(p) + Len(text) : (p \o text)[i] = text[i - Len(p)]
  BY <1>3
<1>5. IsSeq(p \o text)
  BY <1>4, SeqIsSeq
<1>6. ASSUME NEW i \in (Len(p) + 1) .. Len(p) + Len(text) PROVE (p \o text)[i] \in D
  <2>1. i - Len(p) \in 1 .. Len(text)
    BY <1>4
  <2>2. QED
    BY <1>2, <1>4, <2>1
<1>7. QED
  BY <1>4, <1>5, <1>6 DEF Extended

\* Text with more of D is over every set that holds both.
LEMMA ExtendedIn ==
    ASSUME NEW T, NEW p \in Seq(T), NEW q, NEW D, D \subseteq T, Extended(p, q, D)
    PROVE  q \in Seq(T)
<1>1. Len(p) \in Nat /\ Len(q) \in Nat /\ IsSeq(q)
  BY SeqDomain, SeqIsSeq DEF Extended
<1>2. ASSUME NEW i \in 1 .. Len(q) PROVE q[i] \in T
  <2>1. CASE i <= Len(p)
    <3>1. i \in 1 .. Len(p) /\ q[i] = p[i]
      BY <1>1, <2>1 DEF Extended
    <3>2. QED
      BY <3>1
  <2>2. CASE ~ i <= Len(p)
    <3>1. i \in (Len(p) + 1) .. Len(q)
      BY <1>1, <2>2
    <3>2. QED
      BY <3>1 DEF Extended
  <2>3. QED
    BY <2>1, <2>2
<1>3. q = [i \in 1 .. Len(q) |-> q[i]]
  BY <1>1 DEF IsSeq
<1>4. q \in [1 .. Len(q) -> T]
  BY <1>2, <1>3
<1>5. QED
  BY <1>1, <1>4

\* What the application has is a sequence.
LEMMA AppIsSeq ==
    ASSUME NEW w, NEW D, Good(w, D)
    PROVE  IsSeq(w.h.app)
BY SeqIsSeq DEF Good, Held, PastIn

------------------------------------------------------------------------------
(* How a handler changes its world                                         *)

\* v comes after w, with text of D only
Furthers(w, v, D) ==
    /\ Good(v, D) /\ v.s.ctx = w.s.ctx /\ v.ui.ctx = w.ui.ctx /\ v.ui.active = w.ui.active
    /\ v.h.typed = w.h.typed /\ v.h.dom = w.h.dom /\ v.h.events = w.h.events
    /\ Extended(w.h.app, v.h.app, D)

\* The world is good for its domain, and the journal brief.
Fine(w) ==
    /\ Good(w, Own(w)) /\ Brief(w.s.journal) /\ IsContext(w.s.ctx)
    /\ IsSeq(w.h.dom) /\ w.h.typed = Len(w.h.dom)

\* v comes after w in the same domain
Progress(w, v) ==
    /\ Fine(v) /\ Domain(v.s.ctx) = Domain(w.s.ctx)
    /\ v.ui.ctx = w.ui.ctx /\ v.ui.active = w.ui.active
    /\ v.h.typed = w.h.typed /\ v.h.dom = w.h.dom /\ v.h.events = w.h.events
    /\ Own(v) = Own(w) /\ Extended(w.h.app, v.h.app, Own(w))

\* Nothing happened.
LEMMA ProgressSelf ==
    ASSUME NEW w, Fine(w)
    PROVE  Progress(w, w)
BY ExtendedSelf, AppIsSeq DEF Progress, Fine

\* Two stretches of a handler in one domain are one.
LEMMA ProgressThen ==
    ASSUME NEW w, Fine(w), NEW v, NEW u, Progress(w, v), Progress(v, u)
    PROVE  Progress(w, u)
<1>1. IsSeq(w.h.app) /\ Own(v) = Own(w) /\ Own(u) = Own(v)
  BY AppIsSeq DEF Fine, Progress
<1>2. Extended(w.h.app, v.h.app, Own(w)) /\ Extended(v.h.app, u.h.app, Own(w))
  BY <1>1 DEF Progress
<1>3. Extended(w.h.app, u.h.app, Own(w))
  BY <1>1, <1>2, ExtendedThen
<1>4. QED
  BY <1>1, <1>3 DEF Progress

\* A change within the domain is progress.
LEMMA FurthersProgress ==
    ASSUME NEW w, Fine(w), NEW v, Furthers(w, v, Own(w)), Keeps(w, v)
    PROVE  Progress(w, v)
<1>1. Own(v) = Own(w)
  BY DEF Own, Furthers
<1>2. QED
  BY <1>1 DEF Furthers, Fine, Progress, Keeps

\* A request gives the application nothing by itself.
LEMMA AlongFurthers ==
    ASSUME NEW w, NEW D, Good(w, D), NEW v, Along(w, v, D)
    PROVE  Furthers(w, v, D)
<1>1. IsSeq(w.h.app)
  BY AppIsSeq
<1>2. Extended(w.h.app, w.h.app, D)
  BY <1>1, ExtendedSelf
<1>3. QED
  BY <1>2 DEF Along, Within, Furthers

\* A request is progress.
LEMMA AlongProgress ==
    ASSUME NEW w, Fine(w), NEW v, Along(w, v, Own(w)), Keeps(w, v)
    PROVE  Progress(w, v)
BY AlongFurthers, FurthersProgress DEF Fine

------------------------------------------------------------------------------
(* Applying a response                                                     *)

\* Effects of D give the application text of D, however often they are delivered.
LEMMA AppliedHolds ==
    ASSUME NEW D, NEW highest \in Nat, NEW app, IsSeq(app), NEW fx \in Seq(Effects(D))
    PROVE  LET last == Applied(highest, app, fx)
           IN  Extended(app, last.app, D) /\ last.highest \in Nat
<1> DEFINE L == Len(fx)
           init == [highest |-> highest, app |-> app]
           Turn(x, n) == IF Claims(x.highest, fx[n].id)
                         THEN [highest |-> fx[n].id, app |-> x.app \o fx[n].text]
                         ELSE x
           after[n \in 0 .. L] == IF n = 0 THEN init ELSE Turn(after[n - 1], n)
           Inv(x) == Extended(app, x.app, D) /\ x.highest \in Nat
           Rec(f, N) == f = [n \in 0 .. N |-> IF n = 0 THEN init ELSE Turn(f[n - 1], n)]
           Bad == {N \in 0 .. L : ~ \E f : Rec(f, N)}
           Lost == {n \in 0 .. L : ~ Inv(after[n])}
           last == Applied(highest, app, fx)
<1>1. L \in Nat /\ \A n \in 1 .. L : fx[n].text \in Seq(D) /\ fx[n].id \in Nat
  <2>1. L \in Nat /\ \A n \in 1 .. L : fx[n] \in Effects(D)
    OBVIOUS
  <2>2. QED
    BY <2>1 DEF Effects
<1>2. Inv(init)
  BY ExtendedSelf
<1>3. ASSUME NEW n \in 1 .. L, NEW x, Inv(x)
      PROVE  Inv(Turn(x, n))
  <2>1. fx[n].text \in Seq(D) /\ IsSeq(x.app)
    BY <1>1, <1>3 DEF Extended
  <2>2. Extended(x.app, x.app \o fx[n].text, D)
    BY <2>1, TextExtends
  <2>3. Extended(app, x.app \o fx[n].text, D)
    BY <1>3, <2>2, ExtendedThen
  <2>4. /\ Turn(x, n).app = x.app \/ Turn(x, n).app = x.app \o fx[n].text
        /\ Turn(x, n).highest = x.highest \/ Turn(x, n).highest = fx[n].id
    OBVIOUS
  <2> HIDE DEF Turn
  <2>5. QED
    BY <1>1, <1>3, <2>3, <2>4
<1>4. last = after[L]
  BY DEF Applied
<1>5. ASSUME NEW f, Rec(f, L) PROVE Rec(after, L)
  BY <1>5
<1> HIDE DEF init, Inv, Turn, L, after, last
<1>6. \E f : Rec(f, L)
  <2> SUFFICES ASSUME ~ \E f : Rec(f, L) PROVE FALSE
    OBVIOUS
  <2>1. L \in Bad /\ Bad \subseteq Nat
    BY <1>1
  <2>2. PICK N \in Bad : \A K \in Bad : N <= K
    <3> HIDE DEF Bad
    <3>1. QED
      BY <2>1, LeastNumber
  <2>3. N \in 0 .. L /\ ~ \E f : Rec(f, N)
    BY <2>2
  <2>4. CASE N = 0
    <3>1. Rec([n \in 0 .. 0 |-> init], 0)
      OBVIOUS
    <3>2. QED
      BY <2>3, <2>4, <3>1
  <2>5. CASE N > 0
    <3>1. N \in 1 .. L /\ N - 1 \in 0 .. L /\ ~ N <= N - 1
      BY <1>1, <2>3, <2>5
    <3>2. PICK g : Rec(g, N - 1)
      BY <2>2, <3>1
    <3> DEFINE f == [n \in 0 .. N |-> IF n = 0 THEN init ELSE Turn(g[n - 1], n)]
    <3>3. \A n \in 0 .. N : n # 0 => f[n - 1] = g[n - 1]
      BY <3>1, <3>2
    <3>4. Rec(f, N)
      BY <3>3
    <3>5. QED
      BY <2>3, <3>4
  <2>6. QED
    BY <1>1, <2>3, <2>4, <2>5
<1>7. after = [n \in 0 .. L |-> IF n = 0 THEN init ELSE Turn(after[n - 1], n)]
  BY <1>5, <1>6
<1>8. Lost = {}
  <2> SUFFICES ASSUME Lost # {} PROVE FALSE
    OBVIOUS
  <2>1. Lost \subseteq Nat
    BY <1>1
  <2>2. PICK n \in Lost : \A k \in Lost : n <= k
    <3> HIDE DEF Lost
    <3>1. QED
      BY <2>1, LeastNumber
  <2>3. n \in 0 .. L /\ ~ Inv(after[n])
    BY <2>2
  <2>4. n # 0
    BY <1>1, <1>2, <1>7, <2>3
  <2>5. n \in 1 .. L /\ n - 1 \in 0 .. L /\ ~ n <= n - 1
    BY <1>1, <2>3, <2>4
  <2>6. Inv(after[n - 1])
    BY <2>2, <2>5
  <2>7. after[n] = Turn(after[n - 1], n)
    BY <1>7, <2>5
  <2>8. QED
    BY <1>3, <2>3, <2>5, <2>6, <2>7
<1>9. Inv(after[L])
  BY <1>1, <1>8
<1>10. QED
  BY <1>4, <1>9 DEF Inv, last

\* History p goes on as q: more of what was typed may have been shown
Continues(p, q) ==
    /\ DOMAIN q = DOMAIN p /\ q.typed = p.typed /\ q.dom = p.dom /\ q.events = p.events
    /\ q.orphans = p.orphans /\ q.faults = p.faults /\ q.taught = p.taught
    /\ q.deleted = p.deleted /\ q.dropped = p.dropped /\ q.undone = p.undone
    /\ q.shown \subseteq 1 .. q.typed

\* What the application and the screen show may change within D
LEMMA ScreenChange ==
    ASSUME NEW w, NEW D, Good(w, D), NEW v, DOMAIN v = DOMAIN w,
           IsClient(v.s), v.s.ctx = w.s.ctx, v.s.id = w.s.id, ClientIn(v.s, D),
           ForgetsSecrets(v.s), v.srv = w.srv, v.net = w.net,
           DOMAIN v.ui = DOMAIN w.ui, ScreenIn(v.ui, D), v.ui.active = w.ui.active,
           v.ui.ctx = w.ui.ctx, Continues(w.h, v.h), Extended(w.h.app, v.h.app, D)
    PROVE  Furthers(w, v, D)
<1>1. Shape(v)
  BY DEF Shape, Good, Held, Net, IsClient, Continues
<1>2. Net(v)
  BY <1>1 DEF Good, Held, Net, Wired, Continues
<1>3. Held(v, D)
  <2>1. Typed(v) = Typed(w) /\ D \subseteq Typed(w)
    BY DEF Typed, Good, Held, Continues
  <2>2. v.h.app \in Seq(Typed(w))
    BY <2>1, ExtendedIn DEF Good, Held, PastIn
  <2>3. PastIn(v.h, Typed(v))
    BY <2>1, <2>2 DEF Good, Held, PastIn, Continues, Typed
  <2>4. IsSeq(v.s.journal)
    BY DEF ClientIn, JournalIn
  <2>5. Linked(v, Typed(v))
    BY <1>1, <2>1, <2>4 DEF Good, Held, Linked, Continues
  <2>6. QED
    BY <1>2, <2>1, <2>3, <2>5 DEF Held
<1>4. Owned(v, v.s.id) /\ Compat(v, v.s.id, D)
  BY DEF Good, Owned, Closing, Compat
<1>5. QED
  BY <1>3, <1>4 DEF Good, Furthers, Continues

\* A response of D changes screen and application within D.
LEMMA ApplyHolds ==
    ASSUME NEW w, NEW D, Good(w, D), NEW o, o.w = w, Reply(o.r, D)
    PROVE  LET v == ApplyV2Response(o).w
           IN  Furthers(w, v, D) /\ v.s.journal = w.s.journal
<1> DEFINE n == o.r.snap
           new == Applied(w.s.highest, w.h.app, n.fx)
           app == new.app
           highest == new.highest
           shown == w.h.shown \cup ToSet(n.comp)
           v == ApplyV2Response(o).w
<1>1. CASE ~HasSnapshot(o.r)
  <2>1. v = w
    BY <1>1 DEF ApplyV2Response
  <2>2. QED
    BY <2>1, AlongSelf, AlongFurthers
<1>2. CASE HasSnapshot(o.r)
  <2>1. v = [w EXCEPT !.s.highest = highest, !.h.app = app, !.ui.phase = n.phase,
                      !.ui.comp = n.comp, !.ui.learn = n.learn, !.h.shown = shown]
    BY <1>2 DEF ApplyV2Response
  <2>0. n \in Snapshots(D)
    BY DEF Reply
  <2>2. Extended(w.h.app, app, D) /\ highest \in Nat
    <3>1. n.fx \in Seq(Effects(D)) /\ w.s.highest \in Nat /\ IsSeq(w.h.app)
      BY <2>0, AppIsSeq DEF Good, Held, ClientIn, Snapshots
    <3> HIDE DEF n
    <3>2. QED
      BY <3>1, AppliedHolds
  <2>3. /\ n.comp \in Seq(D) /\ n.phase \in Phases /\ n.learn \in BOOLEAN
        /\ shown \subseteq Typed(w)
    BY <2>0, ToSetIn DEF Snapshots, Good, Held, PastIn
  <2> HIDE DEF new, app, highest, shown, n, v
  <2>s. Shape(w)
    BY DEF Good, Held, Net
  <2>4. /\ DOMAIN v = DOMAIN w /\ v.s = [w.s EXCEPT !.highest = highest]
        /\ v.srv = w.srv /\ v.net = w.net
        /\ DOMAIN v.ui = DOMAIN w.ui /\ v.ui.comp = n.comp /\ v.ui.phase = n.phase
        /\ v.ui.learn = n.learn /\ v.ui.avail = w.ui.avail
        /\ v.ui.active = w.ui.active /\ v.ui.ctx = w.ui.ctx
    <3>1. v.s = [w.s EXCEPT !.highest = highest] /\ v.srv = w.srv /\ v.net = w.net
      BY <2>1, <2>s DEF Shape
    <3>2. DOMAIN v = DOMAIN w /\ DOMAIN v.ui = DOMAIN w.ui
      BY <2>1, <2>s DEF Shape
    <3>3. v.ui.comp = n.comp /\ v.ui.phase = n.phase /\ v.ui.learn = n.learn
      BY <2>1, <2>s DEF Shape
    <3>4. v.ui.avail = w.ui.avail /\ v.ui.active = w.ui.active /\ v.ui.ctx = w.ui.ctx
      BY <2>1, <2>s DEF Shape
    <3>5. QED
      BY <3>1, <3>2, <3>3, <3>4
  <2>5. v.h.app = app /\ Continues(w.h, v.h)
    <3>1. v.h = [w.h EXCEPT !.app = app, !.shown = shown]
      BY <2>1, <2>s DEF Shape
    <3>2. DOMAIN w.h = {"faults", "events", "ev", "typed", "dom", "app", "shown",
                        "deleted", "dropped", "taught", "undone", "orphans"}
      BY <2>s DEF Shape
    <3>3. QED
      BY <2>3, <3>1, <3>2 DEF Continues, Typed
  <2>6. /\ IsClient(v.s) /\ v.s.ctx = w.s.ctx /\ v.s.id = w.s.id /\ v.s.fb = w.s.fb
        /\ v.s.ckpt = w.s.ckpt /\ v.s.snap = w.s.snap /\ v.s.replayed = w.s.replayed
        /\ v.s.journal = w.s.journal /\ v.s.ns = w.s.ns /\ v.s.known = w.s.known
        /\ v.s.rev = w.s.rev /\ v.s.highest = highest
    BY <2>4 DEF Good, Held, Net, Shape, IsClient
  <2>7. ClientIn(v.s, D) /\ ForgetsSecrets(v.s)
    BY <2>2, <2>6 DEF Good, Held, ClientIn, ForgetsSecrets
  <2>71. ScreenIn(v.ui, D)
    BY <2>3, <2>4 DEF Good, Held, ScreenIn
  <2>8. Furthers(w, v, D)
    BY <2>2, <2>4, <2>5, <2>6, <2>7, <2>71, ScreenChange
  <2>9. QED
    BY <2>6, <2>8 DEF v
<1>3. QED
  BY <1>1, <1>2

\* An answered request is progress.
LEMMA AnsweredProgress ==
    ASSUME NEW w, Fine(w), NEW o, Answered(w, o, Own(w)), Keeps(w, o.w)
    PROVE  Progress(w, ApplyV2Response(o).w)
<1> DEFINE v == ApplyV2Response(o).w
           D == Own(w)
<1>1. Along(w, o.w, D) /\ Good(o.w, D) /\ Reply(o.r, D)
  BY DEF Answered, Along
<1>2. Furthers(o.w, v, D) /\ Keeps(o.w, v)
  BY <1>1, ApplyHolds DEF Keeps
<1>3. Progress(w, o.w)
  BY <1>1, AlongProgress
<1>4. Fine(o.w) /\ Own(o.w) = D
  BY <1>3 DEF Progress
<1> HIDE DEF v
<1>5. Progress(o.w, v)
  BY <1>2, <1>4, FurthersProgress
<1>6. Progress(w, v)
  BY <1>3, <1>5, ProgressThen
<1>7. QED
  BY <1>6 DEF v

\* dispatchV2 is progress.
LEMMA DispatchHolds ==
    ASSUME NEW w, Fine(w), NEW act, IsAction(act, Own(w)), NEW o \in DispatchV2(w, act)
    PROVE  Progress(w, o.w)
<1>1. PICK p \in TransactV2(w, act) : o = ApplyV2Response(p)
  BY DEF DispatchV2
<1>2. Answered(w, p, Own(w)) /\ Keeps(w, p.w)
  BY TransactV2Holds DEF Fine
<1>3. QED
  BY <1>1, <1>2, AnsweredProgress

\* flushDeferredActions is progress.
LEMMA FlushHolds ==
    ASSUME NEW w, Fine(w), NEW tryConnect, NEW requireSuccess,
           NEW o \in FlushDeferredActions(w, tryConnect, requireSuccess)
    PROVE  Progress(w, o.w)
<1>1. PICK p \in FlushPendingV2(w, tryConnect) :
        o = Flushed(ApplyV2Response(p), p.done, p.r # NoResponse, requireSuccess)
  BY DEF FlushDeferredActions
<1>2. o.w = ApplyV2Response(p).w
  BY <1>1 DEF Flushed
<1>3. Answered(w, p, Own(w)) /\ Keeps(w, p.w)
  BY FlushPendingHolds DEF Fine
<1>4. QED
  BY <1>2, <1>3, AnsweredProgress

\* A decision about learning is progress.
LEMMA ResolvedHolds ==
    ASSUME NEW w, Fine(w), NEW commit, NEW v \in PendingLearningResolved(w, commit)
    PROVE  Progress(w, v)
<1>1. PICK p \in TransactV2Durable(w, commit) : v = ApplyV2Response(p).w
  BY DEF PendingLearningResolved
<1>2. Answered(w, p, Own(w)) /\ Keeps(w, p.w)
  BY TransactDurableHolds DEF Fine
<1>3. QED
  BY <1>1, <1>2, AnsweredProgress

\* Only the history of what was shown, dropped or undone changes, or the
\* availability of the server
LEMMA AvailableHolds ==
    ASSUME NEW w, Fine(w), NEW b \in BOOLEAN
    PROVE  Progress(w, Available(w, b))
<1> DEFINE v == Available(w, b)
<1>1. /\ DOMAIN v = DOMAIN w /\ v.s = w.s /\ v.srv = w.srv /\ v.net = w.net /\ v.h = w.h
      /\ DOMAIN v.ui = DOMAIN w.ui /\ v.ui.comp = w.ui.comp /\ v.ui.phase = w.ui.phase
      /\ v.ui.learn = w.ui.learn /\ v.ui.avail = b
      /\ v.ui.active = w.ui.active /\ v.ui.ctx = w.ui.ctx
  BY DEF Available, Fine, Good, Held, Net, Shape
<1> HIDE DEF v
<1>2. IsClient(v.s) /\ ClientIn(v.s, Own(w)) /\ ForgetsSecrets(v.s)
  BY <1>1 DEF Fine, Good, Held, Net, Shape, IsClient
<1>3. ScreenIn(v.ui, Own(w)) /\ Continues(w.h, v.h)
  BY <1>1 DEF Fine, Good, Held, ScreenIn, PastIn, Continues, Typed
<1>4. Extended(w.h.app, v.h.app, Own(w))
  BY <1>1, AppIsSeq, ExtendedSelf DEF Fine
<1>5. Furthers(w, v, Own(w))
  BY <1>1, <1>2, <1>3, <1>4, ScreenChange DEF Fine
<1>6. Progress(w, v)
  BY <1>1, <1>5, FurthersProgress DEF Keeps
<1>7. QED
  BY <1>6 DEF v

\* A discarded composition is progress.
LEMMA DiscardProgress ==
    ASSUME NEW w, Fine(w)
    PROVE  Progress(w, DiscardLocalComposition(w))
<1> DEFINE v == DiscardLocalComposition(w)
<1>1. Along(w, v, Own(w)) /\ v.s = w.s
  BY DiscardLocalHolds DEF Fine
<1> HIDE DEF v
<1>2. Progress(w, v)
  BY <1>1, AlongProgress DEF Keeps
<1>3. QED
  BY <1>2 DEF v

\* finalizeWithoutUITarget is progress and leaves no session.
LEMMA FinalizeProgress ==
    ASSUME NEW w, Fine(w), NEW commit, NEW v \in FinalizeWithoutUITarget(w, commit)
    PROVE  /\ Progress(w, v) /\ v.ui = w.ui /\ v.s.id = 0 /\ v.s.ctx = w.s.ctx
           /\ v.s.journal = <<>> /\ v.s.replayed = <<>>
<1>1. Parted(w, v, Own(w)) /\ v.ui = w.ui
  BY FinalizeHolds DEF Fine
<1>2. Along(w, v, Own(w)) /\ v.s.ctx = w.s.ctx
  BY <1>1 DEF Parted, Along, Within
<1>5. Keeps(w, v)
  BY <1>1, LeavesKeeps DEF Parted, Leaves
<1>3. Progress(w, v)
  BY <1>2, <1>5, AlongProgress
<1>4. QED
  BY <1>1, <1>2, <1>3 DEF Parted

\* The composition is given up, with or without its session
LEMMA AbandonHolds ==
    ASSUME NEW w, Fine(w), NEW commit, NEW v \in FinalizeWithoutUITarget(w, commit),
           NEW b \in BOOLEAN
    PROVE  /\ Progress(w, DiscardLocalComposition(v))
           /\ Progress(w, Available(DiscardLocalComposition(v), b))
<1> DEFINE u == DiscardLocalComposition(v)
<1>1. Progress(w, v)
  BY FinalizeProgress
<1>2. Progress(v, u)
  BY <1>1, DiscardProgress DEF Progress
<1>3. Progress(w, u)
  BY <1>1, <1>2, ProgressThen
<1> HIDE DEF u
<1>4. Progress(u, Available(u, b))
  BY <1>3, AvailableHolds DEF Progress
<1>5. Progress(w, Available(u, b))
  BY <1>3, <1>4, ProgressThen
<1>6. QED
  BY <1>3, <1>5 DEF u

\* reset is progress.
LEMMA ResetHolds ==
    ASSUME NEW w, Fine(w), NEW v \in Reset(w)
    PROVE  Progress(w, v)
<1>1. PICK u \in FinalizeWithoutUITarget(w, AcceptedPendingLearning(w)) :
        v = Available(DiscardLocalComposition(u), FALSE)
  BY DEF Reset
<1>2. QED
  BY <1>1, AbandonHolds

\* The application gets text of the domain
LEMMA CommitStringHolds ==
    ASSUME NEW w, Fine(w), NEW text \in Seq(Own(w)), NEW v,
           v = CommitString(w, text) \/ v = [CommitString(w, text) EXCEPT !.ui.comp = <<>>]
    PROVE  Progress(w, v)
<1> DEFINE app == w.h.app \o text
           none == <<>>
<1>1. none \in Seq(Own(w)) /\ w.ui.comp \in Seq(Own(w)) /\ IsSeq(w.h.app)
  BY AppIsSeq DEF Fine, Good, Held, ScreenIn
<1>2. Extended(w.h.app, app, Own(w))
  BY <1>1, TextExtends
<1>3. \/ v = [w EXCEPT !.h = [w.h EXCEPT !.app = app]]
      \/ v = [[w EXCEPT !.h = [w.h EXCEPT !.app = app]] EXCEPT !.ui = [w.ui EXCEPT !.comp = none]]
  BY DEF CommitString, Fine, Good, Held, Net, Shape
<1> HIDE DEF app, none
<1>s. DOMAIN w = {"s", "ui", "srv", "net", "h"}
  BY DEF Fine, Good, Held, Net, Shape
<1>4. /\ DOMAIN v = DOMAIN w /\ v.s = w.s /\ v.srv = w.srv /\ v.net = w.net
      /\ v.h = [w.h EXCEPT !.app = app]
      /\ v.ui = w.ui \/ v.ui = [w.ui EXCEPT !.comp = none]
  BY <1>3, <1>s
<1>5. /\ DOMAIN v.ui = DOMAIN w.ui /\ v.ui.comp \in {w.ui.comp, none}
      /\ v.ui.phase = w.ui.phase /\ v.ui.learn = w.ui.learn /\ v.ui.avail = w.ui.avail
      /\ v.ui.active = w.ui.active /\ v.ui.ctx = w.ui.ctx
  BY <1>4 DEF Fine, Good, Held, Net, Shape
<1>6. v.h.app = app /\ Continues(w.h, v.h)
  BY <1>4 DEF Fine, Good, Held, Net, Shape, Continues, PastIn, Typed
<1>7. IsClient(v.s) /\ ClientIn(v.s, Own(w)) /\ ForgetsSecrets(v.s)
  BY <1>4 DEF Fine, Good, Held, Net, Shape, IsClient
<1>8. ScreenIn(v.ui, Own(w)) /\ Extended(w.h.app, v.h.app, Own(w))
  BY <1>1, <1>2, <1>5, <1>6 DEF Fine, Good, Held, ScreenIn
<1>9. Furthers(w, v, Own(w))
  BY <1>4, <1>5, <1>6, <1>7, <1>8, ScreenChange DEF Fine
<1>10. QED
  BY <1>4, <1>9, FurthersProgress DEF Keeps

------------------------------------------------------------------------------
(* capabilityAboutToChange                                                 *)

\* How a recovery may end
Ends == {"recovered", "uncertain", "rejected", "nothing"}

\* A recovery ends in one of the ways updateContext tells apart.
LEMMA RecoverAnswers ==
    ASSUME NEW w, NEW r \in Recover(w)
    PROVE  r.res \in Ends
<1>1. ASSUME NEW u, NEW act, NEW p \in RecoverOnce(u, act) PROVE p.res \in Ends
  <2>1. PICK q \in Send(u, [rid |-> FreshRid(u), act |-> act, exp |-> 0], FALSE, TRUE) :
          \/ p = Restored(q.w, act, q.r)
          \/ p = [w |-> q.w, res |-> "uncertain"]
          \/ p = [w |-> q.w, res |-> "rejected"]
    BY <1>1 DEF RecoverOnce
  <2>2. Restored(q.w, act, q.r).res = "recovered"
    BY DEF Restored
  <2>3. QED
    BY <2>1, <2>2 DEF Ends
<1>2. ASSUME NEW act, NEW p \in RecoverWith(w, act) PROVE p.res \in Ends
  <2>1. \E u, b : p \in RecoverOnce(u, b)
    BY <1>2 DEF RecoverWith, OnceMore
  <2>2. QED
    BY <1>1, <2>1
<1>3. CASE w.s.ckpt # NoCheckpoint \/ CanUseStoredTextFallback(w.s)
  <2>1. \E act : r \in RecoverWith(w, act)
    BY <1>3 DEF Recover
  <2>2. QED
    BY <1>2, <2>1
<1>4. CASE ~(w.s.ckpt # NoCheckpoint \/ CanUseStoredTextFallback(w.s))
  <2>1. r = [w |-> w, res |-> IF w.s.fb = <<>> THEN "nothing" ELSE "rejected"]
    BY <1>4 DEF Recover
  <2>2. QED
    BY <2>1 DEF Ends
<1>5. QED
  BY <1>3, <1>4

\* updateContext says whether it succeeded.
LEMMA UpdateAnswers ==
    ASSUME NEW w, NEW ctx, NEW o \in UpdateContext(w, ctx)
    PROVE  o.ok \in BOOLEAN
<1>1. ASSUME NEW u, NEW p \in Open(u, TRUE) PROVE p.ok \in BOOLEAN
  <2>1. PICK q \in Transact(u, OpenSession(u.s.ctx), FALSE, TRUE) :
          \/ p = [w |-> [q.w EXCEPT !.s.id = q.r.sid, !.s.rev = 0], ok |-> TRUE]
          \/ p = [w |-> q.w, ok |-> FALSE]
    BY <1>1 DEF Open
  <2>2. p.ok = TRUE \/ p.ok = FALSE
    BY <2>1
  <2>3. QED
    BY <2>2
<1>2. ASSUME NEW p \in Close(w) PROVE p.ok \in BOOLEAN
  <2>1. CASE w.s.id = 0 \/ HasDeferredWork(w.s)
    <3>1. p = [w |-> w, ok |-> ~HasDeferredWork(w.s)]
      BY <1>2, <2>1 DEF Close
    <3>2. p.ok = TRUE \/ p.ok = FALSE
      BY <3>1
    <3>3. QED
      BY <3>2
  <2>2. CASE ~(w.s.id = 0 \/ HasDeferredWork(w.s))
    <3>1. PICK q \in Transact(w, CloseSession(w.s.id), TRUE, FALSE) :
            p = [w |-> Unbound(q.w), ok |-> q.r.st # "none"]
      BY <1>2, <2>2 DEF Close
    <3>2. p.ok = TRUE \/ p.ok = FALSE
      BY <3>1
    <3>3. QED
      BY <3>2
  <2>3. QED
    BY <2>1, <2>2
<1>3. ASSUME NEW u, NEW p \in RestoreComposition(u) PROVE p.ok \in BOOLEAN
  <2>1. PICK r \in Recover(u) :
          p \in CASE r.res = "recovered" -> {[w |-> r.w, ok |-> TRUE]}
                  [] r.res = "nothing" ->
                       {[w |-> [r.w EXCEPT !.s.ns = BeginFresh(@)], ok |-> TRUE]}
                  [] r.res = "uncertain" ->
                       {[w |-> v, ok |-> FALSE] : v \in DiscardServerNamespace(r.w)}
                  [] r.res = "rejected" ->
                       {[w |-> v, ok |-> FALSE] : v \in GiveUp(r.w)}
    BY <1>3 DEF RestoreComposition
  <2>2. r.res \in Ends
    BY RecoverAnswers
  <2>3. p.ok = TRUE \/ p.ok = FALSE
    BY <2>1, <2>2 DEF Ends
  <2>4. QED
    BY <2>3
<1>4. CASE ContextChanged(w.s.ctx, ctx) \/ w.s.id = 0
  <2>1. PICK c \in IF ContextChanged(w.s.ctx, ctx) THEN Close(w)
                   ELSE {[w |-> w, ok |-> TRUE]} : Updated(w, ctx, c, o)
    BY <1>4, UpdateContextIs
  <2>2. c.ok \in BOOLEAN
    <3>1. c \in Close(w) \/ c = [w |-> w, ok |-> TRUE]
      BY <2>1
    <3>2. c.ok \in BOOLEAN \/ c.ok = TRUE
      BY <1>2, <3>1
    <3>3. QED
      BY <3>2
  <2>3. QED
    BY <1>1, <1>3, <2>1, <2>2 DEF Updated
<1>5. CASE ~(ContextChanged(w.s.ctx, ctx) \/ w.s.id = 0)
  <2>1. o = [w |-> w, ok |-> TRUE]
    BY <1>5 DEF UpdateContext
  <2>2. o.ok = TRUE
    BY <2>1
  <2>3. QED
    BY <2>2
<1>6. QED
  BY <1>4, <1>5

\* flushDeferredActions says whether it succeeded.
LEMMA FlushAnswers ==
    ASSUME NEW w, NEW tryConnect, NEW requireSuccess,
           NEW o \in FlushDeferredActions(w, tryConnect, requireSuccess)
    PROVE  o.ok \in BOOLEAN
<1>1. PICK p \in FlushPendingV2(w, tryConnect) :
        o = Flushed(ApplyV2Response(p), p.done, p.r # NoResponse, requireSuccess)
  BY DEF FlushDeferredActions
<1>2. o.ok = TRUE \/ o.ok = FALSE
  BY <1>1 DEF Flushed
<1>3. QED
  BY <1>2

\* updateContext within a domain is progress.
LEMMA UpdateProgress ==
    ASSUME NEW w, Fine(w), NEW ctx, IsContext(ctx), Domain(ctx) = Domain(w.s.ctx),
           NEW o \in UpdateContext(w, ctx)
    PROVE  Progress(w, o.w)
<1>0. Good(w, Own(w)) /\ IsContext(w.s.ctx) /\ IsSeq(w.h.app)
  BY AppIsSeq DEF Fine
<1>1. CASE w.s.ctx = ctx
  <2>1. Along(w, o.w, Own(w)) /\ Leaves(w, o.w)
    BY <1>0, <1>1, SameContextHolds
  <2>2. QED
    BY <2>1, LeavesKeeps, AlongProgress
<1>2. CASE w.s.ctx # ctx
  <2>1. w.s.ctx.program = ctx.program /\ w.s.ctx.secure = ctx.secure
    BY <1>0, DomainIs
  <2>2. ContextChanged(w.s.ctx, ctx) /\ ~ClearsPreedit(w.s.ctx, ctx)
    BY <1>2, <2>1 DEF ContextChanged, ClearsPreedit
  <2>3. Shifted(w, o.w, ctx, Own(w)) /\ Leaves(w, o.w)
    BY <1>0, <2>2, SameDomainHolds
  <2>4. Own(o.w) = Own(w) /\ IsContext(o.w.s.ctx) /\ Domain(o.w.s.ctx) = Domain(w.s.ctx)
    BY <1>0, <2>3 DEF Shifted, Own
  <2>5. Extended(w.h.app, o.w.h.app, Own(w))
    BY <1>0, <2>3, ExtendedSelf DEF Shifted
  <2>6. Brief(o.w.s.journal)
    BY <2>3, LeavesKeeps DEF Keeps, Fine
  <2>7. QED
    BY <2>3, <2>4, <2>5, <2>6 DEF Shifted, Progress, Fine
<1>3. QED
  BY <1>1, <1>2

\* Availability may change last.
LEMMA ThenAvailable ==
    ASSUME NEW w, Fine(w), NEW v, Progress(w, v), NEW b \in BOOLEAN
    PROVE  Progress(w, Available(v, b))
<1>1. Progress(v, Available(v, b))
  BY AvailableHolds DEF Progress
<1>2. QED
  BY <1>1, ProgressThen

\* A resumed context is progress.
LEMMA ResumeHolds ==
    ASSUME NEW w, Fine(w), NEW v \in ResumeContext(w)
    PROVE  Progress(w, v)
<1> DEFINE Flushes(u) == FlushDeferredActions(u, TRUE, ~HasDeferredWork(w.s))
           Begun == IF HasDeferredWork(w.s) THEN {[w |-> w, ok |-> TRUE]}
                    ELSE UpdateContext(w, w.s.ctx)
           Rest(o) == IF ~o.ok THEN {Available(o.w, FALSE)}
                      ELSE {Available(f.w, f.ok) : f \in Flushes(o.w)}
<1>1. CASE w.ui.avail
  BY <1>1, ProgressSelf DEF ResumeContext
<1>2. CASE ~w.ui.avail
  <2>1. v \in UNION {Rest(o) : o \in Begun}
    BY <1>2 DEF ResumeContext
  <2>2. PICK o \in Begun : v \in Rest(o)
    <3> HIDE DEF Rest, Begun
    <3>1. QED
      BY <2>1
  <2>3. Progress(w, o.w)
    <3>1. CASE HasDeferredWork(w.s)
      <4>1. o = [w |-> w, ok |-> TRUE]
        BY <2>2, <3>1
      <4>2. QED
        BY <4>1, ProgressSelf
    <3>2. CASE ~HasDeferredWork(w.s)
      <4>1. o \in UpdateContext(w, w.s.ctx)
        BY <2>2, <3>2
      <4>2. QED
        BY <4>1, UpdateProgress DEF Fine
    <3>3. QED
      BY <3>1, <3>2
  <2>4. CASE ~o.ok
    <3>1. v = Available(o.w, FALSE)
      BY <2>2, <2>4
    <3>2. QED
      BY <2>3, <3>1, ThenAvailable
  <2>5. CASE o.ok
    <3>1. PICK f \in Flushes(o.w) : v = Available(f.w, f.ok)
      BY <2>2, <2>5
    <3>2. Progress(o.w, f.w)
      BY <2>3, <3>1, FlushHolds DEF Progress
    <3>3. Progress(w, f.w)
      BY <2>3, <3>2, ProgressThen
    <3>4. QED
      BY <3>1, <3>3, FlushAnswers, ThenAvailable
  <2>6. QED
    BY <2>4, <2>5
<1>3. QED
  BY <1>1, <1>2

\* One round of settling deferred work is progress.
LEMMA SettleOnceHolds ==
    ASSUME NEW w, Fine(w), NEW retry, NEW f \in SettleOnce(w, retry)
    PROVE  Progress(w, f.w)
<1>1. PICK v \in IF w.ui.learn THEN PendingLearningResolved(w, TRUE) ELSE {w} :
        f \in FlushDeferredActions(v, retry, TRUE)
  BY DEF SettleOnce
<1>2. Progress(w, v)
  <2>1. CASE w.ui.learn
    BY <1>1, <2>1, ResolvedHolds
  <2>2. CASE ~w.ui.learn
    BY <1>1, <2>2, ProgressSelf
  <2>3. QED
    BY <2>1, <2>2
<1>3. Progress(v, f.w)
  BY <1>1, <1>2, FlushHolds DEF Progress
<1>4. QED
  BY <1>2, <1>3, ProgressThen

\* Settling deferred work is progress.
LEMMA SettleHolds ==
    ASSUME NEW w, Fine(w), NEW retry, NEW f \in Settle(w, retry)
    PROVE  Progress(w, f.w)
<1>1. PICK g \in SettleOnce(w, retry) : f = g \/ f \in SettleOnce(g.w, retry)
  BY DEF Settle, OnceMore
<1>2. Progress(w, g.w)
  BY <1>1, SettleOnceHolds
<1>3. CASE f \in SettleOnce(g.w, retry)
  <2>1. Progress(g.w, f.w)
    BY <1>2, <1>3, SettleOnceHolds DEF Progress
  <2>2. QED
    BY <1>2, <2>1, ProgressThen
<1>4. QED
  BY <1>1, <1>2, <1>3

\* Another frontend is progress.
LEMMA ReplaceFrontendHolds ==
    ASSUME NEW w, Fine(w), NEW ctx, IsContext(ctx), Domain(ctx) = Domain(w.s.ctx),
           NEW v \in ReplaceFrontend(w, ctx)
    PROVE  Progress(w, v)
<1> DEFINE retry == ~w.ui.avail
           Last1(o) == IF ~o.ok THEN {Available(o.w, FALSE)}
                       ELSE {Available(g.w, g.ok) : g \in FlushDeferredActions(o.w, retry, TRUE)}
           Rest(f) == IF ~f.ok THEN {Available(f.w, FALSE)}
                      ELSE UNION {Last1(o) : o \in UpdateContext(f.w, ctx)}
<1>1. v \in UNION {Rest(f) : f \in Settle(w, retry)}
  BY DEF ReplaceFrontend
<1> HIDE DEF retry
<1>2. PICK f \in Settle(w, retry) : v \in Rest(f)
  <2> HIDE DEF Rest
  <2>1. QED
    BY <1>1
<1>3. Progress(w, f.w)
  BY <1>2, SettleHolds
<1>4. CASE ~f.ok
  <2>1. v = Available(f.w, FALSE)
    BY <1>2, <1>4
  <2>2. QED
    BY <1>3, <2>1, ThenAvailable
<1>5. CASE f.ok
  <2>1. v \in UNION {Last1(o) : o \in UpdateContext(f.w, ctx)}
    BY <1>2, <1>5
  <2>2. PICK o \in UpdateContext(f.w, ctx) : v \in Last1(o)
    <3> HIDE DEF Last1
    <3>1. QED
      BY <2>1
  <2>3. Fine(f.w) /\ Domain(ctx) = Domain(f.w.s.ctx)
    BY <1>3 DEF Progress
  <2>4. Progress(f.w, o.w)
    BY <2>2, <2>3, UpdateProgress
  <2>5. Progress(w, o.w)
    BY <1>3, <2>4, ProgressThen
  <2>6. CASE ~o.ok
    <3>1. v = Available(o.w, FALSE)
      BY <2>2, <2>6
    <3>2. QED
      BY <2>5, <3>1, ThenAvailable
  <2>7. CASE o.ok
    <3>1. PICK g \in FlushDeferredActions(o.w, retry, TRUE) : v = Available(g.w, g.ok)
      BY <2>2, <2>7
    <3>2. Progress(o.w, g.w)
      BY <2>5, <3>1, FlushHolds DEF Progress
    <3>3. Progress(w, g.w)
      BY <2>5, <3>2, ProgressThen
    <3>4. QED
      BY <3>1, <3>3, FlushAnswers, ThenAvailable
  <2>8. QED
    BY <2>6, <2>7
<1>6. QED
  BY <1>4, <1>5

\* v is in the domain of ctx.  Text came to the application only if that is
\* the domain of w.
Switched(w, v, ctx) ==
    /\ Fine(v) /\ Domain(v.s.ctx) = Domain(ctx)
    /\ v.ui.ctx = w.ui.ctx /\ v.ui.active = w.ui.active
    /\ v.h.typed = w.h.typed /\ v.h.dom = w.h.dom /\ v.h.events = w.h.events
    /\ Progress(w, v) \/ v.h.app = w.h.app

\* A secure or program boundary gives the application nothing.
LEMMA CrossDomainHolds ==
    ASSUME NEW w, Fine(w), NEW ctx, IsContext(ctx), ClearsPreedit(w.s.ctx, ctx),
           NEW v \in CrossDomain(w, ctx)
    PROVE  Switched(w, v, ctx)
<1> DEFINE Rest(u) == {Available(o.w, o.ok) : o \in UpdateContext(DiscardLocalComposition(u), ctx)}
<1>1. v \in UNION {Rest(u) : u \in FinalizeWithoutUITarget(w, AcceptedPendingLearning(w))}
  BY DEF CrossDomain
<1>2. PICK u \in FinalizeWithoutUITarget(w, AcceptedPendingLearning(w)) : v \in Rest(u)
  <2> HIDE DEF Rest
  <2>1. QED
    BY <1>1
<1> DEFINE x == DiscardLocalComposition(u)
           D == Own(w)
<1>3. PICK o \in UpdateContext(x, ctx) : v = Available(o.w, o.ok)
  BY <1>2
<1>4. Parted(w, u, D)
  BY <1>2, FinalizeHolds DEF Fine
<1>5. /\ Along(u, x, D) /\ x.s = u.s /\ x.ui.comp = <<>>
  BY <1>4, DiscardLocalHolds DEF Parted, Along
<1> HIDE DEF x
<1>6. Along(w, x, D)
  BY <1>4, <1>5, AlongThen DEF Parted
<1>7. /\ Good(x, D) /\ ClearsPreedit(x.s.ctx, ctx) /\ x.s.id = 0 /\ ~HasDeferredWork(x.s)
  BY <1>4, <1>5, <1>6 DEF Along, Within, Parted, HasDeferredWork
<1> DEFINE E == {t \in DOMAIN w.h.dom : Domain(w.h.dom[t]) = Domain(ctx)}
<1>70. E \subseteq Typed(x)
  BY <1>6, SeqDomain DEF Fine, Along, Within, Typed
<1> HIDE DEF E
<1>8. Crossed(x, o.w, ctx, E)
  BY <1>3, <1>5, <1>7, <1>70, CrossingHolds
<1>9. /\ o.w.s.ctx = ctx /\ Good(o.w, E) /\ o.w.ui.ctx = w.ui.ctx
      /\ o.w.ui.active = w.ui.active /\ o.w.h.typed = w.h.typed /\ o.w.h.dom = w.h.dom
      /\ o.w.h.app = w.h.app /\ o.w.h.events = w.h.events
  BY <1>6, <1>8 DEF Crossed, Shifted, Along, Within
<1>10. Own(o.w) = E
  BY <1>9 DEF Own, E
<1>15. Brief(o.w.s.journal)
  BY <1>8, EmptyIsBrief DEF Crossed
<1>11. Fine(o.w)
  BY <1>9, <1>10, <1>15 DEF Fine
<1>12. v.h = o.w.h
  BY <1>3, <1>11 DEF Available, Fine, Good, Held, Net, Shape
<1>13. Progress(o.w, v)
  BY <1>3, <1>11, UpdateAnswers, AvailableHolds
<1>14. QED
  BY <1>9, <1>12, <1>13 DEF Progress, Switched

\* capabilityAboutToChange leads to the domain of the new context.
LEMMA CapabilityHolds ==
    ASSUME NEW w, Fine(w), NEW ctx, IsContext(ctx), NEW v \in CapabilityAboutToChange(w, ctx)
    PROVE  /\ Switched(w, v, ctx)
           /\ Domain(ctx) = Domain(w.s.ctx) => Progress(w, v)
<1>0. IsContext(w.s.ctx)
  BY DEF Fine
<1>1. CASE ~ContextChanged(w.s.ctx, ctx)
  <2>0. ctx = w.s.ctx /\ ~ClearsPreedit(w.s.ctx, ctx)
    BY <1>1 DEF ContextChanged, ClearsPreedit
  <2>1. v \in ResumeContext(w) /\ ctx = w.s.ctx
    BY <1>1, <2>0 DEF CapabilityAboutToChange
  <2>2. Progress(w, v)
    BY <2>1, ResumeHolds
  <2>3. QED
    BY <2>1, <2>2 DEF Switched, Progress
<1>2. CASE ContextChanged(w.s.ctx, ctx) /\ ClearsPreedit(w.s.ctx, ctx)
  <2>1. v \in CrossDomain(w, ctx)
    BY <1>2 DEF CapabilityAboutToChange
  <2>2. Domain(ctx) # Domain(w.s.ctx)
    BY <1>0, <1>2, DomainIs DEF ClearsPreedit
  <2>3. QED
    BY <1>2, <2>1, <2>2, CrossDomainHolds
<1>3. CASE ContextChanged(w.s.ctx, ctx) /\ ~ClearsPreedit(w.s.ctx, ctx)
  <2>1. v \in ReplaceFrontend(w, ctx)
    BY <1>3 DEF CapabilityAboutToChange
  <2>2. w.s.ctx.program = ctx.program /\ w.s.ctx.secure = ctx.secure
    BY <1>3 DEF ClearsPreedit
  <2>3. Domain(ctx) = Domain(w.s.ctx)
    BY <1>0, <2>2, DomainIs
  <2>4. Progress(w, v)
    BY <2>1, <2>3, ReplaceFrontendHolds
  <2>5. QED
    BY <2>3, <2>4 DEF Switched, Progress
<1>4. QED
  BY <1>1, <1>2, <1>3

------------------------------------------------------------------------------
(* commitPreedit                                                           *)

\* A local commit gives the application what is on the screen.
LEMMA CommitLocallyHolds ==
    ASSUME NEW w, Fine(w), NEW preferred, NEW v \in CommitLocally(w, preferred)
    PROVE  Progress(w, v)
<1> DEFINE x == [CommitString(w, w.ui.comp) EXCEPT !.ui.comp = <<>>]
<1>1. w.ui.comp \in Seq(Own(w))
  BY DEF Fine, Good, Held, ScreenIn
<1>2. Progress(w, x)
  BY <1>1, CommitStringHolds
<1>3. PICK u \in FinalizeWithoutUITarget(x, preferred) :
        v = Available(DiscardLocalComposition(u), FALSE)
  BY DEF CommitLocally
<1> HIDE DEF x
<1>4. Fine(x)
  BY <1>2 DEF Progress
<1>5. Progress(x, v)
  BY <1>3, <1>4, AbandonHolds
<1>6. QED
  BY <1>2, <1>5, ProgressThen

\* The decision about learning and the deferred work are progress.
LEMMA CommitLearnedHolds ==
    ASSUME NEW w, Fine(w), NEW visible, NEW f \in CommitLearned(w, visible)
    PROVE  Progress(w, f.w)
<1> DEFINE Decided == IF visible \/ w.ui.learn THEN PendingLearningResolved(w, TRUE) ELSE {w}
<1>1. f \in UNION {FlushDeferredActions(u, FALSE, TRUE) : u \in Decided}
  BY DEF CommitLearned
<1>2. PICK u \in Decided : f \in FlushDeferredActions(u, FALSE, TRUE)
  <2> HIDE DEF Decided
  <2>1. QED
    BY <1>1
<1>3. Progress(w, u)
  <2>1. CASE visible \/ w.ui.learn
    <3>1. u \in PendingLearningResolved(w, TRUE)
      BY <1>2, <2>1
    <3>2. QED
      BY <3>1, ResolvedHolds
  <2>2. CASE ~(visible \/ w.ui.learn)
    <3>1. u = w
      BY <1>2, <2>2
    <3>2. QED
      BY <3>1, ProgressSelf
  <2>3. QED
    BY <2>1, <2>2
<1>4. Progress(u, f.w)
  BY <1>2, <1>3, FlushHolds DEF Progress
<1>5. QED
  BY <1>3, <1>4, ProgressThen

\* A commit that is given up is progress.
LEMMA GiveUpCommitHolds ==
    ASSUME NEW w, Fine(w), NEW v \in GiveUpCommit(w)
    PROVE  Progress(w, v)
<1>1. PICK u \in FinalizeWithoutUITarget(w, TRUE) :
        v = Available(DiscardLocalComposition(u), FALSE)
  BY DEF GiveUpCommit
<1>2. QED
  BY <1>1, AbandonHolds

\* commitPreedit is progress.
LEMMA CommitPreeditHolds ==
    ASSUME NEW w, Fine(w), NEW v \in CommitPreedit(w)
    PROVE  Progress(w, v)
<1> DEFINE visible == w.ui.phase # "idle"
           Then(o) == IF o.ok THEN {o} ELSE FlushDeferredActions(o.w, FALSE, TRUE)
           First == IF ~visible THEN {[w |-> w, ok |-> TRUE]}
                    ELSE UNION {Then(o) : o \in DispatchV2(w, Act("commitAll"))}
           After(f) == IF f.ok THEN {f.w} ELSE GiveUpCommit(f.w)
           Rest(o) == IF ~o.ok \/ (visible /\ o.w.ui.phase # "idle")
                      THEN CommitLocally(o.w, FALSE)
                      ELSE UNION {After(f) : f \in CommitLearned(o.w, visible)}
<1>1. CASE ~w.ui.avail
  <2>1. v \in CommitLocally(w, AcceptedPendingLearning(w))
    BY <1>1 DEF CommitPreedit
  <2>2. QED
    BY <2>1, CommitLocallyHolds
<1>2. CASE w.ui.avail
  <2>1. v \in UNION {Rest(o) : o \in First}
    BY <1>2 DEF CommitPreedit
  <2> HIDE DEF visible
  <2>2. PICK o \in First : v \in Rest(o)
    <3> HIDE DEF Rest, First
    <3>1. QED
      BY <2>1
  <2>3. Progress(w, o.w)
    <3>1. CASE ~visible
      <4>1. o = [w |-> w, ok |-> TRUE]
        BY <2>2, <3>1
      <4>2. QED
        BY <4>1, ProgressSelf
    <3>2. CASE visible
      <4>1. o \in UNION {Then(p) : p \in DispatchV2(w, Act("commitAll"))}
        BY <2>2, <3>2
      <4>2. PICK p \in DispatchV2(w, Act("commitAll")) : o \in Then(p)
        <5> HIDE DEF Then
        <5>1. QED
          BY <4>1
      <4>3. IsAction(Act("commitAll"), Own(w))
        BY NoActIn DEF Ops
      <4>4. Progress(w, p.w)
        BY <4>2, <4>3, DispatchHolds
      <4>5. CASE p.ok
        BY <4>2, <4>4, <4>5
      <4>6. CASE ~p.ok
        <5>1. o \in FlushDeferredActions(p.w, FALSE, TRUE)
          BY <4>2, <4>6
        <5>2. Progress(p.w, o.w)
          BY <4>4, <5>1, FlushHolds DEF Progress
        <5>3. QED
          BY <4>4, <5>2, ProgressThen
      <4>7. QED
        BY <4>5, <4>6
    <3>3. QED
      BY <3>1, <3>2
  <2>4. Fine(o.w)
    BY <2>3 DEF Progress
  <2>5. Progress(o.w, v)
    <3>1. CASE v \in CommitLocally(o.w, FALSE)
      BY <2>4, <3>1, CommitLocallyHolds
    <3>2. CASE v \in UNION {After(f) : f \in CommitLearned(o.w, visible)}
      <4>1. PICK f \in CommitLearned(o.w, visible) : v \in After(f)
        <5> HIDE DEF After
        <5>1. QED
          BY <3>2
      <4>2. Progress(o.w, f.w)
        BY <2>4, <4>1, CommitLearnedHolds
      <4>3. CASE f.ok
        BY <4>1, <4>2, <4>3
      <4>4. CASE ~f.ok
        <5>1. v \in GiveUpCommit(f.w)
          BY <4>1, <4>4
        <5>2. Progress(f.w, v)
          BY <4>2, <5>1, GiveUpCommitHolds DEF Progress
        <5>3. QED
          BY <2>4, <4>2, <5>2, ProgressThen
      <4>5. QED
        BY <4>3, <4>4
    <3>3. QED
      BY <2>2, <3>1, <3>2
  <2>6. QED
    BY <2>3, <2>5, ProgressThen
<1>3. QED
  BY <1>1, <1>2

------------------------------------------------------------------------------
(* Larger domains, and changes of history                                  *)

\* What is of D is of every larger set.
LEMMA SnapshotMore ==
    ASSUME NEW D, NEW E, D \subseteq E
    PROVE  /\ \A c : c \in Checkpoints(D) => c \in Checkpoints(E)
           /\ \A fx \in Seq(Effects(D)) : fx \in Seq(Effects(E))
           /\ \A n : n \in Snapshots(D) => n \in Snapshots(E)
           /\ \A r : Reply(r, D) => Reply(r, E)
           /\ \A a : IsAction(a, D) => IsAction(a, E)
           /\ \A x : SessionIn(x, D) => SessionIn(x, E)
           /\ \A f : FrameIn(f, D) => FrameIn(f, E)
           /\ \A x : IsServed(x, D) => IsServed(x, E)
           /\ \A f : FrameTyped(f, D) => FrameTyped(f, E)
<1>1. \A q \in Seq(D) : q \in Seq(E)
  BY SeqMore
<1>2. Effects(D) \subseteq Effects(E)
  BY <1>1 DEF Effects
<1>3. \A fx \in Seq(Effects(D)) : fx \in Seq(Effects(E))
  <2> DEFINE S == Effects(D)
             T == Effects(E)
  <2>1. S \subseteq T
    BY <1>2
  <2> HIDE DEF S, T
  <2>2. \A fx \in Seq(S) : fx \in Seq(T)
    BY <2>1, SeqMore
  <2>3. QED
    BY <2>2 DEF S, T
<1>4. \A c : c \in Checkpoints(D) => c \in Checkpoints(E)
  BY <1>1 DEF Checkpoints
<1>5. \A n : n \in Snapshots(D) => n \in Snapshots(E)
  BY <1>1, <1>3, <1>4 DEF Snapshots
<1>6. \A a : IsAction(a, D) => IsAction(a, E)
  BY <1>1, <1>4 DEF IsAction
<1>7. \A c : CheckpointIn(c, D) => CheckpointIn(c, E)
  BY <1>1 DEF CheckpointIn
<1>8. \A n : SnapshotIn(n, D) => SnapshotIn(n, E)
  BY <1>1, <1>3, <1>7 DEF SnapshotIn
<1>9. \A x : SessionIn(x, D) => SessionIn(x, E)
  BY <1>1, <1>8 DEF SessionIn
<1>10. \A f : FrameIn(f, D) => FrameIn(f, E)
  BY <1>1, <1>7, <1>8 DEF FrameIn, ResponseIn, ActionIn
<1>11. \A r : Reply(r, D) => Reply(r, E)
  BY <1>5 DEF Reply
<1>12. \A x : IsServed(x, D) => IsServed(x, E)
  BY <1>1, <1>5 DEF IsServed, IsState
<1>13. \A f : FrameTyped(f, D) => FrameTyped(f, E)
  BY <1>6, <1>11 DEF FrameTyped, MessageTyped
<1>14. QED
  BY <1>3, <1>4, <1>5, <1>6, <1>9, <1>10, <1>11, <1>12, <1>13

\* A world good for D is good for every larger set.
LEMMA GoodMore ==
    ASSUME NEW w, NEW D, NEW E, D \subseteq E, E \subseteq Typed(w), Good(w, D)
    PROVE  Good(w, E)
<1>1. \A q \in Seq(D) : q \in Seq(E)
  BY SeqMore
<1>2. JournalIn(w.s.journal, E)
  <2>1. JournalIn(w.s.journal, D)
    BY DEF Good, Held, ClientIn
  <2>2. \A a : IsAction(a, D) => IsAction(a, E)
    BY SnapshotMore
  <2>3. QED
    BY <2>1, <2>2 DEF JournalIn, EntryIn
<1>3. /\ w.s.replayed \in Seq(Effects(E)) /\ w.s.snap \in Snapshots(E)
      /\ w.s.ckpt \in Checkpoints(E)
  <2>1. ClientIn(w.s, D)
    BY DEF Good, Held
  <2>2. /\ w.s.replayed \in Seq(Effects(D)) /\ w.s.snap \in Snapshots(D)
        /\ w.s.ckpt \in Checkpoints(D)
    BY <2>1 DEF ClientIn
  <2>3. \A fx \in Seq(Effects(D)) : fx \in Seq(Effects(E))
    BY SnapshotMore
  <2>4. w.s.replayed \in Seq(Effects(E))
    BY <2>2, <2>3
  <2>5. \A x \in Snapshots(D) : x \in Snapshots(E)
    BY SnapshotMore
  <2>6. \A x \in Checkpoints(D) : x \in Checkpoints(E)
    BY SnapshotMore
  <2>7. QED
    BY <2>2, <2>4, <2>5, <2>6
<1>4. ClientIn(w.s, E)
  BY <1>1, <1>2, <1>3 DEF Good, Held, ClientIn
<1>5. Held(w, E)
  BY <1>1, <1>4 DEF Good, Held, ScreenIn
<1>6. SessionIn(w.srv, D) => SessionIn(w.srv, E)
  BY SnapshotMore
<1>7. \A f : FrameIn(f, D) => FrameIn(f, E)
  BY SnapshotMore
<1>8. Compat(w, w.s.id, E)
  BY <1>6, <1>7 DEF Good, Compat
<1>9. QED
  BY <1>5, <1>8 DEF Good

\* Text of D is text of every larger set.
LEMMA ExtendedMore ==
    ASSUME NEW p, NEW q, NEW D, NEW E, D \subseteq E, Extended(p, q, D)
    PROVE  Extended(p, q, E)
BY DEF Extended

\* v differs from w in what no request reads
Beside(w, v) ==
    /\ DOMAIN v = DOMAIN w /\ v.s = w.s /\ v.srv = w.srv /\ v.net = w.net
    /\ DOMAIN v.ui = DOMAIN w.ui /\ v.ui.comp = w.ui.comp /\ v.ui.phase = w.ui.phase
    /\ v.ui.learn = w.ui.learn /\ v.ui.avail \in BOOLEAN /\ v.ui.active \in BOOLEAN
    /\ DOMAIN v.h = DOMAIN w.h /\ v.h.orphans = w.h.orphans /\ v.h.app = w.h.app
    /\ v.h.faults = w.h.faults /\ v.h.taught = w.h.taught /\ v.h.deleted = w.h.deleted
    /\ v.h.dropped = w.h.dropped /\ v.h.shown = w.h.shown
    /\ Typed(w) \subseteq Typed(v) /\ v.h.undone \subseteq Typed(v)

\* A change of what no request reads keeps a world good.
LEMMA BesideHolds ==
    ASSUME NEW w, NEW D, Good(w, D), NEW v, Beside(w, v)
    PROVE  Good(v, D)
<1>1. Shape(v)
  BY DEF Beside, Shape, Good, Held, Net
<1>2. Net(v)
  BY <1>1 DEF Beside, Good, Held, Net, Wired
<1>3. Held(v, D)
  <2> DEFINE T == Typed(w)
             U == Typed(v)
  <2>1. T \subseteq U /\ Linked(w, T) /\ D \subseteq T /\ PastIn(w.h, T)
    BY DEF Beside, Good, Held
  <2>2. v.h.undone \subseteq U
    BY DEF Beside
  <2> HIDE DEF T, U
  <2>3. /\ \A x : IsServed(x, T) => IsServed(x, U)
        /\ \A f : FrameTyped(f, T) => FrameTyped(f, U)
    BY <2>1, SnapshotMore
  <2>4. Linked(v, U)
    BY <1>1, <2>1, <2>3 DEF Linked, Beside
  <2>5. w.h.app \in Seq(U)
    BY <2>1, SeqMore DEF PastIn
  <2>6. PastIn(v.h, U)
    BY <2>1, <2>2, <2>5 DEF PastIn, Beside
  <2>7. ScreenIn(v.ui, D)
    BY DEF Good, Held, ScreenIn, Beside
  <2>8. QED
    BY <1>2, <2>1, <2>4, <2>6, <2>7 DEF Beside, Good, Held, U
<1>4. Owned(v, v.s.id) /\ Compat(v, v.s.id, D)
  BY DEF Beside, Good, Owned, Closing, Compat
<1>5. QED
  BY <1>3, <1>4 DEF Good

\* A change of what no request reads keeps the domain's text.
LEMMA BesideFine ==
    ASSUME NEW w, Fine(w), NEW v, Beside(w, v), v.h.typed = w.h.typed, v.h.dom = w.h.dom
    PROVE  Fine(v) /\ Own(v) = Own(w)
<1>1. Own(v) = Own(w)
  BY DEF Own, Beside
<1>2. Good(v, Own(w))
  BY BesideHolds DEF Fine
<1>3. QED
  BY <1>1, <1>2 DEF Fine, Beside

------------------------------------------------------------------------------
(* keyEvent                                                                *)

\* v comes after w in the same domain, in which one key may have typed
Led(w, v) ==
    /\ Fine(v) /\ Domain(v.s.ctx) = Domain(w.s.ctx)
    /\ v.ui.ctx = w.ui.ctx /\ v.ui.active = w.ui.active
    /\ v.h.typed \in {w.h.typed, w.h.typed + 1} /\ v.h.events = w.h.events
    /\ Own(w) \subseteq Own(v) /\ Extended(w.h.app, v.h.app, Own(v))

\* Progress, no key typed.
LEMMA ProgressLed ==
    ASSUME NEW w, NEW v, Progress(w, v)
    PROVE  Led(w, v)
BY DEF Progress, Led

\* Two stretches of a key event are one, if only one of them types.
LEMMA LedThen ==
    ASSUME NEW w, Fine(w), NEW v, NEW u,
           (Progress(w, v) /\ Led(v, u)) \/ (Led(w, v) /\ Progress(v, u))
    PROVE  Led(w, u)
<1>0. Led(w, v) /\ Led(v, u) /\ u.h.typed \in {w.h.typed, w.h.typed + 1}
  BY ProgressLed DEF Progress, Led
<1>1. IsSeq(w.h.app) /\ Own(v) \subseteq Own(u)
  BY <1>0, AppIsSeq DEF Fine, Led
<1>2. Extended(w.h.app, v.h.app, Own(u))
  BY <1>0, <1>1, ExtendedMore DEF Led
<1>3. Extended(w.h.app, u.h.app, Own(u))
  BY <1>0, <1>1, <1>2, ExtendedThen DEF Led
<1>4. QED
  BY <1>0, <1>3 DEF Led

\* The key typed in the domain of the session
Struck(w, v) ==
    /\ Led(w, v) /\ v.h.typed = w.h.typed + 1 /\ v.h.typed \in Own(v) /\ v.s = w.s
    /\ v.ui = w.ui /\ v.h.app = w.h.app

\* A key types in the domain of the session.
LEMMA KeystrokeHolds ==
    ASSUME NEW w, Fine(w), Domain(w.ui.ctx) = Domain(w.s.ctx)
    PROVE  Struck(w, Keystroke(w))
<1> DEFINE v == Keystroke(w)
           dom == Append(w.h.dom, w.ui.ctx)
           n == w.h.typed + 1
<1>1. v = [w EXCEPT !.h = [[w.h EXCEPT !.typed = n] EXCEPT !.dom = dom]]
  BY DEF Keystroke, Fine, Good, Held, Net, Shape
<1>2. /\ IsSeq(dom) /\ Len(dom) = Len(w.h.dom) + 1 /\ Len(w.h.dom) \in Nat
      /\ \A i \in 1 .. Len(w.h.dom) : dom[i] = w.h.dom[i]
      /\ dom[Len(w.h.dom) + 1] = w.ui.ctx
  BY SeqAppend, SeqDomain DEF Fine
<1> HIDE DEF v, dom
<1>3. /\ DOMAIN v = DOMAIN w /\ v.s = w.s /\ v.ui = w.ui /\ v.srv = w.srv /\ v.net = w.net
      /\ v.h = [[w.h EXCEPT !.typed = n] EXCEPT !.dom = dom]
  BY <1>1 DEF Fine, Good, Held, Net, Shape
<1>4. /\ DOMAIN v.h = DOMAIN w.h /\ v.h.orphans = w.h.orphans /\ v.h.app = w.h.app
      /\ v.h.dom = dom /\ v.h.typed = n /\ v.h.events = w.h.events
      /\ v.h.faults = w.h.faults /\ v.h.taught = w.h.taught /\ v.h.deleted = w.h.deleted
      /\ v.h.dropped = w.h.dropped /\ v.h.shown = w.h.shown /\ v.h.undone = w.h.undone
  BY <1>3 DEF Fine, Good, Held, Net, Shape
<1>51. Typed(w) \subseteq Typed(v)
  BY <1>2, <1>4 DEF Typed, Fine
<1>5. Beside(w, v)
  BY <1>3, <1>4, <1>51 DEF Beside, Fine, Good, Held, ScreenIn, PastIn
<1>6. DOMAIN w.h.dom = 1 .. Len(w.h.dom) /\ DOMAIN dom = 1 .. Len(w.h.dom) + 1 /\ n = Len(dom)
  BY <1>2, SeqDomain DEF Fine
<1>7. Own(w) \subseteq Own(v)
  BY <1>2, <1>3, <1>4, <1>6 DEF Own
<1>8. n \in Own(v)
  BY <1>2, <1>3, <1>4, <1>6 DEF Own
<1>9. Good(v, Own(v))
  <2>1. Good(v, Own(w))
    BY <1>5, BesideHolds DEF Fine
  <2>2. Own(v) \subseteq Typed(v)
    BY <1>4, <1>6 DEF Own, Typed
  <2>3. QED
    BY <1>7, <2>1, <2>2, GoodMore
<1>10. Fine(v)
  BY <1>2, <1>3, <1>4, <1>6, <1>9 DEF Fine
<1>11. Extended(w.h.app, v.h.app, Own(v))
  BY <1>4, AppIsSeq, ExtendedSelf DEF Fine
<1>12. Struck(w, v)
  BY <1>3, <1>4, <1>7, <1>8, <1>10, <1>11 DEF Struck, Led
<1>13. QED
  BY <1>12 DEF v

\* The empty text is of every domain.
LEMMA EmptyIn == \A D : <<>> \in Seq(D)
OBVIOUS

\* The text of one key.
LEMMA OneIn ==
    ASSUME NEW D, NEW t \in D
    PROVE  <<t>> \in Seq(D)
OBVIOUS

\* The application inserts the key itself.
LEMMA PassToAppHolds ==
    ASSUME NEW w, Fine(w), Domain(w.ui.ctx) = Domain(w.s.ctx), NEW key
    PROVE  Led(w, PassToApp(w, key))
<1> DEFINE v == Keystroke(w)
           n == w.h.typed + 1
<1>1. Struck(w, v)
  BY KeystrokeHolds
<1> HIDE DEF v
<1>2. Fine(v) /\ n \in Own(v) /\ Led(w, v)
  BY <1>1 DEF Struck, Led
<1>3. <<n>> \in Seq(Own(v))
  BY <1>2, OneIn
<1>4. Progress(v, CommitString(v, <<n>>))
  BY <1>2, <1>3, CommitStringHolds
<1>5. Led(w, CommitString(v, <<n>>))
  BY <1>2, <1>4, ProgressLed, LedThen
<1>6. Led(w, w)
  BY ProgressSelf, ProgressLed
<1>7. QED
  BY <1>5, <1>6 DEF PassToApp, v

\* A key the server did not take goes to the application once.
LEMMA InsertedWhileIdleHolds ==
    ASSUME NEW o, Fine(o.w), o.w.h.typed \in Own(o.w), NEW key,
           NEW p \in InsertedWhileIdle(o, key)
    PROVE  Progress(o.w, p.w)
<1> DEFINE w == o.w
           text == <<o.w.h.typed>>
<1>1. CASE o.ok /\ key = "space"
  <2>1. p \in DispatchV2(o.w, Act("commitAll"))
    BY <1>1 DEF InsertedWhileIdle
  <2>2. IsAction(Act("commitAll"), Own(o.w))
    BY NoActIn DEF Ops
  <2>3. QED
    BY <2>1, <2>2, DispatchHolds
<1>2. CASE o.ok /\ key # "space"
  <2>1. p = o
    BY <1>2 DEF InsertedWhileIdle
  <2>2. QED
    BY <2>1, ProgressSelf
<1>3. CASE ~o.ok
  <2>0. p \in {[w |-> CommitString(DiscardLocalComposition(u), text), ok |-> FALSE] :
                  u \in FinalizeWithoutUITarget(w, FALSE)}
    BY <1>3 DEF InsertedWhileIdle
  <2>1. PICK u \in FinalizeWithoutUITarget(w, FALSE) :
          p = [w |-> CommitString(DiscardLocalComposition(u), text), ok |-> FALSE]
    BY <2>0
  <2> DEFINE x == DiscardLocalComposition(u)
  <2> HIDE DEF text
  <2>2. Progress(w, x)
    BY <2>1, AbandonHolds
  <2>3. p.w = CommitString(x, text)
    BY <2>1
  <2> HIDE DEF x
  <2>4. Fine(x) /\ Own(x) = Own(w)
    BY <2>2 DEF Progress
  <2>5. text \in Seq(Own(x))
    BY <2>4, OneIn DEF text
  <2>6. Progress(x, p.w)
    BY <2>3, <2>4, <2>5, CommitStringHolds
  <2>7. QED
    BY <2>2, <2>6, ProgressThen
<1>4. QED
  BY <1>1, <1>2, <1>3

\* The text of a key is an insertion.
LEMMA InsertionIn ==
    ASSUME NEW D, NEW n \in D
    PROVE  IsAction(InsertText(<<n>>), D)
<1> DEFINE act == InsertText(<<n>>)
<1>1. act.op = "insertText" /\ act.text = <<n>> /\ act.ck = NoCheckpoint
  BY DEF InsertText, Act
<1>2. act.text \in Seq(D)
  BY <1>1, OneIn
<1>3. NoCheckpoint \in Checkpoints(D)
  BY NoSnapshotTyped
<1>4. QED
  BY <1>1, <1>2, <1>3 DEF IsAction, Ops

\* What a key sends stays in the domain of the session.
LEMMA SendKeyHolds ==
    ASSUME NEW w, Fine(w), NEW act, IsAction(act, Own(w)), NEW o \in SendKey(w, act)
    PROVE  Progress(w, o.w)
<1> DEFINE surrounding == Act("surrounding")
<1>1. PICK p : \/ p \in DispatchV2(w, act) /\ o = p
               \/ p \in DispatchV2(w, surrounding) /\ o \in DispatchV2(p.w, act)
  BY DEF SendKey, OnceMore
<1>2. IsAction(surrounding, Own(w))
  BY NoActIn DEF Ops
<1> HIDE DEF surrounding
<1>3. CASE p \in DispatchV2(w, act) /\ o = p
  BY <1>3, DispatchHolds
<1>4. CASE p \in DispatchV2(w, surrounding) /\ o \in DispatchV2(p.w, act)
  <2>1. Progress(w, p.w)
    BY <1>2, <1>4, DispatchHolds
  <2>2. Progress(p.w, o.w)
    BY <1>4, <2>1, DispatchHolds DEF Progress
  <2>3. QED
    BY <2>1, <2>2, ProgressThen
<1>5. QED
  BY <1>1, <1>3, <1>4

\* A key becomes an action of the reducer or passes through
LEMMA MapHolds ==
    ASSUME NEW key \in AllKeys, NEW phase
    PROVE  MapHazkeyKey(key, phase) \in Ops \cup {"passThrough"}
<1>1. CASE phase = "idle"
  BY <1>1 DEF AllKeys, MapHazkeyKey, Ops
<1>2. CASE phase # "idle"
  BY <1>2 DEF AllKeys, MapHazkeyKey, Ops
<1>3. QED
  BY <1>1, <1>2

\* The learning of what was just committed is decided
LEMMA UndoneHolds ==
    ASSUME NEW w, Fine(w), NEW gone, gone \subseteq Typed(w), NEW commit,
           NEW v \in PendingLearningResolved([w EXCEPT !.h.undone = gone], commit)
    PROVE  Progress(w, v)
<1> DEFINE x == [w EXCEPT !.h = [w.h EXCEPT !.undone = gone]]
<1>1. [w EXCEPT !.h.undone = gone] = x
  BY DEF Fine, Good, Held, Net, Shape
<1>2. /\ DOMAIN x = DOMAIN w /\ x.s = w.s /\ x.ui = w.ui /\ x.srv = w.srv /\ x.net = w.net
      /\ DOMAIN x.h = DOMAIN w.h /\ x.h.orphans = w.h.orphans /\ x.h.app = w.h.app
      /\ x.h.dom = w.h.dom /\ x.h.typed = w.h.typed /\ x.h.events = w.h.events
      /\ x.h.faults = w.h.faults /\ x.h.taught = w.h.taught /\ x.h.deleted = w.h.deleted
      /\ x.h.dropped = w.h.dropped /\ x.h.shown = w.h.shown /\ x.h.undone = gone
  BY DEF Fine, Good, Held, Net, Shape
<1> HIDE DEF x
<1>3. Beside(w, x)
  BY <1>2 DEF Beside, Typed, Fine, Good, Held, ScreenIn
<1>4. Fine(x) /\ Own(x) = Own(w)
  BY <1>2, <1>3, BesideFine
<1>5. Extended(w.h.app, x.h.app, Own(w))
  BY <1>2, AppIsSeq, ExtendedSelf DEF Fine
<1>6. Progress(w, x)
  BY <1>2, <1>4, <1>5 DEF Progress
<1>7. Progress(x, v)
  BY <1>1, <1>4, ResolvedHolds
<1>8. QED
  BY <1>6, <1>7, ProgressThen

\* keyEventV2 after the deferred work stays in the domain.
LEMMA HandleKeyHolds ==
    ASSUME NEW w, Fine(w), Domain(w.ui.ctx) = Domain(w.s.ctx), NEW key \in AllKeys,
           NEW v \in HandleKey(w, key)
    PROVE  Led(w, v)
<1> DEFINE action == MapHazkeyKey(key, w.ui.phase)
           pending == AcceptedPendingLearning(w)
           undo == pending /\ IsPendingLearningCancellationKey(key)
           x == IF action = "insertText" THEN Keystroke(w) ELSE w
           act == IF action = "insertText" THEN InsertText(<<x.h.typed>>) ELSE Act(action)
           sent == SendKey(x, act)
           gone == w.h.undone \cup IF undo THEN w.srv.learn ELSE {}
           Rest(p) == IF action = "insertText" /\ w.ui.phase = "idle"
                      THEN InsertedWhileIdle(p, key) ELSE {p}
<1>1. action \in Ops \cup {"passThrough"}
  BY MapHolds
<1>2. CASE undo \/ (pending /\ action = "passThrough")
  <2>1. v \in PendingLearningResolved([w EXCEPT !.h.undone = gone], ~undo)
    BY <1>2 DEF HandleKey
  <2>11. gone \subseteq Typed(w)
    BY DEF Fine, Good, Held, PastIn, Linked, IsServed, IsState
  <2> HIDE DEF gone
  <2>2. Progress(w, v)
    BY <2>1, <2>11, UndoneHolds
  <2>3. QED
    BY <2>2, ProgressLed
<1>3. CASE ~pending /\ action = "passThrough"
  <2>1. v = w
    BY <1>3 DEF HandleKey
  <2>2. QED
    BY <2>1, ProgressSelf, ProgressLed
<1>4. CASE ~undo /\ action # "passThrough"
  <2>1. v \in {o.w : o \in UNION {Rest(p) : p \in sent}}
    BY <1>4 DEF HandleKey
  <2>2. PICK o \in UNION {Rest(p) : p \in sent} : v = o.w
    <3> HIDE DEF Rest, sent
    <3>1. QED
      BY <2>1
  <2>3. PICK p \in sent : o \in Rest(p)
    <3> HIDE DEF Rest, sent
    <3>1. QED
      BY <2>2
  <2>4. CASE action = "insertText"
    <3>1. p \in SendKey(Keystroke(w), InsertText(<<Keystroke(w).h.typed>>))
      BY <2>3, <2>4
    <3> DEFINE y == Keystroke(w)
    <3>2. Struck(w, y)
      BY KeystrokeHolds
    <3>3. p \in SendKey(y, InsertText(<<y.h.typed>>))
      BY <3>1
    <3> HIDE DEF y
    <3>4. Fine(y) /\ y.h.typed \in Own(y) /\ Led(w, y)
      BY <3>2 DEF Struck, Led
    <3>5. Progress(y, p.w)
      BY <3>3, <3>4, InsertionIn, SendKeyHolds
    <3>6. Fine(p.w) /\ p.w.h.typed \in Own(p.w)
      BY <3>4, <3>5 DEF Progress
    <3>7. Progress(p.w, o.w)
      <4>1. CASE w.ui.phase = "idle"
        <5>1. o \in InsertedWhileIdle(p, key)
          BY <2>3, <2>4, <4>1
        <5>2. QED
          BY <3>6, <5>1, InsertedWhileIdleHolds
      <4>2. CASE w.ui.phase # "idle"
        <5>1. o = p
          BY <2>3, <4>2
        <5>2. QED
          BY <3>6, <5>1, ProgressSelf
      <4>3. QED
        BY <4>1, <4>2
    <3>8. Progress(y, v)
      BY <2>2, <3>4, <3>5, <3>7, ProgressThen
    <3>9. QED
      BY <3>4, <3>8, ProgressLed, LedThen
  <2>5. CASE action # "insertText"
    <3>1. p \in SendKey(w, Act(action)) /\ o = p
      BY <2>3, <2>5
    <3>2. action \in Ops
      BY <1>1, <1>4
    <3> HIDE DEF action
    <3>3. IsAction(Act(action), Own(w))
      BY <3>2, NoActIn
    <3>4. Progress(w, v)
      BY <2>2, <3>1, <3>3, SendKeyHolds
    <3>5. QED
      BY <3>4, ProgressLed
  <2>6. QED
    BY <2>4, <2>5
<1>5. QED
  BY <1>2, <1>3, <1>4

\* Deferred work before a key is progress.
LEMMA FlushForKeyHolds ==
    ASSUME NEW w, Fine(w), NEW f \in FlushForKey(w)
    PROVE  Progress(w, f.w)
<1> DEFINE Rest(g) == IF g.ok THEN {g} ELSE FlushDeferredActions(g.w, TRUE, FALSE)
<1>1. f \in UNION {Rest(g) : g \in FlushDeferredActions(w, FALSE, FALSE)}
  BY DEF FlushForKey, OnceMore
<1>2. PICK g \in FlushDeferredActions(w, FALSE, FALSE) : f \in Rest(g)
  <2> HIDE DEF Rest
  <2>1. QED
    BY <1>1
<1>3. Progress(w, g.w)
  BY <1>2, FlushHolds
<1>4. CASE g.ok
  BY <1>2, <1>3, <1>4
<1>5. CASE ~g.ok
  <2>1. f \in FlushDeferredActions(g.w, TRUE, FALSE)
    BY <1>2, <1>5
  <2>2. Progress(g.w, f.w)
    BY <1>3, <2>1, FlushHolds DEF Progress
  <2>3. QED
    BY <1>3, <2>2, ProgressThen
<1>6. QED
  BY <1>4, <1>5

\* keyEventV2 stays in the domain.
LEMMA KeyEventV2Holds ==
    ASSUME NEW w, Fine(w), Domain(w.ui.ctx) = Domain(w.s.ctx), NEW key \in AllKeys,
           NEW v \in KeyEventV2(w, key)
    PROVE  Led(w, v)
<1> DEFINE First == IF HasDeferredWork(w.s) THEN FlushForKey(w) ELSE {[w |-> w, ok |-> TRUE]}
           Rest(f) == IF f.ok THEN HandleKey(f.w, key) ELSE {Available(f.w, FALSE)}
<1>1. v \in UNION {Rest(f) : f \in First}
  BY DEF KeyEventV2
<1>2. PICK f \in First : v \in Rest(f)
  <2> HIDE DEF Rest, First
  <2>1. QED
    BY <1>1
<1>3. Progress(w, f.w)
  <2>1. CASE HasDeferredWork(w.s)
    <3>1. f \in FlushForKey(w)
      BY <1>2, <2>1
    <3>2. QED
      BY <3>1, FlushForKeyHolds
  <2>2. CASE ~HasDeferredWork(w.s)
    <3>1. f = [w |-> w, ok |-> TRUE]
      BY <1>2, <2>2
    <3>2. QED
      BY <3>1, ProgressSelf
  <2>3. QED
    BY <2>1, <2>2
<1>4. Fine(f.w) /\ Domain(f.w.ui.ctx) = Domain(f.w.s.ctx)
  BY <1>3 DEF Progress
<1>5. CASE f.ok
  <2>1. v \in HandleKey(f.w, key)
    BY <1>2, <1>5
  <2>2. Led(f.w, v)
    BY <1>4, <2>1, HandleKeyHolds
  <2>3. QED
    BY <1>3, <2>2, ProgressLed, LedThen
<1>6. CASE ~f.ok
  <2>1. v = Available(f.w, FALSE)
    BY <1>2, <1>6
  <2>2. QED
    BY <1>3, <2>1, ThenAvailable, ProgressLed
<1>7. QED
  BY <1>5, <1>6

\* keyEvent stays in the domain the input context reports.
LEMMA KeyEventHolds ==
    ASSUME NEW w, Fine(w), IsContext(w.ui.ctx), Domain(w.ui.ctx) = Domain(w.s.ctx),
           NEW key \in AllKeys, NEW v \in KeyEvent(w, key)
    PROVE  Led(w, v)
<1> DEFINE Rest(u) == IF u.ui.avail THEN KeyEventV2(u, key)
                      ELSE IF HasDeferredWork(u.s) \/ u.ui.phase # "idle" \/ u.ui.learn THEN {u}
                      ELSE {PassToApp(u, key)}
<1>1. v \in UNION {Rest(u) : u \in CapabilityAboutToChange(w, w.ui.ctx)}
  BY DEF KeyEvent
<1>2. PICK u \in CapabilityAboutToChange(w, w.ui.ctx) : v \in Rest(u)
  <2> HIDE DEF Rest
  <2>1. QED
    BY <1>1
<1>3. Progress(w, u)
  BY <1>2, CapabilityHolds
<1>4. Fine(u) /\ Domain(u.ui.ctx) = Domain(u.s.ctx)
  BY <1>3 DEF Progress
<1>5. Led(u, v)
  <2>1. CASE v \in KeyEventV2(u, key)
    BY <1>4, <2>1, KeyEventV2Holds
  <2>2. CASE v = u
    BY <1>4, <2>2, ProgressSelf, ProgressLed
  <2>3. CASE v = PassToApp(u, key)
    BY <1>4, <2>3, PassToAppHolds
  <2>4. QED
    BY <1>2, <2>1, <2>2, <2>3
<1>6. QED
  BY <1>3, <1>5, ProgressLed, LedThen

------------------------------------------------------------------------------
(* The invariant, from handler to handler                                  *)

\* A handler types at most one key.
Timely(w) == w.h.events \in 0 .. MaxEvents /\ w.h.typed <= w.h.events

\* The session holds and delivers text of its own domain only, and while the
\* addon is active that is the domain the input context reports.  Fine also
\* keeps the journal brief and the world well typed.
Stands(w) ==
    /\ Fine(w) /\ w.ui.ctx \in Contexts /\ Timely(w)
    /\ w.ui.active => Domain(w.ui.ctx) = Domain(w.s.ctx)

AddonIInv == Stands(World)

\* What the application gets between w and v was typed where w is
Delivers(w, v) ==
    \A i \in (Len(w.h.app) + 1) .. Len(v.h.app) :
        Domain(v.h.dom[v.h.app[i]]) = Domain(w.ui.ctx)

Kept(w, v) == Stands(v) /\ Delivers(w, v)

\* Contexts have the three fields.
LEMMA ContextsAre ==
    \A c \in Contexts : IsContext(c)
BY AddonAssumption DEF IsContext

\* New text of the domain is delivered where it was typed.
LEMMA OwnDelivers ==
    ASSUME NEW w, NEW v, Domain(v.s.ctx) = Domain(w.ui.ctx),
           Extended(w.h.app, v.h.app, Own(v))
    PROVE  Delivers(w, v)
BY DEF Extended, Own, Delivers

\* Nothing was delivered.
LEMMA SilentDelivers ==
    ASSUME NEW w, Fine(w), NEW v, v.h.app = w.h.app
    PROVE  Delivers(w, v)
<1>1. Len(w.h.app) \in Nat
  BY AppIsSeq, SeqDomain DEF Fine
<1>2. QED
  BY <1>1 DEF Delivers

\* A handler that stays in its domain keeps the invariant.
LEMMA LedKept ==
    ASSUME NEW w, Stands(w), w.h.typed < w.h.events,
           Domain(w.ui.ctx) = Domain(w.s.ctx), NEW v, Led(w, v)
    PROVE  Kept(w, v)
<1>1. Delivers(w, v)
  BY OwnDelivers DEF Led
<1>2. w.h.typed \in Nat
  BY SeqDomain DEF Stands, Fine
<1>4. Stands(v)
  BY <1>2, AddonAssumption DEF Stands, Timely, Led
<1>3. QED
  BY <1>1, <1>4 DEF Kept

\* The handler begins; focus may be given or taken
Begun(w, x) ==
    /\ x.h.events \in 0 .. MaxEvents /\ x.h.typed < x.h.events
    /\ Fine(x) /\ Own(x) = Own(w) /\ x.s = w.s /\ x.ui.ctx = w.ui.ctx
    /\ x.h.app = w.h.app /\ x.h.dom = w.h.dom /\ x.h.typed = w.h.typed

\* A handler begins with the world as it is, but for history and focus.
LEMMA StartedHolds ==
    ASSUME Stands(World), MayStart, NEW ev, NEW x, NEW b \in BOOLEAN,
           x = Started(ev) \/ x = [Started(ev) EXCEPT !.ui.active = b]
    PROVE  /\ Begun(World, x)
           /\ x = Started(ev) => x.ui = World.ui
           /\ x = [Started(ev) EXCEPT !.ui.active = b] => x.ui.active = b
<1> DEFINE w == World
           n == w.h.events + 1
           h1 == [[w.h EXCEPT !.events = n] EXCEPT !.ev = ev]
           y == [w EXCEPT !.h = h1]
           z == [y EXCEPT !.ui = [w.ui EXCEPT !.active = b]]
<1>1. Shape(w) /\ Fine(w)
  BY DEF Stands, Fine, Good, Held, Net
<1>11. /\ w.h.undone \subseteq Typed(w) /\ w.ui.avail \in BOOLEAN
       /\ w.ui.active \in BOOLEAN
  BY DEF Stands, Fine, Good, Held, PastIn, ScreenIn
<1>12. n \in 0 .. MaxEvents /\ w.h.typed < n
  <2>1. w.h = h /\ h.events < MaxEvents
    BY DEF World, MayStart
  <2>2. w.h.events \in 0 .. MaxEvents /\ w.h.typed <= w.h.events
    BY DEF Stands, Timely
  <2>3. w.h.typed \in Nat
    BY <1>1, SeqDomain DEF Fine
  <2> HIDE DEF w
  <2>4. QED
    BY <2>1, <2>2, <2>3, AddonAssumption
<1> HIDE DEF w
<1>2. Started(ev) = y
  BY <1>1 DEF Started, Shape, w
<1>3. [Started(ev) EXCEPT !.ui.active = b] = z
  BY <1>1, <1>2 DEF Shape
<1>4. /\ DOMAIN h1 = DOMAIN w.h /\ h1.orphans = w.h.orphans /\ h1.app = w.h.app
      /\ h1.dom = w.h.dom /\ h1.typed = w.h.typed /\ h1.events = n
      /\ h1.faults = w.h.faults /\ h1.taught = w.h.taught /\ h1.deleted = w.h.deleted
      /\ h1.dropped = w.h.dropped /\ h1.shown = w.h.shown /\ h1.undone = w.h.undone
  BY <1>1 DEF Shape
<1> HIDE DEF h1, n
<1>5. /\ DOMAIN y = DOMAIN w /\ y.s = w.s /\ y.ui = w.ui /\ y.srv = w.srv /\ y.net = w.net
      /\ y.h = h1
  BY <1>1 DEF Shape
<1>6. /\ DOMAIN z = DOMAIN w /\ z.s = w.s /\ z.srv = w.srv /\ z.net = w.net /\ z.h = h1
      /\ DOMAIN z.ui = DOMAIN w.ui /\ z.ui.comp = w.ui.comp /\ z.ui.ctx = w.ui.ctx
      /\ z.ui.active = b /\ z.ui.phase = w.ui.phase /\ z.ui.learn = w.ui.learn
      /\ z.ui.avail = w.ui.avail
  BY <1>1 DEF Shape
<1> HIDE DEF y, z
<1>7. Beside(w, y) /\ Beside(w, z)
  BY <1>11, <1>4, <1>5, <1>6 DEF Beside, Typed
<1>8. Begun(w, y) /\ Begun(w, z)
  BY <1>1, <1>12, <1>4, <1>5, <1>6, <1>7, BesideFine DEF Begun
<1>9. QED
  BY <1>2, <1>3, <1>5, <1>6, <1>8 DEF w

\* What holds from the world in which the handler began holds from before it
LEMMA BegunDelivers ==
    ASSUME NEW w, NEW x, Begun(w, x), NEW v, Delivers(x, v)
    PROVE  Delivers(w, v)
BY DEF Begun, Delivers

\* A handler that types nothing leaves room for what it may have typed.
LEMMA BegunTimely ==
    ASSUME NEW w, NEW x, Begun(w, x), NEW v, v.h.events = x.h.events, v.h.typed = x.h.typed
    PROVE  Timely(v)
<1>1. x.h.events \in 0 .. MaxEvents /\ x.h.typed < x.h.events /\ x.h.typed \in Nat
  BY SeqDomain DEF Begun, Fine
<1>2. QED
  BY <1>1, AddonAssumption DEF Timely

\* The server forgets request IDs that cannot come again
LEMMA ForgottenHolds ==
    ASSUME NEW w, NEW rids, Stands(w), NEW v, v = [w EXCEPT !.srv = Forget(w.srv, rids)]
    PROVE  Stands(v) /\ v.h = w.h /\ v.ui = w.ui
<1> DEFINE y == Forget(w.srv, rids)
           cache == {e \in w.srv.cache : e.rid \in rids}
<1>1. Net(w) /\ Fine(w) /\ Good(w, Own(w)) /\ IsSession(w.srv)
  BY DEF Stands, Fine, Good, Held, Net, Wired
<1>2. y = [w.srv EXCEPT !.cache = cache]
  BY DEF Forget
<1>3. /\ DOMAIN y = DOMAIN w.srv /\ y.sid = w.srv.sid /\ y.secure = w.srv.secure
      /\ y.comp = w.srv.comp /\ y.eff = w.srv.eff /\ y.cache = cache
      /\ y.rev = w.srv.rev /\ y.proc = w.srv.proc /\ y.learn = w.srv.learn
      /\ y.phase = w.srv.phase
  BY <1>1, <1>2 DEF IsSession
<1> HIDE DEF y
<1>11. IsFiniteSet(cache)
  BY <1>1, FS_Subset DEF IsSession
<1>4. IsSession(y) /\ (SessionIn(w.srv, Own(w)) => SessionIn(y, Own(w)))
  BY <1>1, <1>3, <1>11 DEF IsSession, SessionIn
<1>5. v = [w EXCEPT !.srv = y]
  BY DEF y
<1>6. Net(v) /\ Calm(w, v, Own(w)) 
  BY <1>1, <1>3, <1>4, <1>5, NewCacheNet
<1>61. Reached(w, v, Typed(w))
  <2>1. Linked(w, Typed(w))
    BY <1>1 DEF Good, Held
  <2>2. IsServed(y, Typed(w))
    BY <1>3, <1>4, <2>1 DEF Linked, IsServed, IsState
  <2>3. QED
    BY <1>5, <2>1, <2>2, SessionTyped
<1>7. Along(w, v, Own(w)) /\ v.s = w.s /\ v.ui = w.ui
  BY <1>1, <1>6, <1>61, CalmAlong
<1>8. Progress(w, v)
  BY <1>1, <1>7, AlongProgress DEF Keeps
<1>9. v.h = w.h
  BY <1>1, <1>5 DEF Net, Shape
<1>10. QED
  BY <1>7, <1>8, <1>9 DEF Stands, Progress, Timely

\* An action keeps the invariant if all its outcomes do.
LEMMA BecomeHolds ==
    ASSUME NEW worlds, Become(worlds), \A v \in worlds : Kept(World, v)
    PROVE  AddonIInv' /\ Delivers(World, World')
<1>1. PICK w \in worlds :
        LET asked == {w.s.journal[i].rid : i \in DOMAIN w.s.journal}
                        \cup {w.net.queue[i].m.rid : i \in DOMAIN w.net.queue}
        IN  /\ s' = w.s /\ ui' = w.ui /\ net' = w.net /\ h' = w.h
            /\ srv' = Forget(w.srv, asked)
  BY DEF Become
<1> DEFINE asked == {w.s.journal[i].rid : i \in DOMAIN w.s.journal}
                        \cup {w.net.queue[i].m.rid : i \in DOMAIN w.net.queue}
           y == Forget(w.srv, asked)
           v == [w EXCEPT !.srv = y]
<1>2. s' = w.s /\ ui' = w.ui /\ net' = w.net /\ h' = w.h /\ srv' = y
  BY <1>1
<1>3. Stands(w) /\ Delivers(World, w)
  BY DEF Kept
<1> HIDE DEF asked
<1>4. Stands(v) /\ v.h = w.h /\ v.ui = w.ui
  BY <1>3, ForgottenHolds
<1>5. Shape(w)
  BY <1>3 DEF Stands, Fine, Good, Held, Net
<1> HIDE DEF y
<1>6. World' = v
  BY <1>2, <1>5 DEF World, Shape
<1>7. Delivers(World, v)
  BY <1>3, <1>4 DEF Delivers
<1>8. QED
  BY <1>4, <1>6, <1>7 DEF AddonIInv

------------------------------------------------------------------------------
(* The actions                                                             *)

\* A handler that began in x, of which v is an outcome in the same domain
LEMMA HandlerKept ==
    ASSUME Stands(World), NEW x, Begun(World, x), Domain(ui.ctx) = Domain(s.ctx),
           NEW v, Led(x, v)
    PROVE  Kept(World, v)
<1>1. World.ui.ctx = ui.ctx /\ World.s.ctx = s.ctx
  BY DEF World
<1>2. x.ui.ctx = ui.ctx /\ x.s.ctx = s.ctx /\ Fine(x) /\ ui.ctx \in Contexts
  BY <1>1 DEF Begun, Stands
<1>3. Stands(x) /\ x.h.typed < x.h.events
  BY <1>2, BegunTimely DEF Begun, Stands
<1>4. Kept(x, v)
  BY <1>2, <1>3, LedKept
<1>5. QED
  BY <1>4, BegunDelivers DEF Kept

\* A key keeps the invariant and delivers in its domain.
LEMMA KeyKept ==
    ASSUME AddonIInv, NEW key \in Keys, Key(key)
    PROVE  AddonIInv' /\ Delivers(World, World')
<1> DEFINE x == Started("key")
<1>1. /\ Stands(World) /\ ui.active /\ Domain(ui.ctx) = Domain(s.ctx) /\ ui.ctx \in Contexts
      /\ MayStart
  BY DEF AddonIInv, Key, Stands, World
<1>2. Begun(World, x)
  BY <1>1, StartedHolds
<1>3. Become(KeyEvent(x, key))
  BY DEF Key
<1> HIDE DEF x
<1>4. Fine(x) /\ IsContext(x.ui.ctx) /\ Domain(x.ui.ctx) = Domain(x.s.ctx) /\ key \in AllKeys
  BY <1>1, <1>2, ContextsAre, AddonAssumption DEF Begun, World
<1>5. ASSUME NEW v \in KeyEvent(x, key) PROVE Kept(World, v)
  <2>1. Led(x, v)
    BY <1>4, KeyEventHolds
  <2>2. QED
    BY <1>1, <1>2, <2>1, HandlerKept
<1> DEFINE worlds == KeyEvent(x, key)
<1>6. \A v \in worlds : Kept(World, v)
  BY <1>5
<1>7. Become(worlds)
  BY <1>3
<1> HIDE DEF worlds
<1>8. QED
  BY <1>6, <1>7, BecomeHolds

\* A click on a candidate likewise.
LEMMA ClickKept ==
    ASSUME AddonIInv, Click
    PROVE  AddonIInv' /\ Delivers(World, World')
<1> DEFINE x == Started("click")
           worlds == {o.w : o \in DispatchV2(x, Act("select"))}
<1>1. Stands(World) /\ MayStart /\ Domain(ui.ctx) = Domain(s.ctx)
  BY DEF AddonIInv, Click, Stands, World
<1>2. Begun(World, x)
  BY <1>1, StartedHolds
<1>3. Become(worlds)
  BY DEF Click
<1> HIDE DEF x
<1>4. Fine(x) /\ IsAction(Act("select"), Own(x))
  BY <1>2, NoActIn DEF Begun, Ops
<1>5. ASSUME NEW v \in worlds PROVE Kept(World, v)
  <2>1. PICK o \in DispatchV2(x, Act("select")) : v = o.w
    BY <1>5
  <2>2. Led(x, v)
    BY <1>4, <2>1, DispatchHolds, ProgressLed
  <2>3. QED
    BY <1>1, <1>2, <2>2, HandlerKept
<1> HIDE DEF worlds
<1>6. QED
  BY <1>3, <1>5, BecomeHolds

\* A reset by the engine likewise.
LEMMA EngineResetKept ==
    ASSUME AddonIInv, EngineReset
    PROVE  AddonIInv' /\ Delivers(World, World')
<1> DEFINE x == Started("reset")
           worlds == Reset(x)
<1>1. Stands(World) /\ MayStart /\ Domain(ui.ctx) = Domain(s.ctx)
  BY DEF AddonIInv, EngineReset, Stands, World
<1>2. Begun(World, x)
  BY <1>1, StartedHolds
<1>3. Become(worlds)
  BY DEF EngineReset
<1> HIDE DEF x
<1>4. ASSUME NEW v \in worlds PROVE Kept(World, v)
  <2>1. Led(x, v)
    BY <1>2, <1>4, ResetHolds, ProgressLed DEF Begun
  <2>2. QED
    BY <1>1, <1>2, <2>1, HandlerKept
<1> HIDE DEF worlds
<1>5. QED
  BY <1>3, <1>4, BecomeHolds

\* An activation likewise, from whatever context the session had.
LEMMA ActivateKept ==
    ASSUME AddonIInv, Activate
    PROVE  AddonIInv' /\ Delivers(World, World')
<1> DEFINE x == [Started("activate") EXCEPT !.ui.active = TRUE]
           ctx == ui.ctx
           worlds == UNION {Reset(u) : u \in CapabilityAboutToChange(x, ctx)}
<1>1. Stands(World) /\ MayStart /\ ui.ctx \in Contexts
  BY DEF AddonIInv, Activate, Stands, World
<1>2. Begun(World, x)
  BY <1>1, StartedHolds
<1>3. Become(worlds)
  BY DEF Activate
<1>4. World.ui.ctx = ctx
  BY DEF World
<1> HIDE DEF x, ctx
<1>5. Fine(x) /\ x.ui.ctx = ctx /\ IsContext(ctx) /\ ctx \in Contexts
  BY <1>1, <1>2, <1>4, ContextsAre DEF Begun, ctx
<1>6. ASSUME NEW v \in worlds PROVE Kept(World, v)
  <2>1. PICK u \in CapabilityAboutToChange(x, ctx) : v \in Reset(u)
    BY <1>6
  <2>2. Switched(x, u, ctx)
    BY <1>5, <2>1, CapabilityHolds
  <2>3. Progress(u, v)
    BY <2>1, <2>2, ResetHolds DEF Switched
  <2>4. Extended(x.h.app, v.h.app, Own(v))
    <3>1. CASE Progress(x, u)
      <4>1. Progress(x, v)
        BY <1>5, <2>3, <3>1, ProgressThen
      <4>2. QED
        BY <4>1 DEF Progress
    <3>2. CASE u.h.app = x.h.app
      BY <2>3, <3>2 DEF Progress
    <3>3. QED
      BY <2>2, <3>1, <3>2 DEF Switched
  <2>5. Domain(v.s.ctx) = Domain(ctx) /\ v.ui.ctx = ctx /\ Fine(v)
    BY <1>5, <2>2, <2>3 DEF Switched, Progress
  <2>6. Delivers(x, v)
    BY <1>5, <2>4, <2>5, OwnDelivers
  <2>61. Timely(v)
    BY <1>2, <2>2, <2>3, BegunTimely DEF Switched, Progress
  <2>7. QED
    BY <1>2, <1>5, <2>5, <2>6, <2>61, BegunDelivers DEF Kept, Stands
<1> HIDE DEF worlds
<1>7. QED
  BY <1>3, <1>6, BecomeHolds

\* A deactivation commits in the domain that loses the focus.
LEMMA DeactivateKept ==
    ASSUME AddonIInv, Deactivate
    PROVE  AddonIInv' /\ Delivers(World, World')
<1> DEFINE x == [Started("deactivate") EXCEPT !.ui.active = FALSE]
           worlds == UNION {Reset(u) : u \in CommitPreedit(x)}
<1>1. Stands(World) /\ MayStart /\ Domain(ui.ctx) = Domain(s.ctx)
  BY DEF AddonIInv, Deactivate, Stands, World
<1>2. Begun(World, x)
  BY <1>1, StartedHolds
<1>3. Become(worlds)
  BY DEF Deactivate
<1> HIDE DEF x
<1>4. Fine(x)
  BY <1>2 DEF Begun
<1>5. ASSUME NEW v \in worlds PROVE Kept(World, v)
  <2>1. PICK u \in CommitPreedit(x) : v \in Reset(u)
    BY <1>5
  <2>2. Progress(x, u)
    BY <1>4, <2>1, CommitPreeditHolds
  <2>3. Progress(u, v)
    BY <2>1, <2>2, ResetHolds DEF Progress
  <2>4. Led(x, v)
    BY <1>4, <2>2, <2>3, ProgressThen, ProgressLed
  <2>5. QED
    BY <1>1, <1>2, <2>4, HandlerKept
<1> HIDE DEF worlds
<1>6. QED
  BY <1>3, <1>5, BecomeHolds

\* A context change delivers nothing to the new domain.
LEMMA CapabilityEventKept ==
    ASSUME AddonIInv, NEW ctx \in Contexts, CapabilityEvent(ctx)
    PROVE  AddonIInv' /\ Delivers(World, World')
<1> DEFINE x == Started("capability")
           worlds == {[u EXCEPT !.ui.ctx = ctx] : u \in
                        IF ui.active THEN CapabilityAboutToChange(x, ctx) ELSE {x}}
<1>1. Stands(World) /\ MayStart /\ World.ui.active = ui.active
  BY DEF AddonIInv, CapabilityEvent, World
<1>2. Begun(World, x) /\ x.ui = World.ui
  BY <1>1, StartedHolds
<1>3. Become(worlds)
  BY DEF CapabilityEvent
<1> HIDE DEF x
<1>4. Fine(x) /\ IsContext(ctx) /\ x.ui.active = ui.active
  BY <1>1, <1>2, ContextsAre DEF Begun
<1>5. ASSUME NEW v \in worlds PROVE Kept(World, v)
  <2>1. PICK u \in IF ui.active THEN CapabilityAboutToChange(x, ctx) ELSE {x} :
          v = [u EXCEPT !.ui.ctx = ctx]
    BY <1>5
  <2>2. /\ Fine(u) /\ u.ui.active = ui.active
        /\ ui.active => Switched(x, u, ctx)
        /\ ~ui.active => u = x
    BY <1>4, <2>1, CapabilityHolds DEF Switched
  <2>3. /\ Beside(u, v) /\ v.h = u.h /\ v.s = u.s /\ v.ui.ctx = ctx
        /\ v.ui.active = u.ui.active
    <3>1. v = [u EXCEPT !.ui = [u.ui EXCEPT !.ctx = ctx]]
      BY <2>1, <2>2 DEF Fine, Good, Held, Net, Shape
    <3>2. /\ DOMAIN v = DOMAIN u /\ v.h = u.h /\ v.s = u.s /\ v.srv = u.srv
          /\ v.net = u.net /\ DOMAIN v.ui = DOMAIN u.ui /\ v.ui.comp = u.ui.comp
          /\ v.ui.phase = u.ui.phase /\ v.ui.learn = u.ui.learn
          /\ v.ui.avail = u.ui.avail /\ v.ui.active = u.ui.active /\ v.ui.ctx = ctx
      BY <2>2, <3>1 DEF Fine, Good, Held, Net, Shape
    <3>3. /\ u.ui.avail \in BOOLEAN /\ u.ui.active \in BOOLEAN /\ Typed(v) = Typed(u)
          /\ u.h.undone \subseteq Typed(u)
      BY <2>2, <3>2 DEF Fine, Good, Held, ScreenIn, PastIn, Typed
    <3>4. QED
      BY <3>2, <3>3 DEF Beside
  <2>4. Fine(v)
    BY <2>2, <2>3, BesideFine
  <2>41. Timely(v)
    BY <1>2, <2>2, <2>3, BegunTimely DEF Switched
  <2>5. Stands(v)
    BY <2>2, <2>3, <2>4, <2>41 DEF Stands, Switched
  <2>6. Delivers(x, v)
    <3>1. CASE u.h.app = x.h.app
      <4>1. v.h.app = x.h.app
        BY <2>3, <3>1
      <4>2. QED
        BY <1>4, <4>1, SilentDelivers
    <3>2. CASE ui.active /\ Progress(x, u)
      <4>1. Domain(x.ui.ctx) = Domain(x.s.ctx)
        BY <1>1, <1>2, <3>2 DEF Stands, Begun
      <4>2. Delivers(x, u)
        BY <3>2, <4>1, OwnDelivers DEF Progress
      <4>3. QED
        BY <2>3, <4>2 DEF Delivers
    <3>3. QED
      BY <2>2, <3>1, <3>2 DEF Switched
  <2>7. QED
    BY <1>2, <2>5, <2>6, BegunDelivers DEF Kept
<1> HIDE DEF worlds
<1>6. QED
  BY <1>3, <1>5, BecomeHolds

\* The end of an input context leaves nothing to the next one.
LEMMA DestroyKept ==
    ASSUME AddonIInv, Destroy
    PROVE  AddonIInv' /\ Delivers(World, World')
<1> DEFINE x == Started("destroy")
           c == NewClientSession(EmptyContext)
           Fresh(y) == [y EXCEPT !.s = c, !.ui.avail = FALSE, !.ui.active = FALSE]
           worlds == {Fresh(DiscardLocalComposition(u)) : u \in
                        FinalizeWithoutUITarget(x, AcceptedPendingLearning(World))}
<1>1. Stands(World) /\ MayStart
  BY DEF AddonIInv, Destroy
<1>2. Begun(World, x)
  BY <1>1, StartedHolds
<1>3. Become(worlds)
  BY DEF Destroy
<1> HIDE DEF x
<1>4. Fine(x)
  BY <1>2 DEF Begun
<1>5. ASSUME NEW v \in worlds PROVE Kept(World, v)
  <2>1. PICK u \in FinalizeWithoutUITarget(x, AcceptedPendingLearning(World)) :
          v = Fresh(DiscardLocalComposition(u))
    BY <1>5
  <2> DEFINE y == DiscardLocalComposition(u)
             D == Own(x)
             E == {t \in DOMAIN x.h.dom : Domain(x.h.dom[t]) = Domain(EmptyContext)}
             z == [y EXCEPT !.s = c]
  <2>2. Parted(x, u, D)
    BY <1>4, <2>1, FinalizeHolds DEF Fine
  <2>3. Along(u, y, D) /\ y.s = u.s /\ y.ui.comp = <<>>
    BY <2>2, DiscardLocalHolds DEF Parted, Along
  <2>4. v = Fresh(y)
    BY <2>1
  <2> HIDE DEF y, D, E, c
  <2>5. Along(x, y, D) /\ y.s.id = 0
    BY <2>2, <2>3, AlongThen DEF Parted
  <2>6. /\ IsClient(c) /\ c.ctx = EmptyContext /\ c.id = 0 /\ ClientIn(c, E)
        /\ ForgetsSecrets(c) /\ Brief(c.journal)
    BY NewClientIs, EmptyIsBrief DEF c
  <2>7. /\ Net(y) /\ Linked(y, Typed(y)) /\ PastIn(y.h, Typed(y)) /\ Owned(y, 0)
        /\ E \subseteq Typed(y) /\ ScreenIn(y.ui, E)
    <3>1. /\ Net(y) /\ Linked(y, Typed(y)) /\ PastIn(y.h, Typed(y)) /\ Owned(y, y.s.id)
          /\ ScreenIn(y.ui, D)
      BY <2>5 DEF Along, Good, Held
    <3>2. y.ui.comp \in Seq(E)
      BY <2>3, EmptyIn
    <3>3. E \subseteq Typed(y)
      BY <1>4, <2>5, SeqDomain DEF Along, Within, Fine, Typed, E
    <3>4. QED
      BY <2>5, <3>1, <3>2, <3>3 DEF ScreenIn
  <2>8. Replaced(y, z, c, E)
    BY <2>6, <2>7, EnteredHolds
  <2>9. v = [z EXCEPT !.ui = [[z.ui EXCEPT !.avail = FALSE] EXCEPT !.active = FALSE]]
    BY <2>4, <2>7 DEF Net, Shape
  <2> HIDE DEF z
  <2>10. Good(z, E) /\ z.s = c /\ z.ui = y.ui /\ z.h = y.h /\ Shape(z)
    BY <2>8 DEF Replaced, Good, Held, Net
  <2>11. /\ Beside(z, v) /\ v.ui.ctx = z.ui.ctx /\ v.ui.active = FALSE
         /\ v.s = z.s /\ v.h = z.h
    <3>1. /\ DOMAIN v = DOMAIN z /\ v.h = z.h /\ v.s = z.s /\ v.srv = z.srv
          /\ v.net = z.net /\ DOMAIN v.ui = DOMAIN z.ui /\ v.ui.comp = z.ui.comp
          /\ v.ui.phase = z.ui.phase /\ v.ui.learn = z.ui.learn
          /\ v.ui.avail = FALSE /\ v.ui.active = FALSE /\ v.ui.ctx = z.ui.ctx
      BY <2>9, <2>10 DEF Shape
    <3>2. Typed(v) = Typed(z) /\ z.h.undone \subseteq Typed(z)
      BY <2>10, <3>1 DEF Good, Held, PastIn, Typed
    <3>3. QED
      BY <3>1, <3>2 DEF Beside
  <2>12. Good(v, E)
    BY <2>10, <2>11, BesideHolds
  <2>13. /\ v.h.dom = x.h.dom /\ v.h.typed = x.h.typed /\ v.h.app = x.h.app
         /\ v.ui.ctx = x.ui.ctx /\ v.s.ctx = EmptyContext /\ v.h.events = x.h.events
    BY <2>5, <2>6, <2>10, <2>11 DEF Along, Within
  <2>14. Own(v) = E
    BY <2>13 DEF Own, E
  <2>15. IsContext(EmptyContext)
    BY DEF IsContext, EmptyContext
  <2>16. Fine(v)
    BY <1>4, <2>6, <2>10, <2>11, <2>12, <2>13, <2>14, <2>15 DEF Fine
  <2>161. Timely(v)
    BY <1>2, <2>13, BegunTimely
  <2>17. Stands(v)
    BY <1>1, <1>2, <2>11, <2>13, <2>16, <2>161 DEF Stands, Begun
  <2>18. Delivers(x, v)
    BY <1>4, <2>13, SilentDelivers
  <2>19. QED
    BY <1>2, <2>17, <2>18, BegunDelivers DEF Kept
<1> HIDE DEF worlds
<1>6. QED
  BY <1>3, <1>5, BecomeHolds

\* The server alone delivers nothing.
LEMMA ServerAloneKept ==
    ASSUME AddonIInv, ServerAlone
    PROVE  AddonIInv' /\ Delivers(World, World')
<1> DEFINE w == World
           worlds == ServerEvent(w)
<1>1. Stands(w) /\ Become(worlds)
  BY DEF AddonIInv, ServerAlone
<1> HIDE DEF w
<1>2. Fine(w) /\ Good(w, Own(w)) /\ Net(w)
  BY <1>1 DEF Stands, Fine, Good, Held
<1>3. ASSUME NEW v \in worlds PROVE Kept(w, v)
  <2>1. Net(v) /\ Calm(w, v, Own(w))
    BY <1>2, <1>3, ServerEventNet
  <2>11. Reached(w, v, Typed(w))
    BY <1>2, <1>3, ServerEventTyped DEF Good, Held
  <2>2. Along(w, v, Own(w)) /\ v.s = w.s /\ v.ui = w.ui
    BY <1>2, <2>1, <2>11, CalmAlong
  <2>3. Fine(v) /\ v.h.app = w.h.app /\ v.h.events = w.h.events /\ v.h.typed = w.h.typed
    BY <1>2, <2>2, AlongProgress DEF Progress, Along, Within, Keeps
  <2>4. Delivers(w, v)
    BY <1>2, <2>3, SilentDelivers
  <2>5. QED
    BY <1>1, <2>2, <2>3, <2>4 DEF Kept, Stands, Timely
<1> HIDE DEF worlds
<1>4. QED
  BY <1>1, <1>3, BecomeHolds DEF w

\* The invariant holds at the start.
LEMMA AddonInit == Init => AddonIInv
<1> SUFFICES ASSUME Init PROVE Stands(World)
  BY DEF AddonIInv
<1> DEFINE w == World
           c == NewClientSession(EmptyContext)
<1>1. w = [s |-> s, ui |-> ui, srv |-> srv, net |-> net, h |-> h]
  BY DEF World
<1>2. /\ DOMAIN ui = {"phase", "comp", "learn", "avail", "active", "ctx"}
      /\ ui.comp = <<>> /\ ui.active = FALSE /\ ui.ctx \in Contexts
      /\ ui.phase = "idle" /\ ui.learn = FALSE /\ ui.avail = FALSE
  BY DEF Init
<1>3. /\ DOMAIN net = {"up", "queue", "proc"} /\ net.up = FALSE /\ net.queue = <<>>
      /\ net.proc = 1
  BY DEF Init
<1>4. /\ DOMAIN h = {"faults", "events", "ev", "typed", "dom", "app", "shown",
                     "deleted", "dropped", "taught", "undone", "orphans"}
      /\ h.typed = 0 /\ h.dom = <<>> /\ h.app = <<>> /\ h.orphans = {}
      /\ h.faults = 0 /\ h.events = 0 /\ h.taught = {} /\ h.deleted = {}
      /\ h.shown = {} /\ h.dropped = {} /\ h.undone = {}
  BY DEF Init
<1>5. s = c /\ srv = NoSession
  BY DEF Init
<1> HIDE DEF w, c
<1>6. /\ w.s = c /\ w.ui = ui /\ w.srv = NoSession /\ w.net = net /\ w.h = h
      /\ DOMAIN w = {"s", "ui", "srv", "net", "h"}
  BY <1>1, <1>5
<1> DEFINE D == Own(w)
<1> HIDE DEF D
<1>7. /\ IsClient(c) /\ c.ctx = EmptyContext /\ c.id = 0 /\ ClientIn(c, D)
      /\ ForgetsSecrets(c) /\ Brief(c.journal)
  BY NewClientIs, EmptyIsBrief DEF c
<1>8. IsSession(NoSession) /\ NoSession.sid = 0 /\ NoSession.comp = <<>>
  BY NoSnapshotHolds DEF NoSession
<1>9. Shape(w)
  BY <1>2, <1>3, <1>4, <1>6, <1>7 DEF Shape, IsClient
<1>10. Net(w)
  BY <1>3, <1>4, <1>6, <1>8, <1>9, EmptyIsSeq DEF Net, Wired
<1> DEFINE T == Typed(w)
<1>11. D \subseteq T /\ <<>> \in Seq(D) /\ <<>> \in Seq(T)
  BY <1>4, <1>6 DEF D, Own
<1> HIDE DEF T
<1>111. Linked(w, T)
  <2>1. IsServed(NoSession, T) /\ IsSeq(c.journal)
    BY <1>7, NoSnapshotTyped DEF ClientIn, JournalIn
  <2>2. w.h.faults \in 0 .. MaxFaults
    BY <1>4, <1>6, FaultAssumption
  <2>3. w.net.queue = <<>> /\ DOMAIN <<>> = {}
    BY <1>3, <1>6
  <2>4. w.net.up \in BOOLEAN /\ w.net.proc \in Nat
    <3>1. w.net.up = FALSE /\ w.net.proc = 1
      BY <1>3, <1>6, Zenon
    <3>2. w.net.up \in BOOLEAN
      BY <3>1, Zenon
    <3>3. QED
      BY <3>1, <3>2
  <2>5. IsSeq(w.net.queue)
    BY <2>3, EmptyIsSeq
  <2>6. w.h.taught \subseteq T /\ w.h.deleted \subseteq T
    BY <1>4, <1>6
  <2>7. IsSeq(w.s.journal) /\ IsServed(w.srv, T)
    BY <1>6, <2>1
  <2>8. /\ w.net.queue # <<>> => w.net.up
        /\ \A i \in DOMAIN w.net.queue : FrameTyped(w.net.queue[i], T)
    BY <2>3
  <2>9. QED
    BY <1>9, <2>2, <2>4, <2>5, <2>6, <2>7, <2>8 DEF Linked
<1>112. ScreenIn(w.ui, D) /\ PastIn(w.h, T)
  BY <1>2, <1>4, <1>6, <1>11 DEF ScreenIn, PastIn, Phases
<1>12. Held(w, D)
  BY <1>6, <1>7, <1>10, <1>11, <1>111, <1>112 DEF Held, T
<1>13. Owned(w, w.s.id) /\ Compat(w, w.s.id, D)
  BY <1>6, <1>7, <1>8 DEF Owned, Compat
<1>14. IsContext(EmptyContext)
  BY DEF IsContext, EmptyContext
<1>15. Fine(w)
  BY <1>4, <1>6, <1>7, <1>12, <1>13, <1>14, EmptyIsSeq DEF Fine, Good, D
<1>151. Timely(w)
  BY <1>4, <1>6, AddonAssumption DEF Timely
<1>16. QED
  BY <1>2, <1>6, <1>15, <1>151 DEF Stands, w

\* Every step keeps the invariant and delivers in its domain.
LEMMA AddonStep ==
    ASSUME AddonIInv, [Next]_vars
    PROVE  AddonIInv' /\ Delivers(World, World')
<1>1. CASE Next
  BY <1>1, KeyKept, ClickKept, EngineResetKept, ActivateKept, DeactivateKept,
     CapabilityEventKept, DestroyKept, ServerAloneKept DEF Next
<1>2. CASE UNCHANGED vars
  <2>1. World' = World
    BY <1>2 DEF vars, World
  <2>2. Delivers(World, World)
    BY SilentDelivers DEF AddonIInv, Stands
  <2>3. QED
    BY <2>1, <2>2 DEF AddonIInv
<1>3. QED
  BY <1>1, <1>2

\* The inductive invariant: the client holds text of its own domain only, the
\* frames and the session it is bound to belong to it, and nothing is orphaned.
THEOREM AddonInvariant == Spec => []AddonIInv
<1>1. Init => AddonIInv
  BY AddonInit
<1>2. AddonIInv /\ [Next]_vars => AddonIInv'
  BY AddonStep
<1>3. QED
  BY <1>1, <1>2, PTL DEF Spec

------------------------------------------------------------------------------
(* What a user of the addon relies on                                      *)

\* The addon never opens a second session while its first one lives: a close
\* that timed out stays in the connector's queue, and reaches the server
\* before the next open.
THEOREM OneSessionLives == Spec => []NoOrphanSession
<1>1. AddonIInv => NoOrphanSession
  BY DEF AddonIInv, Stands, Fine, Good, Held, Net, World, NoOrphanSession
<1>2. QED
  BY <1>1, AddonInvariant, PTL

\* A client of the inductive invariant is well typed.
LEMMA ClientIsTyped ==
    ASSUME AddonIInv
    PROVE  /\ s.ctx \in Contexts \cup {EmptyContext}
           /\ {s.id, s.rev, s.highest} \subseteq Nat /\ Numbered(s.ns)
           /\ \A i \in DOMAIN s.journal :
                   s.journal[i].rid \in Nat \ {0} /\ s.journal[i].sent \in BOOLEAN
<1>1. World.s = s
  BY DEF World
<1>2. ClientIn(s, Own(World)) /\ IsContext(s.ctx)
  BY <1>1 DEF AddonIInv, Stands, Fine, Good, Held
<1>3. s.ctx \in Contexts \cup {EmptyContext}
  BY <1>2 DEF IsContext
<1>4. {s.id, s.rev, s.highest} \subseteq Nat /\ Numbered(s.ns)
  BY <1>2 DEF ClientIn
<1>5. \A i \in DOMAIN s.journal : EntryIn(s.journal[i], Own(World))
  BY <1>2 DEF ClientIn, JournalIn
<1>6. QED
  BY <1>3, <1>4, <1>5 DEF EntryIn

\* So are the screen, the server's session, the connector and the history.
LEMMA RestIsTyped ==
    ASSUME AddonIInv
    PROVE  /\ h.typed \in 0 .. MaxEvents /\ Len(h.dom) = h.typed
           /\ h.faults \in 0 .. MaxFaults /\ h.events \in 0 .. MaxEvents
           /\ ToSet(h.app) \cup h.taught \cup h.undone \cup h.deleted
                   \cup h.dropped \cup h.shown \subseteq 1 .. h.typed
           /\ ui.phase \in Phases /\ ToSet(ui.comp) \subseteq 1 .. h.typed
           /\ {ui.learn, ui.avail, ui.active} \subseteq BOOLEAN /\ ui.ctx \in Contexts
           /\ {srv.sid, srv.rev, srv.eff, net.proc} \subseteq Nat
           /\ srv.phase \in Phases /\ (srv.comp = <<>> <=> srv.phase = "idle")
           /\ net.up \in BOOLEAN /\ (net.queue # <<>> => net.up)
<1>1. World.ui = ui /\ World.srv = srv /\ World.net = net /\ World.h = h
  BY DEF World
<1> DEFINE D == Own(World)
           T == 1 .. h.typed
<1>2. D \subseteq T /\ ScreenIn(ui, D) /\ PastIn(h, T) /\ Linked(World, T)
  BY <1>1 DEF AddonIInv, Stands, Fine, Good, Held, Typed
<1>3. /\ h.typed = Len(h.dom) /\ IsSeq(h.dom) /\ ui.ctx \in Contexts
      /\ h.events \in 0 .. MaxEvents /\ h.typed <= h.events
  BY <1>1 DEF AddonIInv, Stands, Timely, Fine
<1>4. h.typed \in 0 .. MaxEvents
  BY <1>3, SeqDomain, AddonAssumption
<1> HIDE DEF D, T
<1>5. /\ ui.phase \in Phases /\ ToSet(ui.comp) \subseteq T
      /\ {ui.learn, ui.avail, ui.active} \subseteq BOOLEAN
  BY <1>2, ToSetIn DEF ScreenIn
<1>6. ToSet(h.app) \cup h.undone \cup h.dropped \cup h.shown \subseteq T
  BY <1>2, ToSetIn DEF PastIn
<1>7. /\ IsServed(srv, T) /\ h.faults \in 0 .. MaxFaults
      /\ h.taught \subseteq T /\ h.deleted \subseteq T
      /\ net.up \in BOOLEAN /\ (net.queue # <<>> => net.up) /\ net.proc \in Nat
  BY <1>1, <1>2 DEF Linked
<1>8. /\ {srv.sid, srv.rev, srv.eff} \subseteq Nat /\ srv.phase \in Phases
      /\ (srv.comp = <<>> <=> srv.phase = "idle")
  BY <1>7 DEF IsServed, IsState
<1>9. QED
  BY <1>3, <1>4, <1>5, <1>6, <1>7, <1>8 DEF T

\* However often the server is lost, times out or answers late, the journal
\* holds at most one action and one decision about learning: the next action is
\* recorded only after everything older was settled, and a decision only if
\* none waits.  Far below the limit, record() never refuses input, and no two
\* entries share a request ID, by which acknowledge, replace and rebase find
\* theirs.
THEOREM JournalStaysShort == Spec => []JournalShort
<1>1. AddonIInv => JournalShort
  <2> SUFFICES ASSUME AddonIInv PROVE JournalShort
    OBVIOUS
  <2>1. Good(World, Own(World)) /\ Brief(World.s.journal) /\ World.s = s
    BY DEF AddonIInv, Stands, Fine, World
  <2>2. IsSeq(s.journal)
    BY <2>1, JournalOf DEF JournalIn
  <2>3. QED
    BY <2>1, <2>2, BriefIsShort DEF JournalShort
<1>2. QED
  BY <1>1, AddonInvariant, PTL

\* The addon keeps to its types, and its journal stays short: every piece of
\* text on the screen, delivered, taught, deleted or dropped was typed, the
\* composition is empty exactly when the server's phase is idle, an unanswered
\* frame is in the queue only while the connector is up, and whatever effect
\* numbers the server reports, the global IDs stay in their 64 bits.
THEOREM AddonStaysSound == Spec => []AddonInv
<1>1. ASSUME AddonIInv PROVE TypeOK
  <2>1. /\ s.ctx \in Contexts \cup {EmptyContext}
        /\ {s.id, s.rev, s.highest} \subseteq Nat /\ Numbered(s.ns)
        /\ \A i \in DOMAIN s.journal :
                s.journal[i].rid \in Nat \ {0} /\ s.journal[i].sent \in BOOLEAN
    BY <1>1, ClientIsTyped
  <2>2. QED
    BY <1>1, <2>1, RestIsTyped DEF TypeOK, Phases, Numbered
<1>2. QED
  BY <1>1, AddonInvariant, JournalStaysShort, PTL DEF AddonInv

\* What the client keeps is of its domain
LEMMA RetainedIn ==
    ASSUME NEW c, NEW D, ClientIn(c, D)
    PROVE  Retained(c) \subseteq D
<1>1. ToSet(c.fb) \subseteq D /\ ToSet(c.ckpt.comp) \subseteq D
  BY ToSetIn DEF ClientIn, Checkpoints
<1>2. \A i \in DOMAIN c.journal : ToSet(c.journal[i].act.text) \subseteq D
  BY ToSetIn DEF ClientIn, JournalIn, EntryIn, IsAction
<1>3. \A i \in DOMAIN c.replayed : ToSet(c.replayed[i].text) \subseteq D
  <2> TAKE i \in DOMAIN c.replayed
  <2>1. c.replayed[i] \in Effects(D)
    BY DEF ClientIn
  <2>2. QED
    BY <2>1, ToSetIn DEF Effects
<1>4. QED
  BY <1>1, <1>2, <1>3 DEF Retained

\* Text of one program, or of a secure field, is never on the screen, in the
\* recovery state or in the bound session of another: a context change
\* disposes of all of it before the client enters the new domain.
THEOREM DomainsStayApart == Spec => []DomainIsolation
<1>1. ASSUME AddonIInv PROVE DomainIsolation
  <2> DEFINE w == World
             D == Own(w)
  <2>1. w.s = s /\ w.ui = ui /\ w.srv = srv /\ w.h = h
    BY DEF World
  <2> HIDE DEF w
  <2>2. Good(w, D)
    BY <1>1 DEF AddonIInv, Stands, Fine, w
  <2> HIDE DEF D
  <2>3. ToSet(ui.comp) \subseteq D /\ Retained(s) \subseteq D
    BY <2>1, <2>2, ToSetIn, RetainedIn DEF Good, Held, ScreenIn
  <2>4. ASSUME s.id = srv.sid PROVE ToSet(srv.comp) \subseteq D
    <3>1. CASE s.id = 0
      <4>1. srv.comp = <<>>
        BY <2>1, <2>2, <2>4, <3>1 DEF Good, Held, Net, Wired
      <4>2. QED
        BY <4>1 DEF ToSet
    <3>2. CASE s.id # 0
      <4>1. srv.comp \in Seq(D)
        BY <2>1, <2>2, <2>4, <3>2 DEF Good, Compat, SessionIn
      <4>2. QED
        BY <4>1, ToSetIn
    <3>3. QED
      BY <3>1, <3>2
  <2>5. \A t \in D : Domain(h.dom[t]) = Domain(s.ctx)
    BY <2>1 DEF D, Own
  <2>6. QED
    BY <2>3, <2>4, <2>5 DEF DomainIsolation
<1>2. QED
  BY <1>1, AddonInvariant, PTL

\* Nothing typed in a secure field is kept for recovery once its request is
\* answered, and the server was told that the session is secure.
THEOREM SecretsAreForgotten == Spec => []SecureNotRetained
<1>1. ASSUME AddonIInv PROVE SecureNotRetained
  <2>1. World.s = s /\ World.srv = srv
    BY DEF World
  <2>2. Good(World, Own(World))
    BY <1>1 DEF AddonIInv, Stands, Fine
  <2>3. ForgetsSecrets(s)
    BY <2>1, <2>2 DEF Good, Held
  <2>4. ASSUME s.ctx.secure PROVE Retained(s) = {} /\ s.journal = <<>> /\ ~s.known
    <3>1. /\ s.fb = <<>> /\ s.ckpt = NoCheckpoint /\ ~s.known
          /\ s.replayed = <<>> /\ s.journal = <<>>
      BY <2>3, <2>4 DEF ForgetsSecrets
    <3>2. NoCheckpoint.comp = <<>>
      BY DEF NoCheckpoint
    <3>3. ToSet(<<>>) = {} /\ DOMAIN <<>> = {}
      BY DEF ToSet
    <3>4. QED
      BY <3>1, <3>2, <3>3 DEF Retained
  <2>5. ASSUME s.id # 0, s.id = srv.sid PROVE srv.secure = s.ctx.secure
    BY <2>1, <2>2, <2>5 DEF Good, Compat
  <2>6. QED
    BY <2>4, <2>5 DEF SecureNotRetained
<1>2. QED
  BY <1>1, AddonInvariant, PTL

\* No retry, replay or late answer delivers text to a field of another domain
\* than the one it was typed in.
THEOREM DeliveryStaysInDomain == Spec => DeliveredInDomain
<1>1. ASSUME AddonIInv, [Next]_vars
      PROVE  [\A i \in (Len(h.app) + 1) .. Len(h'.app) :
                Domain(h'.dom[h'.app[i]]) = Domain(ui.ctx)]_vars
  <2>1. Delivers(World, World')
    BY <1>1, AddonStep
  <2>2. World.h = h /\ World.ui = ui /\ World'.h = h'
    BY DEF World
  <2>3. QED
    BY <2>1, <2>2 DEF Delivers
<1>2. QED
  BY <1>1, AddonInvariant, PTL DEF Spec, DeliveredInDomain
==============================================================================
