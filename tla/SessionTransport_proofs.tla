----------------------- MODULE SessionTransport_proofs -----------------------
(***************************************************************************)
(* What one request does, for the proofs about the addon: the connector, the*)
(* socket and the server keep every frame and the session well formed, never*)
(* orphan a session, and keep apart the text of each domain.               *)
(*                                                                         *)
(* D is always a set of keystrokes, such as those typed in one program.  A *)
(* session k is compatible with D if it and the frames that name it hold   *)
(* keystrokes of D only.  A request of a compatible session is answered with*)
(* keystrokes of D, and whatever else happens meanwhile keeps every session*)
(* compatible.                                                             *)
(*                                                                         *)
(* T is the set of all keystrokes typed so far.  The last sections show    *)
(* that the world stays linked for T: all its fields that a request changes*)
(* are well typed, and hold keystrokes of T only.                          *)
(***************************************************************************)
EXTENDS SessionTransport, TLAPS, FiniteSetTheorems, WellFoundedInduction,
        SequenceTheorems

(* Sequences of anything *)

IsSeq(q) == q \in Seq({q[i] : i \in DOMAIN q})

\* The domain of a sequence.
LEMMA SeqDomain ==
    ASSUME NEW q, IsSeq(q)
    PROVE  Len(q) \in Nat /\ DOMAIN q = 1 .. Len(q)
BY DEF IsSeq

\* A sequence over any set is a sequence.
LEMMA SeqIsSeq ==
    ASSUME NEW S, NEW q \in Seq(S)
    PROVE  IsSeq(q)
<1>1. Len(q) \in Nat /\ DOMAIN q = 1 .. Len(q) /\ q = [i \in 1 .. Len(q) |-> q[i]]
  OBVIOUS
<1> DEFINE T == {q[i] : i \in DOMAIN q}
<1>2. \A i \in 1 .. Len(q) : q[i] \in T
  BY <1>1
<1>3. q \in [1 .. Len(q) -> T]
  BY <1>1, <1>2
<1>4. QED
  BY <1>1, <1>3 DEF IsSeq

\* A function on 1 .. n is a sequence.
LEMMA FunctionIsSeq ==
    ASSUME NEW n \in Nat, NEW q, DOMAIN q = 1 .. n, q = [i \in 1 .. n |-> q[i]]
    PROVE  IsSeq(q) /\ Len(q) = n
<1> DEFINE T == {q[i] : i \in DOMAIN q}
<1>2. \A i \in 1 .. n : q[i] \in T
  OBVIOUS
<1>3. q \in [1 .. n -> T]
  BY <1>2
<1>4. q \in Seq(T) /\ Len(q) = n
  BY <1>3
<1>5. QED
  BY <1>4 DEF IsSeq

\* What Append returns.
LEMMA SeqAppend ==
    ASSUME NEW q, IsSeq(q), NEW e
    PROVE  /\ IsSeq(Append(q, e)) /\ Len(Append(q, e)) = Len(q) + 1
           /\ \A i \in 1 .. Len(q) : Append(q, e)[i] = q[i]
           /\ Append(q, e)[Len(q) + 1] = e
<1> DEFINE T == {q[i] : i \in DOMAIN q} \cup {e}
           p == Append(q, e)
<1>1. q \in Seq(T) /\ e \in T
  BY DEF IsSeq
<1>2. p \in Seq(T)
  BY <1>1
<1>3. IsSeq(p)
  BY <1>2, SeqIsSeq
<1>4. QED
  BY <1>1, <1>3

\* What Tail leaves.
LEMMA SeqTail ==
    ASSUME NEW q, IsSeq(q), q # <<>>
    PROVE  /\ Len(q) > 0 /\ Head(q) = q[1]
           /\ IsSeq(Tail(q)) /\ Len(Tail(q)) = Len(q) - 1
           /\ \A i \in 1 .. Len(q) - 1 : Tail(q)[i] = q[i + 1]
<1> DEFINE T == {q[i] : i \in DOMAIN q}
<1>1. q \in Seq(T)
  BY DEF IsSeq
<1>2. Len(q) > 0 /\ Tail(q) \in Seq(T)
  BY <1>1
<1>3. IsSeq(Tail(q))
  BY <1>2, SeqIsSeq
<1>4. Len(Tail(q)) = Len(q) - 1 /\ Head(q) = q[1]
      /\ \A i \in 1 .. Len(q) - 1 : Tail(q)[i] = q[i + 1]
  BY <1>1, <1>2
<1>5. QED
  BY <1>2, <1>3, <1>4

\* p is q with e at place k, if q has that place
PutAt(q, k, e, p) ==
    /\ IsSeq(p) /\ Len(p) = Len(q)
    /\ \A i \in 1 .. Len(q) : p[i] = IF i = k THEN e ELSE q[i]

\* An EXCEPT at one place of a sequence.
LEMMA SeqExcept ==
    ASSUME NEW q, IsSeq(q), NEW k, NEW e, NEW p, p = [q EXCEPT ![k] = e]
    PROVE  PutAt(q, k, e, p)
<1>1. Len(q) \in Nat /\ DOMAIN q = 1 .. Len(q)
  BY SeqDomain
<1>2. p = [i \in 1 .. Len(q) |-> IF i = k THEN e ELSE q[i]]
  BY <1>1
<1>3. DOMAIN p = 1 .. Len(q) /\ p = [i \in 1 .. Len(q) |-> p[i]]
      /\ \A i \in 1 .. Len(q) : p[i] = IF i = k THEN e ELSE q[i]
  BY <1>2
<1>4. IsSeq(p) /\ Len(p) = Len(q)
  BY <1>1, <1>3, FunctionIsSeq
<1>5. QED
  BY <1>3, <1>4 DEF PutAt

\* The empty sequence.
LEMMA EmptyIsSeq == IsSeq(<<>>) /\ Len(<<>>) = 0
<1>1. <<>> \in Seq({})
  OBVIOUS
<1>2. QED
  BY <1>1, SeqIsSeq

\* Only the empty sequence has length 0.
LEMMA SeqOfNone ==
    ASSUME NEW q, IsSeq(q), Len(q) = 0
    PROVE  q = <<>>
BY DEF IsSeq

\* Every set of natural numbers that is not empty has a least element
LEMMA LeastNumber ==
    ASSUME NEW T, T \subseteq Nat, T # {}
    PROVE  \E x \in T : \A y \in T : x <= y
<1> DEFINE below == {0 .. n : n \in T}
<1>1. below \subseteq FiniteSubsetsOf(Nat) /\ below # {}
  <2>1. \A n \in T : IsFiniteSet(0 .. n) /\ 0 .. n \in SUBSET Nat
    BY FS_Interval
  <2>2. QED
    BY <2>1 DEF FiniteSubsetsOf
<1> HIDE DEF below
<1>2. PICK d \in below : \A e \in below : ~ (<<e, d>> \in StrictSubsetOrdering(Nat))
  BY <1>1, FS_StrictSubsetOrderingWellFounded, WFMin
<1>3. PICK x \in T : d = 0 .. x
  BY DEF below
<1>4. ASSUME NEW y \in T PROVE x <= y
  <2> SUFFICES ASSUME y < x PROVE FALSE
    OBVIOUS
  <2>1. x \in Nat /\ y \in Nat
    OBVIOUS
  <2>2. 0 .. y \in below
    BY DEF below
  <2>3. 0 .. y \subseteq d /\ x \in d /\ x \notin 0 .. y
    BY <1>3, <2>1
  <2>4. <<0 .. y, d>> \in StrictSubsetOrdering(Nat)
    BY <1>3, <2>1, <2>3 DEF StrictSubsetOrdering
  <2>5. QED
    BY <1>2, <2>2, <2>4
<1>5. QED
  BY <1>4

\* The image of a finite set is finite.
LEMMA ImageIsFinite ==
    ASSUME NEW S, IsFiniteSet(S), NEW f
    PROVE  IsFiniteSet({f[x] : x \in S})
<1> DEFINE T == {f[x] : x \in S}
           g == [x \in S |-> f[x]]
<1>1. g \in Surjection(S, T)
  BY DEF Surjection
<1> HIDE DEF g, T
<1>2. IsFiniteSet(T)
  BY <1>1, FS_Surjection
<1>3. QED
  BY <1>2 DEF T

\* An unused number is none of the used ones: among one number more than there
\* are used ones, one is not used.
LEMMA UnusedIsNew ==
    ASSUME NEW used, IsFiniteSet(used)
    PROVE  Unused(used) \notin used
<1> DEFINE n == Cardinality(used) + 1
           free == {k \in 1 .. n : k \notin used}
<1>1. Cardinality(used) \in Nat
  BY FS_CardinalityType
<1>2. free # {}
  <2> SUFFICES ASSUME free = {} PROVE FALSE
    OBVIOUS
  <2>1. 1 .. n \in SUBSET used
    OBVIOUS
  <2> DEFINE I == 1 .. n
  <2>2. Cardinality(I) = n
    BY <1>1, FS_Interval
  <2> HIDE DEF I
  <2>3. Cardinality(I) <= Cardinality(used)
    BY <2>1, FS_Subset DEF I
  <2>4. QED
    BY <1>1, <2>2, <2>3
<1>3. free \subseteq Nat
  BY <1>1
<1>4. Unused(used) = Min(free)
  BY DEF Unused
<1>5. \A k \in free : k \notin used
  OBVIOUS
<1> HIDE DEF free
<1>6. PICK k \in free : \A i \in free : k <= i
  BY <1>2, <1>3, LeastNumber
<1>7. Min(free) \in free
  BY <1>6 DEF Min
<1>8. QED
  BY <1>4, <1>5, <1>7

------------------------------------------------------------------------------
(* What a session, a snapshot, a response may hold                        *)

Ops == {"insertText", "delete", "convert", "navigate", "select", "commitAll",
        "cancel", "surrounding", "resolve", "restore"}

Effects(D) == [id : Nat, text : Seq(D)]

CheckpointIn(ck, D) == ck.comp \in Seq(D) /\ ck.eff \in Nat

ActionIn(a, D) == a.op \in Ops /\ a.text \in Seq(D) /\ CheckpointIn(a.ck, D)

SnapshotIn(n, D) ==
    /\ DOMAIN n = {"rev", "phase", "comp", "learn", "ck", "fx"}
    /\ n.comp \in Seq(D) /\ CheckpointIn(n.ck, D) /\ n.fx \in Seq(Effects(D))

IsSession(x) ==
    /\ DOMAIN x = {"sid", "secure", "rev", "phase", "comp", "learn", "eff",
                   "proc", "cache"}
    /\ IsFiniteSet(x.cache)
    /\ \A c \in x.cache : /\ DOMAIN c = {"rid", "act", "exp", "st", "snap"}
                          /\ c.st # "gone"

SessionIn(x, D) ==
    /\ x.comp \in Seq(D) /\ x.eff \in Nat
    /\ \A c \in x.cache : SnapshotIn(c.snap, D)

\* A snapshot shows what its session holds.
LEMMA SnapshotHolds ==
    ASSUME NEW D, NEW x, SessionIn(x, D), NEW fx \in Seq(Effects(D))
    PROVE  SnapshotIn(Snapshot(x, fx), D)
<1>1. CheckpointIn(Checkpoint(x), D)
  BY DEF Checkpoint, NoCheckpoint, CheckpointIn, SessionIn
<1> DEFINE n == Snapshot(x, fx)
<1>2. DOMAIN n = {"rev", "phase", "comp", "learn", "ck", "fx"}
      /\ n.comp = x.comp /\ n.ck = Checkpoint(x) /\ n.fx = fx
  BY DEF Snapshot
<1>3. QED
  BY <1>1, <1>2 DEF SnapshotIn, SessionIn

\* The absent snapshot and the absent session hold no text.
LEMMA NoSnapshotHolds ==
    ASSUME NEW D
    PROVE  SnapshotIn(NoSnapshot, D) /\ SessionIn(NoSession, D) /\ IsSession(NoSession)
<1>1. SessionIn(NoSession, D)
  BY DEF SessionIn, NoSession
<1>2. IsSession(NoSession)
  <2>1. IsFiniteSet({})
    BY FS_EmptySet
  <2>2. QED
    BY <2>1 DEF NoSession, IsSession
<1>3. SnapshotIn(NoSnapshot, D)
  <2>1. <<>> \in Seq(Effects(D))
    OBVIOUS
  <2>2. Snapshot(NoSession, <<>>) = NoSnapshot
    BY DEF Snapshot, Checkpoint, NoSession, NoSnapshot
  <2>3. QED
    BY <1>1, <2>1, <2>2, SnapshotHolds
<1>4. QED
  BY <1>1, <1>2, <1>3

\* y is x after a reduction, which leaves identity and cache alone
Reduced(x, y) ==
    DOMAIN y = DOMAIN x /\ y.sid = x.sid /\ y.secure = x.secure /\ y.cache = x.cache

\* A reduction leads to a session.
LEMMA ReducedIsSession ==
    ASSUME NEW x, IsSession(x), NEW y, Reduced(x, y)
    PROVE  IsSession(y)
BY DEF IsSession, Reduced

\* An edit is a reduction that sets the composition.
LEMMA EditedReduced ==
    ASSUME NEW x, IsSession(x), NEW c, NEW p
    PROVE  LET y == Edited(x, c, p)
           IN  Reduced(x, y) /\ y.comp = c /\ y.eff = x.eff
BY DEF Edited, Reduced, IsSession

\* Every action of the reducer is a reduction.
LEMMA ReduceKeeps ==
    ASSUME NEW x, IsSession(x), NEW act, act.op \in Ops,
           NEW o \in Reduce(x, act)
    PROVE  Reduced(x, o.x) /\ o.st \in {"success", "rejected"}
<1> DEFINE fields == {"sid", "secure", "rev", "phase", "comp", "learn", "eff",
                      "proc", "cache"}
<1>0. DOMAIN x = fields /\ Reduced(x, x)
  BY DEF IsSession, Reduced
<1>1. CASE act.op = "insertText"
  <2>1. o \in ReduceInsertText(x, act.text)
    BY <1>1 DEF Reduce
  <2>2. QED
    BY <2>1, <1>0, EditedReduced DEF ReduceInsertText, Rejected, Outcome
<1>2. CASE act.op = "delete"
  <2>1. o \in ReduceDeleteBackward(x)
    BY <1>2 DEF Reduce
  <2>2. QED
    BY <2>1, EditedReduced DEF ReduceDeleteBackward, Outcome
<1>3. CASE act.op = "convert"
  <2>1. o \in ReduceStartConversion(x)
    BY <1>3 DEF Reduce
  <2>2. QED
    BY <2>1, EditedReduced DEF ReduceStartConversion, Outcome
<1>4. CASE act.op \in {"navigate", "select", "surrounding"}
  <2>1. \E p : o \in Moved(x, p) \/ o \in Rejected(x)
    BY <1>4 DEF Reduce, ReduceNavigateCandidate, ReduceSelectCandidate, ReduceUpdateContext
  <2>2. PICK p : o \in Moved(x, p) \/ o \in Rejected(x)
    BY <2>1
  <2>3. \/ o.x = [x EXCEPT !.rev = @ + 1, !.phase = p] /\ o.st = "success"
        \/ o.x = x /\ o.st = "rejected"
    BY <2>2 DEF Moved, Rejected, Outcome
  <2>4. QED
    BY <2>3, <1>0 DEF Reduced
<1>5. CASE act.op = "commitAll"
  <2>1. o \in ReduceCommitAll(x)
    BY <1>5 DEF Reduce
  <2>2. CASE x.comp = <<>>
    <3> DEFINE r == IF x.learn = {} THEN x.rev ELSE x.rev + 1
    <3>1. o.x = [x EXCEPT !.learn = {}, !.rev = r] /\ o.st = "success"
      BY <2>1, <2>2 DEF ReduceCommitAll, Outcome
    <3> HIDE DEF r
    <3>2. QED
      BY <3>1, <1>0 DEF Reduced
  <2>3. CASE x.comp # <<>>
    <3>1. DOMAIN Edited(x, <<>>, "idle") = fields
      BY EditedReduced, <1>0 DEF Reduced
    <3> DEFINE l == IF x.phase = "composing" \/ x.secure THEN {} ELSE ToSet(x.comp)
               y == Edited(x, <<>>, "idle")
               e == y.eff + 1
    <3>2. /\ o.x = [y EXCEPT !.eff = e, !.learn = l]
          /\ o.st = "success"
      BY <2>1, <2>3 DEF ReduceCommitAll, Outcome
    <3>3. Reduced(x, y)
      BY EditedReduced
    <3> HIDE DEF l, y, e
    <3>4. QED
      BY <1>0, <3>2, <3>3 DEF Reduced
  <2>4. QED
    BY <2>2, <2>3
<1>6. CASE act.op = "cancel"
  <2>1. o \in ReduceCancel(x)
    BY <1>6 DEF Reduce
  <2>2. CASE x.phase = "idle" \/ x.phase \notin {"selecting", "previewing", "composing"}
    <3> DEFINE r == IF x.learn = {} THEN x.rev ELSE x.rev + 1
    <3>1. o.x = [x EXCEPT !.learn = {}, !.rev = r] /\ o.st = "success"
      BY <2>1, <2>2 DEF ReduceCancel, Outcome
    <3> HIDE DEF r
    <3>2. QED
      BY <3>1, <1>0 DEF Reduced
  <2>3. CASE x.phase \in {"selecting", "previewing", "composing"}
    BY <2>1, <2>3, EditedReduced DEF ReduceCancel, Outcome
  <2>4. QED
    BY <2>2, <2>3
<1>7. CASE act.op = "resolve"
  <2>1. o \in ReduceResolve(x, act.commit)
    BY <1>7 DEF Reduce
  <2>2. o.x = [x EXCEPT !.rev = @ + 1, !.learn = {}] /\ o.st = "success"
    BY <2>1 DEF ReduceResolve, Outcome
  <2>3. QED
    BY <2>2, <1>0 DEF Reduced
<1>8. CASE act.op = "restore"
  <2> DEFINE y == Edited(x, act.ck.comp, "composing")
  <2>1. o \in ReduceRestore(x, act.ck)
    BY <1>8 DEF Reduce
  <2>2. Reduced(x, y)
    BY EditedReduced
  <2>3. \/ o.x = x /\ o.st = "rejected"
        \/ /\ o.x = [y EXCEPT !.rev = act.ck.rev + 1, !.eff = act.ck.eff]
           /\ o.st = "success"
    BY <2>1 DEF ReduceRestore, Rejected, Outcome
  <2> HIDE DEF y
  <2>4. QED
    BY <2>2, <2>3, <1>0 DEF Reduced
<1>9. QED
  BY <1>1, <1>2, <1>3, <1>4, <1>5, <1>6, <1>7, <1>8 DEF Ops

\* What a reduction publishes is text it was given
TextIn(o, D) ==
    o.x.comp \in Seq(D) /\ o.x.eff \in Nat /\ o.fx \in Seq(Effects(D))

\* An edit publishes the composition it sets.
LEMMA EditedText ==
    ASSUME NEW D, NEW x, IsSession(x), SessionIn(x, D), NEW c \in Seq(D), NEW p, NEW o,
           o.x = Edited(x, c, p), o.fx = <<>>
    PROVE  TextIn(o, D)
<1>1. o.x.comp = c /\ o.x.eff = x.eff
  BY EditedReduced
<1>2. x.eff \in Nat /\ o.fx \in Seq(Effects(D))
  BY DEF SessionIn
<1>3. QED
  BY <1>1, <1>2 DEF TextIn

\* The reducer makes text of D from text of D.
LEMMA ReduceHolds ==
    ASSUME NEW D, NEW x, IsSession(x), SessionIn(x, D), NEW act, ActionIn(act, D),
           NEW o \in Reduce(x, act)
    PROVE  TextIn(o, D)
<1>0. /\ x.comp \in Seq(D) /\ x.eff \in Nat /\ act.text \in Seq(D)
      /\ act.ck.comp \in Seq(D) /\ act.ck.eff \in Nat /\ act.op \in Ops
      /\ <<>> \in Seq(D) /\ <<>> \in Seq(Effects(D))
      /\ DOMAIN x = {"sid", "secure", "rev", "phase", "comp", "learn", "eff",
                     "proc", "cache"}
  BY DEF SessionIn, ActionIn, CheckpointIn, IsSession
<1>e. \A c, p : LET y == Edited(x, c, p)
                IN  DOMAIN y = DOMAIN x /\ y.comp = c /\ y.eff = x.eff
  BY EditedReduced DEF Reduced
<1>1. CASE act.op = "insertText"
  <2> DEFINE c == x.comp \o act.text
  <2>1. o \in ReduceInsertText(x, act.text)
    BY <1>1 DEF Reduce
  <2>2. \/ o.x = x /\ o.fx = <<>>
        \/ o.x = Edited(x, c, "composing") /\ o.fx = <<>>
    BY <2>1 DEF ReduceInsertText, Rejected, Outcome
  <2>3. c \in Seq(D)
    BY <1>0
  <2> HIDE DEF c
  <2>4. QED
    BY <2>2, <2>3, <1>0, EditedText DEF TextIn
<1>2. CASE act.op = "delete"
  <2>1. o \in ReduceDeleteBackward(x)
    BY <1>2 DEF Reduce
  <2>2. CASE x.comp = <<>>
    <3>1. o.x = Edited(x, <<>>, "idle") /\ o.fx = <<>>
      BY <2>1, <2>2 DEF ReduceDeleteBackward, Outcome
    <3>2. QED
      BY <3>1, <1>0, EditedText
  <2>3. CASE x.comp # <<>>
    <3> DEFINE c == Front(x.comp)
    <3>1. o.x = Edited(x, c, "composing") /\ o.fx = <<>>
      BY <2>1, <2>3 DEF ReduceDeleteBackward, Outcome
    <3>2. c \in Seq(D)
      BY <1>0, <2>3 DEF Front
    <3> HIDE DEF c
    <3>3. QED
      BY <3>1, <3>2, EditedText
  <2>4. QED
    BY <2>2, <2>3
<1>3. CASE act.op = "convert"
  <2>1. o \in ReduceStartConversion(x)
    BY <1>3 DEF Reduce
  <2>2. \E p : \/ o.x = Edited(x, <<>>, p) /\ o.fx = <<>>
               \/ o.x = Edited(x, x.comp, p) /\ o.fx = <<>>
    BY <2>1 DEF ReduceStartConversion, Outcome
  <2>3. QED
    BY <2>2, <1>0, EditedText
<1>4. CASE act.op \in {"navigate", "select", "surrounding"}
  <2>1. \E p : o \in Moved(x, p) \/ o \in Rejected(x)
    BY <1>4 DEF Reduce, ReduceNavigateCandidate, ReduceSelectCandidate, ReduceUpdateContext
  <2>2. PICK p : o \in Moved(x, p) \/ o \in Rejected(x)
    BY <2>1
  <2>3. /\ o.x = [x EXCEPT !.rev = @ + 1, !.phase = p] \/ o.x = x
        /\ o.fx = <<>>
    BY <2>2 DEF Moved, Rejected, Outcome
  <2>4. QED
    BY <2>3, <1>0 DEF TextIn
<1>5. CASE act.op = "commitAll"
  <2>1. o \in ReduceCommitAll(x)
    BY <1>5 DEF Reduce
  <2>2. CASE x.comp = <<>>
    <3> DEFINE r == IF x.learn = {} THEN x.rev ELSE x.rev + 1
    <3>1. o.x = [x EXCEPT !.learn = {}, !.rev = r] /\ o.fx = <<>>
      BY <2>1, <2>2 DEF ReduceCommitAll, Outcome
    <3> HIDE DEF r
    <3>2. QED
      BY <3>1, <1>0 DEF TextIn
  <2>3. CASE x.comp # <<>>
    <3> DEFINE l == IF x.phase = "composing" \/ x.secure THEN {} ELSE ToSet(x.comp)
               y == Edited(x, <<>>, "idle")
               e == y.eff + 1
               effect == [id |-> x.eff, text |-> x.comp]
    <3>1. o.x = [y EXCEPT !.eff = e, !.learn = l] /\ o.fx = <<effect>>
      BY <2>1, <2>3 DEF ReduceCommitAll, Outcome
    <3>2. e \in Nat /\ y.comp = <<>> /\ DOMAIN y = DOMAIN x
      BY <1>0, <1>e
    <3>3. effect \in Effects(D)
      BY <1>0 DEF Effects
    <3> HIDE DEF l, y, e, effect
    <3>4. <<effect>> \in Seq(Effects(D))
      BY <3>3
    <3>5. QED
      BY <1>0, <3>1, <3>2, <3>4 DEF TextIn
  <2>4. QED
    BY <2>2, <2>3
<1>6. CASE act.op = "cancel"
  <2>1. o \in ReduceCancel(x)
    BY <1>6 DEF Reduce
  <2>2. CASE x.phase \notin {"selecting", "previewing", "composing"}
    <3> DEFINE r == IF x.learn = {} THEN x.rev ELSE x.rev + 1
    <3>1. o.x = [x EXCEPT !.learn = {}, !.rev = r] /\ o.fx = <<>>
      BY <2>1, <2>2 DEF ReduceCancel, Outcome
    <3> HIDE DEF r
    <3>2. QED
      BY <3>1, <1>0 DEF TextIn
  <2>3. CASE x.phase \in {"selecting", "previewing", "composing"}
    <3>1. \E p : \/ o.x = Edited(x, <<>>, p) /\ o.fx = <<>>
                 \/ o.x = Edited(x, x.comp, p) /\ o.fx = <<>>
      BY <2>1, <2>3 DEF ReduceCancel, Outcome
    <3>2. QED
      BY <3>1, <1>0, EditedText
  <2>4. QED
    BY <2>2, <2>3
<1>7. CASE act.op = "resolve"
  <2>1. o \in ReduceResolve(x, act.commit)
    BY <1>7 DEF Reduce
  <2>2. o.x = [x EXCEPT !.rev = @ + 1, !.learn = {}] /\ o.fx = <<>>
    BY <2>1 DEF ReduceResolve, Outcome
  <2>3. QED
    BY <2>2, <1>0 DEF TextIn
<1>8. CASE act.op = "restore"
  <2> DEFINE y == Edited(x, act.ck.comp, "composing")
  <2>1. o \in ReduceRestore(x, act.ck)
    BY <1>8 DEF Reduce
  <2>2. DOMAIN y = DOMAIN x /\ y.comp = act.ck.comp
    BY <1>e
  <2>3. /\ o.fx = <<>>
        /\ \/ o.x = x
           \/ o.x = [y EXCEPT !.rev = act.ck.rev + 1, !.eff = act.ck.eff]
    BY <2>1 DEF ReduceRestore, Rejected, Outcome
  <2> HIDE DEF y
  <2>4. QED
    BY <2>2, <2>3, <1>0 DEF TextIn
<1>9. QED
  BY <1>0, <1>1, <1>2, <1>3, <1>4, <1>5, <1>6, <1>7, <1>8 DEF Ops

\* Remembering an answer of D keeps a session of D.
LEMMA CacheHolds ==
    ASSUME NEW x, IsSession(x), NEW c,
           DOMAIN c = {"rid", "act", "exp", "st", "snap"}, c.st # "gone"
    PROVE  LET y == Cache(x, c)
           IN  /\ IsSession(y) /\ y.sid = x.sid /\ y.secure = x.secure
               /\ \A D : SessionIn(x, D) /\ SnapshotIn(c.snap, D) => SessionIn(y, D)
<1> DEFINE y == Cache(x, c)
           cache == (IF x.secure THEN {} ELSE x.cache) \cup {c}
<1>1. y = [x EXCEPT !.cache = cache]
  BY DEF Cache
<1>2. \A e \in cache : e \in x.cache \/ e = c
  OBVIOUS
<1>7. IsFiniteSet(cache)
  BY FS_EmptySet, FS_AddElement DEF IsSession
<1> HIDE DEF y, cache
<1>3. /\ DOMAIN y = DOMAIN x /\ y.cache = cache /\ y.sid = x.sid
      /\ y.secure = x.secure /\ y.comp = x.comp /\ y.eff = x.eff
  BY <1>1 DEF IsSession
<1>4. IsSession(y)
  BY <1>2, <1>3, <1>7 DEF IsSession
<1>5. \A D : SessionIn(x, D) /\ SnapshotIn(c.snap, D) => SessionIn(y, D)
  BY <1>2, <1>3 DEF SessionIn
<1>6. QED
  BY <1>3, <1>4, <1>5 DEF y

\* A request, new or repeated, keeps a session of D and is answered with text of D.
LEMMA HandleHolds ==
    ASSUME NEW x, IsSession(x), NEW rid, NEW act, act.op \in Ops, NEW exp,
           NEW o \in HandleImeAction(x, rid, act, exp)
    PROVE  /\ IsSession(o.x) /\ o.x.sid = x.sid /\ o.x.secure = x.secure
           /\ o.st # "gone"
           /\ \A D : SessionIn(x, D) /\ ActionIn(act, D)
                        => SessionIn(o.x, D) /\ SnapshotIn(o.snap, D)
<1>1. CASE CachedIn(x, rid) # {}
  <2> DEFINE c == CHOOSE c \in CachedIn(x, rid) : TRUE
             same == c.act = act /\ c.exp = exp
  <2>1. /\ o.x = x /\ o.st = (IF same THEN c.st ELSE "rejected")
        /\ o.snap = (IF same THEN c.snap ELSE Snapshot(x, <<>>))
    BY <1>1 DEF HandleImeAction
  <2>2. c \in x.cache
    BY <1>1 DEF CachedIn
  <2> HIDE DEF c, same
  <2>3. o.st # "gone"
    BY <2>1, <2>2 DEF IsSession
  <2>4. ASSUME NEW D, SessionIn(x, D) PROVE SnapshotIn(o.snap, D)
    <3>1. SnapshotIn(c.snap, D)
      BY <2>2, <2>4 DEF SessionIn
    <3>2. <<>> \in Seq(Effects(D))
      OBVIOUS
    <3>3. SnapshotIn(Snapshot(x, <<>>), D)
      BY <2>4, <3>2, SnapshotHolds
    <3>4. QED
      BY <2>1, <3>1, <3>3
  <2>5. QED
    BY <2>1, <2>3, <2>4
<1>2. CASE CachedIn(x, rid) = {}
  <2> DEFINE outcomes == IF exp # x.rev THEN {Outcome(x, "stale", <<>>, {}, {})}
                         ELSE Reduce(x, act)
             c(p) == [rid |-> rid, act |-> act, exp |-> exp, st |-> p.st,
                      snap |-> Snapshot(p.x, p.fx)]
  <2>1. PICK p \in outcomes :
            o.x = Cache(p.x, c(p)) /\ o.st = p.st /\ o.snap = Snapshot(p.x, p.fx)
    BY <1>2 DEF HandleImeAction
  <2>2. p = Outcome(x, "stale", <<>>, {}, {}) \/ p \in Reduce(x, act)
    BY <2>1
  <2> HIDE DEF outcomes
  <2>5. /\ IsSession(p.x) /\ p.x.sid = x.sid /\ p.x.secure = x.secure /\ p.st # "gone"
        /\ \A D : SessionIn(x, D) /\ ActionIn(act, D)
                    => SessionIn(p.x, D) /\ p.fx \in Seq(Effects(D))
    <3>1. CASE p = Outcome(x, "stale", <<>>, {}, {})
      <4>1. p.x = x /\ p.st = "stale" /\ p.fx = <<>>
        BY <3>1 DEF Outcome
      <4>2. QED
        BY <4>1
    <3>2. CASE p \in Reduce(x, act)
      <4>1. Reduced(x, p.x) /\ p.st \in {"success", "rejected"}
        BY <3>2, ReduceKeeps
      <4>2. IsSession(p.x)
        BY <4>1, ReducedIsSession
      <4>3. ASSUME NEW D, SessionIn(x, D), ActionIn(act, D)
            PROVE  SessionIn(p.x, D) /\ p.fx \in Seq(Effects(D))
        <5>1. TextIn(p, D)
          BY <3>2, <4>3, ReduceHolds
        <5>2. QED
          BY <4>1, <4>3, <5>1 DEF TextIn, SessionIn, Reduced
      <4>4. QED
        BY <4>1, <4>2, <4>3 DEF Reduced
    <3>3. QED
      BY <2>2, <3>1, <3>2
  <2>6. \A D : SessionIn(x, D) /\ ActionIn(act, D) => SnapshotIn(o.snap, D)
    BY <2>1, <2>5, SnapshotHolds
  <2> DEFINE e == c(p)
  <2>7. DOMAIN e = {"rid", "act", "exp", "st", "snap"} /\ e.st # "gone" /\ e.snap = o.snap
    BY <2>1, <2>5
  <2>8. o.x = Cache(p.x, e)
    BY <2>1
  <2> HIDE DEF c, e
  <2>9. /\ IsSession(o.x) /\ o.x.sid = p.x.sid /\ o.x.secure = p.x.secure
        /\ \A D : SessionIn(p.x, D) /\ SnapshotIn(e.snap, D) => SessionIn(o.x, D)
    BY <2>5, <2>7, <2>8, CacheHolds
  <2>10. QED
    BY <2>1, <2>5, <2>6, <2>7, <2>9
<1>3. QED
  BY <1>1, <1>2

------------------------------------------------------------------------------
(* The world of a request                                                  *)

Shape(w) ==
    /\ DOMAIN w = {"s", "ui", "srv", "net", "h"}
    /\ DOMAIN w.s = {"ctx", "id", "rev", "ns", "highest", "journal", "replayed",
                     "ckpt", "fb", "unsafe", "snap", "known"}
    /\ DOMAIN w.ui = {"phase", "comp", "learn", "avail", "active", "ctx"}
    /\ DOMAIN w.net = {"up", "queue", "proc"}
    /\ DOMAIN w.h = {"faults", "events", "ev", "typed", "dom", "app", "shown",
                     "deleted", "dropped", "taught", "undone", "orphans"}

IsMessage(m) == DOMAIN m = {"op", "sid", "rid", "act", "exp", "secure"}

IsResponse(r) == DOMAIN r = {"st", "sid", "snap"}

ResponseIn(r, D) == IsResponse(r) /\ SnapshotIn(r.snap, D)

\* What a frame that the connector owns asks for
IsFrame(m) ==
    IsMessage(m) /\ (m.op = "close" \/ (m.op = "action" /\ m.act.op \in Ops))

\* Is the server known to have dropped the session that frame f names?
Settled(f) == f.done /\ (f.m.op = "close" \/ f.r.st = "gone")

FrameOK(f, sid) ==
    /\ DOMAIN f = {"m", "r", "done"} /\ IsFrame(f.m) /\ IsResponse(f.r)
    /\ f.m.sid = 0 => f.r.snap = NoSnapshot
    /\ Settled(f) => f.m.sid = 0 \/ sid # f.m.sid

Wired(w) ==
    /\ IsSession(w.srv) /\ (w.srv.sid = 0 => w.srv.comp = <<>>)
    /\ IsSeq(w.net.queue)
    /\ ~w.net.up => w.srv.sid = 0 /\ w.net.queue = <<>>
    /\ \A i \in DOMAIN w.net.queue : FrameOK(w.net.queue[i], w.srv.sid)

Net(w) == Shape(w) /\ Wired(w) /\ w.h.orphans = {}

\* The connector owns an unanswered frame that closes session k
Closing(w, k) ==
    \E i \in DOMAIN w.net.queue :
        w.net.queue[i].m = CloseSession(k) /\ ~w.net.queue[i].done

\* The live session, if any, is k or about to be closed
Owned(w, k) == w.srv.sid = 0 \/ w.srv.sid = k \/ Closing(w, w.srv.sid)

FrameIn(f, D) ==
    ResponseIn(f.r, D) /\ (f.m.op = "action" => ActionIn(f.m.act, D))

\* Session k and the frames for it hold text of D only
Compat(w, k, D) ==
    k # 0 =>
        /\ w.srv.sid = k => SessionIn(w.srv, D) /\ w.srv.secure = w.s.ctx.secure
        /\ \A i \in DOMAIN w.net.queue :
                w.net.queue[i].m.sid = k => FrameIn(w.net.queue[i], D)

\* What requests leave alone
Aside(w, v) ==
    /\ v.s = w.s /\ v.ui = w.ui
    /\ v.h.typed = w.h.typed /\ v.h.dom = w.h.dom /\ v.h.app = w.h.app

\* v may be w after some of the life of its session, but not after another
\* session was opened
Calm(w, v, D) ==
    /\ Aside(w, v)
    /\ v.srv.sid = 0 \/ v.srv.sid = w.srv.sid
    /\ \A k : Owned(w, k) => Owned(v, k)
    /\ \A k : Compat(w, k, D) => Compat(v, k, D)

\* Nothing happened.
LEMMA CalmSelf ==
    ASSUME NEW w, NEW D
    PROVE  Calm(w, w, D)
BY DEF Calm, Aside

\* Two calm stretches in a row are one.
LEMMA CalmThen ==
    ASSUME NEW w, NEW v, NEW u, NEW D, Calm(w, v, D), Calm(v, u, D)
    PROVE  Calm(w, u, D)
BY DEF Calm, Aside

\* Only the fault budget differs
Twin(w, v) ==
    Aside(w, v) /\ v.srv = w.srv /\ v.net = w.net /\ v.h.orphans = w.h.orphans

\* A spent fault changes nothing that matters to the network.
LEMMA TwinNet ==
    ASSUME NEW w, NEW v, NEW D, Net(w), Shape(v), Twin(w, v)
    PROVE  Net(v) /\ Calm(w, v, D)
<1>1. Wired(v)
  BY DEF Net, Wired, Twin
<1>2. \A k : Owned(w, k) => Owned(v, k)
  BY DEF Twin, Owned, Closing
<1>3. \A k : Compat(w, k, D) => Compat(v, k, D)
  BY DEF Twin, Compat, Aside
<1>4. QED
  BY <1>1, <1>2, <1>3 DEF Net, Twin, Calm

\* A fault leads to one of its outcomes, less the budget.
LEMMA FaultTwin ==
    ASSUME NEW w, NEW f, NEW after, NEW x \in Fault(w, f, after),
           \A v \in after : Shape(v)
    PROVE  \E v \in after : Shape(x) /\ Twin(v, x)
<1>1. PICK v \in after : x = [v EXCEPT !.h.faults = @ + 1]
  BY DEF Fault
<1>2. Shape(v)
  OBVIOUS
<1> DEFINE n == v.h.faults + 1
<1>3. x = [v EXCEPT !.h = [v.h EXCEPT !.faults = n]]
  BY <1>1
<1> HIDE DEF n
<1>4. /\ DOMAIN x = DOMAIN v /\ x.s = v.s /\ x.ui = v.ui /\ x.srv = v.srv /\ x.net = v.net
      /\ x.h = [v.h EXCEPT !.faults = n]
  BY <1>2, <1>3 DEF Shape
<1>5. /\ DOMAIN x.h = DOMAIN v.h /\ x.h.typed = v.h.typed /\ x.h.dom = v.h.dom
      /\ x.h.app = v.h.app /\ x.h.orphans = v.h.orphans
  BY <1>2, <1>4 DEF Shape
<1>6. QED
  BY <1>2, <1>4, <1>5 DEF Shape, Twin, Aside

\* A fault whose outcomes are calm is calm.
LEMMA FaultNet ==
    ASSUME NEW w, NEW D, NEW u, NEW f, NEW after, NEW x \in Fault(u, f, after),
           \A v \in after : Net(v) /\ Calm(w, v, D)
    PROVE  Net(x) /\ Calm(w, x, D)
<1>1. PICK v \in after : Shape(x) /\ Twin(v, x)
  BY FaultTwin DEF Net
<1>2. Net(x) /\ Calm(v, x, D)
  BY <1>1, TwinNet
<1>3. QED
  BY <1>1, <1>2, CalmThen

\* Only the session changes
LEMMA ServerChange ==
    ASSUME NEW b, NEW w, NEW v, NEW D, Net(w), Calm(b, w, D), Shape(v), Aside(w, v),
           v.h.orphans = w.h.orphans, v.net = w.net,
           IsSession(v.srv), v.srv.sid = 0 => v.srv.comp = <<>>,
           \/ v.srv.sid = 0
           \/ /\ v.srv.sid = w.srv.sid /\ v.srv.secure = w.srv.secure
              /\ Compat(b, w.srv.sid, D) /\ w.srv.sid # 0 => SessionIn(v.srv, D)
    PROVE  Net(v) /\ Calm(b, v, D)
<1>1. \A i \in DOMAIN v.net.queue : FrameOK(v.net.queue[i], v.srv.sid)
  BY DEF FrameOK, Net, Wired
<1>2. Wired(v)
  BY <1>1 DEF Net, Wired
<1>3. \A k : Owned(w, k) => Owned(v, k)
  BY DEF Owned, Closing
<1>4. \A k : Compat(w, k, D) /\ Compat(b, k, D) => Compat(v, k, D)
  BY DEF Compat, Aside
<1>5. Aside(b, v)
  BY DEF Aside, Calm
<1>6. QED
  BY <1>2, <1>3, <1>4, <1>5 DEF Net, Calm

\* The session is gone, and all frames with it
LEMMA Severed ==
    ASSUME NEW w, NEW v, NEW D, Net(w), Shape(v), Aside(w, v),
           v.h.orphans = w.h.orphans, v.srv = NoSession, v.net.queue = <<>>
    PROVE  Net(v) /\ Calm(w, v, D)
<1>1. v.srv.sid = 0 /\ v.srv.comp = <<>> /\ IsSession(v.srv)
  BY NoSnapshotHolds DEF NoSession
<1>2. IsSeq(v.net.queue) /\ DOMAIN v.net.queue = {}
  BY EmptyIsSeq
<1>3. Wired(v)
  BY <1>1, <1>2 DEF Wired
<1>4. \A k : Owned(v, k) /\ Compat(v, k, D)
  BY <1>1, <1>2 DEF Owned, Compat
<1>5. QED
  BY <1>1, <1>3, <1>4 DEF Net, Calm

------------------------------------------------------------------------------
(* The server                                                              *)

\* What removing the session changes.
LEMMA RemoveSessionIs ==
    ASSUME NEW w, Shape(w), NEW b
    PROVE  LET v == RemoveSession(w, b)
           IN  /\ Shape(v) /\ Aside(w, v) /\ v.h.orphans = w.h.orphans
               /\ v.net = w.net /\ v.srv = NoSession
<1> DEFINE v == RemoveSession(w, b)
           t == w.h.taught \cup IF b THEN w.srv.learn ELSE {}
<1>1. v = [[w EXCEPT !.srv = NoSession] EXCEPT !.h = [w.h EXCEPT !.taught = t]]
  BY DEF RemoveSession, Shape
<1> HIDE DEF v, t
<1>2. /\ DOMAIN v = DOMAIN w /\ v.s = w.s /\ v.ui = w.ui /\ v.srv = NoSession
      /\ v.net = w.net /\ v.h = [w.h EXCEPT !.taught = t]
  BY <1>1 DEF Shape
<1>3. /\ DOMAIN v.h = DOMAIN w.h /\ v.h.typed = w.h.typed /\ v.h.dom = w.h.dom
      /\ v.h.app = w.h.app /\ v.h.orphans = w.h.orphans
  BY <1>2 DEF Shape
<1>4. QED
  BY <1>2, <1>3 DEF Shape, Aside, v

\* Removing the session is calm.
LEMMA RemoveSessionNet ==
    ASSUME NEW w, Net(w), NEW b, NEW D
    PROVE  LET v == RemoveSession(w, b) IN Net(v) /\ Calm(w, v, D)
<1> DEFINE v == RemoveSession(w, b)
<1>1. /\ Shape(v) /\ Aside(w, v) /\ v.h.orphans = w.h.orphans
      /\ v.net = w.net /\ v.srv = NoSession
  BY RemoveSessionIs DEF Net
<1> HIDE DEF v
<1>2. v.srv.sid = 0 /\ v.srv.comp = <<>> /\ IsSession(v.srv)
  BY <1>1, NoSnapshotHolds DEF NoSession
<1>3. Net(v) /\ Calm(w, v, D)
  BY <1>1, <1>2, CalmSelf, ServerChange
<1>4. QED
  BY <1>3 DEF v

\* Losing the connection is calm, and leaves neither session nor frames.
LEMMA DisconnectedNet ==
    ASSUME NEW w, Net(w), NEW D
    PROVE  LET v == Disconnected(w)
           IN  /\ Net(v) /\ Calm(w, v, D)
               /\ v.srv.sid = 0 /\ v.net.queue = <<>>
<1> DEFINE u == RemoveSession(w, FALSE)
           v == Disconnected(w)
<1>1. /\ Shape(u) /\ Aside(w, u) /\ u.h.orphans = w.h.orphans
      /\ u.net = w.net /\ u.srv = NoSession
  BY RemoveSessionIs DEF Net
<1>2. v = [u EXCEPT !.net = [[u.net EXCEPT !.up = FALSE] EXCEPT !.queue = <<>>]]
  BY <1>1 DEF Disconnected, Shape
<1> HIDE DEF u, v
<1>3. /\ DOMAIN v = DOMAIN u /\ v.s = u.s /\ v.ui = u.ui /\ v.srv = u.srv /\ v.h = u.h
      /\ DOMAIN v.net = DOMAIN u.net /\ v.net.queue = <<>>
  BY <1>1, <1>2 DEF Shape
<1>4. /\ Shape(v) /\ Aside(w, v) /\ v.h.orphans = w.h.orphans /\ v.srv = NoSession
      /\ v.net.queue = <<>>
  BY <1>1, <1>3 DEF Shape, Aside
<1>5. Net(v) /\ Calm(w, v, D) /\ v.srv.sid = 0
  BY <1>4, Severed DEF NoSession
<1>6. QED
  BY <1>4, <1>5 DEF v

\* The same with a newly started server
LEMMA RestartedNet ==
    ASSUME NEW w, Net(w), NEW D, NEW p
    PROVE  LET v == [Disconnected(w) EXCEPT !.net.proc = p]
           IN  Net(v) /\ Calm(w, v, D)
<1> DEFINE u == Disconnected(w)
           v == [u EXCEPT !.net.proc = p]
<1>1. Net(u) /\ Calm(w, u, D) /\ u.net.queue = <<>> /\ u.srv.sid = 0
  BY DisconnectedNet
<1>2. u.srv = NoSession
  <2>1. RemoveSession(w, FALSE).srv = NoSession /\ Shape(RemoveSession(w, FALSE))
    BY RemoveSessionIs DEF Net
  <2>2. QED
    BY <2>1 DEF Disconnected, Shape
<1> HIDE DEF u
<1>3. /\ DOMAIN v = DOMAIN u /\ v.s = u.s /\ v.ui = u.ui /\ v.srv = u.srv /\ v.h = u.h
      /\ DOMAIN v.net = DOMAIN u.net /\ v.net.queue = <<>>
  BY <1>1 DEF Net, Shape
<1> HIDE DEF v
<1>4. Shape(v) /\ Aside(u, v) /\ v.h.orphans = u.h.orphans /\ v.srv = NoSession
  BY <1>1, <1>2, <1>3 DEF Shape, Aside, Net
<1>5. Net(v) /\ Calm(u, v, D)
  BY <1>1, <1>3, <1>4, Severed
<1>6. Net(v) /\ Calm(w, v, D)
  BY <1>1, <1>5, CalmThen
<1>7. QED
  BY <1>6 DEF v, u

\* A session whose cache was rebased
LEMMA RebasedHolds ==
    ASSUME NEW x, IsSession(x)
    PROVE  LET y == RebaseRequestCache(x)
           IN  /\ IsSession(y) /\ y.sid = x.sid /\ y.secure = x.secure /\ y.comp = x.comp
               /\ \A D : SessionIn(x, D) => SessionIn(y, D)
<1> DEFINE y == RebaseRequestCache(x)
           moved(e) == [e EXCEPT !.snap = Snapshot(x, e.snap.fx)]
           cache == {moved(e) : e \in x.cache}
<1>1. y = [x EXCEPT !.cache = cache]
  BY DEF RebaseRequestCache
<1>2. \A e \in x.cache :
        /\ DOMAIN moved(e) = {"rid", "act", "exp", "st", "snap"}
        /\ moved(e).st # "gone" /\ moved(e).snap = Snapshot(x, e.snap.fx)
  BY DEF IsSession
<1>3. \A c \in cache : \E e \in x.cache :
        /\ DOMAIN c = {"rid", "act", "exp", "st", "snap"}
        /\ c.st # "gone" /\ c.snap = Snapshot(x, e.snap.fx)
  BY <1>2
<1>8. IsFiniteSet(cache)
  <2>1. IsFiniteSet(x.cache)
    BY DEF IsSession
  <2> DEFINE f == [e \in x.cache |-> moved(e)]
  <2>2. cache = {f[e] : e \in x.cache}
    OBVIOUS
  <2> HIDE DEF f, cache
  <2>3. QED
    BY <2>1, <2>2, ImageIsFinite
<1> HIDE DEF y, moved, cache
<1>4. /\ DOMAIN y = DOMAIN x /\ y.cache = cache /\ y.sid = x.sid
      /\ y.secure = x.secure /\ y.comp = x.comp /\ y.eff = x.eff
  BY <1>1 DEF IsSession
<1>5. IsSession(y)
  BY <1>3, <1>4, <1>8 DEF IsSession
<1>6. ASSUME NEW D, SessionIn(x, D) PROVE SessionIn(y, D)
  <2>1. \A e \in x.cache : e.snap.fx \in Seq(Effects(D))
    BY <1>6 DEF SessionIn, SnapshotIn
  <2>2. \A e \in x.cache : SnapshotIn(Snapshot(x, e.snap.fx), D)
    BY <1>6, <2>1, SnapshotHolds
  <2>3. QED
    BY <1>3, <1>4, <1>6, <2>2 DEF SessionIn
<1>7. QED
  BY <1>4, <1>5, <1>6 DEF y

\* Invalidated candidates leave the session's text alone.
LEMMA InvalidateHolds ==
    ASSUME NEW x, IsSession(x)
    PROVE  LET y == InvalidateCandidates(x)
           IN  /\ IsSession(y) /\ y.sid = x.sid /\ y.secure = x.secure /\ y.comp = x.comp
               /\ \A D : SessionIn(x, D) => SessionIn(y, D)
<1> DEFINE z == [x EXCEPT !.rev = @ + 1, !.phase = "composing"]
<1>1. DOMAIN z = DOMAIN x /\ z.cache = x.cache /\ z.sid = x.sid
      /\ z.secure = x.secure /\ z.comp = x.comp /\ z.eff = x.eff
  BY DEF IsSession
<1> HIDE DEF z
<1>2. IsSession(z) /\ \A D : SessionIn(x, D) => SessionIn(z, D)
  BY <1>1 DEF IsSession, SessionIn
<1>3. InvalidateCandidates(x) = x \/ InvalidateCandidates(x) = RebaseRequestCache(z)
  BY DEF InvalidateCandidates, z
<1>4. CASE InvalidateCandidates(x) = x
  BY <1>4
<1>5. CASE InvalidateCandidates(x) = RebaseRequestCache(z)
  BY <1>1, <1>2, <1>5, RebasedHolds
<1>6. QED
  BY <1>3, <1>4, <1>5

\* Discarded learning leaves the session's text alone.
LEMMA DiscardHolds ==
    ASSUME NEW x, IsSession(x)
    PROVE  LET y == DiscardLearning(x)
           IN  /\ IsSession(y) /\ y.sid = x.sid /\ y.secure = x.secure /\ y.comp = x.comp
               /\ \A D : SessionIn(x, D) => SessionIn(y, D)
<1> DEFINE z == [x EXCEPT !.rev = @ + 1, !.learn = {}]
<1>1. DOMAIN z = DOMAIN x /\ z.cache = x.cache /\ z.sid = x.sid
      /\ z.secure = x.secure /\ z.comp = x.comp /\ z.eff = x.eff
  BY DEF IsSession
<1> HIDE DEF z
<1>2. IsSession(z) /\ \A D : SessionIn(x, D) => SessionIn(z, D)
  BY <1>1 DEF IsSession, SessionIn
<1>3. DiscardLearning(x) = x \/ DiscardLearning(x) = RebaseRequestCache(z)
  BY DEF DiscardLearning, z
<1>4. CASE DiscardLearning(x) = x
  BY <1>4
<1>5. CASE DiscardLearning(x) = RebaseRequestCache(z)
  BY <1>1, <1>2, <1>5, RebasedHolds
<1>6. QED
  BY <1>3, <1>4, <1>5

\* A session with the same text, under the same number, is calm.
LEMMA NewCacheNet ==
    ASSUME NEW w, Net(w), NEW D, NEW y, IsSession(y), y.sid = w.srv.sid,
           y.secure = w.srv.secure, y.comp = w.srv.comp,
           SessionIn(w.srv, D) => SessionIn(y, D)
    PROVE  LET v == [w EXCEPT !.srv = y] IN Net(v) /\ Calm(w, v, D)
<1> DEFINE v == [w EXCEPT !.srv = y]
<1>1. DOMAIN v = DOMAIN w /\ v.s = w.s /\ v.ui = w.ui /\ v.srv = y /\ v.net = w.net
      /\ v.h = w.h
  BY DEF Net, Shape
<1> HIDE DEF v
<1>2. Shape(v) /\ Aside(w, v) /\ v.h.orphans = w.h.orphans
  BY <1>1 DEF Net, Shape, Aside
<1>3. v.srv.sid = 0 => v.srv.comp = <<>>
  BY <1>1 DEF Net, Wired
<1>4. Compat(w, w.srv.sid, D) /\ w.srv.sid # 0 => SessionIn(v.srv, D)
  BY <1>1 DEF Compat
<1>5. Net(v) /\ Calm(w, v, D)
  BY <1>1, <1>2, <1>3, <1>4, CalmSelf, ServerChange
<1>6. QED
  BY <1>5 DEF v

\* What the server does on its own
LEMMA ServerEventNet ==
    ASSUME NEW w, Net(w), NEW D, NEW v \in ServerEvent(w)
    PROVE  Net(v) /\ Calm(w, v, D)
<1>1. CASE v \in Evict(w)
  <2>1. Net(RemoveSession(w, TRUE)) /\ Calm(w, RemoveSession(w, TRUE), D)
    BY RemoveSessionNet
  <2> DEFINE after == IF w.srv.sid # 0 /\ (w.net.queue = <<>> \/ Head(w.net.queue).done)
                      THEN {RemoveSession(w, TRUE)} ELSE {}
  <2>2. \A u \in after : Net(u) /\ Calm(w, u, D)
    BY <2>1
  <2>3. v \in Fault(w, "evict", after)
    BY <1>1 DEF Evict
  <2> HIDE DEF after
  <2>4. QED
    BY <2>2, <2>3, FaultNet
<1>2. CASE v \in DictionaryChange(w)
  <2> DEFINE y == InvalidateCandidates(w.srv)
  <2>1. Net([w EXCEPT !.srv = y]) /\ Calm(w, [w EXCEPT !.srv = y], D)
    <3>1. IsSession(w.srv)
      BY DEF Net, Wired
    <3>2. /\ IsSession(y) /\ y.sid = w.srv.sid /\ y.secure = w.srv.secure
          /\ y.comp = w.srv.comp /\ (SessionIn(w.srv, D) => SessionIn(y, D))
      BY <3>1, InvalidateHolds
    <3> HIDE DEF y
    <3>3. QED
      BY <3>2, NewCacheNet
  <2>2. QED
    BY <1>2, <2>1, FaultNet DEF DictionaryChange
<1>3. CASE v \in ClearAllLearningData(w)
  <2> DEFINE y == DiscardLearning(w.srv)
  <2>1. Net([w EXCEPT !.srv = y]) /\ Calm(w, [w EXCEPT !.srv = y], D)
    <3>1. IsSession(w.srv)
      BY DEF Net, Wired
    <3>2. /\ IsSession(y) /\ y.sid = w.srv.sid /\ y.secure = w.srv.secure
          /\ y.comp = w.srv.comp /\ (SessionIn(w.srv, D) => SessionIn(y, D))
      BY <3>1, DiscardHolds
    <3> HIDE DEF y
    <3>3. QED
      BY <3>2, NewCacheNet
  <2>2. QED
    BY <1>3, <2>1, FaultNet DEF ClearAllLearningData
<1>4. CASE v \in Restart(w)
  <2> DEFINE again(p) == [Disconnected(w) EXCEPT !.net.proc = p]
             after == {again(p) : p \in {w.net.proc, w.net.proc + 1}}
  <2>1. \A p : Net(again(p)) /\ Calm(w, again(p), D)
    BY RestartedNet
  <2>2. v \in Fault(w, "restart", after)
    BY <1>4 DEF Restart
  <2> HIDE DEF again
  <2>3. \A u \in after : Net(u) /\ Calm(w, u, D)
    BY <2>1
  <2> HIDE DEF after
  <2>4. QED
    BY <2>2, <2>3, FaultNet
<1>5. CASE v \in Stop(w)
  <2> DEFINE x == RemoveSession(w, TRUE)
  <2>1. Net(x) /\ Calm(w, x, D)
    BY RemoveSessionNet
  <2>2. \A p : /\ Net([Disconnected(x) EXCEPT !.net.proc = p])
               /\ Calm(x, [Disconnected(x) EXCEPT !.net.proc = p], D)
    BY <2>1, RestartedNet
  <2>3. \A u \in {[Disconnected(x) EXCEPT !.net.proc = p] : p \in {w.net.proc, w.net.proc + 1}} :
            Net(u) /\ Calm(w, u, D)
    BY <2>1, <2>2, CalmThen
  <2> HIDE DEF x
  <2>4. QED
    BY <1>5, <2>3, FaultNet DEF Stop, x
<1>6. QED
  BY <1>1, <1>2, <1>3, <1>4, <1>5 DEF ServerEvent

\* The fields of a response.
LEMMA ResponseIs ==
    ASSUME NEW st, NEW snap
    PROVE  LET r == Response(st, snap)
           IN  IsResponse(r) /\ r.st = st /\ r.snap = snap /\ r.sid = 0
BY DEF Response, IsResponse

\* The absent response answers with no text.
LEMMA NoResponseIs ==
    /\ IsResponse(NoResponse) /\ NoResponse.st = "none" /\ NoResponse.snap = NoSnapshot
    /\ \A D : ResponseIn(NoResponse, D)
<1>1. IsResponse(NoResponse) /\ NoResponse.st = "none" /\ NoResponse.snap = NoSnapshot
  BY DEF NoResponse, Response, IsResponse
<1>2. QED
  BY <1>1, NoSnapshotHolds DEF ResponseIn

\* The fields of the frames the client sends.
LEMMA FramesAre ==
    /\ \A k : IsFrame(CloseSession(k)) /\ CloseSession(k).op = "close" /\ CloseSession(k).sid = k
    /\ \A k, a : /\ IsMessage(ImeAction(k, a)) /\ ImeAction(k, a).op = "action"
                 /\ ImeAction(k, a).sid = k /\ ImeAction(k, a).act = a.act
                 /\ a.act.op \in Ops => IsFrame(ImeAction(k, a))
    /\ \A c : /\ IsMessage(OpenSession(c)) /\ OpenSession(c).op = "open"
              /\ OpenSession(c).sid = 0 /\ OpenSession(c).secure = c.secure
<1>1. ASSUME NEW k
      PROVE  IsFrame(CloseSession(k)) /\ CloseSession(k).op = "close" /\ CloseSession(k).sid = k
  BY DEF CloseSession, OpenSession, IsMessage, IsFrame
<1>2. ASSUME NEW k, NEW a
      PROVE  /\ IsMessage(ImeAction(k, a)) /\ ImeAction(k, a).op = "action"
             /\ ImeAction(k, a).sid = k /\ ImeAction(k, a).act = a.act
             /\ a.act.op \in Ops => IsFrame(ImeAction(k, a))
  BY DEF ImeAction, IsMessage, IsFrame
<1>3. ASSUME NEW c
      PROVE  /\ IsMessage(OpenSession(c)) /\ OpenSession(c).op = "open"
             /\ OpenSession(c).sid = 0 /\ OpenSession(c).secure = c.secure
  BY DEF OpenSession, IsMessage
<1>4. QED
  BY <1>1, <1>2, <1>3

\* m may be sent: if its session holds text of D only, so does m
Fits(w, m, D) ==
    m.op = "action" /\ m.sid # 0 /\ Compat(w, m.sid, D) => ActionIn(m.act, D)

\* What is known in v of the response r to m
Answers(w, v, m, r, D) ==
    /\ IsResponse(r)
    /\ m.sid = 0 => r.snap = NoSnapshot
    /\ r.st = "gone" => m.sid = 0 \/ v.srv.sid # m.sid
    /\ m.sid # 0 /\ Compat(w, m.sid, D) => ResponseIn(r, D)

\* b is the world in which the request began
LEMMA ServeHolds ==
    ASSUME NEW b, NEW w, Net(w), NEW D, Calm(b, w, D),
           NEW m, IsFrame(m), Fits(b, m, D), NEW o \in Serve(w, m)
    PROVE  /\ Net(o.w) /\ Calm(b, o.w, D) /\ o.w.net = w.net
           /\ Answers(b, o.w, m, o.r, D)
           /\ m.op = "close" => m.sid = 0 \/ o.w.srv.sid # m.sid
<1>0. m.op \in {"close", "action"}
  BY DEF IsFrame
<1>1. CASE w.srv.sid # m.sid \/ m.sid = 0
  <2>1. o.w = w /\ o.r = Response("gone", NoSnapshot)
    <3>1. Serve(w, m) = {[w |-> w, r |-> Response("gone", NoSnapshot)]}
      BY <1>0, <1>1 DEF Serve
    <3>2. QED
      BY <3>1
  <2>2. IsResponse(o.r) /\ o.r.snap = NoSnapshot
    BY <2>1, ResponseIs
  <2>3. ResponseIn(o.r, D)
    BY <2>2, NoSnapshotHolds DEF ResponseIn
  <2>4. QED
    BY <1>1, <2>1, <2>2, <2>3 DEF Answers
<1>2. CASE w.srv.sid = m.sid /\ m.sid # 0 /\ m.op = "close"
  <2> DEFINE v == RemoveSession(w, TRUE)
  <2>1. o.w = v /\ o.r = Response("success", NoSnapshot)
    <3>1. Serve(w, m) = {[w |-> v, r |-> Response("success", NoSnapshot)]}
      BY <1>2 DEF Serve
    <3> HIDE DEF v
    <3>2. QED
      BY <3>1
  <2>2. IsResponse(o.r) /\ o.r.snap = NoSnapshot /\ o.r.st = "success"
    BY <2>1, ResponseIs
  <2>3. ResponseIn(o.r, D)
    BY <2>2, NoSnapshotHolds DEF ResponseIn
  <2>4. Net(v) /\ Calm(w, v, D)
    BY RemoveSessionNet
  <2>5. v.net = w.net /\ v.srv = NoSession
    BY RemoveSessionIs DEF Net
  <2> HIDE DEF v
  <2>6. o.w.srv.sid # m.sid
    BY <1>2, <2>1, <2>5 DEF NoSession
  <2>7. Net(o.w) /\ Calm(b, o.w, D) /\ o.w.net = w.net
    BY <2>1, <2>4, <2>5, CalmThen
  <2>8. QED
    BY <2>2, <2>3, <2>6, <2>7 DEF Answers
<1>3. CASE w.srv.sid = m.sid /\ m.sid # 0 /\ m.op = "action"
  <2>1. PICK p \in HandleImeAction(w.srv, m.rid, m.act, m.exp) :
          /\ o.w = [w EXCEPT !.srv = p.x, !.h.taught = @ \cup p.taught,
                             !.h.deleted = @ \cup p.cut]
          /\ o.r = Response(p.st, p.snap)
    <3>1. Serve(w, m) = Handled(w, m)
      BY <1>3 DEF Serve
    <3>2. PICK p \in HandleImeAction(w.srv, m.rid, m.act, m.exp) :
            o = [w |-> [w EXCEPT !.srv = p.x, !.h.taught = @ \cup p.taught,
                                 !.h.deleted = @ \cup p.cut],
                 r |-> Response(p.st, p.snap)]
      BY <3>1 DEF Handled
    <3>3. QED
      BY <3>2
  <2>2. m.act.op \in Ops /\ IsSession(w.srv)
    BY <1>3 DEF IsFrame, Net, Wired
  <2>3. /\ IsSession(p.x) /\ p.x.sid = w.srv.sid /\ p.x.secure = w.srv.secure
        /\ p.st # "gone"
        /\ SessionIn(w.srv, D) /\ ActionIn(m.act, D)
                => SessionIn(p.x, D) /\ SnapshotIn(p.snap, D)
    BY <2>2, HandleHolds
  <2>4. IsResponse(o.r) /\ o.r.st = p.st /\ o.r.snap = p.snap
    BY <2>1, ResponseIs
  <2>5. Compat(b, m.sid, D) => SessionIn(p.x, D) /\ SnapshotIn(p.snap, D)
    <3>1. Compat(b, m.sid, D) => Compat(w, m.sid, D)
      BY DEF Calm
    <3>2. QED
      BY <1>3, <2>3, <3>1 DEF Compat, Fits
  <2>6. Answers(b, o.w, m, o.r, D)
    BY <1>3, <2>3, <2>4, <2>5 DEF Answers, ResponseIn
  <2> DEFINE t == w.h.taught \cup p.taught
             d == w.h.deleted \cup p.cut
             v == o.w
  <2>7. v = [[w EXCEPT !.srv = p.x]
                EXCEPT !.h = [[w.h EXCEPT !.taught = t] EXCEPT !.deleted = d]]
    BY <2>1 DEF Net, Shape
  <2> HIDE DEF t, d, v
  <2>8. /\ DOMAIN v = DOMAIN w /\ v.s = w.s /\ v.ui = w.ui /\ v.srv = p.x /\ v.net = w.net
        /\ v.h = [[w.h EXCEPT !.taught = t] EXCEPT !.deleted = d]
    BY <2>7 DEF Net, Shape
  <2>9. /\ DOMAIN v.h = DOMAIN w.h /\ v.h.typed = w.h.typed /\ v.h.dom = w.h.dom
        /\ v.h.app = w.h.app /\ v.h.orphans = w.h.orphans
    BY <2>8 DEF Net, Shape
  <2>10. Shape(v) /\ Aside(w, v)
    BY <2>8, <2>9 DEF Net, Shape, Aside
  <2>11. Net(v) /\ Calm(b, v, D)
    BY <1>3, <2>3, <2>5, <2>8, <2>9, <2>10, ServerChange
  <2>12. QED
    BY <1>3, <2>6, <2>8, <2>11 DEF v
<1>4. QED
  BY <1>0, <1>1, <1>2, <1>3

\* The retry of a stale disposition is a request for the same session
LEMMA ServeLifecycleHolds ==
    ASSUME NEW b, NEW w, Net(w), NEW D, Calm(b, w, D),
           NEW m, IsFrame(m), Fits(b, m, D), NEW o \in ServeLifecycle(w, m)
    PROVE  /\ Net(o.w) /\ Calm(b, o.w, D) /\ o.w.net = w.net
           /\ Answers(b, o.w, m, o.r, D)
           /\ m.op = "close" => m.sid = 0 \/ o.w.srv.sid # m.sid
<1>1. PICK p \in Serve(w, m) :
        \/ o = p
        \/ o \in Serve(p.w, [m EXCEPT !.rid = FreshRid(p.w), !.exp = p.r.snap.rev])
  BY DEF ServeLifecycle, OnceMore
<1>2. /\ Net(p.w) /\ Calm(b, p.w, D) /\ p.w.net = w.net /\ Answers(b, p.w, m, p.r, D)
      /\ m.op = "close" => m.sid = 0 \/ p.w.srv.sid # m.sid
  BY ServeHolds
<1>3. CASE o = p
  BY <1>2, <1>3
<1>4. CASE o # p
  <2> DEFINE n == [m EXCEPT !.rid = FreshRid(p.w), !.exp = p.r.snap.rev]
  <2>1. DOMAIN n = DOMAIN m /\ n.op = m.op /\ n.sid = m.sid /\ n.act = m.act
    BY DEF IsFrame, IsMessage
  <2>2. o \in Serve(p.w, n)
    BY <1>1, <1>4
  <2> HIDE DEF n
  <2>3. IsFrame(n) /\ Fits(b, n, D)
    BY <2>1 DEF IsFrame, IsMessage, Fits
  <2>4. /\ Net(o.w) /\ Calm(b, o.w, D) /\ o.w.net = p.w.net
        /\ Answers(b, o.w, n, o.r, D)
        /\ n.op = "close" => n.sid = 0 \/ o.w.srv.sid # n.sid
    BY <1>2, <2>2, <2>3, ServeHolds
  <2>5. QED
    BY <1>2, <2>1, <2>4 DEF Answers
<1>5. QED
  BY <1>3, <1>4

------------------------------------------------------------------------------
(* The frames of the connector                                             *)

\* Only the queue changes
LEMMA QueueLeavesUp ==
    ASSUME NEW w, Net(w), w.net.up, NEW q
    PROVE  [w EXCEPT !.net.queue = q].net.up
<1> DEFINE v == [w EXCEPT !.net.queue = q]
<1>1. v.net.up = w.net.up
  BY DEF Net, Shape
<1> HIDE DEF v
<1>2. v.net.up
  BY <1>1, Zenon
<1>3. QED
  BY <1>2 DEF v

\* The connector's frames may change while each still fits its session and
\* the close of a live session stays.
LEMMA QueueChange ==
    ASSUME NEW b, NEW w, NEW D, Net(w), Calm(b, w, D), w.net.up, NEW q, IsSeq(q),
           \A i \in DOMAIN q :
              /\ FrameOK(q[i], w.srv.sid)
              /\ q[i].m.sid # 0 /\ Compat(b, q[i].m.sid, D) => FrameIn(q[i], D),
           \A i \in DOMAIN w.net.queue :
              /\ w.srv.sid # 0 /\ w.net.queue[i].m = CloseSession(w.srv.sid)
              /\ ~w.net.queue[i].done
              => \E j \in DOMAIN q : q[j].m = CloseSession(w.srv.sid) /\ ~q[j].done
    PROVE  LET v == [w EXCEPT !.net.queue = q]
           IN  /\ Net(v) /\ Calm(b, v, D) /\ v.srv = w.srv
               /\ v.net.queue = q
<1> DEFINE v == [w EXCEPT !.net.queue = q]
<1>1. v = [w EXCEPT !.net = [w.net EXCEPT !.queue = q]]
  OBVIOUS
<1> HIDE DEF v
<1>2. /\ DOMAIN v = DOMAIN w /\ v.s = w.s /\ v.ui = w.ui /\ v.srv = w.srv /\ v.h = w.h
      /\ DOMAIN v.net = DOMAIN w.net /\ v.net.queue = q /\ v.net.up = w.net.up
  BY <1>1 DEF Net, Shape
<1>3. Shape(v) /\ Aside(w, v)
  BY <1>2 DEF Net, Shape, Aside
<1>4. Wired(v)
  BY <1>2 DEF Net, Wired
<1>5. \A k : Owned(w, k) => Owned(v, k)
  BY <1>2 DEF Owned, Closing
<1>6. ASSUME NEW k, Compat(b, k, D) PROVE Compat(v, k, D)
  <2>1. Compat(w, k, D)
    BY <1>6 DEF Calm
  <2>2. v.s.ctx.secure = w.s.ctx.secure
    BY <1>2
  <2>3. QED
    BY <1>2, <1>6, <2>1, <2>2 DEF Compat
<1>7. Aside(b, v)
  BY <1>3 DEF Aside, Calm
<1>8. Net(v)
  BY <1>2, <1>3, <1>4 DEF Net
<1>9. \A k : Owned(b, k) => Owned(v, k)
  BY <1>5 DEF Calm
<1>10. v.srv.sid = 0 \/ v.srv.sid = b.srv.sid
  BY <1>2 DEF Calm
<1>11. Calm(b, v, D)
  BY <1>6, <1>7, <1>9, <1>10 DEF Calm
<1>12. QED
  BY <1>2, <1>8, <1>11 DEF v

\* The answer to the oldest frame is taken over.
LEMMA FinishHeadHolds ==
    ASSUME NEW b, NEW w, NEW D, Net(w), Calm(b, w, D), w.net.queue # <<>>,
           NEW o \in FinishHead(w)
    PROVE  LET m == w.net.queue[1].m
           IN  /\ Net(o.w) /\ Calm(b, o.w, D) /\ o.w.net = w.net
               /\ Answers(b, o.w, m, o.r, D)
               /\ m.op = "close" => m.sid = 0 \/ o.w.srv.sid # m.sid
<1> DEFINE f == w.net.queue[1]
<1>1. Head(w.net.queue) = f /\ 1 \in DOMAIN w.net.queue /\ FrameOK(f, w.srv.sid)
  <2>1. IsSeq(w.net.queue)
    BY DEF Net, Wired
  <2>2. Len(w.net.queue) > 0 /\ Head(w.net.queue) = f /\ Len(w.net.queue) \in Nat
        /\ DOMAIN w.net.queue = 1 .. Len(w.net.queue)
    BY <2>1, SeqTail, SeqDomain
  <2>3. 1 \in DOMAIN w.net.queue
    BY <2>2
  <2>4. QED
    BY <2>2, <2>3 DEF Net, Wired
<1>2. f.m.sid # 0 /\ Compat(b, f.m.sid, D) => FrameIn(f, D)
  <2>1. Compat(b, f.m.sid, D) => Compat(w, f.m.sid, D)
    BY DEF Calm
  <2>2. QED
    BY <1>1, <2>1 DEF Compat
<1>3. CASE f.done
  <2>1. o = [w |-> w, r |-> f.r]
    BY <1>1, <1>3 DEF FinishHead
  <2> HIDE DEF f
  <2>2. o.w = w /\ o.r = f.r
    BY <2>1
  <2>3. Answers(b, w, f.m, f.r, D) /\ (f.m.op = "close" => f.m.sid = 0 \/ w.srv.sid # f.m.sid)
    BY <1>1, <1>2, <1>3 DEF FrameOK, Settled, Answers, FrameIn
  <2>4. QED
    BY <2>2, <2>3 DEF f
<1>4. CASE ~f.done
  <2>1. o \in ServeLifecycle(w, f.m)
    BY <1>1, <1>4 DEF FinishHead
  <2>2. IsFrame(f.m) /\ Fits(b, f.m, D)
    BY <1>1, <1>2 DEF FrameOK, Fits, FrameIn
  <2> HIDE DEF f
  <2>3. QED
    BY <2>1, <2>2, ServeLifecycleHolds DEF f
<1>5. QED
  BY <1>3, <1>4

\* A connector that owns frames is connected.
LEMMA QueueUp ==
    ASSUME NEW w, Net(w), w.net.queue # <<>>
    PROVE  w.net.up
BY DEF Net, Wired

\* The oldest frame times out, before or after the server saw it.
LEMMA HeadUnfinishedHolds ==
    ASSUME NEW b, NEW w, NEW D, Net(w), Calm(b, w, D), w.net.queue # <<>>,
           NEW o \in FinishHead(w), NEW x \in HeadUnfinished(w, o)
    PROVE  Net(x) /\ Calm(b, x, D)
<1> DEFINE m == w.net.queue[1].m
           q == o.w.net.queue
           g == [q[1] EXCEPT !.done = TRUE, !.r = o.r]
           u == [o.w EXCEPT !.net.queue[1].done = TRUE, !.net.queue[1].r = o.r]
<1>1. /\ Net(o.w) /\ Calm(b, o.w, D) /\ o.w.net = w.net
      /\ Answers(b, o.w, m, o.r, D)
      /\ m.op = "close" => m.sid = 0 \/ o.w.srv.sid # m.sid
  BY FinishHeadHolds
<1>2. IsSeq(q) /\ q # <<>> /\ q[1].m = m
  BY <1>1 DEF Net, Wired
<1>3. Len(q) \in Nat /\ Len(q) > 0 /\ DOMAIN q = 1 .. Len(q) /\ 1 \in DOMAIN q
  BY <1>2, SeqDomain, SeqTail
<1>4. FrameOK(q[1], o.w.srv.sid)
  BY <1>1, <1>3 DEF Net, Wired
<1>5. q[1].m.sid # 0 /\ Compat(b, q[1].m.sid, D) => FrameIn(q[1], D)
  <2>1. Compat(b, q[1].m.sid, D) => Compat(o.w, q[1].m.sid, D)
    BY <1>1 DEF Calm
  <2>2. QED
    BY <1>3, <2>1 DEF Compat
<1>6. DOMAIN g = {"m", "r", "done"} /\ g.m = m /\ g.r = o.r /\ g.done
  BY <1>2, <1>4 DEF FrameOK
<1>7. FrameOK(g, o.w.srv.sid) /\ (m.sid # 0 /\ Compat(b, m.sid, D) => FrameIn(g, D))
  <2> HIDE DEF m, q, g
  <2>1. QED
    BY <1>1, <1>2, <1>4, <1>5, <1>6 DEF FrameOK, Settled, Answers, FrameIn
<1> DEFINE p == [q EXCEPT ![1] = g]
<1>8. u = [o.w EXCEPT !.net.queue = p]
  <2>1. /\ DOMAIN o.w = {"s", "ui", "srv", "net", "h"}
        /\ DOMAIN o.w.net = {"up", "queue", "proc"}
    BY <1>1 DEF Net, Shape
  <2>2. u = [[o.w EXCEPT !.net.queue[1].done = TRUE] EXCEPT !.net.queue[1].r = o.r]
    OBVIOUS
  <2> DEFINE f1 == [q[1] EXCEPT !.done = TRUE]
             q1 == [q EXCEPT ![1] = f1]
             n1 == [o.w.net EXCEPT !.queue = q1]
             w1 == [o.w EXCEPT !.net = n1]
  <2>3. u = [w1 EXCEPT !.net = [w1.net EXCEPT !.queue =
                        [w1.net.queue EXCEPT ![1] = [w1.net.queue[1] EXCEPT !.r = o.r]]]]
    BY <2>2
  <2>4. w1.net = n1 /\ n1.queue = q1
    BY <2>1
  <2>5. q1[1] = f1
    BY <1>3
  <2>6. [f1 EXCEPT !.r = o.r] = g
    OBVIOUS
  <2>7. u = [w1 EXCEPT !.net = [n1 EXCEPT !.queue = [q1 EXCEPT ![1] = g]]]
    BY <2>3, <2>4, <2>5, <2>6
  <2> HIDE DEF u, g, f1
  <2>8. [q1 EXCEPT ![1] = g] = p
    BY <1>3
  <2> HIDE DEF q1, p
  <2>9. [n1 EXCEPT !.queue = p] = [o.w.net EXCEPT !.queue = p]
    BY <2>1
  <2>10. u = [w1 EXCEPT !.net = [o.w.net EXCEPT !.queue = p]]
    BY <2>7, <2>8, <2>9
  <2> HIDE DEF n1
  <2>11. QED
    BY <2>1, <2>10
<1> HIDE DEF u, g
<1>9. /\ IsSeq(p) /\ Len(p) = Len(q)
      /\ \A i \in 1 .. Len(q) : p[i] = IF i = 1 THEN g ELSE q[i]
  <2>1. IsSeq(q) /\ 1 \in DOMAIN q /\ DOMAIN q = 1 .. Len(q)
    BY <1>2, <1>3
  <2> HIDE DEF q
  <2>2. QED
    BY <2>1, SeqExcept DEF PutAt
<1> HIDE DEF p
<1>10. DOMAIN p = 1 .. Len(q)
  BY <1>9, SeqDomain
<1>11. ASSUME NEW i \in DOMAIN p
       PROVE  /\ FrameOK(p[i], o.w.srv.sid)
              /\ p[i].m.sid # 0 /\ Compat(b, p[i].m.sid, D) => FrameIn(p[i], D)
  <2>1. CASE i = 1
    BY <1>6, <1>7, <1>9, <1>10, <2>1
  <2>2. CASE i # 1
    <3>1. p[i] = q[i] /\ i \in DOMAIN q
      BY <1>3, <1>9, <1>10, <2>2
    <3>2. FrameOK(q[i], o.w.srv.sid)
      BY <1>1, <3>1 DEF Net, Wired
    <3>3. Compat(b, q[i].m.sid, D) => Compat(o.w, q[i].m.sid, D)
      BY <1>1 DEF Calm
    <3>4. QED
      BY <3>1, <3>2, <3>3 DEF Compat
  <2>3. QED
    BY <2>1, <2>2
<1>12. ASSUME NEW i \in DOMAIN q, o.w.srv.sid # 0, q[i].m = CloseSession(o.w.srv.sid),
              ~q[i].done
       PROVE  i \in DOMAIN p /\ p[i].m = CloseSession(o.w.srv.sid) /\ ~p[i].done
  <2>1. i # 1
    <3>1. CloseSession(o.w.srv.sid).op = "close" /\ CloseSession(o.w.srv.sid).sid = o.w.srv.sid
      BY FramesAre
    <3>2. QED
      BY <1>1, <1>2, <1>12, <3>1
  <2>2. QED
    BY <1>3, <1>9, <1>10, <1>12, <2>1
<1>13. Net(u) /\ Calm(b, u, D)
  <2>1. o.w.net.up
    BY <1>1, <1>2, QueueUp
  <2>2. QED
    BY <1>1, <1>8, <1>9, <1>11, <1>12, <2>1, QueueChange
<1>14. CASE x \in Fault(w, "slow", {w, u})
  <2>1. \A v \in {w, u} : Net(v) /\ Calm(b, v, D)
    BY <1>13
  <2>2. QED
    BY <1>14, <2>1, FaultNet
<1>15. CASE x \in Fault(o.w, "break", {Disconnected(o.w)})
  <2>1. Net(Disconnected(o.w)) /\ Calm(o.w, Disconnected(o.w), D)
    BY <1>1, DisconnectedNet
  <2>2. Calm(b, Disconnected(o.w), D)
    BY <1>1, <2>1, CalmThen
  <2>3. QED
    BY <1>15, <2>1, <2>2, FaultNet
<1>16. QED
  BY <1>14, <1>15 DEF HeadUnfinished, u

\* The response r to m is one that arrived, if any did
Got(b, v, m, r, D) == r = NoResponse \/ (IsFrame(m) /\ Answers(b, v, m, r, D))

Drained(b, m, o, D) == Net(o.w) /\ Calm(b, o.w, D) /\ Got(b, o.w, m, o.r, D)

\* The oldest frame is finished, or the connection is given up.
LEMMA DrainHeadHolds ==
    ASSUME NEW b, NEW D, NEW m, NEW o, Drained(b, m, o, D),
           o.ok => o.w.net.queue # <<>>, NEW x \in DrainHead(o, m)
    PROVE  /\ Drained(b, m, x, D)
           /\ x.ok => /\ o.ok /\ x.w.net.up
                      /\ Len(x.w.net.queue) = Len(o.w.net.queue) - 1
<1> USE DEF Drained
<1>1. CASE ~o.ok
  BY <1>1 DEF DrainHead
<1>2. CASE o.ok
  <2> DEFINE w == o.w
             q == w.net.queue
             n == q[1].m
  <2>1. IsSeq(q) /\ q # <<>>
    BY <1>2 DEF Net, Wired
  <2>2. /\ Len(q) \in Nat /\ Len(q) > 0 /\ DOMAIN q = 1 .. Len(q) /\ 1 \in DOMAIN q
        /\ Head(q) = q[1]
    BY <2>1, SeqDomain, SeqTail
  <2>3. PICK p \in FinishHead(w) :
          \/ /\ x.w = [p.w EXCEPT !.net.queue = Tail(@)] /\ x.ok
             /\ x.r = IF n = m THEN p.r ELSE o.r
          \/ x.w \in HeadUnfinished(w, p) /\ x.r = o.r /\ ~x.ok
    <3>1. PICK p \in FinishHead(w) :
            x \in {[w |-> [p.w EXCEPT !.net.queue = Tail(@)], ok |-> TRUE,
                    r |-> IF Head(w.net.queue).m = m THEN p.r ELSE o.r]}
                \cup {[w |-> v, r |-> o.r, ok |-> FALSE] : v \in HeadUnfinished(w, p)}
      BY <1>2 DEF DrainHead
    <3>2. CASE x = [w |-> [p.w EXCEPT !.net.queue = Tail(@)], ok |-> TRUE,
                    r |-> IF n = m THEN p.r ELSE o.r]
      BY <3>2
    <3>3. CASE x \in {[w |-> v, r |-> o.r, ok |-> FALSE] : v \in HeadUnfinished(w, p)}
      BY <3>3
    <3>4. QED
      BY <2>2, <3>1, <3>2, <3>3
  <2>4. /\ Net(p.w) /\ Calm(b, p.w, D) /\ p.w.net = w.net
        /\ Answers(b, p.w, n, p.r, D)
        /\ n.op = "close" => n.sid = 0 \/ p.w.srv.sid # n.sid
    BY <2>1, FinishHeadHolds
  <2>5. Calm(w, p.w, D)
    BY <2>1, CalmSelf, FinishHeadHolds
  <2>6. ASSUME NEW v, Calm(w, v, D) PROVE Got(b, v, m, o.r, D)
    BY <2>6 DEF Got, Answers, Calm
  <2>7. CASE x.w \in HeadUnfinished(w, p) /\ x.r = o.r /\ ~x.ok
    <3>1. Net(x.w) /\ Calm(b, x.w, D)
      BY <2>1, <2>7, HeadUnfinishedHolds
    <3>2. Calm(w, x.w, D)
      BY <2>1, <2>7, CalmSelf, HeadUnfinishedHolds
    <3>3. QED
      BY <2>6, <2>7, <3>1, <3>2
  <2>8. CASE /\ x.w = [p.w EXCEPT !.net.queue = Tail(@)] /\ x.ok
             /\ x.r = IF n = m THEN p.r ELSE o.r
    <3> DEFINE t == Tail(q)
    <3>1. IsSeq(t) /\ Len(t) = Len(q) - 1 /\ \A i \in 1 .. Len(q) - 1 : t[i] = q[i + 1]
      BY <2>1, SeqTail
    <3>2. x.w = [p.w EXCEPT !.net.queue = t]
      BY <2>4, <2>8
    <3> HIDE DEF t
    <3>3. DOMAIN t = 1 .. Len(q) - 1
      BY <3>1, SeqDomain
    <3>4. ASSUME NEW i \in DOMAIN t
          PROVE  /\ FrameOK(t[i], p.w.srv.sid)
                 /\ t[i].m.sid # 0 /\ Compat(b, t[i].m.sid, D) => FrameIn(t[i], D)
      <4>1. t[i] = q[i + 1] /\ i + 1 \in DOMAIN q
        BY <2>2, <3>1, <3>3
      <4>2. FrameOK(q[i + 1], p.w.srv.sid)
        BY <2>4, <4>1 DEF Net, Wired
      <4>3. Compat(b, q[i + 1].m.sid, D) => Compat(p.w, q[i + 1].m.sid, D)
        BY <2>4 DEF Calm
      <4>4. QED
        BY <2>4, <4>1, <4>2, <4>3 DEF Compat
    <3>5. ASSUME NEW i \in DOMAIN q, p.w.srv.sid # 0, q[i].m = CloseSession(p.w.srv.sid),
                 ~q[i].done
          PROVE  \E j \in DOMAIN t : t[j].m = CloseSession(p.w.srv.sid) /\ ~t[j].done
      <4>1. i # 1
        <5>1. /\ CloseSession(p.w.srv.sid).op = "close"
              /\ CloseSession(p.w.srv.sid).sid = p.w.srv.sid
          BY FramesAre
        <5>2. QED
          BY <2>4, <3>5, <5>1
      <4>2. i - 1 \in DOMAIN t /\ t[i - 1] = q[(i - 1) + 1] /\ (i - 1) + 1 = i
        BY <2>2, <3>1, <3>3, <4>1
      <4>3. QED
        BY <3>5, <4>2
    <3>6. p.w.net.up
      BY <2>1, <2>4, QueueUp
    <3>7. Net(x.w) /\ Calm(b, x.w, D) /\ x.w.srv = p.w.srv /\ x.w.net.queue = t
      <4>1. Net(p.w) /\ Calm(b, p.w, D) /\ p.w.net.queue = q
        BY <2>4
      <4>2. \A i \in DOMAIN p.w.net.queue :
               /\ p.w.srv.sid # 0 /\ p.w.net.queue[i].m = CloseSession(p.w.srv.sid)
               /\ ~p.w.net.queue[i].done
               => \E j \in DOMAIN t : t[j].m = CloseSession(p.w.srv.sid) /\ ~t[j].done
        BY <4>1, <3>5
      <4>3. LET v == [p.w EXCEPT !.net.queue = t]
            IN  /\ Net(v) /\ Calm(b, v, D) /\ v.srv = p.w.srv
                /\ v.net.queue = t
        BY <3>1, <3>4, <3>6, <4>1, <4>2, QueueChange
      <4>4. QED
        BY <3>2, <4>3
    <3>u. x.w.net.up
      BY <2>4, <3>2, <3>6, QueueLeavesUp
    <3>8. Got(b, x.w, m, x.r, D)
      <4>1. CASE n = m
        <5>1. IsFrame(m) /\ Answers(b, p.w, m, p.r, D) /\ x.r = p.r
          <6>1. FrameOK(q[1], w.srv.sid)
            BY <2>2 DEF Net, Wired
          <6>2. QED
            BY <2>4, <2>8, <4>1, <6>1 DEF FrameOK
        <5>2. QED
          BY <3>7, <5>1 DEF Got, Answers
      <4>2. CASE n # m
        <5>1. x.r = o.r /\ Got(b, p.w, m, o.r, D)
          BY <2>5, <2>6, <2>8, <4>2
        <5>2. QED
          BY <3>7, <5>1 DEF Got, Answers
      <4>3. QED
        BY <4>1, <4>2
    <3>9. QED
      BY <1>2, <3>1, <3>7, <3>u, <3>8
  <2>9. QED
    BY <2>3, <2>7, <2>8
<1>3. QED
  BY <1>1, <1>2

\* All frames are finished in turn, or the connection is given up.
LEMMA DrainHolds ==
    ASSUME NEW b, NEW D, NEW w, Net(w), Calm(b, w, D), w.net.up, NEW m, NEW o \in Drain(w, m)
    PROVE  /\ Drained(b, m, o, D)
           /\ o.ok => o.w.net.queue = <<>> /\ o.w.net.up
<1> DEFINE L == Len(w.net.queue)
           init == {[w |-> w, r |-> NoResponse, ok |-> TRUE]}
           Turn(S) == UNION {DrainHead(x, m) : x \in S}
           after[n \in 0 .. L] == IF n = 0 THEN init ELSE Turn(after[n - 1])
           Inv(x, n) == /\ Drained(b, m, x, D)
                        /\ x.ok => x.w.net.up /\ Len(x.w.net.queue) = L - n
           Rec(f, N) == f = [n \in 0 .. N |-> IF n = 0 THEN init ELSE Turn(f[n - 1])]
           Bad == {N \in 0 .. L : ~ \E f : Rec(f, N)}
           Lost == {n \in 0 .. L : ~ \A x \in after[n] : Inv(x, n)}
<1>1. L \in Nat
  BY SeqDomain DEF Net, Wired
<1>2. \A x \in init : Inv(x, 0)
  <2>1. Got(b, w, m, NoResponse, D)
    BY DEF Got
  <2>2. QED
    BY <1>1, <2>1 DEF Drained
<1>3. ASSUME NEW n \in 1 .. L, NEW x, Inv(x, n - 1), NEW y \in DrainHead(x, m)
      PROVE  Inv(y, n)
  <2>1. x.ok => x.w.net.queue # <<>>
    <3>1. SUFFICES ASSUME x.ok, x.w.net.queue = <<>> PROVE FALSE
      OBVIOUS
    <3>2. Len(x.w.net.queue) = L - (n - 1)
      BY <1>3, <3>1
    <3>3. Len(x.w.net.queue) = 0
      BY <3>1, EmptyIsSeq
    <3>4. QED
      BY <1>1, <3>2, <3>3
  <2>2. /\ Drained(b, m, x, D)
        /\ x.ok => x.w.net.up /\ Len(x.w.net.queue) = L - (n - 1)
    BY <1>3
  <2> HIDE DEF after, init, Turn, Bad, Lost, Inv, Rec
  <2>3. /\ Drained(b, m, y, D)
        /\ y.ok => /\ x.ok /\ y.w.net.up
                   /\ Len(y.w.net.queue) = Len(x.w.net.queue) - 1
    BY <1>3, <2>1, <2>2, DrainHeadHolds
  <2>4. y.ok => y.w.net.up /\ Len(y.w.net.queue) = L - n
    <3>1. y.ok => /\ y.w.net.up /\ Len(x.w.net.queue) = L - (n - 1)
                  /\ Len(y.w.net.queue) = Len(x.w.net.queue) - 1
      BY <2>2, <2>3, Zenon
    <3>2. L - (n - 1) - 1 = L - n
      BY <1>1
    <3>3. QED
      BY <3>1, <3>2, Zenon
  <2>5. QED
    BY <2>3, <2>4 DEF Inv
<1>4. ASSUME NEW n \in 1 .. L, NEW S, \A x \in S : Inv(x, n - 1)
      PROVE  \A y \in Turn(S) : Inv(y, n)
  <2>1. TAKE y \in Turn(S)
  <2>2. PICK x \in S : y \in DrainHead(x, m)
    BY <2>1
  <2>3. QED
    BY <1>3, <1>4, <2>2
<1>5. o \in after[L]
  BY DEF Drain, AfterTurns
<1>6. ASSUME NEW f, Rec(f, L) PROVE Rec(after, L)
  BY <1>6
<1> HIDE DEF init, Inv, Turn, L, after
<1>7. \E f : Rec(f, L)
  <2> SUFFICES ASSUME ~ \E f : Rec(f, L) PROVE FALSE
    OBVIOUS
  <2>1. L \in Bad /\ Bad \subseteq Nat
    BY <1>1
  <2>2. PICK N \in Bad : \A K \in Bad : N <= K
    <3> HIDE DEF Bad
    <3>1. QED
      BY <2>1, LeastNumber
  <2>3. N \in 0 .. L /\ ~ \E f : Rec(f, N)
    BY <2>2
  <2>4. CASE N = 0
    <3>1. Rec([n \in 0 .. 0 |-> init], 0)
      OBVIOUS
    <3>2. QED
      BY <2>3, <2>4, <3>1
  <2>5. CASE N > 0
    <3>1. N \in 1 .. L /\ N - 1 \in 0 .. L /\ ~ N <= N - 1
      BY <1>1, <2>3, <2>5
    <3>2. PICK g : Rec(g, N - 1)
      BY <2>2, <3>1
    <3> DEFINE f == [n \in 0 .. N |-> IF n = 0 THEN init ELSE Turn(g[n - 1])]
    <3>3. \A n \in 0 .. N : n # 0 => f[n - 1] = g[n - 1]
      BY <3>1, <3>2
    <3>4. Rec(f, N)
      BY <3>3
    <3>5. QED
      BY <2>3, <3>4
  <2>6. QED
    BY <1>1, <2>3, <2>4, <2>5
<1>8. after = [n \in 0 .. L |-> IF n = 0 THEN init ELSE Turn(after[n - 1])]
  BY <1>6, <1>7
<1>9. Lost = {}
  <2> SUFFICES ASSUME Lost # {} PROVE FALSE
    OBVIOUS
  <2>1. Lost \subseteq Nat
    BY <1>1
  <2>2. PICK n \in Lost : \A k \in Lost : n <= k
    <3> HIDE DEF Lost
    <3>1. QED
      BY <2>1, LeastNumber
  <2>3. n \in 0 .. L /\ ~ \A x \in after[n] : Inv(x, n)
    BY <2>2
  <2>4. n # 0
    BY <1>1, <1>2, <1>8, <2>3
  <2>5. n \in 1 .. L /\ n - 1 \in 0 .. L /\ ~ n <= n - 1
    BY <1>1, <2>3, <2>4
  <2>6. \A x \in after[n - 1] : Inv(x, n - 1)
    BY <2>2, <2>5
  <2>7. after[n] = Turn(after[n - 1])
    BY <1>8, <2>5
  <2>8. QED
    BY <1>4, <2>3, <2>5, <2>6, <2>7
<1>10. Inv(o, L)
  BY <1>1, <1>5, <1>9
<1>11. o.ok => o.w.net.up /\ Len(o.w.net.queue) = 0
  BY <1>1, <1>10 DEF Inv
<1>12. QED
  BY <1>10, <1>11, SeqOfNone DEF Inv, Drained, Net, Wired

------------------------------------------------------------------------------
(* One request                                                             *)

\* A new connection finds neither frames nor a session of the old one.
LEMMA ConnectHolds ==
    ASSUME NEW b, NEW D, NEW w, Net(w), Calm(b, w, D), NEW v \in Connect(w)
    PROVE  Net(v) /\ Calm(b, v, D) /\ v.srv = w.srv /\ v.net.queue = w.net.queue
<1>1. CASE v = [w EXCEPT !.net.up = TRUE]
  <2>1. v = [w EXCEPT !.net = [w.net EXCEPT !.up = TRUE]]
    BY <1>1
  <2>2. /\ DOMAIN v = DOMAIN w /\ v.s = w.s /\ v.ui = w.ui /\ v.srv = w.srv /\ v.h = w.h
        /\ DOMAIN v.net = DOMAIN w.net /\ v.net.queue = w.net.queue /\ v.net.up = TRUE
    BY <2>1 DEF Net, Shape
  <2>3. Shape(v) /\ Aside(w, v)
    BY <2>2 DEF Net, Shape, Aside
  <2>4. Wired(v)
    BY <2>2 DEF Net, Wired
  <2>5. Net(v)
    BY <2>2, <2>3, <2>4 DEF Net
  <2>6. \A k : Owned(w, k) => Owned(v, k)
    BY <2>2 DEF Owned, Closing
  <2>7. \A k : Compat(w, k, D) => Compat(v, k, D)
    BY <2>2 DEF Compat
  <2>8. Calm(w, v, D)
    BY <2>2, <2>3, <2>6, <2>7 DEF Calm
  <2>9. QED
    BY <2>2, <2>5, <2>8, CalmThen
<1>2. CASE v \in Fault(w, "refuse", {w})
  <2>1. Net(v) /\ Calm(b, v, D)
    BY <1>2, FaultNet
  <2>2. Twin(w, v)
    BY <1>2, FaultTwin DEF Net
  <2>3. QED
    BY <2>1, <2>2 DEF Twin
<1>3. QED
  BY <1>1, <1>2 DEF Connect

\* The connector takes over an unanswered frame.
LEMMA TakeOverHolds ==
    ASSUME NEW b, NEW D, NEW w, Net(w), Calm(b, w, D), w.net.up,
           NEW m, IsFrame(m), Fits(b, m, D)
    PROVE  LET v == TakeOver(w, m)
           IN  /\ Net(v) /\ Calm(b, v, D) /\ v.net.up
               /\ \A k : Owned(w, k) /\ m = CloseSession(k) => Owned(v, 0)
<1> DEFINE q == w.net.queue
<1>1. IsSeq(q) /\ Len(q) \in Nat /\ DOMAIN q = 1 .. Len(q)
      /\ \A i \in DOMAIN q : FrameOK(q[i], w.srv.sid)
  BY SeqDomain DEF Net, Wired
<1>2. CASE \E i \in DOMAIN q : q[i].m = m
  <2>1. TakeOver(w, m) = w
    BY <1>2 DEF TakeOver
  <2>2. ASSUME NEW k, Owned(w, k), m = CloseSession(k) PROVE Owned(w, 0)
    <3>1. PICK i \in DOMAIN q : q[i].m = m
      BY <1>2
    <3>2. q[i].m.op = "close" /\ q[i].m.sid = k
      BY <2>2, <3>1, FramesAre
    <3>3. CASE q[i].done
      <4>1. k = 0 \/ w.srv.sid # k
        BY <1>1, <3>2, <3>3 DEF FrameOK, Settled
      <4>2. QED
        BY <2>2, <4>1 DEF Owned
    <3>4. CASE ~q[i].done
      BY <2>2, <3>1, <3>4 DEF Owned, Closing
    <3>5. QED
      BY <3>3, <3>4
  <2>3. QED
    BY <2>1, <2>2
<1>3. CASE ~ \E i \in DOMAIN q : q[i].m = m
  <2> DEFINE f == [m |-> m, r |-> NoResponse, done |-> FALSE]
             p == Append(q, f)
             v == [w EXCEPT !.net.queue = p]
  <2>1. TakeOver(w, m) = v
    BY <1>3 DEF TakeOver
  <2>2. DOMAIN f = {"m", "r", "done"} /\ f.m = m /\ f.r = NoResponse /\ ~f.done
    OBVIOUS
  <2>3. FrameOK(f, w.srv.sid) /\ (m.sid # 0 /\ Compat(b, m.sid, D) => FrameIn(f, D))
    <3> HIDE DEF f
    <3>1. QED
      BY <2>2, NoResponseIs DEF FrameOK, Settled, FrameIn, Fits
  <2> HIDE DEF f
  <2>4. /\ IsSeq(p) /\ Len(p) = Len(q) + 1 /\ p[Len(q) + 1] = f
        /\ \A i \in 1 .. Len(q) : p[i] = q[i]
    <3> HIDE DEF q
    <3>1. QED
      BY <1>1, SeqAppend
  <2> HIDE DEF p
  <2>5. DOMAIN p = 1 .. Len(q) + 1
    BY <2>4, SeqDomain
  <2>6. ASSUME NEW i \in DOMAIN p
        PROVE  /\ FrameOK(p[i], w.srv.sid)
               /\ p[i].m.sid # 0 /\ Compat(b, p[i].m.sid, D) => FrameIn(p[i], D)
    <3>1. CASE i = Len(q) + 1
      BY <2>2, <2>3, <2>4, <3>1
    <3>2. CASE i # Len(q) + 1
      <4>1. i \in DOMAIN q /\ p[i] = q[i]
        BY <1>1, <2>4, <2>5, <3>2
      <4>2. Compat(b, q[i].m.sid, D) => Compat(w, q[i].m.sid, D)
        BY DEF Calm
      <4>3. QED
        BY <1>1, <4>1, <4>2 DEF Compat
    <3>3. QED
      BY <3>1, <3>2
  <2>7. \A i \in DOMAIN q : i \in DOMAIN p /\ p[i] = q[i]
    BY <1>1, <2>4, <2>5
  <2>8. Net(v) /\ Calm(b, v, D) /\ v.srv = w.srv /\ v.net.queue = p
    <3>1. \A i \in DOMAIN w.net.queue :
              /\ w.srv.sid # 0 /\ w.net.queue[i].m = CloseSession(w.srv.sid)
              /\ ~w.net.queue[i].done
              => \E j \in DOMAIN p : p[j].m = CloseSession(w.srv.sid) /\ ~p[j].done
      BY <2>7
    <3>2. \A i \in DOMAIN p :
              /\ FrameOK(p[i], w.srv.sid)
              /\ p[i].m.sid # 0 /\ Compat(b, p[i].m.sid, D) => FrameIn(p[i], D)
      BY <2>6
    <3>3. IsSeq(p)
      BY <2>4
    <3> HIDE DEF q
    <3>4. QED
      BY <3>1, <3>2, <3>3, QueueChange
  <2>u. v.net.up
    BY QueueLeavesUp
  <2> HIDE DEF v
  <2>9. ASSUME NEW k, Owned(w, k), m = CloseSession(k) PROVE Owned(v, 0)
    <3>1. Len(q) + 1 \in DOMAIN p
      BY <1>1, <2>5
    <3>2. Closing(v, k)
      BY <2>2, <2>4, <2>8, <2>9, <3>1 DEF Closing
    <3>3. Closing(w, w.srv.sid) => Closing(v, w.srv.sid)
      BY <2>7, <2>8 DEF Closing
    <3>4. QED
      BY <2>8, <2>9, <3>2, <3>3 DEF Owned
  <2>10. QED
    BY <2>1, <2>8, <2>u, <2>9
<1>4. QED
  BY <1>2, <1>3

\* The connection breaks before or after the server saw the request.
LEMMA BrokenHolds ==
    ASSUME NEW b, NEW D, NEW w, Net(w), Calm(b, w, D), NEW t, NEW v \in Broken(w, t)
    PROVE  Net(v) /\ Calm(b, v, D) /\ v.srv.sid = 0
<1>1. PICK u \in Fault(w, "break", {Disconnected(w)}) : v = u \/ v \in Connect(u)
  BY DEF Broken
<1>2. /\ Net(Disconnected(w)) /\ Calm(w, Disconnected(w), D)
      /\ Disconnected(w).srv.sid = 0
  BY DisconnectedNet
<1>3. Calm(b, Disconnected(w), D)
  BY <1>2, CalmThen
<1>4. Net(u) /\ Calm(b, u, D)
  BY <1>2, <1>3, FaultNet
<1>5. u.srv.sid = 0
  <2>1. \E x \in {Disconnected(w)} : Twin(x, u)
    BY <1>2, FaultTwin DEF Net
  <2>2. QED
    BY <1>2, <2>1 DEF Twin
<1>6. QED
  BY <1>1, <1>4, <1>5, ConnectHolds

\* What happens before the frames are drained
LEMMA ReachHolds ==
    ASSUME NEW D, NEW w, Net(w), NEW lifecycle, NEW tryConnect,
           NEW v \in UNION {IF u.net.up \/ lifecycle \/ ~tryConnect THEN {u}
                            ELSE Connect(u) : u \in {w} \cup ServerEvent(w)}
    PROVE  Net(v) /\ Calm(w, v, D)
<1>1. PICK u \in {w} \cup ServerEvent(w) : v = u \/ v \in Connect(u)
  OBVIOUS
<1>2. Net(u) /\ Calm(w, u, D)
  BY CalmSelf, ServerEventNet
<1>3. QED
  BY <1>1, <1>2, ConnectHolds

\* o is an outcome of the request m that reached the connector in world v
Requested(v, m, lifecycle, tryConnect, o) ==
    \/ ~v.net.up /\ o = [w |-> v, r |-> NoResponse]
    \/ /\ v.net.up
       /\ \E p \in Drain(IF lifecycle THEN TakeOver(v, m) ELSE v, m) :
             IF lifecycle \/ ~p.ok \/ p.r # NoResponse
             THEN o = [w |-> p.w, r |-> p.r]
             ELSE o \in Exchange(p.w, m, tryConnect)

\* The outcomes of a transaction.
LEMMA TransactIs ==
    ASSUME NEW D, NEW w, Net(w), NEW m, NEW lifecycle, NEW tryConnect,
           NEW o \in Transact(w, m, lifecycle, tryConnect)
    PROVE  \E v : Net(v) /\ Calm(w, v, D) /\ Requested(v, m, lifecycle, tryConnect, o)
<1> USE DEF Requested
<1> DEFINE reached == UNION {IF u.net.up \/ lifecycle \/ ~tryConnect THEN {u}
                             ELSE Connect(u) : u \in {w} \cup ServerEvent(w)}
           Rest(p) == IF lifecycle \/ ~p.ok \/ p.r # NoResponse
                      THEN {[w |-> p.w, r |-> p.r]} ELSE Exchange(p.w, m, tryConnect)
           Sent(v) == UNION {Rest(p) : p \in Drain(IF lifecycle THEN TakeOver(v, m) ELSE v, m)}
<1>1. PICK v \in reached : o \in CASE ~v.net.up -> {[w |-> v, r |-> NoResponse]}
                                   [] OTHER -> Sent(v)
  BY DEF Transact
<1>2. Net(v) /\ Calm(w, v, D)
  BY ReachHolds
<1> HIDE DEF reached
<1>3. CASE ~v.net.up
  BY <1>1, <1>2, <1>3
<1>4. CASE v.net.up
  <2>1. o \in Sent(v)
    BY <1>1, <1>4
  <2>2. PICK p \in Drain(IF lifecycle THEN TakeOver(v, m) ELSE v, m) : o \in Rest(p)
    BY <2>1
  <2>3. QED
    BY <1>2, <1>4, <2>2
<1>5. QED
  BY <1>3, <1>4

\* One exchange on a working connection.
LEMMA ExchangeHolds ==
    ASSUME NEW b, NEW D, NEW w, Net(w), Calm(b, w, D), NEW t,
           NEW m, IsFrame(m), Fits(b, m, D), NEW o \in Exchange(w, m, t)
    PROVE  Drained(b, m, o, D)
<1>1. PICK p \in Serve(w, m) :
        o = p \/ ((o.w \in Broken(w, t) \/ o.w \in Broken(p.w, t)) /\ o.r = NoResponse)
  BY DEF Exchange
<1>2. Net(p.w) /\ Calm(b, p.w, D) /\ Answers(b, p.w, m, p.r, D)
  BY ServeHolds
<1>3. CASE o = p
  BY <1>2, <1>3 DEF Drained, Got
<1>4. CASE (o.w \in Broken(w, t) \/ o.w \in Broken(p.w, t)) /\ o.r = NoResponse
  <2>1. Net(o.w) /\ Calm(b, o.w, D)
    BY <1>2, <1>4, BrokenHolds
  <2>2. QED
    BY <1>4, <2>1 DEF Drained, Got
<1>5. QED
  BY <1>1, <1>3, <1>4

\* A request other than the opening of a session
LEMMA TransactHolds ==
    ASSUME NEW D, NEW w, Net(w), NEW m, IsFrame(m), Fits(w, m, D),
           NEW lifecycle, NEW tryConnect, NEW o \in Transact(w, m, lifecycle, tryConnect)
    PROVE  /\ Drained(w, m, o, D)
           /\ \A k : lifecycle /\ Owned(w, k) /\ m = CloseSession(k) => Owned(o.w, 0)
<1>1. PICK v : Net(v) /\ Calm(w, v, D) /\ Requested(v, m, lifecycle, tryConnect, o)
  BY TransactIs
<1>2. CASE ~v.net.up /\ o = [w |-> v, r |-> NoResponse]
  <2>1. o.w = v /\ o.r = NoResponse
    BY <1>2
  <2>2. v.srv.sid = 0
    BY <1>1, <1>2 DEF Net, Wired
  <2>3. QED
    BY <1>1, <2>1, <2>2 DEF Drained, Got, Owned
<1>3. CASE v.net.up
  <2> DEFINE u == IF lifecycle THEN TakeOver(v, m) ELSE v
  <2>1. PICK p \in Drain(u, m) : IF lifecycle \/ ~p.ok \/ p.r # NoResponse
                                 THEN o = [w |-> p.w, r |-> p.r]
                                 ELSE o \in Exchange(p.w, m, tryConnect)
    BY <1>1, <1>3 DEF Requested
  <2>2. /\ Net(u) /\ Calm(w, u, D) /\ u.net.up
        /\ \A k : lifecycle /\ Owned(v, k) /\ m = CloseSession(k) => Owned(u, 0)
    BY <1>1, <1>3, TakeOverHolds
  <2> HIDE DEF u
  <2>3. Drained(w, m, p, D)
    BY <2>1, <2>2, DrainHolds
  <2>4. CASE lifecycle \/ ~p.ok \/ p.r # NoResponse
    <3>1. o.w = p.w /\ o.r = p.r
      BY <2>1, <2>4
    <3>2. Drained(w, m, o, D)
      BY <2>3, <3>1 DEF Drained
    <3>3. Calm(u, p.w, D)
      BY <2>1, <2>2, CalmSelf, DrainHolds DEF Drained
    <3>4. QED
      BY <1>1, <2>2, <3>1, <3>2, <3>3 DEF Calm
  <2>5. CASE ~ (lifecycle \/ ~p.ok \/ p.r # NoResponse)
    <3>1. o \in Exchange(p.w, m, tryConnect) /\ ~lifecycle
      BY <2>1, <2>5
    <3>2. QED
      BY <2>3, <3>1, ExchangeHolds DEF Drained
  <2>6. QED
    BY <2>4, <2>5
<1>4. QED
  BY <1>1, <1>2, <1>3 DEF Requested

\* A session is opened only when the last one is gone and no frame waits
LEMMA OpenedHolds ==
    ASSUME NEW D, NEW w, Net(w), w.srv.sid = 0, w.net.queue = <<>>, w.net.up,
           NEW c, c = w.s.ctx
    PROVE  LET o == Opened(w, OpenSession(c))
           IN  /\ Net(o.w) /\ Aside(w, o.w)
               /\ o.r.st = "success" /\ o.r.sid = o.w.srv.sid
               /\ \A k : Compat(o.w, k, D)
<1> DEFINE m == OpenSession(c)
           k0 == FreshSid(w)
           o == Opened(w, m)
           x == NewSession(k0, m.secure, w.net.proc)
           z == w.h.orphans \cup ({w.srv.sid} \ {0})
           v == o.w
<1>1. /\ v = [w EXCEPT !.srv = x, !.h.orphans = z]
      /\ o.r = [Response("success", NoSnapshot) EXCEPT !.sid = k0]
  BY DEF Opened
<1>2. o.r.st = "success" /\ o.r.sid = k0
  BY <1>1 DEF Response
<1>3. /\ x.sid = k0 /\ x.secure = w.s.ctx.secure /\ x.comp = <<>> /\ x.eff = 1 /\ x.cache = {}
      /\ DOMAIN x = {"sid", "secure", "rev", "phase", "comp", "learn", "eff", "proc", "cache"}
  BY FramesAre DEF NewSession, NoSession
<1>4. z = {}
  BY DEF Net
<1>5. v = [[w EXCEPT !.srv = x] EXCEPT !.h = [w.h EXCEPT !.orphans = z]]
  BY <1>1 DEF Net, Shape
<1> HIDE DEF o, x, z, v
<1>6. /\ DOMAIN v = DOMAIN w /\ v.s = w.s /\ v.ui = w.ui /\ v.srv = x /\ v.net = w.net
      /\ v.h = [w.h EXCEPT !.orphans = z]
  BY <1>5 DEF Net, Shape
<1>7. /\ DOMAIN v.h = DOMAIN w.h /\ v.h.typed = w.h.typed /\ v.h.dom = w.h.dom
      /\ v.h.app = w.h.app /\ v.h.orphans = {}
  BY <1>4, <1>6 DEF Net, Shape
<1>8. Shape(v) /\ Aside(w, v)
  BY <1>6, <1>7 DEF Net, Shape, Aside
<1>9. IsSession(x) /\ SessionIn(x, D)
  BY <1>3, FS_EmptySet DEF IsSession, SessionIn
<1>10. IsSeq(v.net.queue) /\ DOMAIN v.net.queue = {}
  BY <1>6, EmptyIsSeq
<1>11. Wired(v)
  BY <1>3, <1>6, <1>9, <1>10 DEF Wired
<1>12. \A k : Compat(v, k, D)
  BY <1>3, <1>6, <1>9, <1>10 DEF Compat
<1>13. QED
  BY <1>2, <1>3, <1>6, <1>7, <1>8, <1>11, <1>12 DEF Net, v, o

\* The opening of a session
LEMMA TransactOpenHolds ==
    ASSUME NEW D, NEW w, Net(w), Owned(w, 0), NEW tryConnect,
           NEW o \in Transact(w, OpenSession(w.s.ctx), FALSE, tryConnect)
    PROVE  /\ Net(o.w) /\ Aside(w, o.w)
           /\ \A k : Compat(w, k, D) => Compat(o.w, k, D)
           /\ \/ o.r = NoResponse /\ Owned(o.w, 0)
              \/ /\ o.r.st = "success" /\ o.r.sid = o.w.srv.sid
                 /\ Compat(o.w, o.r.sid, D)
<1> DEFINE m == OpenSession(w.s.ctx)
<1>0. m.op = "open" /\ ~ IsFrame(m)
  BY FramesAre DEF IsFrame
<1>1. PICK v : Net(v) /\ Calm(w, v, D) /\ Requested(v, m, FALSE, tryConnect, o)
  BY TransactIs
<1> HIDE DEF m
<1>2. CASE ~v.net.up /\ o = [w |-> v, r |-> NoResponse]
  <2>1. o.w = v /\ o.r = NoResponse
    BY <1>2
  <2>2. QED
    BY <1>1, <2>1 DEF Calm
<1>3. CASE v.net.up
  <2>1. PICK p \in Drain(v, m) : IF ~p.ok \/ p.r # NoResponse
                                 THEN o = [w |-> p.w, r |-> p.r]
                                 ELSE o \in Exchange(p.w, m, tryConnect)
    BY <1>1, <1>3 DEF Requested
  <2>2. /\ Drained(w, m, p, D) /\ (p.ok => p.w.net.queue = <<>> /\ p.w.net.up)
    BY <1>1, <1>3, <2>1, DrainHolds
  <2>3. p.r = NoResponse /\ Net(p.w) /\ Calm(w, p.w, D)
    BY <1>0, <2>2 DEF Drained, Got
  <2>4. CASE ~p.ok
    <3>1. o.w = p.w /\ o.r = NoResponse
      BY <2>1, <2>3, <2>4
    <3>2. QED
      BY <2>3, <3>1 DEF Calm
  <2>5. CASE p.ok
    <3> DEFINE u == p.w
    <3>1. o \in Exchange(u, m, tryConnect)
      BY <2>1, <2>3, <2>5
    <3>2. u.net.queue = <<>> /\ u.net.up
      BY <2>2, <2>5
    <3>3. u.srv.sid = 0
      <4>1. Owned(u, 0)
        BY <2>3 DEF Calm
      <4>2. DOMAIN u.net.queue = {}
        BY <3>2, EmptyIsSeq
      <4>3. QED
        BY <4>1, <4>2 DEF Owned, Closing
    <3>4. u.s = w.s /\ Aside(w, u)
      BY <2>3 DEF Calm, Aside
    <3> DEFINE a == Opened(u, m)
    <3>5. Serve(u, m) = {a}
      BY <1>0 DEF Serve
    <3> HIDE DEF a, u
    <3>6. /\ Net(a.w) /\ Aside(u, a.w)
          /\ a.r.st = "success" /\ a.r.sid = a.w.srv.sid
          /\ \A k : Compat(a.w, k, D)
      BY <2>3, <3>2, <3>3, <3>4, OpenedHolds DEF a, m, u
    <3>7. \/ o = a
          \/ (o.w \in Broken(u, tryConnect) \/ o.w \in Broken(a.w, tryConnect)) /\ o.r = NoResponse
      BY <3>1, <3>5 DEF Exchange
    <3>8. CASE o = a
      BY <3>4, <3>6, <3>8 DEF Aside
    <3>9. CASE o.w \in Broken(u, tryConnect) /\ o.r = NoResponse
      <4>1. Net(o.w) /\ Calm(w, o.w, D) /\ o.w.srv.sid = 0
        BY <2>3, <3>9, BrokenHolds DEF u
      <4>2. QED
        BY <3>9, <4>1 DEF Calm, Owned
    <3>10. CASE o.w \in Broken(a.w, tryConnect) /\ o.r = NoResponse
      <4>1. Calm(a.w, a.w, D)
        BY CalmSelf
      <4>2. Net(a.w) /\ o.w \in Broken(a.w, tryConnect)
        BY <3>6, <3>10
      <4>3. Net(o.w) /\ Calm(a.w, o.w, D) /\ o.w.srv.sid = 0
        BY <4>1, <4>2, BrokenHolds
      <4>4. QED
        BY <3>4, <3>6, <3>10, <4>3 DEF Calm, Owned, Aside
    <3>11. QED
      BY <3>7, <3>8, <3>9, <3>10
  <2>6. QED
    BY <2>4, <2>5
<1>4. QED
  BY <1>1, <1>2, <1>3 DEF Requested

------------------------------------------------------------------------------
(* The types: T is the set of the keystrokes typed so far                  *)

Phases == {"idle", "composing", "previewing", "selecting"}

Checkpoints(T) == [rev : Nat, comp : Seq(T), eff : Nat, proc : Nat]

Snapshots(T) ==
    [rev : Nat, phase : Phases, comp : Seq(T), learn : BOOLEAN,
     ck : Checkpoints(T), fx : Seq(Effects(T))]

IsAction(a, T) == a.op \in Ops /\ a.text \in Seq(T) /\ a.ck \in Checkpoints(T)

\* What a reduction changes of a session
IsState(x, T) ==
    /\ x.rev \in Nat /\ x.eff \in Nat /\ x.proc \in Nat /\ x.learn \subseteq T
    /\ x.comp \in Seq(T) /\ x.phase \in Phases
    /\ x.comp = <<>> <=> x.phase = "idle"

IsServed(x, T) ==
    /\ IsSession(x) /\ IsState(x, T) /\ x.sid \in Nat
    /\ \A c \in x.cache : c.snap \in Snapshots(T)

\* The snapshot of a well-typed session is well typed.
LEMMA SnapshotTyped ==
    ASSUME NEW T, NEW x, IsState(x, T), NEW fx \in Seq(Effects(T))
    PROVE  Snapshot(x, fx) \in Snapshots(T)
<1>1. Checkpoint(x) \in Checkpoints(T)
  <2>1. <<>> \in Seq(T)
    OBVIOUS
  <2>2. QED
    BY <2>1 DEF Checkpoint, NoCheckpoint, Checkpoints, IsState
<1>2. QED
  BY <1>1 DEF Snapshot, Snapshots, IsState

\* What is absent is well typed.
LEMMA NoSnapshotTyped ==
    ASSUME NEW T
    PROVE  /\ NoSnapshot \in Snapshots(T) /\ NoCheckpoint \in Checkpoints(T)
           /\ IsServed(NoSession, T)
<1>1. <<>> \in Seq(T) /\ <<>> \in Seq(Effects(T))
  OBVIOUS
<1>2. NoCheckpoint \in Checkpoints(T)
  BY <1>1 DEF NoCheckpoint, Checkpoints
<1>3. NoSnapshot \in Snapshots(T)
  BY <1>1, <1>2 DEF NoSnapshot, Snapshots, Phases
<1>4. IsState(NoSession, T) /\ NoSession.sid = 0 /\ NoSession.cache = {}
  BY <1>1 DEF NoSession, IsState, Phases
<1>5. QED
  BY <1>2, <1>3, <1>4, NoSnapshotHolds DEF IsServed

\* An edit ends the phase exactly if it leaves no text.
LEMMA EditedTyped ==
    ASSUME NEW T, NEW x, IsSession(x), IsState(x, T), NEW c \in Seq(T),
           NEW p \in Phases, p = "idle" => c = <<>>
    PROVE  IsState(Edited(x, c, p), T)
<1> DEFINE y == Edited(x, c, p)
<1>1. /\ y.rev = x.rev + 1 /\ y.comp = c /\ y.learn = {} /\ y.eff = x.eff
      /\ y.proc = x.proc /\ y.phase = IF c = <<>> THEN "idle" ELSE p
  BY DEF Edited, IsSession
<1> HIDE DEF y
<1>2. IsState(y, T)
  BY <1>1 DEF IsState, Phases
<1>3. QED
  BY <1>2 DEF y

\* o is an outcome of an action in a well-typed session
IsOutcome(o, T) == IsState(o.x, T) /\ o.taught \subseteq T /\ o.cut \subseteq T

\* The members of a sequence.
LEMMA ToSetIn ==
    ASSUME NEW D, NEW q \in Seq(D)
    PROVE  ToSet(q) \subseteq D
BY DEF ToSet

\* The last member of a sequence, and what comes before it.
LEMMA FrontLastIn ==
    ASSUME NEW T, NEW q \in Seq(T), q # <<>>
    PROVE  Front(q) \in Seq(T) /\ Last(q) \in T
BY DEF Front, Last

\* Every outcome of the reducer is well typed.
LEMMA ReduceTyped ==
    ASSUME NEW T, NEW x, IsSession(x), IsState(x, T), NEW act, IsAction(act, T),
           NEW o \in Reduce(x, act)
    PROVE  IsOutcome(o, T)
<1>0. /\ x.comp \in Seq(T) /\ x.learn \subseteq T /\ act.op \in Ops
      /\ act.text \in Seq(T) /\ act.ck \in Checkpoints(T) /\ <<>> \in Seq(T)
      /\ x.rev \in Nat /\ x.eff \in Nat
  BY DEF IsState, IsAction
<1>f. DOMAIN x = {"sid", "secure", "rev", "phase", "comp", "learn", "eff", "proc", "cache"}
  BY DEF IsSession
<1>m. ASSUME NEW r \in Nat, NEW y,
             y \in {[x EXCEPT !.rev = r, !.learn = {}], [x EXCEPT !.learn = {}, !.rev = r]}
      PROVE  IsState(y, T)
  <2>1. /\ y.rev = r /\ y.learn = {} /\ y.eff = x.eff /\ y.proc = x.proc
        /\ y.comp = x.comp /\ y.phase = x.phase
    BY <1>f, <1>m
  <2>2. QED
    BY <2>1 DEF IsState
<1>1. CASE act.op = "insertText"
  <2> DEFINE c == x.comp \o act.text
  <2>1. o \in ReduceInsertText(x, act.text)
    BY <1>1 DEF Reduce
  <2>2. \/ o.x = x /\ o.taught = {} /\ o.cut = {}
        \/ o.x = Edited(x, c, "composing") /\ o.taught = x.learn /\ o.cut = {}
    BY <2>1 DEF ReduceInsertText, Rejected, Outcome
  <2>3. c \in Seq(T)
    BY <1>0
  <2> HIDE DEF c
  <2>4. IsState(Edited(x, c, "composing"), T)
    BY <2>3, EditedTyped DEF Phases
  <2>5. QED
    BY <1>0, <2>2, <2>4 DEF IsOutcome
<1>2. CASE act.op = "delete"
  <2>1. o \in ReduceDeleteBackward(x)
    BY <1>2 DEF Reduce
  <2>2. CASE x.comp = <<>>
    <3>1. o.x = Edited(x, <<>>, "idle") /\ o.taught = {} /\ o.cut = {}
      BY <2>1, <2>2 DEF ReduceDeleteBackward, Outcome
    <3>2. QED
      BY <1>0, <3>1, EditedTyped DEF IsOutcome, Phases
  <2>3. CASE x.comp # <<>>
    <3> DEFINE c == Front(x.comp)
               l == Last(x.comp)
    <3>1. o.x = Edited(x, c, "composing") /\ o.taught = {} /\ o.cut = {l}
      BY <2>1, <2>3 DEF ReduceDeleteBackward, Outcome
    <3>2. c \in Seq(T) /\ l \in T
      BY <1>0, <2>3, FrontLastIn
    <3> HIDE DEF c, l
    <3>3. QED
      BY <3>1, <3>2, EditedTyped DEF IsOutcome, Phases
  <2>4. QED
    BY <2>2, <2>3
<1>3. CASE act.op = "convert"
  <2>1. o \in ReduceStartConversion(x)
    BY <1>3 DEF Reduce
  <2>2. \E p \in {"previewing", "composing"} :
            /\ o.x \in {Edited(x, <<>>, "idle"), Edited(x, x.comp, p)}
            /\ o.taught = x.learn /\ o.cut = {}
    BY <2>1 DEF ReduceStartConversion, Outcome
  <2>3. o.taught \subseteq T /\ o.cut \subseteq T
    BY <1>0, <2>2
  <2>4. x.comp \in Seq(T) /\ <<>> \in Seq(T)
    BY <1>0
  <2>5. IsState(Edited(x, <<>>, "idle"), T)
    BY <2>4, EditedTyped DEF Phases
  <2>6. ASSUME NEW p \in {"previewing", "composing"}
        PROVE  IsState(Edited(x, x.comp, p), T)
    <3>1. p \in Phases /\ p # "idle"
      BY <2>6 DEF Phases
    <3>2. QED
      BY <2>4, <3>1, EditedTyped
  <2>7. QED
    BY <2>2, <2>3, <2>5, <2>6 DEF IsOutcome
<1>4. CASE act.op \in {"navigate", "select", "surrounding"}
  <2>1. \E p : \/ /\ o \in Moved(x, p) /\ p \in Phases /\ (p = "idle" <=> x.phase = "idle")
               \/ o \in Rejected(x)
    <3>1. CASE act.op = "navigate"
      <4>1. o \in ReduceNavigateCandidate(x)
        BY <3>1 DEF Reduce
      <4>2. x.phase = "idle" => o \in Rejected(x)
        BY <4>1 DEF ReduceNavigateCandidate
      <4>3. x.phase # "idle" => o \in Moved(x, "selecting") \cup Rejected(x)
        BY <4>1 DEF ReduceNavigateCandidate
      <4>4. QED
        BY <4>2, <4>3 DEF Phases
    <3>2. CASE act.op = "select"
      BY <3>2 DEF Reduce, ReduceSelectCandidate, Phases
    <3>3. CASE act.op = "surrounding"
      BY <3>3 DEF Reduce, ReduceUpdateContext, Phases
    <3>4. QED
      BY <1>4, <3>1, <3>2, <3>3
  <2>2. PICK p : \/ /\ o \in Moved(x, p) /\ p \in Phases /\ (p = "idle" <=> x.phase = "idle")
                 \/ o \in Rejected(x)
    BY <2>1
  <2>3. CASE o \in Rejected(x)
    BY <2>3, <1>0 DEF Rejected, Outcome, IsOutcome
  <2>4. CASE o \in Moved(x, p) /\ p \in Phases /\ (p = "idle" <=> x.phase = "idle")
    <3> DEFINE y == [x EXCEPT !.rev = @ + 1, !.phase = p]
    <3>1. o.x = y /\ o.taught = {} /\ o.cut = {}
      BY <2>4 DEF Moved, Outcome
    <3>2. /\ y.rev = x.rev + 1 /\ y.learn = x.learn /\ y.eff = x.eff
          /\ y.proc = x.proc /\ y.comp = x.comp /\ y.phase = p
      BY <1>f
    <3> HIDE DEF y
    <3>3. IsState(y, T)
      BY <2>4, <3>2 DEF IsState
    <3>4. QED
      BY <3>1, <3>3 DEF IsOutcome
  <2>5. QED
    BY <2>2, <2>3, <2>4
<1>5. CASE act.op = "commitAll"
  <2>1. o \in ReduceCommitAll(x)
    BY <1>5 DEF Reduce
  <2>2. CASE x.comp = <<>>
    <3> DEFINE r == IF x.learn = {} THEN x.rev ELSE x.rev + 1
    <3>1. o.x = [x EXCEPT !.learn = {}, !.rev = r] /\ o.taught = x.learn /\ o.cut = {}
      BY <2>1, <2>2 DEF ReduceCommitAll, Outcome
    <3>2. r \in Nat
      BY <1>0
    <3> HIDE DEF r
    <3>3. QED
      BY <1>0, <1>m, <3>1, <3>2 DEF IsOutcome
  <2>3. CASE x.comp # <<>>
    <3> DEFINE l == IF x.phase = "composing" \/ x.secure THEN {} ELSE ToSet(x.comp)
               y == Edited(x, <<>>, "idle")
               e == y.eff + 1
    <3>1. IsState(y, T) /\ DOMAIN y = DOMAIN x
      BY <1>0, EditedTyped, EditedReduced DEF Phases, Reduced
    <3>2. l \subseteq T
      BY <1>0, ToSetIn
    <3>3. /\ o.x = [y EXCEPT !.eff = e, !.learn = l]
          /\ o.taught = x.learn /\ o.cut = {}
      BY <2>1, <2>3 DEF ReduceCommitAll, Outcome
    <3>4. e \in Nat
      BY <3>1 DEF IsState
    <3> HIDE DEF y, l, e
    <3>5. /\ o.x.rev = y.rev /\ o.x.learn = l /\ o.x.eff = e /\ o.x.proc = y.proc
          /\ o.x.comp = y.comp /\ o.x.phase = y.phase
      BY <1>f, <3>1, <3>3
    <3>6. QED
      BY <1>0, <3>1, <3>2, <3>3, <3>4, <3>5 DEF IsOutcome, IsState
  <2>4. QED
    BY <2>2, <2>3
<1>6. CASE act.op = "cancel"
  <2>1. o \in ReduceCancel(x)
    BY <1>6 DEF Reduce
  <2>2. CASE x.phase = "idle"
    <3> DEFINE r == IF x.learn = {} THEN x.rev ELSE x.rev + 1
    <3>1. o.x = [x EXCEPT !.learn = {}, !.rev = r] /\ o.taught = {} /\ o.cut = {}
      BY <2>1, <2>2 DEF ReduceCancel, Outcome
    <3>2. r \in Nat
      BY <1>0
    <3> HIDE DEF r
    <3>3. QED
      BY <1>m, <3>1, <3>2 DEF IsOutcome
  <2>3. CASE x.phase # "idle"
    <3>1. \E p \in Phases, c \in {<<>>, x.comp} :
            /\ o.x = Edited(x, c, p) /\ (p = "idle" => c = <<>>)
            /\ o.taught = {} /\ o.cut \subseteq ToSet(x.comp)
      BY <2>1, <2>3 DEF ReduceCancel, Outcome, IsState, Phases
    <3>2. ToSet(x.comp) \subseteq T
      BY <1>0, ToSetIn
    <3>3. PICK p \in Phases, c \in {<<>>, x.comp} :
            /\ o.x = Edited(x, c, p) /\ (p = "idle" => c = <<>>)
            /\ o.taught = {} /\ o.cut \subseteq ToSet(x.comp)
      BY <3>1
    <3>4. c \in Seq(T)
      BY <1>0
    <3>5. IsState(o.x, T)
      BY <3>3, <3>4, EditedTyped
    <3>6. QED
      BY <3>2, <3>3, <3>5 DEF IsOutcome
  <2>4. QED
    BY <2>2, <2>3
<1>7. CASE act.op = "resolve"
  <2>1. o \in ReduceResolve(x, act.commit)
    BY <1>7 DEF Reduce
  <2> DEFINE r == x.rev + 1
  <2>2. o.x = [x EXCEPT !.rev = r, !.learn = {}] /\ o.taught \subseteq x.learn /\ o.cut = {}
    BY <2>1 DEF ReduceResolve, Outcome
  <2>3. r \in Nat
    BY <1>0
  <2> HIDE DEF r
  <2>4. QED
    BY <1>0, <1>m, <2>2, <2>3 DEF IsOutcome
<1>8. CASE act.op = "restore"
  <2> DEFINE y == Edited(x, act.ck.comp, "composing")
             r == act.ck.rev + 1
             e == act.ck.eff
  <2>1. o \in ReduceRestore(x, act.ck)
    BY <1>8 DEF Reduce
  <2>2. act.ck.comp \in Seq(T) /\ r \in Nat /\ e \in Nat
    BY <1>0 DEF Checkpoints
  <2>3. IsState(y, T) /\ DOMAIN y = DOMAIN x
    BY <2>2, EditedTyped, EditedReduced DEF Phases, Reduced
  <2>4. /\ o.x = x \/ o.x = [y EXCEPT !.rev = r, !.eff = e]
        /\ o.taught = {} /\ o.cut = {}
    BY <2>1 DEF ReduceRestore, Rejected, Outcome
  <2> HIDE DEF y, r, e
  <2>5. CASE o.x = [y EXCEPT !.rev = r, !.eff = e]
    <3>1. /\ o.x.rev = r /\ o.x.learn = y.learn /\ o.x.eff = e /\ o.x.proc = y.proc
          /\ o.x.comp = y.comp /\ o.x.phase = y.phase
      BY <1>f, <2>3, <2>5
    <3>2. QED
      BY <2>2, <2>3, <2>4, <3>1 DEF IsOutcome, IsState
  <2>6. CASE o.x = x
    BY <2>4, <2>6 DEF IsOutcome
  <2>7. QED
    BY <2>4, <2>5, <2>6
<1>9. QED
  BY <1>0, <1>1, <1>2, <1>3, <1>4, <1>5, <1>6, <1>7, <1>8 DEF Ops

\* Remembering a well-typed answer.
LEMMA CacheTyped ==
    ASSUME NEW T, NEW x, IsServed(x, T), NEW c, c.snap \in Snapshots(T),
           DOMAIN c = {"rid", "act", "exp", "st", "snap"}, c.st # "gone"
    PROVE  IsServed(Cache(x, c), T)
<1> DEFINE kept == IF x.secure THEN {} ELSE x.cache
           y == [x EXCEPT !.cache = kept \cup {c}]
<1>1. Cache(x, c) = y
  BY DEF Cache
<1>2. /\ y.cache = kept \cup {c} /\ y.sid = x.sid /\ y.rev = x.rev /\ y.eff = x.eff
      /\ y.proc = x.proc /\ y.learn = x.learn /\ y.comp = x.comp /\ y.phase = x.phase
  BY DEF IsServed, IsSession
<1>3. IsSession(y)
  <2>1. IsSession(x)
    BY DEF IsServed
  <2>2. IsSession(Cache(x, c))
    BY <2>1, CacheHolds
  <2>3. QED
    BY <1>1, <2>2
<1>4. kept \subseteq x.cache
  OBVIOUS
<1> HIDE DEF y, kept
<1>5. IsServed(y, T)
  BY <1>2, <1>3, <1>4 DEF IsServed, IsState
<1>6. QED
  BY <1>1, <1>5

\* A request, new or repeated, has a well-typed answer.
LEMMA HandleTyped ==
    ASSUME NEW T, NEW x, IsServed(x, T), NEW rid, NEW act, IsAction(act, T), NEW exp,
           NEW o \in HandleImeAction(x, rid, act, exp)
    PROVE  /\ IsServed(o.x, T) /\ o.snap \in Snapshots(T)
           /\ o.taught \subseteq T /\ o.cut \subseteq T
<1>0. <<>> \in Seq(Effects(T)) /\ IsSession(x) /\ IsState(x, T)
  BY DEF IsServed
<1>1. CASE CachedIn(x, rid) # {}
  <2> DEFINE c == CHOOSE c \in CachedIn(x, rid) : TRUE
             same == c.act = act /\ c.exp = exp
  <2>1. /\ o.x = x /\ o.taught = {} /\ o.cut = {}
        /\ o.snap = (IF same THEN c.snap ELSE Snapshot(x, <<>>))
    BY <1>1 DEF HandleImeAction
  <2>2. c \in x.cache
    BY <1>1 DEF CachedIn
  <2> HIDE DEF c, same
  <2>3. c.snap \in Snapshots(T) /\ Snapshot(x, <<>>) \in Snapshots(T)
    BY <1>0, <2>2, SnapshotTyped DEF IsServed
  <2>4. QED
    BY <2>1, <2>3
<1>2. CASE CachedIn(x, rid) = {}
  <2> DEFINE outcomes == IF exp # x.rev THEN {Outcome(x, "stale", <<>>, {}, {})}
                         ELSE Reduce(x, act)
             c(p) == [rid |-> rid, act |-> act, exp |-> exp, st |-> p.st,
                      snap |-> Snapshot(p.x, p.fx)]
  <2>1. PICK p \in outcomes :
            /\ o.x = Cache(p.x, c(p)) /\ o.snap = Snapshot(p.x, p.fx)
            /\ o.taught = p.taught /\ o.cut = p.cut
    BY <1>2 DEF HandleImeAction
  <2>2. p = Outcome(x, "stale", <<>>, {}, {}) \/ p \in Reduce(x, act)
    BY <2>1
  <2> HIDE DEF outcomes
  <2>3. IsServed(p.x, T) /\ IsOutcome(p, T) /\ p.fx \in Seq(Effects(T)) /\ p.st # "gone"
    <3>1. CASE p = Outcome(x, "stale", <<>>, {}, {})
      <4>1. p.x = x /\ p.st = "stale" /\ p.fx = <<>> /\ p.taught = {} /\ p.cut = {}
        BY <3>1 DEF Outcome
      <4>2. QED
        BY <1>0, <4>1 DEF IsOutcome
    <3>2. CASE p \in Reduce(x, act)
      <4>1. Reduced(x, p.x) /\ p.st \in {"success", "rejected"}
        BY <1>0, <3>2, ReduceKeeps DEF IsAction
      <4>2. IsSession(p.x)
        BY <1>0, <4>1, ReducedIsSession
      <4>3. IsOutcome(p, T)
        BY <1>0, <3>2, ReduceTyped
      <4>4. TextIn(p, T)
        <5>1. \A e \in x.cache : SnapshotIn(e.snap, T)
          BY DEF IsServed, Snapshots, SnapshotIn, Checkpoints, CheckpointIn
        <5>2. SessionIn(x, T) /\ ActionIn(act, T)
          BY <5>1 DEF SessionIn, ActionIn, IsServed, IsState, IsAction, Checkpoints, CheckpointIn
        <5>3. QED
          BY <1>0, <3>2, <5>2, ReduceHolds
      <4>5. QED
        BY <4>1, <4>2, <4>3, <4>4 DEF TextIn, IsServed, IsOutcome, Reduced
    <3>3. QED
      BY <2>2, <3>1, <3>2
  <2>4. o.snap \in Snapshots(T)
    BY <2>1, <2>3, SnapshotTyped DEF IsServed
  <2> DEFINE e == c(p)
  <2>5. /\ DOMAIN e = {"rid", "act", "exp", "st", "snap"} /\ e.st # "gone"
        /\ e.snap = o.snap /\ o.x = Cache(p.x, e)
    BY <2>1, <2>3
  <2> HIDE DEF c, e
  <2>6. IsServed(o.x, T)
    BY <2>3, <2>4, <2>5, CacheTyped
  <2>7. QED
    BY <2>1, <2>3, <2>4, <2>6 DEF IsOutcome
<1>3. QED
  BY <1>1, <1>2

\* A session whose cache was rebased.
LEMMA RebasedTyped ==
    ASSUME NEW T, NEW x, IsServed(x, T)
    PROVE  IsServed(RebaseRequestCache(x), T)
<1> DEFINE y == RebaseRequestCache(x)
           moved(e) == [e EXCEPT !.snap = Snapshot(x, e.snap.fx)]
           cache == {moved(e) : e \in x.cache}
<1>1. y = [x EXCEPT !.cache = cache]
  BY DEF RebaseRequestCache
<1>2. \A e \in x.cache : moved(e).snap = Snapshot(x, e.snap.fx)
  BY DEF IsServed, IsSession
<1>3. \A e \in x.cache : Snapshot(x, e.snap.fx) \in Snapshots(T)
  BY SnapshotTyped DEF IsServed, Snapshots
<1>4. \A c \in cache : c.snap \in Snapshots(T)
  BY <1>2, <1>3
<1>5. IsSession(y)
  BY RebasedHolds DEF IsServed
<1> HIDE DEF y, moved, cache
<1>6. /\ y.cache = cache /\ y.sid = x.sid /\ y.rev = x.rev /\ y.eff = x.eff
      /\ y.proc = x.proc /\ y.learn = x.learn /\ y.comp = x.comp /\ y.phase = x.phase
  BY <1>1 DEF IsServed, IsSession
<1>7. QED
  BY <1>4, <1>5, <1>6 DEF IsServed, IsState, y

\* What the server does to a session of its own.
LEMMA ChangedTyped ==
    ASSUME NEW T, NEW x, IsServed(x, T)
    PROVE  IsServed(InvalidateCandidates(x), T) /\ IsServed(DiscardLearning(x), T)
<1>1. ASSUME NEW y, IsSession(y), IsState(y, T), y.sid = x.sid, y.cache = x.cache
      PROVE  IsServed(RebaseRequestCache(y), T)
  BY <1>1, RebasedTyped DEF IsServed
<1>2. IsServed(InvalidateCandidates(x), T)
  <2> DEFINE y == [x EXCEPT !.rev = @ + 1, !.phase = "composing"]
  <2>1. /\ DOMAIN y = DOMAIN x /\ y.cache = x.cache /\ y.sid = x.sid /\ y.rev = x.rev + 1
        /\ y.eff = x.eff /\ y.proc = x.proc /\ y.learn = x.learn /\ y.comp = x.comp
        /\ y.phase = "composing"
    BY DEF IsServed, IsSession
  <2> HIDE DEF y
  <2>2. CASE x.phase \in {"previewing", "selecting"}
    <3>1. IsSession(y) /\ IsState(y, T)
      BY <2>1, <2>2 DEF IsServed, IsSession, IsState, Phases
    <3>2. InvalidateCandidates(x) = RebaseRequestCache(y)
      BY <2>2 DEF InvalidateCandidates, y
    <3>3. QED
      BY <1>1, <2>1, <3>1, <3>2
  <2>3. CASE x.phase \notin {"previewing", "selecting"}
    BY <2>3 DEF InvalidateCandidates
  <2>4. QED
    BY <2>2, <2>3
<1>3. IsServed(DiscardLearning(x), T)
  <2> DEFINE y == [x EXCEPT !.rev = @ + 1, !.learn = {}]
  <2>1. /\ DOMAIN y = DOMAIN x /\ y.cache = x.cache /\ y.sid = x.sid /\ y.rev = x.rev + 1
        /\ y.eff = x.eff /\ y.proc = x.proc /\ y.learn = {} /\ y.comp = x.comp
        /\ y.phase = x.phase
    BY DEF IsServed, IsSession
  <2> HIDE DEF y
  <2>2. IsSession(y) /\ IsState(y, T)
    BY <2>1 DEF IsServed, IsSession, IsState
  <2>3. DiscardLearning(x) = x \/ DiscardLearning(x) = RebaseRequestCache(y)
    BY DEF DiscardLearning, y
  <2>4. QED
    BY <1>1, <2>1, <2>2, <2>3
<1>4. QED
  BY <1>2, <1>3


------------------------------------------------------------------------------
(* The types of a world, as far as requests change it                      *)

Reply(r, T) == IsResponse(r) /\ r.sid \in Nat /\ r.snap \in Snapshots(T)

\* A request with an action asks for one on typed text
MessageTyped(m, T) ==
    m.op \in {"open", "close", "action"} /\ (m.op = "action" => IsAction(m.act, T))

FrameTyped(f, T) ==
    DOMAIN f = {"m", "r", "done"} /\ IsFrame(f.m) /\ MessageTyped(f.m, T) /\ Reply(f.r, T)

Linked(w, T) ==
    /\ Shape(w) /\ IsServed(w.srv, T) /\ IsSeq(w.s.journal)
    /\ w.net.up \in BOOLEAN /\ w.net.proc \in Nat /\ IsSeq(w.net.queue)
    /\ w.net.queue # <<>> => w.net.up
    /\ \A i \in DOMAIN w.net.queue : FrameTyped(w.net.queue[i], T)
    /\ w.h.taught \subseteq T /\ w.h.deleted \subseteq T
    /\ w.h.faults \in 0 .. MaxFaults

\* What requests leave alone
Outside(w) ==
    [s |-> w.s, ui |-> w.ui, typed |-> w.h.typed, dom |-> w.h.dom, app |-> w.h.app,
     events |-> w.h.events, shown |-> w.h.shown, dropped |-> w.h.dropped,
     undone |-> w.h.undone]

\* v is well typed and differs from w by requests only
Reached(w, v, T) == Linked(v, T) /\ Outside(v) = Outside(w)

\* An unused number is a positive one.
LEMMA UnusedIsNumber ==
    ASSUME NEW used, IsFiniteSet(used)
    PROVE  Unused(used) \in Nat \ {0}
<1> DEFINE n == Cardinality(used) + 1
           free == {k \in 1 .. n : k \notin used}
<1>1. Unused(used) \notin used
  BY UnusedIsNew
<1>2. Cardinality(used) \in Nat
  BY FS_CardinalityType
<1>3. free # {}
  <2> SUFFICES ASSUME free = {} PROVE FALSE
    OBVIOUS
  <2> DEFINE I == 1 .. n
  <2>1. I \in SUBSET used
    OBVIOUS
  <2>2. Cardinality(I) = n
    BY <1>2, FS_Interval
  <2> HIDE DEF I
  <2>3. Cardinality(I) <= Cardinality(used)
    BY <2>1, FS_Subset
  <2>4. QED
    BY <1>2, <2>2, <2>3
<1>4. free \subseteq Nat \ {0}
  BY <1>2
<1>5. Unused(used) = Min(free)
  BY DEF Unused
<1> HIDE DEF free
<1>6. PICK k \in free : \A i \in free : k <= i
  BY <1>3, <1>4, LeastNumber
<1>7. Min(free) \in free
  BY <1>6 DEF Min
<1>8. QED
  BY <1>4, <1>5, <1>7

\* The members of a sequence are finitely many.
LEMMA SeqIsFinite ==
    ASSUME NEW q, IsSeq(q)
    PROVE  IsFiniteSet(DOMAIN q)
BY SeqDomain, FS_Interval

\* A fresh session ID is a number.
LEMMA FreshSidTyped ==
    ASSUME NEW T, NEW w, Linked(w, T)
    PROVE  FreshSid(w) \in Nat
<1> DEFINE j == w.s.journal
           q == w.net.queue
           f == [i \in DOMAIN j |-> j[i].sid]
           g == [i \in DOMAIN q |-> q[i].m.sid]
<1>1. IsFiniteSet(DOMAIN j) /\ IsFiniteSet(DOMAIN q)
  BY SeqIsFinite DEF Linked
<1>2. IsFiniteSet({f[i] : i \in DOMAIN j}) /\ IsFiniteSet({g[i] : i \in DOMAIN q})
  BY <1>1, ImageIsFinite
<1> DEFINE a == {w.s.id, w.srv.sid}
           b == {j[i].sid : i \in DOMAIN j}
           c == {q[i].m.sid : i \in DOMAIN q}
<1>3. b = {f[i] : i \in DOMAIN j} /\ c = {g[i] : i \in DOMAIN q}
  OBVIOUS
<1>4. IsFiniteSet(a)
  <2>1. IsFiniteSet({w.s.id}) /\ IsFiniteSet({w.srv.sid})
    BY FS_Singleton
  <2>2. a = {w.s.id} \cup {w.srv.sid}
    OBVIOUS
  <2>3. QED
    BY <2>1, <2>2, FS_Union
<1>5. FreshSid(w) = Unused(a \cup b \cup c)
  BY DEF FreshSid
<1> HIDE DEF a, b, c, f, g
<1>6. IsFiniteSet(a \cup b \cup c)
  BY <1>2, <1>3, <1>4, FS_Union
<1>7. QED
  BY <1>5, <1>6, UnusedIsNumber

\* A fresh request ID is a positive number.
LEMMA FreshRidTyped ==
    ASSUME NEW T, NEW w, Linked(w, T)
    PROVE  FreshRid(w) \in Nat \ {0}
<1> DEFINE j == w.s.journal
           q == w.net.queue
           x == w.srv.cache
           f == [i \in DOMAIN j |-> j[i].rid]
           g == [i \in DOMAIN q |-> q[i].m.rid]
           e == [c \in x |-> c.rid]
<1>1. IsFiniteSet(DOMAIN j) /\ IsFiniteSet(DOMAIN q) /\ IsFiniteSet(x)
  BY SeqIsFinite DEF Linked, IsServed, IsSession
<1>2. /\ IsFiniteSet({f[i] : i \in DOMAIN j}) /\ IsFiniteSet({g[i] : i \in DOMAIN q})
      /\ IsFiniteSet({e[c] : c \in x})
  BY <1>1, ImageIsFinite
<1> DEFINE a == {j[i].rid : i \in DOMAIN j}
           b == {c.rid : c \in x}
           d == {q[i].m.rid : i \in DOMAIN q}
<1>3. a = {f[i] : i \in DOMAIN j} /\ b = {e[c] : c \in x} /\ d = {g[i] : i \in DOMAIN q}
  OBVIOUS
<1>4. FreshRid(w) = Unused(a \cup b \cup d)
  BY DEF FreshRid
<1> HIDE DEF a, b, d, e, f, g
<1>5. IsFiniteSet(a \cup b \cup d)
  BY <1>2, <1>3, FS_Union
<1>6. QED
  BY <1>4, <1>5, UnusedIsNumber

\* The absent response and the answers without a snapshot.
LEMMA ReplyIs ==
    ASSUME NEW T, NEW st, NEW n \in Snapshots(T)
    PROVE  Reply(Response(st, n), T) /\ Reply(NoResponse, T)
BY NoSnapshotTyped DEF Response, NoResponse, Reply, IsResponse

------------------------------------------------------------------------------
(* What the server makes of it                                             *)

\* v has the history g and the session x
Reworked(w, v, x, g) ==
    /\ DOMAIN v = DOMAIN w /\ v.s = w.s /\ v.ui = w.ui /\ v.net = w.net
    /\ v.srv = x /\ v.h = g /\ DOMAIN g = DOMAIN w.h
    /\ \A f \in {"typed", "dom", "app", "events", "shown", "dropped", "undone", "faults"} :
            g[f] = w.h[f]

\* The history and the session may change as a request changes them
LEMMA HistoryTyped ==
    ASSUME NEW T, NEW w, Linked(w, T), NEW v, NEW x, IsServed(x, T), NEW g,
           Reworked(w, v, x, g), g.taught \subseteq T, g.deleted \subseteq T
    PROVE  Reached(w, v, T) /\ v.h.faults = w.h.faults /\ v.net = w.net /\ v.srv = x
<1>1. /\ v.h.typed = w.h.typed /\ v.h.dom = w.h.dom /\ v.h.app = w.h.app
      /\ v.h.events = w.h.events /\ v.h.shown = w.h.shown /\ v.h.dropped = w.h.dropped
      /\ v.h.undone = w.h.undone /\ v.h.faults = w.h.faults
  BY DEF Reworked
<1>2. Shape(v)
  BY DEF Linked, Shape, Reworked
<1>3. Linked(v, T)
  BY <1>1, <1>2 DEF Linked, Reworked
<1>4. Outside(v) = Outside(w)
  BY <1>1 DEF Outside, Reworked
<1>5. QED
  BY <1>1, <1>3, <1>4 DEF Reached, Reworked

\* A session may be removed.
LEMMA RemoveSessionTyped ==
    ASSUME NEW T, NEW w, Linked(w, T), NEW b
    PROVE  LET v == RemoveSession(w, b)
           IN  /\ Reached(w, v, T) /\ v.h.faults = w.h.faults /\ v.net = w.net
               /\ v.srv = NoSession
<1> DEFINE v == RemoveSession(w, b)
           t == w.h.taught \cup IF b THEN w.srv.learn ELSE {}
           g == [w.h EXCEPT !.taught = t]
<1>1. v = [[w EXCEPT !.srv = NoSession] EXCEPT !.h = g]
  BY DEF RemoveSession, Linked, Shape
<1>2. t \subseteq T
  BY DEF Linked, IsServed, IsState
<1> HIDE DEF t, v
<1>3. g.taught = t /\ g.deleted = w.h.deleted
  BY DEF Linked, Shape
<1>4. Reworked(w, v, NoSession, g)
  BY <1>1 DEF Linked, Shape, Reworked
<1> HIDE DEF g
<1>5. g.taught \subseteq T /\ g.deleted \subseteq T /\ IsServed(NoSession, T)
  BY <1>2, <1>3, NoSnapshotTyped DEF Linked
<1>6. /\ Reached(w, v, T) /\ v.h.faults = w.h.faults /\ v.net = w.net /\ v.srv = NoSession
  BY <1>4, <1>5, HistoryTyped
<1>7. QED
  BY <1>6 DEF v

\* Only the session changes.
LEMMA SessionTyped ==
    ASSUME NEW T, NEW w, Linked(w, T), NEW x, IsServed(x, T)
    PROVE  LET v == [w EXCEPT !.srv = x]
           IN  Reached(w, v, T) /\ v.h.faults = w.h.faults /\ v.net = w.net
<1> DEFINE v == [w EXCEPT !.srv = x]
<1>1. Reworked(w, v, x, w.h)
  BY DEF Linked, Shape, Reworked
<1>2. w.h.taught \subseteq T /\ w.h.deleted \subseteq T
  BY DEF Linked
<1> HIDE DEF v
<1>3. Reached(w, v, T) /\ v.h.faults = w.h.faults /\ v.net = w.net
  BY <1>1, <1>2, HistoryTyped
<1>4. QED
  BY <1>3 DEF v

\* A new session is well typed.
LEMMA OpenedTyped ==
    ASSUME NEW T, NEW w, Linked(w, T), NEW m
    PROVE  LET o == Opened(w, m)
           IN  /\ Reached(w, o.w, T) /\ o.w.h.faults = w.h.faults /\ o.w.net = w.net
               /\ Reply(o.r, T)
<1> DEFINE sid == FreshSid(w)
           x == NewSession(sid, m.secure, w.net.proc)
           os == w.h.orphans \cup ({w.srv.sid} \ {0})
           g == [w.h EXCEPT !.orphans = os]
           v == Opened(w, m).w
<1>1. sid \in Nat /\ w.net.proc \in Nat
  BY FreshSidTyped DEF Linked
<1>3. v = [[w EXCEPT !.srv = x] EXCEPT !.h = g]
  BY DEF Opened, Linked, Shape
<1>r. Opened(w, m).r = [Response("success", NoSnapshot) EXCEPT !.sid = sid]
  BY DEF Opened
<1> HIDE DEF sid
<1>2. IsServed(x, T)
  <2>0. NoSession = [sid |-> 0, secure |-> FALSE, rev |-> 0, phase |-> "idle", comp |-> <<>>,
                     learn |-> {}, eff |-> 1, proc |-> 0, cache |-> {}]
    BY DEF NoSession
  <2>1. /\ x.sid = sid /\ x.proc = w.net.proc /\ DOMAIN x = DOMAIN NoSession
        /\ x.cache = {} /\ x.rev = 0 /\ x.eff = 1 /\ x.learn = {} /\ x.comp = <<>>
        /\ x.phase = "idle"
    BY <2>0 DEF NewSession
  <2>2. <<>> \in Seq(T) /\ IsSession(NoSession)
    BY NoSnapshotTyped DEF IsServed
  <2>3. IsSession(x)
    BY <2>1, <2>2, FS_EmptySet DEF IsSession
  <2>4. QED
    BY <1>1, <2>1, <2>2, <2>3 DEF IsServed, IsState, Phases
<1> HIDE DEF v, x, os
<1>4. g.taught = w.h.taught /\ g.deleted = w.h.deleted
  BY DEF Linked, Shape
<1>5. Reworked(w, v, x, g)
  BY <1>3 DEF Linked, Shape, Reworked
<1> HIDE DEF g
<1>7. g.taught \subseteq T /\ g.deleted \subseteq T
  BY <1>4 DEF Linked
<1>8. /\ Reached(w, v, T) /\ v.h.faults = w.h.faults /\ v.net = w.net
  BY <1>2, <1>5, <1>7, HistoryTyped
<1>9. Reply(Opened(w, m).r, T)
  BY <1>1, <1>r, NoSnapshotTyped DEF Response, Reply, IsResponse
<1>10. QED
  BY <1>8, <1>9 DEF v

\* Whatever the server is asked, all stays well typed.
LEMMA ServeTyped ==
    ASSUME NEW T, NEW w, Linked(w, T), NEW m, MessageTyped(m, T), NEW o \in Serve(w, m)
    PROVE  /\ Reached(w, o.w, T) /\ o.w.h.faults = w.h.faults /\ o.w.net = w.net
           /\ Reply(o.r, T)
<1>0. \A st : Reply(Response(st, NoSnapshot), T)
  BY NoSnapshotTyped, ReplyIs
<1>1. CASE m.op = "open"
  <2>1. o = Opened(w, m)
    BY <1>1 DEF Serve
  <2>2. QED
    BY <2>1, OpenedTyped
<1>2. CASE m.op # "open" /\ (w.srv.sid # m.sid \/ m.sid = 0)
  <2>1. Serve(w, m) = {[w |-> w, r |-> Response("gone", NoSnapshot)]}
    BY <1>2 DEF Serve, MessageTyped
  <2>2. o.w = w /\ o.r = Response("gone", NoSnapshot)
    BY <2>1
  <2>3. QED
    BY <1>0, <2>2 DEF Reached
<1>3. CASE w.srv.sid = m.sid /\ m.sid # 0 /\ m.op = "close"
  <2> DEFINE v == RemoveSession(w, TRUE)
  <2>1. Serve(w, m) = {[w |-> v, r |-> Response("success", NoSnapshot)]}
    BY <1>3 DEF Serve
  <2>2. Reached(w, v, T) /\ v.h.faults = w.h.faults /\ v.net = w.net
    BY RemoveSessionTyped
  <2> HIDE DEF v
  <2>3. o.w = v /\ o.r = Response("success", NoSnapshot)
    BY <2>1
  <2>4. QED
    BY <1>0, <2>2, <2>3
<1>4. CASE w.srv.sid = m.sid /\ m.sid # 0 /\ m.op = "action"
  <2>0. Serve(w, m) = Handled(w, m)
    BY <1>4 DEF Serve
  <2>1. PICK p \in HandleImeAction(w.srv, m.rid, m.act, m.exp) :
          o = [w |-> [w EXCEPT !.srv = p.x, !.h.taught = @ \cup p.taught,
                               !.h.deleted = @ \cup p.cut],
               r |-> Response(p.st, p.snap)]
    BY <2>0 DEF Handled
  <2>2. IsServed(p.x, T) /\ p.snap \in Snapshots(T) /\ p.taught \subseteq T /\ p.cut \subseteq T
    BY <1>4, HandleTyped DEF MessageTyped, Linked
  <2> DEFINE t == w.h.taught \cup p.taught
             d == w.h.deleted \cup p.cut
             g == [[w.h EXCEPT !.taught = t] EXCEPT !.deleted = d]
             v == o.w
  <2>3. v = [[w EXCEPT !.srv = p.x] EXCEPT !.h = g]
    BY <2>1 DEF Linked, Shape
  <2>4. t \subseteq T /\ d \subseteq T
    BY <2>2 DEF Linked
  <2>5. Reply(o.r, T)
    BY <2>1, <2>2, ReplyIs
  <2> HIDE DEF t, d, v
  <2>6. g.taught = t /\ g.deleted = d
    BY DEF Linked, Shape
  <2>7. Reworked(w, v, p.x, g)
    BY <2>3 DEF Linked, Shape, Reworked
  <2> HIDE DEF g
  <2>9. Reached(w, v, T) /\ v.h.faults = w.h.faults /\ v.net = w.net
    BY <2>2, <2>4, <2>6, <2>7, HistoryTyped
  <2>10. QED
    BY <2>5, <2>9 DEF v
<1>5. QED
  BY <1>1, <1>2, <1>3, <1>4 DEF MessageTyped

\* One stretch of requests after another.
LEMMA ReachedThen ==
    ASSUME NEW T, NEW w, NEW v, NEW u, Reached(w, v, T), Reached(v, u, T)
    PROVE  Reached(w, u, T)
BY DEF Reached

\* A fault spends budget that there was.
LEMMA FaultTyped ==
    ASSUME NEW T, NEW w, NEW u, Linked(u, T), NEW f, NEW after, NEW x \in Fault(u, f, after),
           \A v \in after : Reached(w, v, T) /\ v.h.faults = u.h.faults
    PROVE  Reached(w, x, T)
<1>1. PICK v \in after : x = [v EXCEPT !.h.faults = @ + 1] /\ u.h.faults < MaxFaults
  BY DEF Fault
<1>2. Linked(v, T) /\ Outside(v) = Outside(w) /\ v.h.faults = u.h.faults
  BY <1>1 DEF Reached
<1> DEFINE n == v.h.faults + 1
           g == [v.h EXCEPT !.faults = n]
<1>3. x = [v EXCEPT !.h = g]
  BY <1>1
<1>4. n \in 0 .. MaxFaults
  BY <1>1, <1>2, FaultAssumption DEF Linked
<1> HIDE DEF n
<1>5. /\ DOMAIN g = DOMAIN v.h /\ g.typed = v.h.typed /\ g.dom = v.h.dom /\ g.app = v.h.app
      /\ g.events = v.h.events /\ g.shown = v.h.shown /\ g.dropped = v.h.dropped
      /\ g.undone = v.h.undone /\ g.faults = n /\ g.taught = v.h.taught
      /\ g.deleted = v.h.deleted
  BY <1>2 DEF Linked, Shape
<1> HIDE DEF g
<1>6. /\ DOMAIN x = DOMAIN v /\ x.s = v.s /\ x.ui = v.ui /\ x.net = v.net /\ x.srv = v.srv
      /\ x.h = g
  BY <1>2, <1>3 DEF Linked, Shape
<1>7. Linked(x, T)
  BY <1>2, <1>4, <1>5, <1>6 DEF Linked, Shape
<1>8. Outside(x) = Outside(v)
  BY <1>5, <1>6 DEF Outside
<1>9. QED
  BY <1>2, <1>7, <1>8 DEF Reached

\* The connection may change while it stays well typed
LEMMA WireTyped ==
    ASSUME NEW T, NEW w, Linked(w, T), NEW n, DOMAIN n = {"up", "queue", "proc"},
           n.up \in BOOLEAN, n.proc \in Nat, IsSeq(n.queue), n.queue # <<>> => n.up,
           \A i \in DOMAIN n.queue : FrameTyped(n.queue[i], T)
    PROVE  LET v == [w EXCEPT !.net = n]
           IN  Reached(w, v, T) /\ v.h.faults = w.h.faults /\ v.net = n /\ v.srv = w.srv
<1> DEFINE v == [w EXCEPT !.net = n]
<1>1. /\ DOMAIN v = DOMAIN w /\ v.s = w.s /\ v.ui = w.ui /\ v.net = n /\ v.srv = w.srv
      /\ v.h = w.h
  BY DEF Linked, Shape
<1> HIDE DEF v
<1>2. Linked(v, T)
  BY <1>1 DEF Linked, Shape
<1>3. Outside(v) = Outside(w)
  BY <1>1 DEF Outside
<1>4. Reached(w, v, T) /\ v.h.faults = w.h.faults /\ v.net = n /\ v.srv = w.srv
  BY <1>1, <1>2, <1>3 DEF Reached
<1>5. QED
  BY <1>4 DEF v

\* The connection may be lost, and the server started anew.
LEMMA DisconnectedTyped ==
    ASSUME NEW T, NEW w, Linked(w, T), NEW p \in Nat
    PROVE  LET v == Disconnected(w)
               u == [v EXCEPT !.net.proc = p]
           IN  /\ Reached(w, v, T) /\ v.h.faults = w.h.faults /\ v.net.proc = w.net.proc
               /\ Reached(w, u, T) /\ u.h.faults = w.h.faults
<1> DEFINE x == RemoveSession(w, FALSE)
           v == Disconnected(w)
           u == [v EXCEPT !.net.proc = p]
           n == [[x.net EXCEPT !.up = FALSE] EXCEPT !.queue = <<>>]
           k == [n EXCEPT !.proc = p]
<1>1. /\ Reached(w, x, T) /\ x.h.faults = w.h.faults /\ x.net = w.net
  BY RemoveSessionTyped
<1>2. v = [x EXCEPT !.net = n]
  BY <1>1 DEF Disconnected, Reached, Linked, Shape
<1> HIDE DEF x, v
<1>3. /\ DOMAIN n = {"up", "queue", "proc"} /\ n.up = FALSE /\ n.queue = <<>>
      /\ n.proc = w.net.proc
  BY <1>1 DEF Reached, Linked, Shape
<1>4. w.net.proc \in Nat /\ IsSeq(<<>>) /\ DOMAIN <<>> = {}
  BY EmptyIsSeq DEF Linked
<1> HIDE DEF n
<1>5. DOMAIN k = {"up", "queue", "proc"} /\ k.up = FALSE /\ k.queue = <<>> /\ k.proc = p
  BY <1>3
<1>l. \A y : \A i \in DOMAIN <<>> : FrameTyped(y, T)
  BY <1>4
<1>6. Reached(x, v, T) /\ v.h.faults = x.h.faults /\ v.net = n
  <2>1. Linked(x, T)
    BY <1>1 DEF Reached
  <2>2. n.up \in BOOLEAN /\ n.proc \in Nat /\ \A i \in DOMAIN n.queue : FrameTyped(n.queue[i], T)
    BY <1>3, <1>4, <1>l
  <2>3. IsSeq(n.queue) /\ (n.queue # <<>> => n.up)
    BY <1>3, <1>4
  <2>4. QED
    BY <1>2, <1>3, <2>1, <2>2, <2>3, WireTyped
<1>7. u = [v EXCEPT !.net = k]
  BY <1>6
<1> HIDE DEF u, k
<1>8. Reached(v, u, T) /\ u.h.faults = v.h.faults
  <2>1. Linked(v, T)
    BY <1>6 DEF Reached
  <2>2. k.up \in BOOLEAN /\ k.proc \in Nat /\ \A i \in DOMAIN k.queue : FrameTyped(k.queue[i], T)
    BY <1>4, <1>5, <1>l
  <2>3. IsSeq(k.queue) /\ (k.queue # <<>> => k.up)
    BY <1>4, <1>5
  <2>4. QED
    BY <1>5, <1>7, <2>1, <2>2, <2>3, WireTyped
<1>9. Reached(w, v, T) /\ Reached(w, u, T)
  BY <1>1, <1>6, <1>8, ReachedThen
<1>10. QED
  BY <1>1, <1>3, <1>6, <1>8, <1>9 DEF u, v

\* What the server does on its own keeps all well typed.
LEMMA ServerEventTyped ==
    ASSUME NEW T, NEW w, Linked(w, T), NEW x \in ServerEvent(w)
    PROVE  Reached(w, x, T)
<1> DEFINE Fine(v) == Reached(w, v, T) /\ v.h.faults = w.h.faults
<1>1. CASE x \in Evict(w)
  <2>1. Fine(RemoveSession(w, TRUE))
    BY RemoveSessionTyped
  <2> DEFINE after == IF w.srv.sid # 0 /\ (w.net.queue = <<>> \/ Head(w.net.queue).done)
                      THEN {RemoveSession(w, TRUE)} ELSE {}
  <2>2. \A v \in after : Fine(v)
    BY <2>1
  <2>3. x \in Fault(w, "evict", after)
    BY <1>1 DEF Evict
  <2> HIDE DEF after
  <2>4. QED
    BY <2>2, <2>3, FaultTyped
<1>2. CASE x \in DictionaryChange(w)
  <2> DEFINE y == InvalidateCandidates(w.srv)
             v == [w EXCEPT !.srv = y]
  <2>1. IsServed(y, T)
    BY ChangedTyped DEF Linked
  <2> HIDE DEF y
  <2>2. Fine(v)
    BY <2>1, SessionTyped
  <2>3. x \in Fault(w, "invalidate", {v} \ {w})
    BY <1>2 DEF DictionaryChange, y
  <2> HIDE DEF v
  <2>4. QED
    BY <2>2, <2>3, FaultTyped
<1>3. CASE x \in ClearAllLearningData(w)
  <2> DEFINE y == DiscardLearning(w.srv)
             v == [w EXCEPT !.srv = y]
  <2>1. IsServed(y, T)
    BY ChangedTyped DEF Linked
  <2> HIDE DEF y
  <2>2. Fine(v)
    BY <2>1, SessionTyped
  <2>3. x \in Fault(w, "clearLearning", {v} \ {w})
    BY <1>3 DEF ClearAllLearningData, y
  <2> HIDE DEF v
  <2>4. QED
    BY <2>2, <2>3, FaultTyped
<1>4. CASE x \in Restart(w)
  <2> DEFINE after == {[Disconnected(w) EXCEPT !.net.proc = p] : p \in {w.net.proc, w.net.proc + 1}}
  <2>1. w.net.proc \in Nat /\ w.net.proc + 1 \in Nat
    BY DEF Linked
  <2>2. \A p \in Nat : Fine([Disconnected(w) EXCEPT !.net.proc = p])
    BY DisconnectedTyped
  <2>v. \A v \in after : Fine(v)
    BY <2>1, <2>2
  <2>3. x \in Fault(w, "restart", after)
    BY <1>4 DEF Restart
  <2> HIDE DEF after
  <2>4. QED
    BY <2>v, <2>3, FaultTyped
<1>5. CASE x \in Stop(w)
  <2> DEFINE u == RemoveSession(w, TRUE)
             after == {[Disconnected(u) EXCEPT !.net.proc = p] : p \in {w.net.proc, w.net.proc + 1}}
  <2>1. w.net.proc \in Nat /\ w.net.proc + 1 \in Nat
    BY DEF Linked
  <2>2. Fine(u) /\ Linked(u, T)
    BY RemoveSessionTyped DEF Reached
  <2>3. x \in Fault(w, "stop", after)
    BY <1>5 DEF Stop
  <2> HIDE DEF u
  <2>d. \A p \in Nat : /\ Reached(u, [Disconnected(u) EXCEPT !.net.proc = p], T)
                       /\ [Disconnected(u) EXCEPT !.net.proc = p].h.faults = u.h.faults
    BY <2>2, DisconnectedTyped
  <2>4. \A v \in after : Reached(u, v, T) /\ v.h.faults = u.h.faults
    BY <2>1, <2>d
  <2>5. \A v \in after : Fine(v)
    BY <2>2, <2>4, ReachedThen
  <2> HIDE DEF after
  <2>6. QED
    BY <2>3, <2>5, FaultTyped
<1>6. QED
  BY <1>1, <1>2, <1>3, <1>4, <1>5 DEF ServerEvent

\* A lifecycle frame is served, perhaps twice.
LEMMA ServeLifecycleTyped ==
    ASSUME NEW T, NEW w, Linked(w, T), NEW m, IsFrame(m), MessageTyped(m, T),
           NEW o \in ServeLifecycle(w, m)
    PROVE  /\ Reached(w, o.w, T) /\ o.w.h.faults = w.h.faults /\ o.w.net = w.net
           /\ Reply(o.r, T)
<1>1. PICK p \in Serve(w, m) :
        \/ o = p
        \/ o \in Serve(p.w, [m EXCEPT !.rid = FreshRid(p.w), !.exp = p.r.snap.rev])
  BY DEF ServeLifecycle, OnceMore
<1>2. /\ Reached(w, p.w, T) /\ p.w.h.faults = w.h.faults /\ p.w.net = w.net /\ Reply(p.r, T)
  BY ServeTyped
<1>3. CASE o = p
  BY <1>2, <1>3
<1>4. CASE o # p
  <2> DEFINE n == [m EXCEPT !.rid = FreshRid(p.w), !.exp = p.r.snap.rev]
  <2>1. n.op = m.op /\ n.act = m.act
    BY DEF IsFrame, IsMessage
  <2>2. o \in Serve(p.w, n)
    BY <1>1, <1>4
  <2> HIDE DEF n
  <2>3. MessageTyped(n, T)
    BY <2>1 DEF MessageTyped
  <2>4. /\ Reached(p.w, o.w, T) /\ o.w.h.faults = p.w.h.faults /\ o.w.net = p.w.net
        /\ Reply(o.r, T)
    BY <1>2, <2>2, <2>3, ServeTyped DEF Reached
  <2>5. QED
    BY <1>2, <2>4, ReachedThen
<1>5. QED
  BY <1>3, <1>4

\* The oldest frame is answered.
LEMMA FinishHeadTyped ==
    ASSUME NEW T, NEW w, Linked(w, T), w.net.queue # <<>>, NEW o \in FinishHead(w)
    PROVE  /\ Reached(w, o.w, T) /\ o.w.h.faults = w.h.faults /\ o.w.net = w.net
           /\ Reply(o.r, T)
<1> DEFINE q == w.net.queue
<1>1. Head(q) = q[1] /\ 1 \in DOMAIN q
  BY SeqTail, SeqDomain DEF Linked
<1>2. FrameTyped(q[1], T)
  BY <1>1 DEF Linked
<1>3. CASE q[1].done
  BY <1>1, <1>2, <1>3 DEF FinishHead, FrameTyped, Reached
<1>4. CASE ~q[1].done
  BY <1>1, <1>2, <1>4, ServeLifecycleTyped DEF FinishHead, FrameTyped
<1>5. QED
  BY <1>3, <1>4

\* The queue may change while it stays well typed.
LEMMA QueueTyped ==
    ASSUME NEW T, NEW w, Linked(w, T), NEW q, IsSeq(q), q # <<>> => w.net.up,
           \A i \in DOMAIN q : FrameTyped(q[i], T)
    PROVE  LET v == [w EXCEPT !.net.queue = q]
           IN  /\ Reached(w, v, T) /\ v.h.faults = w.h.faults /\ v.net.queue = q
               /\ v.net.up = w.net.up
<1> DEFINE n == [w.net EXCEPT !.queue = q]
           v == [w EXCEPT !.net.queue = q]
<1>1. v = [w EXCEPT !.net = n]
  OBVIOUS
<1>2. DOMAIN n = {"up", "queue", "proc"} /\ n.up = w.net.up /\ n.queue = q /\ n.proc = w.net.proc
  BY DEF Linked, Shape
<1>3. n.up \in BOOLEAN /\ n.proc \in Nat
  BY <1>2 DEF Linked
<1> HIDE DEF n, v
<1>4. Reached(w, v, T) /\ v.h.faults = w.h.faults /\ v.net = n
  BY <1>1, <1>2, <1>3, WireTyped
<1>5. QED
  BY <1>2, <1>4 DEF v

------------------------------------------------------------------------------
(* What the connector makes of it                                          *)

\* The oldest frame may be left unanswered, or answered and not yet taken.
LEMMA HeadUnfinishedTyped ==
    ASSUME NEW T, NEW w, Linked(w, T), w.net.queue # <<>>, NEW o \in FinishHead(w),
           NEW x \in HeadUnfinished(w, o)
    PROVE  Reached(w, x, T)
<1> DEFINE q == o.w.net.queue
           g == [q[1] EXCEPT !.done = TRUE, !.r = o.r]
           u == [o.w EXCEPT !.net.queue[1].done = TRUE, !.net.queue[1].r = o.r]
           p == [q EXCEPT ![1] = g]
<1>1. /\ Reached(w, o.w, T) /\ o.w.h.faults = w.h.faults /\ o.w.net = w.net /\ Reply(o.r, T)
  BY FinishHeadTyped
<1>2. Linked(o.w, T) /\ IsSeq(q) /\ q # <<>>
  BY <1>1 DEF Reached, Linked
<1>3. Len(q) \in Nat /\ Len(q) > 0 /\ DOMAIN q = 1 .. Len(q) /\ 1 \in DOMAIN q
  BY <1>2, SeqDomain, SeqTail
<1>4. \A i \in DOMAIN q : FrameTyped(q[i], T)
  BY <1>2 DEF Linked
<1>5. DOMAIN g = {"m", "r", "done"} /\ g.m = q[1].m /\ g.r = o.r
  BY <1>3, <1>4 DEF FrameTyped
<1>6. FrameTyped(g, T)
  BY <1>1, <1>3, <1>4, <1>5 DEF FrameTyped
<1>7. u = [o.w EXCEPT !.net.queue = p]
  <2>1. /\ DOMAIN o.w = {"s", "ui", "srv", "net", "h"}
        /\ DOMAIN o.w.net = {"up", "queue", "proc"}
    BY <1>2 DEF Linked, Shape
  <2>2. u = [[o.w EXCEPT !.net.queue[1].done = TRUE] EXCEPT !.net.queue[1].r = o.r]
    OBVIOUS
  <2> DEFINE f1 == [q[1] EXCEPT !.done = TRUE]
             q1 == [q EXCEPT ![1] = f1]
             n1 == [o.w.net EXCEPT !.queue = q1]
             w1 == [o.w EXCEPT !.net = n1]
  <2>3. u = [w1 EXCEPT !.net = [w1.net EXCEPT !.queue =
                        [w1.net.queue EXCEPT ![1] = [w1.net.queue[1] EXCEPT !.r = o.r]]]]
    BY <2>2
  <2>4. w1.net = n1 /\ n1.queue = q1
    BY <2>1
  <2>5. q1[1] = f1
    BY <1>3
  <2>6. [f1 EXCEPT !.r = o.r] = g
    OBVIOUS
  <2>7. u = [w1 EXCEPT !.net = [n1 EXCEPT !.queue = [q1 EXCEPT ![1] = g]]]
    BY <2>3, <2>4, <2>5, <2>6
  <2> HIDE DEF u, g, f1
  <2>8. [q1 EXCEPT ![1] = g] = p
    BY <1>3
  <2> HIDE DEF q1, p
  <2>9. [n1 EXCEPT !.queue = p] = [o.w.net EXCEPT !.queue = p]
    BY <2>1
  <2>10. QED
    BY <2>1, <2>7, <2>8, <2>9
<1> HIDE DEF u
<1>8. PutAt(q, 1, g, p)
  BY <1>2, SeqExcept
<1> HIDE DEF p, g
<1>9. /\ IsSeq(p) /\ \A i \in DOMAIN p : FrameTyped(p[i], T)
  BY <1>3, <1>4, <1>6, <1>8, SeqDomain DEF PutAt
<1>10. o.w.net.up
  BY <1>2 DEF Linked
<1> HIDE DEF q
<1>a. Linked(o.w, T) /\ (p # <<>> => o.w.net.up)
  BY <1>2, <1>10
<1> DEFINE n == [o.w.net EXCEPT !.queue = p]
<1>f. u = [o.w EXCEPT !.net = n]
  BY <1>7
<1>g. /\ DOMAIN n = {"up", "queue", "proc"} /\ n.up = o.w.net.up /\ n.queue = p
      /\ n.proc = o.w.net.proc
  BY <1>a DEF Linked, Shape
<1> HIDE DEF n
<1>h. /\ n.up \in BOOLEAN /\ n.proc \in Nat /\ IsSeq(n.queue)
      /\ n.queue # <<>> => n.up
      /\ \A i \in DOMAIN n.queue : FrameTyped(n.queue[i], T)
  BY <1>9, <1>a, <1>g DEF Linked
<1>11. Reached(o.w, u, T) /\ u.h.faults = o.w.h.faults
  BY <1>a, <1>f, <1>g, <1>h, WireTyped
<1>12. Reached(w, u, T) /\ u.h.faults = w.h.faults
  BY <1>1, <1>11, ReachedThen
<1>13. CASE x \in Fault(w, "slow", {w, u})
  <2>1. Reached(w, w, T)
    BY DEF Reached
  <2>2. QED
    BY <1>12, <1>13, <2>1, FaultTyped
<1>14. CASE x \in Fault(o.w, "break", {Disconnected(o.w)})
  <2> DEFINE v == Disconnected(o.w)
  <2>1. Reached(o.w, v, T) /\ v.h.faults = o.w.h.faults
    BY <1>2, DisconnectedTyped
  <2> HIDE DEF v
  <2>2. Reached(w, v, T)
    BY <1>1, <2>1, ReachedThen
  <2>3. QED
    BY <1>2, <1>14, <2>1, <2>2, FaultTyped DEF v
<1>15. QED
  BY <1>13, <1>14 DEF HeadUnfinished, u

\* What draining makes of world w
Emptied(w, o, T) == Reached(w, o.w, T) /\ Reply(o.r, T)

\* One frame less, or the connection is given up.
LEMMA DrainHeadTyped ==
    ASSUME NEW T, NEW b, NEW m, NEW o, Emptied(b, o, T), o.ok => o.w.net.queue # <<>>,
           NEW x \in DrainHead(o, m)
    PROVE  /\ Emptied(b, x, T)
           /\ x.ok => o.ok /\ Len(x.w.net.queue) = Len(o.w.net.queue) - 1
<1>1. CASE ~o.ok
  BY <1>1 DEF DrainHead
<1>2. CASE o.ok
  <2> DEFINE w == o.w
             q == w.net.queue
             t == Tail(q)
  <2>0. Linked(w, T) /\ Reached(b, w, T) /\ Reply(o.r, T)
    BY DEF Emptied, Reached
  <2>1. IsSeq(q) /\ q # <<>> /\ w.net.up
    BY <1>2, <2>0 DEF Linked
  <2>2. PICK p \in FinishHead(w) :
          \/ /\ x.w = [p.w EXCEPT !.net.queue = Tail(@)] /\ x.ok
             /\ x.r = IF Head(q).m = m THEN p.r ELSE o.r
          \/ x.w \in HeadUnfinished(w, p) /\ x.r = o.r /\ ~x.ok
    <3>1. PICK p \in FinishHead(w) :
            x \in {[w |-> [p.w EXCEPT !.net.queue = Tail(@)], ok |-> TRUE,
                    r |-> IF Head(w.net.queue).m = m THEN p.r ELSE o.r]}
                \cup {[w |-> v, r |-> o.r, ok |-> FALSE] : v \in HeadUnfinished(w, p)}
      BY <1>2 DEF DrainHead
    <3>2. CASE x = [w |-> [p.w EXCEPT !.net.queue = Tail(@)], ok |-> TRUE,
                    r |-> IF Head(q).m = m THEN p.r ELSE o.r]
      BY <3>2
    <3>3. CASE x \in {[w |-> v, r |-> o.r, ok |-> FALSE] : v \in HeadUnfinished(w, p)}
      BY <3>3
    <3>4. QED
      BY <3>1, <3>2, <3>3
  <2>3. /\ Reached(w, p.w, T) /\ p.w.net = w.net /\ Reply(p.r, T)
    BY <2>0, <2>1, FinishHeadTyped
  <2>4. CASE x.w \in HeadUnfinished(w, p) /\ x.r = o.r /\ ~x.ok
    <3>1. Reached(w, x.w, T)
      BY <2>0, <2>1, <2>4, HeadUnfinishedTyped
    <3>2. QED
      BY <2>0, <2>4, <3>1, ReachedThen DEF Emptied
  <2>5. CASE /\ x.w = [p.w EXCEPT !.net.queue = Tail(@)] /\ x.ok
             /\ x.r = IF Head(q).m = m THEN p.r ELSE o.r
    <3>1. IsSeq(t) /\ Len(t) = Len(q) - 1 /\ \A i \in 1 .. Len(q) - 1 : t[i] = q[i + 1]
      BY <2>1, SeqTail
    <3>2. Len(q) \in Nat /\ Len(q) > 0 /\ DOMAIN q = 1 .. Len(q)
      BY <2>1, SeqDomain, SeqTail
    <3>3. x.w = [p.w EXCEPT !.net.queue = t]
      BY <2>3, <2>5
    <3> HIDE DEF t
    <3>4. DOMAIN t = 1 .. Len(q) - 1
      BY <3>1, SeqDomain
    <3>5. \A i \in DOMAIN t : FrameTyped(t[i], T)
      <4>1. \A i \in 1 .. Len(q) - 1 : i + 1 \in DOMAIN q
        BY <3>2
      <4>2. \A i \in DOMAIN q : FrameTyped(q[i], T)
        BY <2>0 DEF Linked
      <4>3. QED
        BY <3>1, <3>4, <4>1, <4>2
    <3>6. Linked(p.w, T) /\ p.w.net.up
      BY <2>1, <2>3 DEF Reached
    <3>7. Reached(p.w, x.w, T) /\ x.w.net.queue = t
      BY <3>1, <3>3, <3>5, <3>6, QueueTyped
    <3>8. Reached(b, x.w, T)
      BY <2>0, <2>3, <3>7, ReachedThen
    <3>9. QED
      BY <1>2, <2>0, <2>3, <2>5, <3>1, <3>7, <3>8 DEF Emptied
  <2>6. QED
    BY <2>2, <2>4, <2>5
<1>3. QED
  BY <1>1, <1>2

\* All frames are finished in turn, or the connection is given up.
LEMMA DrainTyped ==
    ASSUME NEW T, NEW w, Linked(w, T), NEW m, NEW o \in Drain(w, m)
    PROVE  Emptied(w, o, T) /\ (o.ok => o.w.net.queue = <<>>)
<1> DEFINE L == Len(w.net.queue)
           init == {[w |-> w, r |-> NoResponse, ok |-> TRUE]}
           Turn(S) == UNION {DrainHead(x, m) : x \in S}
           after[n \in 0 .. L] == IF n = 0 THEN init ELSE Turn(after[n - 1])
           Inv(x, n) == Emptied(w, x, T) /\ (x.ok => Len(x.w.net.queue) = L - n)
           Rec(f, N) == f = [n \in 0 .. N |-> IF n = 0 THEN init ELSE Turn(f[n - 1])]
           Bad == {N \in 0 .. L : ~ \E f : Rec(f, N)}
           Lost == {n \in 0 .. L : ~ \A x \in after[n] : Inv(x, n)}
<1>1. L \in Nat
  BY SeqDomain DEF Linked
<1>2. \A x \in init : Inv(x, 0)
  <2>1. Reply(NoResponse, T) /\ Reached(w, w, T)
    BY NoSnapshotTyped, ReplyIs DEF Reached
  <2>2. QED
    BY <1>1, <2>1 DEF Emptied
<1>3. ASSUME NEW n \in 1 .. L, NEW x, Inv(x, n - 1), NEW y \in DrainHead(x, m)
      PROVE  Inv(y, n)
  <2>1. x.ok => x.w.net.queue # <<>>
    <3>1. SUFFICES ASSUME x.ok, x.w.net.queue = <<>> PROVE FALSE
      OBVIOUS
    <3>2. Len(x.w.net.queue) = L - (n - 1)
      BY <1>3, <3>1
    <3>3. Len(x.w.net.queue) = 0
      BY <3>1, EmptyIsSeq
    <3>4. QED
      BY <1>1, <3>2, <3>3
  <2>2. Emptied(w, x, T) /\ (x.ok => Len(x.w.net.queue) = L - (n - 1))
    BY <1>3
  <2> HIDE DEF after, init, Turn, Bad, Lost, Inv, Rec
  <2>3. /\ Emptied(w, y, T)
        /\ y.ok => x.ok /\ Len(y.w.net.queue) = Len(x.w.net.queue) - 1
    BY <1>3, <2>1, <2>2, DrainHeadTyped
  <2>4. y.ok => Len(y.w.net.queue) = L - n
    <3>1. y.ok => /\ Len(x.w.net.queue) = L - (n - 1)
                  /\ Len(y.w.net.queue) = Len(x.w.net.queue) - 1
      BY <2>2, <2>3, Zenon
    <3>2. L - (n - 1) - 1 = L - n
      BY <1>1
    <3>3. QED
      BY <3>1, <3>2, Zenon
  <2>5. QED
    BY <2>3, <2>4 DEF Inv
<1>4. ASSUME NEW n \in 1 .. L, NEW S, \A x \in S : Inv(x, n - 1)
      PROVE  \A y \in Turn(S) : Inv(y, n)
  <2>1. TAKE y \in Turn(S)
  <2>2. PICK x \in S : y \in DrainHead(x, m)
    BY <2>1
  <2>3. QED
    BY <1>3, <1>4, <2>2
<1>5. o \in after[L]
  BY DEF Drain, AfterTurns
<1>6. ASSUME NEW f, Rec(f, L) PROVE Rec(after, L)
  BY <1>6
<1> HIDE DEF init, Inv, Turn, L, after
<1>7. \E f : Rec(f, L)
  <2> SUFFICES ASSUME ~ \E f : Rec(f, L) PROVE FALSE
    OBVIOUS
  <2>1. L \in Bad /\ Bad \subseteq Nat
    BY <1>1
  <2>2. PICK N \in Bad : \A K \in Bad : N <= K
    <3> HIDE DEF Bad
    <3>1. QED
      BY <2>1, LeastNumber
  <2>3. N \in 0 .. L /\ ~ \E f : Rec(f, N)
    BY <2>2
  <2>4. CASE N = 0
    <3>1. Rec([n \in 0 .. 0 |-> init], 0)
      OBVIOUS
    <3>2. QED
      BY <2>3, <2>4, <3>1
  <2>5. CASE N > 0
    <3>1. N \in 1 .. L /\ N - 1 \in 0 .. L /\ ~ N <= N - 1
      BY <1>1, <2>3, <2>5
    <3>2. PICK g : Rec(g, N - 1)
      BY <2>2, <3>1
    <3> DEFINE f == [n \in 0 .. N |-> IF n = 0 THEN init ELSE Turn(g[n - 1])]
    <3>3. \A n \in 0 .. N : n # 0 => f[n - 1] = g[n - 1]
      BY <3>1, <3>2
    <3>4. Rec(f, N)
      BY <3>3
    <3>5. QED
      BY <2>3, <3>4
  <2>6. QED
    BY <1>1, <2>3, <2>4, <2>5
<1>8. after = [n \in 0 .. L |-> IF n = 0 THEN init ELSE Turn(after[n - 1])]
  BY <1>6, <1>7
<1>9. Lost = {}
  <2> SUFFICES ASSUME Lost # {} PROVE FALSE
    OBVIOUS
  <2>1. Lost \subseteq Nat
    BY <1>1
  <2>2. PICK n \in Lost : \A k \in Lost : n <= k
    <3> HIDE DEF Lost
    <3>1. QED
      BY <2>1, LeastNumber
  <2>3. n \in 0 .. L /\ ~ \A x \in after[n] : Inv(x, n)
    BY <2>2
  <2>4. n # 0
    BY <1>1, <1>2, <1>8, <2>3
  <2>5. n \in 1 .. L /\ n - 1 \in 0 .. L /\ ~ n <= n - 1
    BY <1>1, <2>3, <2>4
  <2>6. \A x \in after[n - 1] : Inv(x, n - 1)
    BY <2>2, <2>5
  <2>7. after[n] = Turn(after[n - 1])
    BY <1>8, <2>5
  <2>8. QED
    BY <1>4, <2>3, <2>5, <2>6, <2>7
<1>10. Inv(o, L)
  BY <1>1, <1>5, <1>9
<1>11. o.ok => Len(o.w.net.queue) = 0
  BY <1>1, <1>10 DEF Inv
<1>12. QED
  BY <1>10, <1>11, SeqOfNone DEF Inv, Emptied, Reached, Linked

\* A new connection, unless it is refused.
LEMMA ConnectTyped ==
    ASSUME NEW T, NEW w, Linked(w, T), NEW v \in Connect(w)
    PROVE  Reached(w, v, T)
<1>1. CASE v = [w EXCEPT !.net.up = TRUE]
  <2> DEFINE n == [w.net EXCEPT !.up = TRUE]
  <2>1. v = [w EXCEPT !.net = n]
    BY <1>1
  <2>2. /\ DOMAIN n = {"up", "queue", "proc"} /\ n.up = TRUE /\ n.queue = w.net.queue
        /\ n.proc = w.net.proc
    BY DEF Linked, Shape
  <2> HIDE DEF n
  <2>3. /\ n.up \in BOOLEAN /\ n.proc \in Nat /\ IsSeq(n.queue) /\ (n.queue # <<>> => n.up)
        /\ \A i \in DOMAIN n.queue : FrameTyped(n.queue[i], T)
    BY <2>2 DEF Linked
  <2>4. QED
    BY <2>1, <2>2, <2>3, WireTyped
<1>2. CASE v \in Fault(w, "refuse", {w})
  <2>1. Reached(w, w, T)
    BY DEF Reached
  <2>2. QED
    BY <1>2, <2>1, FaultTyped
<1>3. QED
  BY <1>1, <1>2 DEF Connect

\* A frame is taken over on a working connection.
LEMMA TakeOverTyped ==
    ASSUME NEW T, NEW w, Linked(w, T), w.net.up, NEW m, IsFrame(m), MessageTyped(m, T)
    PROVE  Reached(w, TakeOver(w, m), T)
<1> DEFINE e == [m |-> m, r |-> NoResponse, done |-> FALSE]
           q == Append(w.net.queue, e)
<1>1. CASE TakeOver(w, m) = w
  BY <1>1 DEF Reached
<1>2. CASE TakeOver(w, m) # w
  <2>1. TakeOver(w, m) = [w EXCEPT !.net.queue = q]
    BY <1>2 DEF TakeOver
  <2>2. FrameTyped(e, T)
    BY NoSnapshotTyped, ReplyIs DEF FrameTyped
  <2> HIDE DEF e
  <2>3. /\ IsSeq(q) /\ Len(q) = Len(w.net.queue) + 1
        /\ \A i \in 1 .. Len(w.net.queue) : q[i] = w.net.queue[i]
        /\ q[Len(w.net.queue) + 1] = e
    BY SeqAppend DEF Linked
  <2> HIDE DEF q
  <2>4. \A i \in DOMAIN w.net.queue : FrameTyped(w.net.queue[i], T)
    BY DEF Linked
  <2>5. \A i \in DOMAIN q : FrameTyped(q[i], T)
    <3>1. DOMAIN q = 1 .. Len(w.net.queue) + 1 /\ DOMAIN w.net.queue = 1 .. Len(w.net.queue)
          /\ Len(w.net.queue) \in Nat
      BY <2>3, SeqDomain DEF Linked
    <3>2. QED
      BY <2>2, <2>3, <2>4, <3>1
  <2> DEFINE v == TakeOver(w, m)
  <2>6. v = [w EXCEPT !.net.queue = q]
    BY <2>1
  <2> HIDE DEF v
  <2>7. IsSeq(q) /\ (q # <<>> => w.net.up)
    BY <2>3
  <2>8. Reached(w, v, T)
    BY <2>5, <2>6, <2>7, QueueTyped
  <2>9. QED
    BY <2>8 DEF v
<1>3. QED
  BY <1>1, <1>2

\* The connection breaks, and there may be a new one.
LEMMA BrokenTyped ==
    ASSUME NEW T, NEW w, Linked(w, T), NEW t, NEW v \in Broken(w, t)
    PROVE  Reached(w, v, T)
<1>1. PICK u \in Fault(w, "break", {Disconnected(w)}) : v = u \/ v \in Connect(u)
  BY DEF Broken
<1>2. Reached(w, Disconnected(w), T) /\ Disconnected(w).h.faults = w.h.faults
  BY DisconnectedTyped
<1>3. Reached(w, u, T)
  BY <1>2, FaultTyped
<1>4. CASE v = u
  BY <1>3, <1>4
<1>5. CASE v \in Connect(u)
  <2>1. Reached(u, v, T)
    BY <1>3, <1>5, ConnectTyped DEF Reached
  <2>2. QED
    BY <1>3, <2>1, ReachedThen
<1>6. QED
  BY <1>1, <1>4, <1>5

\* One request: whatever happens meanwhile, all stays well typed.
LEMMA TransactTyped ==
    ASSUME NEW T, NEW w, Linked(w, T), NEW m, MessageTyped(m, T),
           NEW lifecycle, lifecycle => IsFrame(m), NEW tryConnect,
           NEW o \in Transact(w, m, lifecycle, tryConnect)
    PROVE  Emptied(w, o, T)
<1> DEFINE Led(v) ==
        o \in (CASE ~v.net.up -> {[w |-> v, r |-> NoResponse]}
             [] OTHER ->
                UNION {IF lifecycle \/ ~p.ok \/ p.r # NoResponse
                       THEN {[w |-> p.w, r |-> p.r]}
                       ELSE Exchange(p.w, m, tryConnect) :
                       p \in Drain(IF lifecycle THEN TakeOver(v, m) ELSE v, m)})
           Next1(u) == IF u.net.up \/ lifecycle \/ ~tryConnect THEN {u} ELSE Connect(u)
<1>a. \E u \in {w} \cup ServerEvent(w) : \E v \in Next1(u) : Led(v)
  BY DEF Transact
<1>b. PICK u \in {w} \cup ServerEvent(w) : \E v \in Next1(u) : Led(v)
  BY <1>a
<1>1. PICK v \in Next1(u) : Led(v)
  BY <1>b
<1>2. Reached(w, u, T)
  BY ServerEventTyped DEF Reached
<1>3. Reached(u, v, T)
  BY <1>2, ConnectTyped DEF Reached
<1>4. Reached(w, v, T) /\ Linked(v, T)
  BY <1>2, <1>3, ReachedThen DEF Reached
<1>5. CASE ~v.net.up
  <2>1. o.w = v /\ o.r = NoResponse
    BY <1>1, <1>5
  <2>2. QED
    BY <1>4, <2>1, NoSnapshotTyped, ReplyIs DEF Emptied
<1>6. CASE v.net.up
  <2> DEFINE z == IF lifecycle THEN TakeOver(v, m) ELSE v
  <2>1. PICK p \in Drain(z, m) :
          o \in IF lifecycle \/ ~p.ok \/ p.r # NoResponse
                THEN {[w |-> p.w, r |-> p.r]} ELSE Exchange(p.w, m, tryConnect)
    BY <1>1, <1>6
  <2>2. Reached(v, z, T)
    BY <1>4, <1>6, TakeOverTyped DEF Reached
  <2> HIDE DEF z
  <2>3. Reached(z, p.w, T) /\ Reply(p.r, T)
    BY <2>2, DrainTyped DEF Emptied, Reached
  <2>4. Reached(w, p.w, T) /\ Linked(p.w, T)
    BY <1>4, <2>2, <2>3, ReachedThen DEF Reached
  <2>5. CASE o = [w |-> p.w, r |-> p.r]
    BY <2>3, <2>4, <2>5 DEF Emptied
  <2>6. CASE o \in Exchange(p.w, m, tryConnect)
    <3>1. PICK e \in Serve(p.w, m) :
            \/ o = e
            \/ \E x \in Broken(p.w, tryConnect) \cup Broken(e.w, tryConnect) :
                    o = [w |-> x, r |-> NoResponse]
      BY <2>6 DEF Exchange
    <3>2. Reached(p.w, e.w, T) /\ Reply(e.r, T)
      BY <2>4, ServeTyped
    <3>3. Reached(w, e.w, T) /\ Linked(e.w, T)
      BY <2>4, <3>2, ReachedThen DEF Reached
    <3>4. CASE o = e
      BY <3>2, <3>3, <3>4 DEF Emptied
    <3>5. CASE \E x \in Broken(p.w, tryConnect) \cup Broken(e.w, tryConnect) :
                    o = [w |-> x, r |-> NoResponse]
      <4>1. PICK x \in Broken(p.w, tryConnect) \cup Broken(e.w, tryConnect) :
                    o = [w |-> x, r |-> NoResponse]
        BY <3>5
      <4>2. Reached(p.w, x, T) \/ Reached(e.w, x, T)
        BY <2>4, <3>3, BrokenTyped
      <4>3. Reached(w, x, T)
        BY <2>4, <3>3, <4>2, ReachedThen
      <4>4. QED
        BY <4>1, <4>3, NoSnapshotTyped, ReplyIs DEF Emptied
    <3>6. QED
      BY <3>1, <3>4, <3>5
  <2>7. QED
    BY <2>1, <2>5, <2>6
<1>7. QED
  BY <1>5, <1>6

====
