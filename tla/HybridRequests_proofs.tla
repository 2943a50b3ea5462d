----------------------- MODULE HybridRequests_proofs -----------------------
(***************************************************************************)
(* Proofs about the hybrid converters, for any sessions and requests and   *)
(* any number of waiting jobs: fences have one owner, what refers to       *)
(* Hazkey's state is fenced, a key press that learns or forgets does not   *)
(* wait for a conversion, secure fields hold nothing and a window keeps    *)
(* its order.                                                              *)
(*                                                                         *)
(* The invariant has two parts.  One relates the state of a converter to   *)
(* the worker and the gate.  The other is a proof outline of the request   *)
(* that runs: between any two of the calls it has still to make stands     *)
(* what is then known of a session, how many suspensions enclose that      *)
(* point, and whether the request holds the execution lock.                *)
(***************************************************************************)
EXTENDS HybridRequests, TLAPS, FiniteSetTheorems, WellFoundedInduction

Op == {"invalidate", "invalidateForCommit", "external", "retire", "relabel", "present",
       "prepare", "submit", "lock", "segments", "abandon", "stop", "learn",
       "commitLearning", "commit", "discard", "forget", "record", "suspend", "resume",
       "acquire", "release", "refresh", "purgeState", "purgeHazkey", "awaitWorker",
       "changeSecure", "drop"}
Call == Op \X Sessions

Fact == {"live", "rest", "bare", "learnable", "resolved", "undeferred", "deferred",
         "emptied", "clean"}

\* Nothing of Hazkey is left with the converter
Emptied(s) ==
    /\ speculation[s].kind = "idle" /\ speculation[s].step = "none"
    /\ candidateFence[s] = NoFence
    /\ ~staged[s] /\ ~dirty[s]

\* ... nor with its adapter, its learning and the worker
Clean(s) ==
    /\ speculation[s].kind \in {"idle", "frozen"} /\ speculation[s].step = "none"
    /\ candidateFence[s] = NoFence
    /\ ~staged[s] /\ ~pending[s] /\ ~dirty[s] /\ ~holds[s]
    /\ job.session = s => at \notin {"converting", "fencing"}

\* What a session is like between its requests: a window with candidates of
\* Hazkey is published and nothing is left to learn
Rest(s) ==
    status[s] = "live" /\ window[s] = "learnable" =>
        published[s] /\ ~pending[s] /\ ~deferred[s] /\ ~secure[s]

Meets(facts, s) ==
    /\ "live" \in facts => status[s] = "live"
    /\ "rest" \in facts => Rest(s)
    /\ "bare" \in facts => window[s] # "learnable"
    /\ "learnable" \in facts => window[s] = "learnable"
    /\ "resolved" \in facts => ~pending[s]
    /\ "undeferred" \in facts => ~deferred[s]
    /\ "deferred" \in facts => (status[s] = "live" => deferred[s])
    /\ "emptied" \in facts => Emptied(s)
    /\ "clean" \in facts => Clean(s) /\ speculation[s].kind = "idle"

\* What a call needs to be known of its session
Needs(op) ==
    {"live"} \cup
    CASE op = "learn" -> {"deferred"}
      [] op = "forget" -> {"learnable", "rest"}
      [] op = "segments" -> {"rest", "resolved", "undeferred"}
      [] op = "changeSecure" -> {"clean"}
      [] OTHER -> {}

\* What it leaves as it was
Keeps(op) ==
    CASE op \in {"suspend", "resume", "acquire", "release", "refresh", "awaitWorker",
                 "record", "purgeHazkey"} -> Fact
      [] op = "retire" ->
           {"live", "rest", "bare", "resolved", "undeferred", "clean"}
      [] op \in {"invalidate", "relabel", "present", "prepare", "submit",
                 "lock", "abandon", "discard", "forget"} ->
           {"live", "rest", "bare", "resolved", "undeferred"}
      [] op \in {"commit", "commitLearning"} ->
           {"live", "rest", "bare", "learnable", "resolved", "undeferred"}
      [] op = "stop" -> {"live", "rest", "bare", "resolved"}
      [] op \in {"external", "segments"} -> {"live", "rest"}
      [] op = "invalidateForCommit" -> {"live", "bare", "resolved"}
      [] op = "learn" -> {"live", "bare"}
      [] op = "purgeState" -> {"live", "bare", "resolved"}
      [] op = "changeSecure" -> {"live", "bare", "resolved", "undeferred"}
      [] OTHER -> {}

\* What it makes true
Makes(op, known) ==
    CASE op = "retire" -> {"rest", "bare"}
      [] op = "drop" -> {"rest"}
      [] op = "changeSecure" -> {f \in {"rest"} : "bare" \in known}
      [] op = "discard" -> {"resolved"}
      [] op = "commit" -> {"resolved"} \cup
            {f \in {"deferred"} : {"deferred", "resolved"} \subseteq known}
      [] op = "stop" -> {f \in {"undeferred"} : "resolved" \in known}
      [] op = "invalidateForCommit" ->
            {f \in {"deferred"} : {"live", "learnable", "rest"} \subseteq known}
      [] op = "purgeState" -> {"undeferred", "emptied"} \cup
            {f \in {"rest"} : "bare" \in known}
      [] op = "purgeHazkey" -> {f \in {"clean"} : {"emptied", "resolved"} \subseteq known}
      [] OTHER -> {}

After(op, known) == (known \cap Keeps(op)) \cup Makes(op, known)

Mark == [depth : Nat, held : BOOLEAN, facts : SUBSET Fact]

\* The call leads from mark m to mark n, for what is known of session t
Fits(call, t, m, n) ==
    /\ m.depth = IF call[1] = "resume" THEN n.depth + 1 ELSE m.depth
    /\ n.depth = IF call[1] = "suspend" THEN m.depth + 1
                 ELSE IF call[1] = "resume" THEN n.depth ELSE m.depth
    /\ m.held = IF call[1] = "acquire" THEN FALSE
                ELSE IF call[1] = "release" THEN TRUE ELSE n.held
    /\ n.held = IF call[1] = "acquire" THEN TRUE
                ELSE IF call[1] = "release" THEN FALSE ELSE m.held
    /\ IF call[2] = t
         THEN Needs(call[1]) \subseteq m.facts /\ n.facts \subseteq After(call[1], m.facts)
         ELSE n.facts \subseteq m.facts

\* The calls lead from mark m to mark n
Runs(calls, t, m, n) ==
    \E w \in [1 .. Len(calls) + 1 -> Mark] :
        /\ w[1] = m /\ w[Len(calls) + 1] = n
        /\ \A i \in 1 .. Len(calls) : Fits(calls[i], t, w[i], w[i + 1])

Done == [depth |-> 0, held |-> FALSE, facts |-> {"rest"}]

Outlined(t) ==
    \E facts \in SUBSET Fact :
        /\ Meets(facts, t)
        /\ Runs(todo, t,
                [depth |-> Len(scoped), held |-> lock = "main", facts |-> facts], Done)

Inside == {"checking", "converting", "fencing", "finishing", "leaving"}

\* The worker and the gate: the worker holds the lock while it works on a job
\* of a session that exists, and it only starts when there are no fences
GateInv ==
    /\ lock = "worker" <=> at \in Inside
    /\ at \in Inside \ {"leaving"} => \A s \in Sessions : candidateFence[s] = NoFence
    /\ at \notin {"finishing", "leaving"} => workerFence = NoFence
    /\ at = "fencing" => result = "learnable"
    /\ at = "finishing" /\ result = "learnable" => workerFence # NoFence
    /\ at \in {"free", "admission", "entering"} \cup Inside
    /\ at = "free" => job = NoJob
    /\ at # "free" => job.session \in Sessions /\ status[job.session] # "gone"
    /\ NoFence \notin ToSet(scoped)

\* A converter: whatever refers to results of Hazkey is covered by its fence
ConverterInv(s) ==
    /\ published[s] \/ deferred[s] => candidateFence[s] # NoFence
    /\ staged[s] => pending[s]
    /\ staged[s] /\ status[s] # "gone" => candidateFence[s] # NoFence
    /\ speculation[s].kind = "ready" => ~published[s] /\ ~deferred[s]
    /\ speculation[s].kind = "ready" /\ status[s] # "gone" => ~staged[s]
    /\ speculation[s].step = "learnable" =>
        candidateFence[s] # NoFence /\ speculation[s].kind \in {"ready", "frozen"}
    /\ speculation[s].kind = "idle" => speculation[s] = Idle
    /\ speculation[s].kind = "frozen" => speculation[s].context.revision = revision[s]
    /\ dirty[s] => Calls("commitLearning", s) /\ candidateFence[s] # NoFence
    /\ secure[s] => Clean(s)
    /\ status[s] = "gone" => candidateFence[s] = NoFence

------------------------------------------------------------------------------
(* Numbers that are not in use                                             *)

\* Every set of natural numbers that is not empty has a least element
LEMMA LeastNumber ==
    ASSUME NEW T, T \subseteq Nat, T # {}
    PROVE  \E x \in T : \A y \in T : x <= y
<1> DEFINE below == {0 .. n : n \in T}
<1>1. below \subseteq FiniteSubsetsOf(Nat) /\ below # {}
  <2>1. \A n \in T : IsFiniteSet(0 .. n) /\ 0 .. n \in SUBSET Nat
    BY FS_Interval
  <2>2. QED
    BY <2>1 DEF FiniteSubsetsOf
<1> HIDE DEF below
<1>2. PICK d \in below : \A e \in below : ~ (<<e, d>> \in StrictSubsetOrdering(Nat))
  BY <1>1, FS_StrictSubsetOrderingWellFounded, WFMin
<1>3. PICK x \in T : d = 0 .. x
  BY DEF below
<1>4. ASSUME NEW y \in T PROVE x <= y
  <2> SUFFICES ASSUME y < x PROVE FALSE
    OBVIOUS
  <2>1. x \in Nat /\ y \in Nat
    OBVIOUS
  <2>2. 0 .. y \in below
    BY DEF below
  <2>3. 0 .. y \subseteq d /\ x \in d /\ x \notin 0 .. y
    BY <1>3, <2>1
  <2>4. <<0 .. y, d>> \in StrictSubsetOrdering(Nat)
    BY <1>3, <2>1, <2>3 DEF StrictSubsetOrdering
  <2>5. QED
    BY <1>2, <2>2, <2>4
<1>5. QED
  BY <1>4

\* The numbers of fences, jobs and revisions always exist and are unused
LEMMA UnusedFresh ==
    ASSUME NEW first \in Nat, NEW used, IsFiniteSet(used)
    PROVE  Unused(first, used) \in Nat /\ Unused(first, used) >= first
           /\ Unused(first, used) \notin used
<1> DEFINE size == Cardinality(used)
           free == {n \in first .. first + size : n \notin used}
<1>1. size \in Nat
  BY FS_CardinalityType
<1>2. free # {}
  <2> SUFFICES ASSUME free = {} PROVE FALSE
    OBVIOUS
  <2>1. first .. first + size \in SUBSET used
    OBVIOUS
  <2> HIDE DEF size
  <2>2. Cardinality(first .. first + size) = size + 1
    BY <1>1, FS_Interval
  <2>3. Cardinality(first .. first + size) <= size
    BY <2>1, FS_Subset DEF size
  <2>4. QED
    BY <1>1, <2>2, <2>3
<1> HIDE DEF size
<1>3. free \subseteq Nat
  BY <1>1
<1>4. PICK n \in free : \A m \in free : n <= m
  BY <1>2, <1>3, LeastNumber
<1>5. n \in first .. first + size /\ n \notin used
  OBVIOUS
<1>6. \A m \in first .. n - 1 : m \in used
  BY <1>1, <1>4, <1>5
<1>7. \E k \in first .. first + size : k \notin used /\ \A m \in first .. k - 1 : m \in used
  BY <1>5, <1>6
<1>8. /\ Unused(first, used) \in first .. first + size
      /\ Unused(first, used) \notin used
  BY <1>7 DEF Unused, size
<1>9. QED
  BY <1>1, <1>8

------------------------------------------------------------------------------
(* The rules of the outline                                                *)

LEMMA RunsNil ==
    ASSUME NEW t, NEW m \in Mark, NEW n, Runs(<<>>, t, m, n)
    PROVE  n = m
  BY DEF Runs

LEMMA RunsNothing ==
    ASSUME NEW t, NEW m \in Mark
    PROVE  Runs(<<>>, t, m, m)
<1> DEFINE w == [i \in 1 .. 1 |-> m]
<1>1. Len(<<>>) = 0 /\ w \in [1 .. 1 -> Mark] /\ w[1] = m
  OBVIOUS
<1> HIDE DEF w
<1>2. /\ w \in [1 .. Len(<<>>) + 1 -> Mark] /\ w[1] = m /\ w[Len(<<>>) + 1] = m
      /\ \A i \in 1 .. Len(<<>>) : FALSE
  BY <1>1
<1>3. QED
  BY <1>2 DEF Runs

LEMMA RunsFirst ==
    ASSUME NEW calls \in Seq(Call), calls # <<>>, NEW t, NEW m, NEW n,
           Runs(calls, t, m, n)
    PROVE  \E k \in Mark : Fits(Head(calls), t, m, k) /\ Runs(Tail(calls), t, k, n)
<1>1. PICK w \in [1 .. Len(calls) + 1 -> Mark] :
        /\ w[1] = m /\ w[Len(calls) + 1] = n
        /\ \A i \in 1 .. Len(calls) : Fits(calls[i], t, w[i], w[i + 1])
  BY DEF Runs
<1>2. Len(calls) \in Nat \ {0} /\ Len(Tail(calls)) = Len(calls) - 1
      /\ Head(calls) = calls[1]
      /\ \A i \in 1 .. Len(calls) - 1 : Tail(calls)[i] = calls[i + 1]
  OBVIOUS
<1> DEFINE v == [i \in 1 .. Len(calls) |-> w[i + 1]]
<1>3. v \in [1 .. Len(Tail(calls)) + 1 -> Mark] /\ w[2] \in Mark
  BY <1>2
<1>4. v[1] = w[2] /\ v[Len(Tail(calls)) + 1] = n
  BY <1>1, <1>2
<1>5. ASSUME NEW i \in 1 .. Len(Tail(calls))
      PROVE  Fits(Tail(calls)[i], t, v[i], v[i + 1])
  <2>1. i \in 1 .. Len(calls) - 1 /\ i + 1 \in 1 .. Len(calls) /\ i \in 1 .. Len(calls)
    BY <1>2
  <2>2. Tail(calls)[i] = calls[i + 1] /\ v[i] = w[i + 1] /\ v[i + 1] = w[i + 1 + 1]
    BY <1>2, <2>1
  <2>3. QED
    BY <1>1, <2>1, <2>2
<1>6. Runs(Tail(calls), t, w[2], n)
  BY <1>3, <1>4, <1>5 DEF Runs
<1>7. Fits(Head(calls), t, m, w[2])
  BY <1>1, <1>2
<1>8. QED
  BY <1>3, <1>6, <1>7

LEMMA RunsConcat ==
    ASSUME NEW a \in Seq(Call), NEW b \in Seq(Call), NEW t, NEW m, NEW k, NEW n,
           Runs(a, t, m, k), Runs(b, t, k, n)
    PROVE  Runs(a \o b, t, m, n)
<1>1. PICK v \in [1 .. Len(a) + 1 -> Mark] :
        /\ v[1] = m /\ v[Len(a) + 1] = k
        /\ \A i \in 1 .. Len(a) : Fits(a[i], t, v[i], v[i + 1])
  BY DEF Runs
<1>2. PICK w \in [1 .. Len(b) + 1 -> Mark] :
        /\ w[1] = k /\ w[Len(b) + 1] = n
        /\ \A i \in 1 .. Len(b) : Fits(b[i], t, w[i], w[i + 1])
  BY DEF Runs
<1>3. /\ Len(a) \in Nat /\ Len(b) \in Nat /\ Len(a \o b) = Len(a) + Len(b)
      /\ \A i \in 1 .. Len(a) : (a \o b)[i] = a[i]
      /\ \A i \in 1 .. Len(b) : (a \o b)[Len(a) + i] = b[i]
  OBVIOUS
<1> DEFINE x == [i \in 1 .. Len(a) + Len(b) + 1 |->
                    IF i <= Len(a) THEN v[i] ELSE w[i - Len(a)]]
<1>4. x \in [1 .. Len(a \o b) + 1 -> Mark]
  BY <1>3
<1>5. x[1] = m /\ x[Len(a \o b) + 1] = n
  BY <1>1, <1>2, <1>3
<1>6. ASSUME NEW i \in 1 .. Len(a \o b)
      PROVE  Fits((a \o b)[i], t, x[i], x[i + 1])
  <2>1. CASE i \in 1 .. Len(a) - 1
    BY <1>1, <1>3, <2>1
  <2>2. CASE i = Len(a)
    <3>1. i \in 1 .. Len(a) /\ x[i] = v[i] /\ x[i + 1] = w[1] /\ w[1] = v[i + 1]
      BY <1>1, <1>2, <1>3, <2>2
    <3>2. QED
      BY <1>1, <1>3, <3>1
  <2>3. CASE i \in Len(a) + 1 .. Len(a) + Len(b)
    <3>1. i - Len(a) \in 1 .. Len(b) /\ (a \o b)[i] = b[i - Len(a)]
          /\ x[i] = w[i - Len(a)] /\ x[i + 1] = w[i - Len(a) + 1]
      BY <1>3, <2>3
    <3>2. QED
      BY <1>2, <3>1
  <2>4. QED
    BY <1>3, <2>1, <2>2, <2>3
<1>7. QED
  BY <1>4, <1>5, <1>6 DEF Runs

LEMMA RunsOne ==
    ASSUME NEW c \in Call, NEW t, NEW m \in Mark, NEW n \in Mark, Fits(c, t, m, n)
    PROVE  Runs(<<c>>, t, m, n)
<1> DEFINE w == [i \in 1 .. 2 |-> IF i = 1 THEN m ELSE n]
<1>1. Len(<<c>>) = 1 /\ <<c>>[1] = c
  OBVIOUS
<1>2. w \in [1 .. 2 -> Mark] /\ w[1] = m /\ w[2] = n
  OBVIOUS
<1> HIDE DEF w
<1>3. w \in [1 .. Len(<<c>>) + 1 -> Mark] /\ w[1] = m /\ w[Len(<<c>>) + 1] = n
  BY <1>1, <1>2
<1>4. \A i \in 1 .. Len(<<c>>) : Fits(<<c>>[i], t, w[i], w[i + 1])
  BY <1>1, <1>2
<1>5. QED
  BY <1>3, <1>4 DEF Runs

------------------------------------------------------------------------------
(* What a call leads to                                                    *)

Flat == Op \ {"suspend", "resume", "acquire", "release"}

MarkOf(facts) == [depth |-> Len(scoped), held |-> lock = "main", facts |-> facts]

Inv ==
    /\ HybridInv
    /\ GateInv
    /\ todo \in Seq(Call)
    /\ \A s \in Sessions : ConverterInv(s)
    /\ \A t \in Sessions : Outlined(t)

\* A call of s leaves the other sessions and the worker alone
Framed(s) ==
    /\ \A u \in Sessions \ {s} :
        /\ speculation'[u] = speculation[u] /\ candidateFence'[u] = candidateFence[u]
        /\ published'[u] = published[u] /\ deferred'[u] = deferred[u]
        /\ staged'[u] = staged[u] /\ dirty'[u] = dirty[u] /\ pending'[u] = pending[u]
        /\ holds'[u] = holds[u] /\ revision'[u] = revision[u]
        /\ window'[u] = window[u] /\ secure'[u] = secure[u] /\ status'[u] = status[u]
    /\ UNCHANGED <<at, job, context, result, workerFence>>

\* The triple {A} calls {B}, for calls of session s that leave the suspensions
\* and the lock as they were
Flows(calls, s, A, B) ==
    \A t \in Sessions, C \in SUBSET Fact, d \in Nat, h \in BOOLEAN :
        Runs(calls, t,
             [depth |-> d, held |-> h, facts |-> IF t = s THEN A ELSE C],
             [depth |-> d, held |-> h, facts |-> IF t = s THEN B ELSE C])

LEMMA MarkType ==
    ASSUME TypeOK, NEW facts \in SUBSET Fact
    PROVE  MarkOf(facts) \in Mark
<1>1. Len(scoped) \in Nat
  BY DEF TypeOK
<1>2. QED
  BY <1>1 DEF MarkOf, Mark

LEMMA CallMarks ==
    ASSUME Inv, NEW s \in Sessions, NEW op, Calls(op, s), NEW t \in Sessions
    PROVE  \E A \in SUBSET Fact, k \in Mark :
            /\ Meets(A, t)
            /\ Fits(<<op, s>>, t, MarkOf(A), k)
            /\ Runs(Tail(todo), t, k, Done)
<1>1. PICK A \in SUBSET Fact : Meets(A, t) /\ Runs(todo, t, MarkOf(A), Done)
  BY DEF Inv, Outlined, MarkOf
<1>2. todo \in Seq(Call) /\ todo # <<>> /\ Head(todo) = <<op, s>>
  BY DEF Inv, Calls
<1>3. \E k \in Mark : Fits(Head(todo), t, MarkOf(A), k) /\ Runs(Tail(todo), t, k, Done)
  BY <1>1, <1>2, RunsFirst
<1>4. QED
  BY <1>1, <1>2, <1>3

LEMMA FlatMarks ==
    ASSUME Inv, NEW s \in Sessions, NEW op \in Flat, Calls(op, s), NEW t \in Sessions
    PROVE  \E A \in SUBSET Fact, B \in SUBSET Fact :
            /\ Meets(A, t)
            /\ IF t = s THEN Needs(op) \subseteq A /\ B \subseteq After(op, A)
                        ELSE B \subseteq A
            /\ Runs(Tail(todo), t, MarkOf(B), Done)
<1>1. PICK A \in SUBSET Fact, k \in Mark :
            /\ Meets(A, t)
            /\ Fits(<<op, s>>, t, MarkOf(A), k)
            /\ Runs(Tail(todo), t, k, Done)
  BY CallMarks
<1>2. op # "suspend" /\ op # "resume" /\ op # "acquire" /\ op # "release"
  BY DEF Flat
<1>3. k.depth = MarkOf(A).depth /\ k.held = MarkOf(A).held
  BY <1>1, <1>2 DEF Fits, MarkOf, Mark
<1>4. k.facts \in SUBSET Fact /\ k = [depth |-> k.depth, held |-> k.held, facts |-> k.facts]
  BY DEF Mark
<1>5. k = MarkOf(k.facts)
  BY <1>3, <1>4 DEF MarkOf
<1>6. IF t = s THEN Needs(op) \subseteq A /\ k.facts \subseteq After(op, A)
               ELSE k.facts \subseteq A
  BY <1>1 DEF Fits, MarkOf
<1>7. QED
  BY <1>1, <1>4, <1>5, <1>6

LEMMA OthersMeet ==
    ASSUME NEW s \in Sessions, Framed(s), NEW t \in Sessions \ {s},
           NEW A, NEW B, B \subseteq A, Meets(A, t)
    PROVE  Meets(B, t)'
  BY DEF Framed, Meets, Rest, Emptied, Clean

\* A call that inserts calls of its session before what is left
LEMMA InsertStep ==
    ASSUME Inv, NEW s \in Sessions, NEW op \in Flat, Calls(op, s), Framed(s),
           UNCHANGED <<scoped, lock>>, NEW calls \in Seq(Call),
           todo' = calls \o Tail(todo),
           ASSUME NEW A \in SUBSET Fact, Meets(A, s), Needs(op) \subseteq A,
                  NEW B \in SUBSET Fact, B \subseteq After(op, A)
           PROVE  \E D \in SUBSET Fact : Meets(D, s)' /\ Flows(calls, s, D, B),
           NEW t \in Sessions
    PROVE  Outlined(t)'
<1>1. PICK A \in SUBSET Fact, B \in SUBSET Fact :
            /\ Meets(A, t)
            /\ IF t = s THEN Needs(op) \subseteq A /\ B \subseteq After(op, A)
                        ELSE B \subseteq A
            /\ Runs(Tail(todo), t, MarkOf(B), Done)
  BY FlatMarks
<1>2. Len(scoped) \in Nat /\ (lock = "main") \in BOOLEAN
  BY DEF Inv, HybridInv, TypeOK
<1>3. Tail(todo) \in Seq(Call)
  BY DEF Inv, Calls
<1>4. PICK D \in SUBSET Fact :
        Meets(D, t)' /\ Runs(calls, t, MarkOf(D), MarkOf(B))
  <2>1. CASE t = s
    <3>1. PICK D \in SUBSET Fact : Meets(D, s)' /\ Flows(calls, s, D, B)
      BY <1>1, <2>1
    <3>2. Runs(calls, t, MarkOf(D), MarkOf(B))
      BY <1>2, <2>1, <3>1 DEF Flows, MarkOf
    <3>3. QED
      BY <2>1, <3>1, <3>2
  <2>2. CASE t # s
    <3>1. Meets(B, t)'
      BY <1>1, <2>2, OthersMeet
    <3>2. \E F, G : Flows(calls, s, F, G)
      <4>1. PICK E \in SUBSET Fact : Meets(E, s) /\ Needs(op) \subseteq E
        <5>1. PICK E \in SUBSET Fact, G \in SUBSET Fact :
                /\ Meets(E, s)
                /\ IF s = s THEN Needs(op) \subseteq E /\ G \subseteq After(op, E)
                            ELSE G \subseteq E
          BY FlatMarks
        <5>2. QED
          BY <5>1
      <4>2. {} \in SUBSET Fact /\ {} \subseteq After(op, E)
        OBVIOUS
      <4>3. QED
        BY <4>1, <4>2
    <3>3. Runs(calls, t, MarkOf(B), MarkOf(B))
      BY <1>2, <2>2, <3>2 DEF Flows, MarkOf
    <3>4. QED
      BY <3>1, <3>3
  <2>3. QED
    BY <2>1, <2>2
<1>5. Runs(todo', t, MarkOf(D), Done)
  BY <1>1, <1>3, <1>4, RunsConcat
<1>6. QED
  BY <1>4, <1>5 DEF Outlined, MarkOf

LEMMA FlowsNothing ==
    ASSUME NEW s, NEW A \in SUBSET Fact
    PROVE  Flows(<<>>, s, A, A)
<1> SUFFICES ASSUME NEW t \in Sessions, NEW C \in SUBSET Fact, NEW d \in Nat,
                    NEW h \in BOOLEAN
             PROVE  Runs(<<>>, t,
                [depth |-> d, held |-> h, facts |-> IF t = s THEN A ELSE C],
                [depth |-> d, held |-> h, facts |-> IF t = s THEN A ELSE C])
  BY DEF Flows
<1>1. [depth |-> d, held |-> h, facts |-> IF t = s THEN A ELSE C] \in Mark
  BY DEF Mark
<1>2. QED
  BY <1>1, RunsNothing

\* A call that only returns
LEMMA PlainStep ==
    ASSUME Inv, NEW s \in Sessions, NEW op \in Flat, Calls(op, s), Framed(s),
           UNCHANGED <<scoped, lock>>, todo' = Tail(todo),
           ASSUME NEW A \in SUBSET Fact, Meets(A, s), Needs(op) \subseteq A
           PROVE  Meets(After(op, A), s)',
           NEW t \in Sessions
    PROVE  Outlined(t)'
<1>1. <<>> \in Seq(Call) /\ todo' = <<>> \o Tail(todo)
  BY DEF Inv, Calls
<1>2. ASSUME NEW A \in SUBSET Fact, Meets(A, s), Needs(op) \subseteq A,
             NEW B \in SUBSET Fact, B \subseteq After(op, A)
      PROVE  \E D \in SUBSET Fact : Meets(D, s)' /\ Flows(<<>>, s, D, B)
  <2>1. Meets(After(op, A), s)'
    BY <1>2
  <2>2. Meets(B, s)'
    BY <1>2, <2>1 DEF Meets
  <2>3. QED
    BY <2>2, FlowsNothing
<1>3. QED
  BY <1>1, <1>2, InsertStep

LEMMA FlowsConcat ==
    ASSUME NEW s, NEW a \in Seq(Call), NEW b \in Seq(Call), NEW A, NEW B, NEW C,
           Flows(a, s, A, B), Flows(b, s, B, C)
    PROVE  Flows(a \o b, s, A, C)
<1> SUFFICES ASSUME NEW t \in Sessions, NEW D \in SUBSET Fact, NEW d \in Nat,
                    NEW h \in BOOLEAN
             PROVE  Runs(a \o b, t,
                [depth |-> d, held |-> h, facts |-> IF t = s THEN A ELSE D],
                [depth |-> d, held |-> h, facts |-> IF t = s THEN C ELSE D])
  BY DEF Flows
<1>1. Runs(a, t, [depth |-> d, held |-> h, facts |-> IF t = s THEN A ELSE D],
                 [depth |-> d, held |-> h, facts |-> IF t = s THEN B ELSE D])
  BY DEF Flows
<1>2. Runs(b, t, [depth |-> d, held |-> h, facts |-> IF t = s THEN B ELSE D],
                 [depth |-> d, held |-> h, facts |-> IF t = s THEN C ELSE D])
  BY DEF Flows
<1>3. QED
  BY <1>1, <1>2, RunsConcat

------------------------------------------------------------------------------
(* Sequences of calls of one session                                       *)

LEMMA OpsType ==
    ASSUME NEW s \in Sessions, NEW ops \in Seq(Op)
    PROVE  /\ Ops(s, ops) \in Seq(Call) /\ Len(Ops(s, ops)) = Len(ops)
           /\ \A i \in 1 .. Len(ops) : Ops(s, ops)[i] = <<ops[i], s>>
  BY DEF Ops, Call

\* The call leads from facts A to facts B
Leads(op, A, B) ==
    /\ op \in Flat
    /\ A \in SUBSET Fact /\ B \in SUBSET Fact
    /\ Needs(op) \subseteq A /\ B \subseteq After(op, A)

\* An outline of calls that neither suspend nor lock, one set of facts
\* between any two
LEMMA FlatFlow ==
    ASSUME NEW s \in Sessions, NEW ops \in Seq(Op),
           NEW f \in [1 .. Len(ops) + 1 -> SUBSET Fact],
           \A i \in 1 .. Len(ops) : Leads(ops[i], f[i], f[i + 1])
    PROVE  Flows(Ops(s, ops), s, f[1], f[Len(ops) + 1])
<1> SUFFICES ASSUME NEW t \in Sessions, NEW C \in SUBSET Fact, NEW d \in Nat,
                    NEW h \in BOOLEAN
             PROVE  Runs(Ops(s, ops), t,
                [depth |-> d, held |-> h, facts |-> IF t = s THEN f[1] ELSE C],
                [depth |-> d, held |-> h,
                 facts |-> IF t = s THEN f[Len(ops) + 1] ELSE C])
  BY DEF Flows
<1> DEFINE w == [i \in 1 .. Len(ops) + 1 |->
                    [depth |-> d, held |-> h, facts |-> IF t = s THEN f[i] ELSE C]]
<1>1. Len(ops) \in Nat
  OBVIOUS
<1>2. w \in [1 .. Len(ops) + 1 -> Mark]
  BY <1>1 DEF Mark
<1>3. ASSUME NEW i \in 1 .. Len(ops)
      PROVE  Fits(<<ops[i], s>>, t, w[i], w[i + 1])
  <2>1. i \in 1 .. Len(ops) + 1 /\ i + 1 \in 1 .. Len(ops) + 1
    BY <1>1
  <2>2. ops[i] # "suspend" /\ ops[i] # "resume" /\ ops[i] # "acquire" /\ ops[i] # "release"
    BY DEF Leads, Flat
  <2>3. QED
    BY <2>1, <2>2 DEF Fits, Leads
<1>4. w[1] = [depth |-> d, held |-> h, facts |-> IF t = s THEN f[1] ELSE C]
      /\ w[Len(ops) + 1] = [depth |-> d, held |-> h,
                            facts |-> IF t = s THEN f[Len(ops) + 1] ELSE C]
  BY <1>1
<1> HIDE DEF w
<1>5. QED
  BY <1>2, <1>3, <1>4, OpsType DEF Runs

\* What a purge leaves known, and what the end of a conversion does
Purged(A) ==
    (A \cap {"live", "bare", "resolved"}) \cup {"undeferred", "emptied"}
        \cup {f \in {"rest"} : {"bare", "rest"} \subseteq A}
        \cup {f \in {"clean"} : "resolved" \in A}

LEMMA PurgeFlow ==
    ASSUME NEW s \in Sessions, NEW A \in SUBSET Fact, "live" \in A,
           NEW B \in SUBSET Fact, B \subseteq Purged(A)
    PROVE  Purge(s) \in Seq(Call) /\ Flows(Purge(s), s, A, B)
<1> DEFINE ops == <<"suspend", "purgeState", "purgeHazkey", "awaitWorker", "resume">>
<1>1. ops \in Seq(Op) /\ Len(ops) = 5
  BY DEF Op
<1>2. Purge(s) = Ops(s, ops)
  BY DEF Purge
<1>3. SUFFICES ASSUME NEW t \in Sessions, NEW C \in SUBSET Fact, NEW d \in Nat,
                      NEW h \in BOOLEAN
               PROVE  Runs(Ops(s, ops), t,
                [depth |-> d, held |-> h, facts |-> IF t = s THEN A ELSE C],
                [depth |-> d, held |-> h, facts |-> IF t = s THEN B ELSE C])
  BY <1>1, <1>2, OpsType DEF Flows
<1> DEFINE M(e, X) == [depth |-> e, held |-> h, facts |-> IF t = s THEN X ELSE C]
           G == After("purgeState", A)
<1> DEFINE H == After("purgeHazkey", G)
           w == <<M(d, A), M(d + 1, A), M(d + 1, G), M(d + 1, H), M(d + 1, H), M(d, B)>>
<1>4. G \in SUBSET Fact /\ H \in SUBSET Fact
  BY DEF After, Keeps, Makes, Fact
<1>5. B \subseteq H /\ "live" \in G /\ "live" \in H
  BY DEF After, Keeps, Makes, Purged, Fact
<1> HIDE DEF G, H
<1>6. w \in [1 .. 6 -> Mark]
  BY <1>4 DEF Mark
<1>7. /\ Fits(<<"suspend", s>>, t, M(d, A), M(d + 1, A))
      /\ Fits(<<"purgeState", s>>, t, M(d + 1, A), M(d + 1, G))
      /\ Fits(<<"purgeHazkey", s>>, t, M(d + 1, G), M(d + 1, H))
      /\ Fits(<<"awaitWorker", s>>, t, M(d + 1, H), M(d + 1, H))
      /\ Fits(<<"resume", s>>, t, M(d + 1, H), M(d, B))
  <2>1. Needs("suspend") = {"live"} /\ Needs("purgeState") = {"live"}
        /\ Needs("purgeHazkey") = {"live"} /\ Needs("awaitWorker") = {"live"}
        /\ Needs("resume") = {"live"}
    BY DEF Needs
  <2>2. After("suspend", A) = A /\ After("awaitWorker", H) = H /\ After("resume", H) = H
    BY <1>4 DEF After, Keeps, Makes
  <2>3. QED
    BY <1>5, <2>1, <2>2 DEF Fits, G, H
<1>8. \A i \in 1 .. 5 : Fits(<<ops[i], s>>, t, w[i], w[i + 1])
  BY <1>7
<1>9. w[1] = M(d, A) /\ w[6] = M(d, B)
  OBVIOUS
<1> HIDE DEF w
<1>10. /\ Len(Ops(s, ops)) = 5
       /\ \A i \in 1 .. 5 : Ops(s, ops)[i] = <<ops[i], s>>
  BY <1>1, OpsType
<1> HIDE DEF ops
<1>11. Runs(Ops(s, ops), t, M(d, A), M(d, B))
  <2> HIDE DEF M
  <2>1. /\ w \in [1 .. Len(Ops(s, ops)) + 1 -> Mark]
        /\ w[1] = M(d, A) /\ w[Len(Ops(s, ops)) + 1] = M(d, B)
        /\ \A i \in 1 .. Len(Ops(s, ops)) : Fits(Ops(s, ops)[i], t, w[i], w[i + 1])
    BY <1>6, <1>8, <1>9, <1>10
  <2>2. QED
    BY <2>1 DEF Runs
<1>12. QED
  BY <1>11

LEMMA Flow1 ==
    ASSUME NEW s \in Sessions, NEW o1,
           NEW A0, NEW A1,
           Leads(o1, A0, A1)
    PROVE  /\ Ops(s, <<o1>>) \in Seq(Call)
           /\ Flows(Ops(s, <<o1>>), s, A0, A1)
<1> DEFINE ops == <<o1>>
           f == <<A0, A1>>
<1>1. ops \in Seq(Op) /\ Len(ops) = 1 /\ ops[1] = o1
  BY DEF Leads, Flat
<1>2. f \in [1 .. 2 -> SUBSET Fact] /\ f[1] = A0 /\ f[2] = A1
  BY DEF Leads
<1> HIDE DEF ops, f
<1>3. /\ f \in [1 .. Len(ops) + 1 -> SUBSET Fact]
      /\ \A i \in 1 .. Len(ops) : Leads(ops[i], f[i], f[i + 1])
  BY <1>1, <1>2
<1>4. Flows(Ops(s, ops), s, f[1], f[Len(ops) + 1])
  <2>1. ops \in Seq(Op)
    BY <1>1
  <2>2. QED
    BY <1>3, <2>1, FlatFlow
<1>5. Ops(s, ops) \in Seq(Call)
  BY <1>1, OpsType
<1>6. QED
  BY <1>1, <1>2, <1>4, <1>5 DEF ops

LEMMA Flow2 ==
    ASSUME NEW s \in Sessions, NEW o1, NEW o2,
           NEW A0, NEW A1, NEW A2,
           Leads(o1, A0, A1),
           Leads(o2, A1, A2)
    PROVE  /\ Ops(s, <<o1, o2>>) \in Seq(Call)
           /\ Flows(Ops(s, <<o1, o2>>), s, A0, A2)
<1> DEFINE ops == <<o1, o2>>
           f == <<A0, A1, A2>>
<1>1. ops \in Seq(Op) /\ Len(ops) = 2 /\ ops[1] = o1 /\ ops[2] = o2
  BY DEF Leads, Flat
<1>2. f \in [1 .. 3 -> SUBSET Fact] /\ f[1] = A0 /\ f[2] = A1 /\ f[3] = A2
  BY DEF Leads
<1> HIDE DEF ops, f
<1>3. /\ f \in [1 .. Len(ops) + 1 -> SUBSET Fact]
      /\ \A i \in 1 .. Len(ops) : Leads(ops[i], f[i], f[i + 1])
  BY <1>1, <1>2
<1>4. Flows(Ops(s, ops), s, f[1], f[Len(ops) + 1])
  <2>1. ops \in Seq(Op)
    BY <1>1
  <2>2. QED
    BY <1>3, <2>1, FlatFlow
<1>5. Ops(s, ops) \in Seq(Call)
  BY <1>1, OpsType
<1>6. QED
  BY <1>1, <1>2, <1>4, <1>5 DEF ops

LEMMA Flow3 ==
    ASSUME NEW s \in Sessions, NEW o1, NEW o2, NEW o3,
           NEW A0, NEW A1, NEW A2, NEW A3,
           Leads(o1, A0, A1),
           Leads(o2, A1, A2),
           Leads(o3, A2, A3)
    PROVE  /\ Ops(s, <<o1, o2, o3>>) \in Seq(Call)
           /\ Flows(Ops(s, <<o1, o2, o3>>), s, A0, A3)
<1> DEFINE ops == <<o1, o2, o3>>
           f == <<A0, A1, A2, A3>>
<1>1. ops \in Seq(Op) /\ Len(ops) = 3 /\ ops[1] = o1 /\ ops[2] = o2 /\ ops[3] = o3
  BY DEF Leads, Flat
<1>2. f \in [1 .. 4 -> SUBSET Fact] /\ f[1] = A0 /\ f[2] = A1 /\ f[3] = A2 /\ f[4] = A3
  BY DEF Leads
<1> HIDE DEF ops, f
<1>3. /\ f \in [1 .. Len(ops) + 1 -> SUBSET Fact]
      /\ \A i \in 1 .. Len(ops) : Leads(ops[i], f[i], f[i + 1])
  BY <1>1, <1>2
<1>4. Flows(Ops(s, ops), s, f[1], f[Len(ops) + 1])
  <2>1. ops \in Seq(Op)
    BY <1>1
  <2>2. QED
    BY <1>3, <2>1, FlatFlow
<1>5. Ops(s, ops) \in Seq(Call)
  BY <1>1, OpsType
<1>6. QED
  BY <1>1, <1>2, <1>4, <1>5 DEF ops

LEMMA Flow4 ==
    ASSUME NEW s \in Sessions, NEW o1, NEW o2, NEW o3, NEW o4,
           NEW A0, NEW A1, NEW A2, NEW A3, NEW A4,
           Leads(o1, A0, A1),
           Leads(o2, A1, A2),
           Leads(o3, A2, A3),
           Leads(o4, A3, A4)
    PROVE  /\ Ops(s, <<o1, o2, o3, o4>>) \in Seq(Call)
           /\ Flows(Ops(s, <<o1, o2, o3, o4>>), s, A0, A4)
<1> DEFINE ops == <<o1, o2, o3, o4>>
           f == <<A0, A1, A2, A3, A4>>
<1>1. ops \in Seq(Op) /\ Len(ops) = 4 /\ ops[1] = o1 /\ ops[2] = o2 /\ ops[3] = o3 /\ ops[4] = o4
  BY DEF Leads, Flat
<1>2. f \in [1 .. 5 -> SUBSET Fact] /\ f[1] = A0 /\ f[2] = A1 /\ f[3] = A2 /\ f[4] = A3 /\ f[5] = A4
  BY DEF Leads
<1> HIDE DEF ops, f
<1>3. /\ f \in [1 .. Len(ops) + 1 -> SUBSET Fact]
      /\ \A i \in 1 .. Len(ops) : Leads(ops[i], f[i], f[i + 1])
  BY <1>1, <1>2
<1>4. Flows(Ops(s, ops), s, f[1], f[Len(ops) + 1])
  <2>1. ops \in Seq(Op)
    BY <1>1
  <2>2. QED
    BY <1>3, <2>1, FlatFlow
<1>5. Ops(s, ops) \in Seq(Call)
  BY <1>1, OpsType
<1>6. QED
  BY <1>1, <1>2, <1>4, <1>5 DEF ops

LEMMA Flow7 ==
    ASSUME NEW s \in Sessions, NEW o1, NEW o2, NEW o3, NEW o4, NEW o5, NEW o6, NEW o7,
           NEW A0, NEW A1, NEW A2, NEW A3, NEW A4, NEW A5, NEW A6, NEW A7,
           Leads(o1, A0, A1),
           Leads(o2, A1, A2),
           Leads(o3, A2, A3),
           Leads(o4, A3, A4),
           Leads(o5, A4, A5),
           Leads(o6, A5, A6),
           Leads(o7, A6, A7)
    PROVE  /\ Ops(s, <<o1, o2, o3, o4, o5, o6, o7>>) \in Seq(Call)
           /\ Flows(Ops(s, <<o1, o2, o3, o4, o5, o6, o7>>), s, A0, A7)
<1> DEFINE ops == <<o1, o2, o3, o4, o5, o6, o7>>
           f == <<A0, A1, A2, A3, A4, A5, A6, A7>>
<1>1. ops \in Seq(Op) /\ Len(ops) = 7 /\ ops[1] = o1 /\ ops[2] = o2 /\ ops[3] = o3 /\ ops[4] = o4
      /\ ops[5] = o5 /\ ops[6] = o6 /\ ops[7] = o7
  BY DEF Leads, Flat
<1>2. f \in [1 .. 8 -> SUBSET Fact] /\ f[1] = A0 /\ f[2] = A1 /\ f[3] = A2 /\ f[4] = A3
      /\ f[5] = A4 /\ f[6] = A5 /\ f[7] = A6 /\ f[8] = A7
  BY DEF Leads
<1> HIDE DEF ops, f
<1>3. /\ f \in [1 .. Len(ops) + 1 -> SUBSET Fact]
      /\ \A i \in 1 .. Len(ops) : Leads(ops[i], f[i], f[i + 1])
  BY <1>1, <1>2
<1>4. Flows(Ops(s, ops), s, f[1], f[Len(ops) + 1])
  <2>1. ops \in Seq(Op)
    BY <1>1
  <2>2. QED
    BY <1>3, <2>1, FlatFlow
<1>5. Ops(s, ops) \in Seq(Call)
  BY <1>1, OpsType
<1>6. QED
  BY <1>1, <1>2, <1>4, <1>5 DEF ops


\* The end of a conversion, by what is known before
Stopped(s, A) ==
    (A \cap {"live", "bare", "resolved"})
        \cup {f \in {"undeferred"} : "resolved" \in A}
        \cup {f \in {"rest"} : "rest" \in A /\ ("bare" \in A \/ ~secure[s])}

LEMMA StopFlow ==
    ASSUME NEW s \in Sessions, NEW A \in SUBSET Fact, "live" \in A,
           NEW B \in SUBSET Fact, B \subseteq Stopped(s, A)
    PROVE  Stop(s) \in Seq(Call) /\ Flows(Stop(s), s, A, B)
<1>1. CASE secure[s]
  <2>1. B \subseteq Purged(A)
    BY <1>1 DEF Stopped, Purged
  <2>2. QED
    BY <1>1, <2>1, PurgeFlow DEF Stop
<1>2. CASE ~secure[s]
  <2>1. Leads("stop", A, B)
    BY <1>2 DEF Leads, Flat, Op, Needs, After, Keeps, Makes, Stopped
  <2>2. QED
    BY <1>2, <2>1, Flow1 DEF Stop
<1>3. QED
  BY <1>1, <1>2

------------------------------------------------------------------------------
(* What one call changes                                                   *)

SpecState ==
    [kind : {"idle", "pending", "ready", "frozen"}, work : Nat,
     context : [revision : Nat, learning : Nat],
     step : {"none", "plain", "learnable"}]

LEMMA StateTypes ==
    /\ Idle \in SpecState
    /\ \A r \in Nat, l \in Nat, step \in {"none", "plain", "learnable"} :
        Frozen(r, l, step) \in SpecState
    /\ \A w \in Nat, r \in Nat, l \in Nat,
          kind \in {"pending", "ready"}, step \in {"none", "plain", "learnable"} :
        State(kind, w, Context(r, l), step) \in SpecState
    /\ \A state \in SpecState :
        /\ Discarded(state) \in SpecState
        /\ Discarded(state).kind = state.kind
        /\ Discarded(state).context.revision = state.context.revision
        /\ state.kind # "frozen" => Discarded(state) = state
        /\ state.kind = "frozen" => Discarded(state).step = "none"
  BY DEF SpecState, Idle, Frozen, State, NoContext, Context, Discarded

\* The fence of s, and the marks that go with it, are given up
LEMMA Took ==
    ASSUME TypeOK, FencesOwned, NEW s \in Sessions, ConverterInv(s),
           NEW state \in SpecState, Take(s, state)
    PROVE  /\ speculation' \in [Sessions -> SpecState]
           /\ candidateFence' \in [Sessions -> Nat]
           /\ published' \in [Sessions -> BOOLEAN] /\ deferred' \in [Sessions -> BOOLEAN]
           /\ fences' \subseteq Nat \ {NoFence}
           /\ speculation'[s] = Discarded(state) /\ candidateFence'[s] = NoFence
           /\ ~published'[s] /\ ~deferred'[s]
           /\ \A u \in Sessions \ {s} :
                /\ speculation'[u] = speculation[u]
                /\ candidateFence'[u] = candidateFence[u]
                /\ published'[u] = published[u] /\ deferred'[u] = deferred[u]
           /\ UNCHANGED <<workerFence, scoped>> => FencesOwned'
<1>1. Discarded(state) \in SpecState
  BY StateTypes
<1>2. /\ speculation \in [Sessions -> SpecState]
      /\ candidateFence \in [Sessions -> Nat]
      /\ published \in [Sessions -> BOOLEAN] /\ deferred \in [Sessions -> BOOLEAN]
      /\ fences \subseteq Nat \ {NoFence}
  BY DEF TypeOK, SpecState
<1>3. /\ speculation' = [speculation EXCEPT ![s] = Discarded(state)]
      /\ candidateFence' = [candidateFence EXCEPT ![s] = NoFence]
      /\ published' = [published EXCEPT ![s] = published[s] /\ candidateFence[s] = NoFence]
      /\ deferred' = [deferred EXCEPT ![s] = deferred[s] /\ candidateFence[s] = NoFence]
      /\ fences' = fences \ {candidateFence[s]}
  BY DEF Take, Set
<1>4. published[s] \/ deferred[s] => candidateFence[s] # NoFence
  BY DEF ConverterInv
<1>5. UNCHANGED <<workerFence, scoped>> => FencesOwned'
  <2> SUFFICES ASSUME UNCHANGED <<workerFence, scoped>> PROVE FencesOwned'
    OBVIOUS
  <2>1. NoFence \in Nat /\ ToSet(scoped)' = ToSet(scoped) /\ IsInjective(scoped)'
    BY DEF NoFence, ToSet, IsInjective, FencesOwned
  <2>2. candidateFence'[s] = NoFence
        /\ \A u \in Sessions \ {s} : candidateFence'[u] = candidateFence[u]
    BY <1>2, <1>3
  <2>3. fences' = ({candidateFence'[u] : u \in Sessions} \cup {workerFence} \cup ToSet(scoped))
                    \ {NoFence}
    BY <1>2, <1>3, <2>2 DEF FencesOwned
  <2>4. QED
    BY <2>1, <2>2, <2>3 DEF FencesOwned
<1>6. QED
  BY <1>1, <1>2, <1>3, <1>4, <1>5 DEF NoFence

LEMMA Kept ==
    ASSUME TypeOK, FencesOwned, NEW s \in Sessions,
           NEW state \in SpecState, Keep(s, state)
    PROVE  /\ speculation' \in [Sessions -> SpecState]
           /\ speculation'[s] = state
           /\ \A u \in Sessions \ {s} : speculation'[u] = speculation[u]
           /\ UNCHANGED <<candidateFence, published, deferred, fences>>
           /\ UNCHANGED <<workerFence, scoped>> => FencesOwned'
<1>1. speculation \in [Sessions -> SpecState]
  BY DEF TypeOK, SpecState
<1>2. speculation' = [speculation EXCEPT ![s] = state]
      /\ UNCHANGED <<candidateFence, published, deferred, fences>>
  BY DEF Keep, Set, fenceState
<1>3. QED
  BY <1>1, <1>2 DEF FencesOwned

\* Nothing but the todo list, and what belongs to s, is changed by a call of s
LEMMA CallInv ==
    ASSUME Inv, NEW s \in Sessions, NEW op, Calls(op, s), Framed(s),
           TypeOK', FencesOwned', todo' \in Seq(Call), ConverterInv(s)',
           UNCHANGED <<scoped, lock>>, candidateFence'[s] \in {candidateFence[s], NoFence},
           status'[s] = "gone" => status[s] = "gone",
           \A t \in Sessions : Outlined(t)'
    PROVE  Inv'
<1>1. GateInv'
  BY DEF Inv, GateInv, Framed
<1>2. ASSUME NEW u \in Sessions \ {s} PROVE ConverterInv(u)'
  <2>1. ConverterInv(u)
    BY DEF Inv
  <2>2. ~dirty[u]
    BY <2>1 DEF ConverterInv, Calls
  <2>3. QED
    BY <2>1, <2>2 DEF ConverterInv, Framed, Clean
<1>3. QED
  BY <1>1, <1>2 DEF Inv, HybridInv

\* The image of a finite set is finite
LEMMA FiniteImage ==
    ASSUME NEW S, IsFiniteSet(S), NEW T, NEW f \in [S -> T],
           \A y \in T : \E x \in S : f[x] = y
    PROVE  IsFiniteSet(T)
<1>1. f \in Surjection(S, T)
  BY DEF Surjection
<1>2. QED
  BY <1>1, FS_Surjection

LEMMA FiniteSequence ==
    ASSUME NEW S, NEW q \in Seq(S)
    PROVE  IsFiniteSet(ToSet(q))
<1>1. Len(q) \in Nat /\ q \in [1 .. Len(q) -> ToSet(q)]
      /\ \A y \in ToSet(q) : \E x \in 1 .. Len(q) : q[x] = y
  BY DEF ToSet
<1>2. IsFiniteSet(1 .. Len(q))
  <2>1. \A n \in Int : IsFiniteSet(1 .. n)
    BY FS_Interval
  <2>2. QED
    BY <1>1, <2>1
<1>3. QED
  BY <1>1, <1>2, FiniteImage

LEMMA NewNumbers ==
    ASSUME TypeOK, NEW s \in Sessions
    PROVE  NewWork(s) \in Nat /\ NewRevision(s) \in Nat /\ NewLearning \in Nat
<1>1. NewWork(s) \in Nat
  <2> DEFINE jobs == {k \in ToSet(queue) \cup {job} : k.session = s}
             works == {j.work : j \in jobs}
             f == [j \in jobs |-> j.work]
  <2>1. IsFiniteSet(ToSet(queue)) /\ IsFiniteSet({job})
    BY FiniteSequence, FS_Singleton DEF TypeOK
  <2>2. IsFiniteSet(ToSet(queue) \cup {job})
    BY <2>1, FS_Union
  <2>3. jobs \in SUBSET (ToSet(queue) \cup {job})
    OBVIOUS
  <2> HIDE DEF jobs
  <2>4. IsFiniteSet(jobs)
    BY <2>2, <2>3, FS_Subset
  <2>5. f \in [jobs -> works] /\ \A y \in works : \E x \in jobs : f[x] = y
    OBVIOUS
  <2> HIDE DEF f, works
  <2>6. IsFiniteSet(works)
    BY <2>4, <2>5, FiniteImage
  <2>7. Unused(1, works) \in Nat
    BY <2>6, UnusedFresh
  <2>8. QED
    BY <2>7 DEF NewWork, jobs, works
<1>2. NewRevision(s) \in Nat
  <2>1. IsFiniteSet(IF job.session = s THEN {context.revision} ELSE {})
    BY FS_Singleton, FS_EmptySet
  <2>2. QED
    BY <2>1, UnusedFresh DEF NewRevision
<1>3. NewLearning \in Nat
  <2> DEFINE known == {speculation[u].context.learning : u \in Sessions}
             f == [u \in Sessions |-> speculation[u].context.learning]
  <2>1. f \in [Sessions -> known] /\ \A y \in known : \E x \in Sessions : f[x] = y
    OBVIOUS
  <2> HIDE DEF f, known
  <2>2. IsFiniteSet(Sessions)
    BY HybridAssumption
  <2>3. IsFiniteSet(known)
    BY <2>1, <2>2, FiniteImage
  <2>4. IsFiniteSet({context.learning} \cup known)
    BY <2>3, FS_Singleton, FS_Union
  <2>5. Unused(0, {context.learning} \cup known) \in Nat
    BY <2>4, UnusedFresh
  <2>6. QED
    BY <2>5 DEF NewLearning, known
<1>4. QED
  BY <1>1, <1>2, <1>3

LEMMA NewFenceFresh ==
    ASSUME TypeOK, FencesOwned
    PROVE  NewFence \in Nat \ {NoFence} /\ NewFence \notin fences
<1> DEFINE held == {candidateFence[u] : u \in Sessions}
<1>1. candidateFence \in [Sessions -> held]
      /\ \A y \in held : \E x \in Sessions : candidateFence[x] = y
  BY DEF TypeOK
<1> HIDE DEF held
<1>2. IsFiniteSet(Sessions)
  BY HybridAssumption
<1>3. IsFiniteSet(held)
  BY <1>1, <1>2, FiniteImage
<1>4. IsFiniteSet({workerFence}) /\ IsFiniteSet(ToSet(scoped))
  BY FiniteSequence, FS_Singleton DEF TypeOK
<1>5. IsFiniteSet(held \cup {workerFence} \cup ToSet(scoped))
  BY <1>3, <1>4, FS_Union
<1>6. fences \in SUBSET (held \cup {workerFence} \cup ToSet(scoped))
  BY DEF FencesOwned, held
<1>7. IsFiniteSet(fences)
  BY <1>5, <1>6, FS_Subset
<1>8. NewFence \in Nat /\ NewFence >= 1 /\ NewFence \notin fences
  BY <1>7, UnusedFresh DEF NewFence
<1>9. QED
  BY <1>8 DEF NoFence

------------------------------------------------------------------------------
(* The calls, one by one                                                   *)

\* What holds before a call of s
LEMMA AtCall ==
    ASSUME Inv, NEW s \in Sessions, NEW op, Calls(op, s)
    PROVE  /\ TypeOK /\ FencesOwned /\ ConverterInv(s) /\ status[s] = "live"
           /\ todo \in Seq(Call) /\ todo # <<>> /\ Tail(todo) \in Seq(Call)
           /\ op # "commitLearning" => ~dirty[s]
           /\ speculation[s] \in SpecState
           /\ \E A \in SUBSET Fact : Meets(A, s) /\ Needs(op) \subseteq A
<1>1. PICK A \in SUBSET Fact, k \in Mark : Meets(A, s) /\ Fits(<<op, s>>, s, MarkOf(A), k)
  BY CallMarks
<1>2. Needs(op) \subseteq A
  BY <1>1 DEF Fits, MarkOf
<1>3. status[s] = "live"
  BY <1>1, <1>2 DEF Needs, Meets
<1>4. TypeOK /\ FencesOwned /\ ConverterInv(s) /\ todo \in Seq(Call) /\ todo # <<>>
  BY DEF Inv, HybridInv, Calls
<1>5. Tail(todo) \in Seq(Call)
  BY <1>4
<1>6. op # "commitLearning" => ~dirty[s]
  BY <1>4 DEF ConverterInv, Calls
<1>7. speculation[s] \in SpecState
  BY <1>4 DEF TypeOK, SpecState
<1>8. QED
  BY <1>1, <1>2, <1>3, <1>4, <1>5, <1>6, <1>7

\* The fences after a call of s that takes no new one
Rebound(s) ==
    /\ speculation' \in [Sessions -> SpecState]
    /\ candidateFence' \in [Sessions -> Nat]
    /\ published' \in [Sessions -> BOOLEAN] /\ deferred' \in [Sessions -> BOOLEAN]
    /\ fences' \subseteq Nat \ {NoFence}
    /\ FencesOwned'
    /\ candidateFence'[s] \in {candidateFence[s], NoFence}
    /\ \A u \in Sessions \ {s} :
        /\ speculation'[u] = speculation[u] /\ candidateFence'[u] = candidateFence[u]
        /\ published'[u] = published[u] /\ deferred'[u] = deferred[u]

\* The types of what is not about fences
OtherTypes ==
    /\ staged \in [Sessions -> BOOLEAN] /\ dirty \in [Sessions -> BOOLEAN]
    /\ holds \in [Sessions -> BOOLEAN] /\ pending \in [Sessions -> BOOLEAN]
    /\ phase \in [Sessions -> {"idle", "composing", "inside", "converted"}]
    /\ revision \in [Sessions -> Nat] /\ learning \in Nat
    /\ window \in [Sessions -> {"none", "mozc", "learnable"}]
    /\ secure \in [Sessions -> BOOLEAN] /\ field \in [Sessions -> BOOLEAN]
    /\ status \in [Sessions -> {"gone", "live", "dropped"}]
    /\ lock \in {"free", "main", "worker"}
    /\ queue \in Seq([session : Sessions, work : Nat])
    /\ job \in [session : Sessions \cup {NoSession}, work : Nat]
    /\ context \in [revision : Nat, learning : Nat]
    /\ result \in {"none", "failed", "plain", "learnable", "stale"}
    /\ workerFence \in Nat /\ scoped \in Seq(Nat)

LEMMA ReboundTypes ==
    ASSUME NEW s, Rebound(s), OtherTypes'
    PROVE  TypeOK'
  BY DEF Rebound, OtherTypes, TypeOK, SpecState

\* Take and Keep, by what becomes of the session
Freed(s) == candidateFence'[s] = NoFence /\ ~published'[s] /\ ~deferred'[s]
Same(s) ==
    /\ candidateFence'[s] = candidateFence[s]
    /\ published'[s] = published[s] /\ deferred'[s] = deferred[s]

LEMMA Freeing ==
    ASSUME TypeOK, FencesOwned, NEW s \in Sessions, ConverterInv(s),
           NEW state \in SpecState, Take(s, state), UNCHANGED <<workerFence, scoped>>
    PROVE  Rebound(s) /\ Freed(s) /\ speculation'[s] = Discarded(state)
  BY Took DEF Rebound, Freed

LEMMA Keeping ==
    ASSUME TypeOK, FencesOwned, NEW s \in Sessions,
           NEW state \in SpecState, Keep(s, state), UNCHANGED <<workerFence, scoped>>
    PROVE  Rebound(s) /\ Same(s) /\ speculation'[s] = state
  BY Kept DEF Rebound, Same, TypeOK

LEMMA Untouched ==
    ASSUME TypeOK, FencesOwned, NEW s \in Sessions,
           UNCHANGED <<speculation, candidateFence, published, deferred, fences,
                       workerFence, scoped>>
    PROVE  Rebound(s) /\ Same(s)
<1>1. FencesOwned'
  BY DEF FencesOwned
<1>2. QED
  BY <1>1 DEF Rebound, Same, TypeOK, SpecState

\* A call that only returns keeps the invariant when it does so for its session
LEMMA PlainInv ==
    ASSUME Inv, NEW s \in Sessions, NEW op \in Flat, Calls(op, s), Framed(s),
           TypeOK', Rebound(s), UNCHANGED <<scoped, lock>>, todo' = Tail(todo),
           ConverterInv(s)', status'[s] = "gone" => status[s] = "gone",
           ASSUME NEW A \in SUBSET Fact, Meets(A, s), Needs(op) \subseteq A
           PROVE  Meets(After(op, A), s)'
    PROVE  Inv'
<1>1. \A t \in Sessions : Outlined(t)'
  BY PlainStep
<1>2. todo' \in Seq(Call)
  BY AtCall
<1>3. QED
  BY <1>1, <1>2, CallInv DEF Rebound

LEMMA InvalidateStep ==
    ASSUME Inv, NEW s \in Sessions, Invalidate(s)
    PROVE  Inv'
<1> DEFINE op == "invalidate"
<1>1. Calls(op, s) /\ op \in Flat /\ todo' = Tail(todo) /\ UNCHANGED <<scoped, lock>>
  BY DEF Invalidate, Flat, Op, Return
<1>2. TypeOK /\ FencesOwned /\ ConverterInv(s) /\ ~dirty[s] /\ status[s] = "live"
  BY <1>1, AtCall
<1>3. /\ Rebound(s) /\ speculation'[s] = Idle
      /\ Same(s) \/ (Freed(s) /\ ~published[s] /\ ~staged[s])
  <2>1. UNCHANGED <<workerFence, scoped>> /\ Idle \in SpecState /\ Discarded(Idle) = Idle
    BY StateTypes DEF Invalidate, jobVars, Discarded, Idle, State
  <2>2. CASE published[s] \/ staged[s]
    BY <1>2, <2>1, <2>2, Keeping DEF Invalidate, Unless
  <2>3. CASE ~(published[s] \/ staged[s])
    BY <1>2, <2>1, <2>3, Freeing DEF Invalidate, Unless
  <2>4. QED
    BY <2>2, <2>3
<1>4. /\ revision' = [revision EXCEPT ![s] = NewRevision(s)] /\ NewRevision(s) \in Nat
      /\ UNCHANGED <<staged, dirty, pending, learning, phase, window, secure, field, status,
                     holds,
                     queue, at, job, context, result, workerFence>>
  BY <1>2, NewNumbers DEF Invalidate, Set, learnState, domain, jobVars
<1>5. TypeOK' /\ Framed(s)
  <2>1. OtherTypes'
    BY <1>1, <1>2, <1>4 DEF TypeOK, OtherTypes
  <2>2. TypeOK'
    BY <1>3, <2>1, ReboundTypes
  <2>3. \A u \in Sessions \ {s} : revision'[u] = revision[u]
    BY <1>2, <1>4 DEF TypeOK
  <2>4. Framed(s)
    BY <1>3, <1>4, <2>3 DEF Framed, Rebound
  <2>5. QED
    BY <2>2, <2>4
<1>6. ConverterInv(s)'
  BY <1>1, <1>2, <1>3, <1>4 DEF ConverterInv, Same, Freed, Clean, Idle, State
<1>7. ASSUME NEW A \in SUBSET Fact, Meets(A, s), Needs(op) \subseteq A
      PROVE  Meets(After(op, A), s)'
  <2>1. After(op, A) \subseteq A \cap {"live", "rest", "bare", "resolved", "undeferred"}
    BY DEF After, Keeps, Makes
  <2>2. QED
    BY <1>3, <1>4, <1>7, <2>1 DEF Meets, Rest, Same, Freed
<1>8. QED
  BY <1>1, <1>2, <1>3, <1>4, <1>5, <1>6, <1>7, PlainInv

LEMMA InvalidateForCommitStep ==
    ASSUME Inv, NEW s \in Sessions, InvalidateForCommit(s)
    PROVE  Inv'
<1> DEFINE op == "invalidateForCommit"
<1>1. Calls(op, s) /\ op \in Flat /\ todo' = Tail(todo) /\ UNCHANGED <<scoped, lock>>
  BY DEF InvalidateForCommit, Flat, Op, Return
<1>2. TypeOK /\ FencesOwned /\ ConverterInv(s) /\ ~dirty[s] /\ status[s] = "live"
  BY <1>1, AtCall
<1>3. /\ revision' = [revision EXCEPT ![s] = NewRevision(s)] /\ NewRevision(s) \in Nat
      /\ speculation' = [speculation EXCEPT ![s] = Idle]
      /\ deferred' = [deferred EXCEPT ![s] = deferred[s] \/ candidateFence[s] # NoFence]
      /\ UNCHANGED <<candidateFence, published, fences, staged, dirty, pending, learning,
                     phase, window, secure, field, status, holds,
                     queue, at, job, context, result, workerFence>>
  BY <1>2, NewNumbers DEF InvalidateForCommit, Set, learnState, domain, jobVars
<1>4. Idle \in SpecState /\ speculation \in [Sessions -> SpecState]
  BY <1>2, StateTypes DEF TypeOK, SpecState
<1>5. Rebound(s)
  <2>1. FencesOwned'
    BY <1>1, <1>2, <1>3 DEF FencesOwned
  <2>2. /\ speculation' \in [Sessions -> SpecState]
        /\ \A u \in Sessions \ {s} : speculation'[u] = speculation[u]
    BY <1>3, <1>4
  <2>3. /\ deferred' \in [Sessions -> BOOLEAN]
        /\ \A u \in Sessions \ {s} : deferred'[u] = deferred[u]
    BY <1>2, <1>3 DEF TypeOK
  <2>4. QED
    BY <1>2, <1>3, <2>1, <2>2, <2>3 DEF Rebound, TypeOK
<1>6. TypeOK' /\ Framed(s)
  <2>1. OtherTypes'
    BY <1>1, <1>2, <1>3 DEF TypeOK, OtherTypes
  <2>2. TypeOK'
    BY <1>5, <2>1, ReboundTypes
  <2>3. \A u \in Sessions \ {s} : revision'[u] = revision[u]
    BY <1>2, <1>3 DEF TypeOK
  <2>4. Framed(s)
    BY <1>3, <1>5, <2>3 DEF Framed, Rebound
  <2>5. QED
    BY <2>2, <2>4
<1>7. ConverterInv(s)'
  BY <1>1, <1>2, <1>3, <1>4 DEF ConverterInv, Clean, Idle, State, TypeOK
<1>8. ASSUME NEW A \in SUBSET Fact, Meets(A, s), Needs(op) \subseteq A
      PROVE  Meets(After(op, A), s)'
  <2>1. After(op, A) \subseteq
            (A \cap {"live", "bare", "resolved"})
            \cup {f \in {"deferred"} : {"live", "learnable", "rest"} \subseteq A}
    BY DEF After, Keeps, Makes
  <2>2. "deferred" \in After(op, A) => deferred'[s]
    BY <1>2, <1>3, <1>8, <2>1 DEF Meets, Rest, ConverterInv, TypeOK
  <2>3. QED
    BY <1>3, <1>8, <2>1, <2>2 DEF Meets
<1>9. QED
  BY <1>1, <1>2, <1>3, <1>5, <1>6, <1>7, <1>8, PlainInv

LEMMA Retiring ==
    ASSUME TypeOK, FencesOwned, NEW s \in Sessions, ConverterInv(s), RetireWindow(s),
           UNCHANGED <<workerFence, scoped>>
    PROVE  /\ Rebound(s)
           /\ \/ ~published[s] /\ Same(s) /\ speculation'[s] = speculation[s]
              \/ /\ published[s] /\ ~published'[s] /\ deferred'[s] = deferred[s]
                 /\ candidateFence'[s] = candidateFence[s]
                 /\ speculation'[s] = Discarded(speculation[s])
              \/ /\ published[s] /\ ~staged[s] /\ ~deferred[s] /\ Freed(s)
                 /\ speculation'[s] = Discarded(speculation[s])
<1>1. speculation[s] \in SpecState /\ Discarded(speculation[s]) \in SpecState
  BY StateTypes DEF TypeOK, SpecState
<1>2. CASE ~published[s]
  BY <1>1, <1>2, Keeping DEF RetireWindow
<1>3. CASE published[s] /\ (staged[s] \/ deferred[s])
  <2>1. /\ published' = [published EXCEPT ![s] = FALSE]
        /\ speculation' = [speculation EXCEPT ![s] = Discarded(speculation[s])]
        /\ UNCHANGED <<candidateFence, deferred, fences>>
    BY <1>3 DEF RetireWindow, Set
  <2>2. speculation \in [Sessions -> SpecState]
    BY DEF TypeOK, SpecState
  <2>3. QED
    <3>1. FencesOwned'
      BY <2>1 DEF FencesOwned
    <3>2. /\ published' \in [Sessions -> BOOLEAN] /\ ~published'[s]
          /\ \A u \in Sessions \ {s} : published'[u] = published[u]
      BY <2>1 DEF TypeOK
    <3>3. /\ speculation' \in [Sessions -> SpecState]
          /\ speculation'[s] = Discarded(speculation[s])
          /\ \A u \in Sessions \ {s} : speculation'[u] = speculation[u]
      BY <1>1, <2>1, <2>2
    <3>4. Rebound(s)
      BY <2>1, <3>1, <3>2, <3>3 DEF Rebound, TypeOK
    <3>5. QED
      BY <1>3, <2>1, <3>2, <3>3, <3>4
<1>4. CASE published[s] /\ ~(staged[s] \/ deferred[s])
  BY <1>1, <1>4, Freeing DEF RetireWindow
<1>5. QED
  BY <1>2, <1>3, <1>4

\* A window that is retired leaves nothing without its fence
LEMMA RetiredInv ==
    ASSUME TypeOK, FencesOwned, NEW s \in Sessions, ConverterInv(s), RetireWindow(s),
           ~dirty[s], UNCHANGED <<revision, staged, dirty, pending, secure, field, status,
                                  holds,
                                  job, at, workerFence, scoped>>
    PROVE  ConverterInv(s)'
<1>1. speculation[s] \in SpecState
  BY DEF TypeOK, SpecState
<1>2. /\ Discarded(speculation[s]).kind = speculation[s].kind
      /\ Discarded(speculation[s]).context.revision = speculation[s].context.revision
      /\ speculation[s].kind # "frozen" => Discarded(speculation[s]) = speculation[s]
      /\ speculation[s].kind = "frozen" => Discarded(speculation[s]).step = "none"
  BY <1>1, StateTypes
<1>3. QED
  BY <1>2, Retiring DEF ConverterInv, Same, Freed, Clean

LEMMA RetireStep ==
    ASSUME Inv, NEW s \in Sessions, Retire(s)
    PROVE  Inv'
<1> DEFINE op == "retire"
<1>1. /\ Calls(op, s) /\ op \in Flat /\ todo' = Tail(todo) /\ RetireWindow(s)
      /\ window' = [window EXCEPT ![s] = "none"]
      /\ UNCHANGED <<scoped, lock, staged, dirty, pending, learning, phase, revision,
                     secure, field, status, holds, queue, at, job, context, result,
                     workerFence>>
  BY DEF Retire, Flat, Op, Return, Set, learnState, domain, jobVars
<1>2. TypeOK /\ FencesOwned /\ ConverterInv(s) /\ ~dirty[s]
  BY <1>1, AtCall
<1>3. Rebound(s) /\ (deferred'[s] => deferred[s])
  BY <1>1, <1>2, Retiring DEF Same, Freed
<1>4. TypeOK' /\ Framed(s)
  <2>1. OtherTypes'
    BY <1>1, <1>2 DEF TypeOK, OtherTypes
  <2>2. TypeOK'
    BY <1>3, <2>1, ReboundTypes
  <2>3. \A u \in Sessions \ {s} : window'[u] = window[u]
    BY <1>1, <1>2 DEF TypeOK
  <2>4. Framed(s)
    BY <1>1, <1>3, <2>3 DEF Framed, Rebound
  <2>5. QED
    BY <2>2, <2>4
<1>5. ConverterInv(s)'
  BY <1>1, <1>2, RetiredInv
<1>6. ASSUME NEW A \in SUBSET Fact, Meets(A, s), Needs(op) \subseteq A
      PROVE  Meets(After(op, A), s)'
  <2>1. After(op, A)
            \subseteq (A \cap {"live", "resolved", "undeferred", "clean"}) \cup {"rest", "bare"}
    BY DEF After, Keeps, Makes
  <2>2. window'[s] = "none"
    BY <1>1, <1>2 DEF TypeOK
  <2>3. ASSUME Clean(s), speculation[s].kind = "idle"
        PROVE  Clean(s)' /\ speculation'[s].kind = "idle"
    <3>1. ~published[s]
      BY <1>2, <2>3 DEF ConverterInv, Clean
    <3>2. Keep(s, speculation[s])
      BY <1>1, <3>1 DEF RetireWindow
    <3>3. speculation'[s] = speculation[s] /\ candidateFence'[s] = candidateFence[s]
      BY <1>2, <3>2 DEF Keep, Set, fenceState, TypeOK
    <3>4. QED
      BY <1>1, <2>3, <3>3 DEF Clean
  <2>4. QED
    BY <1>1, <1>3, <1>6, <2>1, <2>2, <2>3 DEF Meets, Rest
<1>7. QED
  BY <1>1, <1>3, <1>4, <1>5, <1>6, PlainInv

LEMMA RelabelStep ==
    ASSUME Inv, NEW s \in Sessions, Relabel(s)
    PROVE  Inv'
<1> DEFINE op == "relabel"
<1>1. /\ Calls(op, s) /\ op \in Flat /\ todo' = Tail(todo)
      /\ UNCHANGED <<scoped, lock, staged, dirty, pending, learning, phase, revision,
                     secure, field, status, holds, queue, at, job, context, result,
                     workerFence>>
  BY DEF Relabel, Flat, Op, Return, learnState, domain, jobVars
<1>2. TypeOK /\ FencesOwned /\ ConverterInv(s) /\ ~dirty[s] /\ speculation[s] \in SpecState
  BY <1>1, AtCall
<1>3. \/ Keep(s, speculation[s]) /\ UNCHANGED window
      \/ RetireWindow(s) /\ window' = [window EXCEPT ![s] = "mozc"]
  BY DEF Relabel, Set
<1>4. /\ Rebound(s) /\ (deferred'[s] => deferred[s]) /\ ConverterInv(s)'
      /\ window' \in [Sessions -> {"none", "mozc", "learnable"}]
      /\ \A u \in Sessions \ {s} : window'[u] = window[u]
      /\ \/ window'[s] = window[s] /\ Same(s)
         \/ window'[s] = "mozc"
  <2>1. CASE Keep(s, speculation[s]) /\ UNCHANGED window
    <3>1. Rebound(s) /\ Same(s) /\ speculation'[s] = speculation[s]
      BY <1>1, <1>2, <2>1, Keeping
    <3>2. ConverterInv(s)'
      BY <1>1, <1>2, <3>1 DEF Same, ConverterInv, Clean
    <3>3. /\ window' \in [Sessions -> {"none", "mozc", "learnable"}]
          /\ \A u \in Sessions \ {s} : window'[u] = window[u]
          /\ window'[s] = window[s]
      BY <1>2, <2>1 DEF TypeOK
    <3>4. QED
      BY <3>1, <3>2, <3>3 DEF Same
  <2>2. CASE RetireWindow(s) /\ window' = [window EXCEPT ![s] = "mozc"]
    <3>1. Rebound(s) /\ (deferred'[s] => deferred[s])
      BY <1>1, <1>2, <2>2, Retiring DEF Same, Freed
    <3>2. ConverterInv(s)'
      BY <1>1, <1>2, <2>2, RetiredInv
    <3>3. /\ window' \in [Sessions -> {"none", "mozc", "learnable"}]
          /\ \A u \in Sessions \ {s} : window'[u] = window[u]
          /\ window'[s] = "mozc"
      BY <1>2, <2>2 DEF TypeOK
    <3>4. QED
      BY <3>1, <3>2, <3>3
  <2>3. QED
    BY <1>3, <2>1, <2>2
<1>5. TypeOK' /\ Framed(s)
  BY <1>1, <1>2, <1>4 DEF TypeOK, SpecState, Framed, Rebound
<1>6. ASSUME NEW A \in SUBSET Fact, Meets(A, s), Needs(op) \subseteq A
      PROVE  Meets(After(op, A), s)'
  <2>1. After(op, A) \subseteq A \cap {"live", "rest", "bare", "resolved", "undeferred"}
    BY DEF After, Keeps, Makes
  <2>2. QED
    BY <1>1, <1>4, <1>6, <2>1 DEF Meets, Rest, Same
<1>7. QED
  BY <1>1, <1>4, <1>5, <1>6, PlainInv

LEMMA PresentStep ==
    ASSUME Inv, NEW s \in Sessions, Present(s)
    PROVE  Inv'
<1> DEFINE op == "present"
<1>1. /\ Calls(op, s) /\ op \in Flat /\ todo' = Tail(todo)
      /\ UNCHANGED <<scoped, lock, staged, dirty, pending, learning, phase, revision,
                     secure, field, status, holds, queue, at, job, context, result,
                     workerFence>>
  BY DEF Present, Flat, Op, Return, learnState, domain, jobVars
<1>2. TypeOK /\ FencesOwned /\ ConverterInv(s) /\ ~dirty[s] /\ speculation[s] \in SpecState
  BY <1>1, AtCall
<1>3. \/ Keep(s, speculation[s]) /\ window' = [window EXCEPT ![s] = "mozc"]
      \/ RetireWindow(s) /\ window' = [window EXCEPT ![s] = "none"]
  BY DEF Present, Set
<1>4. /\ Rebound(s) /\ (deferred'[s] => deferred[s]) /\ ConverterInv(s)'
      /\ window' \in [Sessions -> {"none", "mozc", "learnable"}]
      /\ \A u \in Sessions \ {s} : window'[u] = window[u]
      /\ window'[s] # "learnable"
  <2>1. CASE Keep(s, speculation[s]) /\ window' = [window EXCEPT ![s] = "mozc"]
    <3>1. Rebound(s) /\ Same(s) /\ speculation'[s] = speculation[s]
      BY <1>1, <1>2, <2>1, Keeping
    <3>2. ConverterInv(s)'
      BY <1>1, <1>2, <3>1 DEF Same, ConverterInv, Clean
    <3>3. /\ window' \in [Sessions -> {"none", "mozc", "learnable"}]
          /\ \A u \in Sessions \ {s} : window'[u] = window[u]
          /\ window'[s] # "learnable"
      BY <1>2, <2>1 DEF TypeOK
    <3>4. QED
      BY <3>1, <3>2, <3>3 DEF Same
  <2>2. CASE RetireWindow(s) /\ window' = [window EXCEPT ![s] = "none"]
    <3>1. Rebound(s) /\ (deferred'[s] => deferred[s])
      BY <1>1, <1>2, <2>2, Retiring DEF Same, Freed
    <3>2. ConverterInv(s)'
      BY <1>1, <1>2, <2>2, RetiredInv
    <3>3. /\ window' \in [Sessions -> {"none", "mozc", "learnable"}]
          /\ \A u \in Sessions \ {s} : window'[u] = window[u]
          /\ window'[s] # "learnable"
      BY <1>2, <2>2 DEF TypeOK
    <3>4. QED
      BY <3>1, <3>2, <3>3
  <2>3. QED
    BY <1>3, <2>1, <2>2
<1>5. TypeOK' /\ Framed(s)
  BY <1>1, <1>2, <1>4 DEF TypeOK, SpecState, Framed, Rebound
<1>6. ASSUME NEW A \in SUBSET Fact, Meets(A, s), Needs(op) \subseteq A
      PROVE  Meets(After(op, A), s)'
  <2>1. After(op, A) \subseteq A \cap {"live", "rest", "bare", "resolved", "undeferred"}
    BY DEF After, Keeps, Makes
  <2>2. QED
    BY <1>1, <1>4, <1>6, <2>1 DEF Meets, Rest
<1>7. QED
  BY <1>1, <1>4, <1>5, <1>6, PlainInv

\* A call that puts calls before what is left
LEMMA InsertInv ==
    ASSUME Inv, NEW s \in Sessions, NEW op \in Flat, Calls(op, s), Framed(s),
           TypeOK', Rebound(s), UNCHANGED <<scoped, lock>>,
           NEW calls \in Seq(Call), todo' = calls \o Tail(todo),
           ConverterInv(s)', status'[s] = "gone" => status[s] = "gone",
           ASSUME NEW A \in SUBSET Fact, Meets(A, s), Needs(op) \subseteq A,
                  NEW B \in SUBSET Fact, B \subseteq After(op, A)
           PROVE  \E D \in SUBSET Fact : Meets(D, s)' /\ Flows(calls, s, D, B)
    PROVE  Inv'
<1>1. \A t \in Sessions : Outlined(t)'
  BY InsertStep
<1>2. Tail(todo) \in Seq(Call)
  BY AtCall
<1>3. todo' \in Seq(Call)
  BY <1>2
<1>4. QED
  BY <1>1, <1>3, CallInv DEF Rebound

LEMMA StopRetire ==
    ASSUME NEW s \in Sessions, NEW B \in SUBSET {"live", "rest", "bare"}
    PROVE  /\ Stop(s) \o Ops(s, <<"retire">>) \in Seq(Call)
           /\ Flows(Stop(s) \o Ops(s, <<"retire">>), s, {"live"}, B)
<1>1. {"live"} \in SUBSET Fact /\ B \in SUBSET Fact /\ {"live"} \subseteq Stopped(s, {"live"})
  BY DEF Fact, Stopped
<1>2. Stop(s) \in Seq(Call) /\ Flows(Stop(s), s, {"live"}, {"live"})
  BY <1>1, StopFlow
<1>3. Leads("retire", {"live"}, B)
  BY <1>1 DEF Leads, Flat, Op, Needs, After, Keeps, Makes
<1>4. Ops(s, <<"retire">>) \in Seq(Call) /\ Flows(Ops(s, <<"retire">>), s, {"live"}, B)
  BY <1>3, Flow1
<1>5. QED
  BY <1>2, <1>4, FlowsConcat

LEMMA ExternalStep ==
    ASSUME Inv, NEW s \in Sessions, External(s)
    PROVE  Inv'
<1> DEFINE op == "external"
           shown == window[s] # "none"
           calls == When(shown, Stop(s) \o Ops(s, <<"retire">>))
<1>1. Calls(op, s) /\ op \in Flat /\ todo' = calls \o Tail(todo) /\ UNCHANGED <<scoped, lock>>
  BY DEF External, Flat, Op
<1>2. TypeOK /\ FencesOwned /\ ConverterInv(s) /\ ~dirty[s] /\ status[s] = "live"
  BY <1>1, AtCall
<1>3. /\ Rebound(s) /\ speculation'[s] = Idle
      /\ Same(s) \/ (Freed(s) /\ ~published[s] /\ ~staged[s])
  <2>1. UNCHANGED <<workerFence, scoped>> /\ Idle \in SpecState /\ Discarded(Idle) = Idle
    BY StateTypes DEF External, jobVars, Discarded, Idle, State
  <2>2. CASE published[s] \/ staged[s]
    BY <1>2, <2>1, <2>2, Keeping DEF External, Unless
  <2>3. CASE ~(published[s] \/ staged[s])
    BY <1>2, <2>1, <2>3, Freeing DEF External, Unless
  <2>4. QED
    BY <2>2, <2>3
<1>4. /\ revision' = [revision EXCEPT ![s] = NewRevision(s)] /\ NewRevision(s) \in Nat
      /\ phase' = [phase EXCEPT ![s] = IF shown THEN Editable(s) ELSE phase[s]]
      /\ UNCHANGED <<staged, dirty, pending, learning, window, secure, field, status, holds,
                     queue, at, job, context, result, workerFence>>
  BY <1>2, NewNumbers DEF External, Set, learnState, domain, jobVars
<1>5. TypeOK' /\ Framed(s)
  <2>1. phase' \in [Sessions -> {"idle", "composing", "inside", "converted"}]
    BY <1>2, <1>4 DEF TypeOK, Editable
  <2>2. revision' \in [Sessions -> Nat]
        /\ \A u \in Sessions \ {s} : revision'[u] = revision[u]
    BY <1>2, <1>4 DEF TypeOK
  <2>3. TypeOK'
    BY <1>1, <1>2, <1>3, <1>4, <2>1, <2>2 DEF TypeOK, SpecState, Rebound
  <2>4. Framed(s)
    BY <1>3, <1>4, <2>2 DEF Framed, Rebound
  <2>5. QED
    BY <2>3, <2>4
<1>6. ConverterInv(s)'
  BY <1>1, <1>2, <1>3, <1>4 DEF ConverterInv, Same, Freed, Clean, Idle, State
<1>7. calls \in Seq(Call)
  BY StopRetire DEF When
<1>8. ASSUME NEW A \in SUBSET Fact, Meets(A, s), Needs(op) \subseteq A,
             NEW B \in SUBSET Fact, B \subseteq After(op, A)
      PROVE  \E D \in SUBSET Fact : Meets(D, s)' /\ Flows(calls, s, D, B)
  <2>1. B \subseteq {"live", "rest"}
    BY <1>8 DEF After, Keeps, Makes
  <2>2. CASE shown
    <3>1. {"live"} \in SUBSET Fact /\ Meets({"live"}, s)'
      BY <1>2, <1>4 DEF Fact, Meets
    <3>2. Flows(calls, s, {"live"}, B)
      BY <2>1, <2>2, StopRetire DEF When
    <3>3. QED
      BY <3>1, <3>2
  <2>3. CASE ~shown
    <3>1. Meets(B, s)'
      BY <1>2, <1>4, <2>1, <2>3 DEF Meets, Rest
    <3>2. Flows(calls, s, B, B)
      BY <2>3, FlowsNothing DEF When
    <3>3. QED
      BY <3>1, <3>2
  <2>4. QED
    BY <2>2, <2>3
<1> HIDE DEF calls
<1>9. QED
  BY <1>1, <1>2, <1>3, <1>4, <1>5, <1>6, <1>7, <1>8, InsertInv

LEMMA PrepareStep ==
    ASSUME Inv, NEW s \in Sessions, Prepare(s)
    PROVE  Inv'
<1> DEFINE op == "prepare"
           ctx == Context(revision[s], learning)
           waiting == State("pending", NewWork(s), ctx, "none")
<1>1. /\ Calls(op, s) /\ op \in Flat
      /\ UNCHANGED <<scoped, lock, staged, dirty, pending, learning, phase, revision, window,
                     secure, field, status, holds, queue, at, job, context, result,
                     workerFence>>
  BY DEF Prepare, Flat, Op, learnState, screen, domain, jobVars
<1>2. /\ TypeOK /\ FencesOwned /\ ConverterInv(s) /\ ~dirty[s] /\ status[s] = "live"
      /\ speculation[s] \in SpecState /\ Tail(todo) \in Seq(Call)
  BY <1>1, AtCall
<1>3. waiting \in SpecState /\ Discarded(waiting) = waiting
  <2>1. NewWork(s) \in Nat /\ revision[s] \in Nat /\ learning \in Nat
    BY <1>2, NewNumbers DEF TypeOK
  <2>2. QED
    BY <2>1, StateTypes DEF Discarded, State
<1>4. /\ waiting.kind = "pending" /\ waiting.step = "none"
  BY DEF State
<1> HIDE DEF waiting
<1>5. CASE Keep(s, speculation[s]) /\ Return
  <2>1. Rebound(s) /\ Same(s) /\ speculation'[s] = speculation[s]
    BY <1>1, <1>2, <1>5, Keeping
  <2>2. TypeOK' /\ Framed(s)
    BY <1>1, <1>2, <2>1 DEF TypeOK, SpecState, Framed, Rebound
  <2>3. ConverterInv(s)'
    BY <1>1, <1>2, <2>1 DEF ConverterInv, Same, Clean
  <2>4. ASSUME NEW A \in SUBSET Fact, Meets(A, s), Needs(op) \subseteq A
        PROVE  Meets(After(op, A), s)'
    <3>1. After(op, A) \subseteq A \cap {"live", "rest", "bare", "resolved", "undeferred"}
      BY DEF After, Keeps, Makes
    <3>2. QED
      BY <1>1, <2>1, <2>4, <3>1 DEF Meets, Rest, Same
  <2>5. todo' = Tail(todo)
    BY <1>5 DEF Return
  <2>6. QED
    BY <1>1, <2>1, <2>2, <2>3, <2>4, <2>5, PlainInv
<1>6. CASE /\ ~secure[s] /\ Unless(InUse(s), s, waiting)
           /\ todo' = Ops(s, <<"submit">>) \o Tail(todo)
  <2>1. /\ Rebound(s) /\ speculation'[s] = waiting
        /\ Same(s) \/ (Freed(s) /\ ~published[s] /\ ~staged[s] /\ ~deferred[s])
    <3>1. CASE InUse(s)
      BY <1>1, <1>2, <1>3, <1>6, <3>1, Keeping DEF Unless
    <3>2. CASE ~InUse(s)
      BY <1>1, <1>2, <1>3, <1>6, <3>2, Freeing DEF Unless, InUse
    <3>3. QED
      BY <3>1, <3>2
  <2>2. TypeOK' /\ Framed(s)
    BY <1>1, <1>2, <2>1 DEF TypeOK, SpecState, Framed, Rebound
  <2>3. ConverterInv(s)'
    BY <1>1, <1>2, <1>4, <1>6, <2>1 DEF ConverterInv, Same, Freed
  <2>4. ASSUME NEW A \in SUBSET Fact, Meets(A, s), Needs(op) \subseteq A,
               NEW B \in SUBSET Fact, B \subseteq After(op, A)
        PROVE  \E D \in SUBSET Fact :
                Meets(D, s)' /\ Flows(Ops(s, <<"submit">>), s, D, B)
    <3>1. B \subseteq A \cap {"live", "rest", "bare", "resolved", "undeferred"}
      BY <2>4 DEF After, Keeps, Makes
    <3>2. Meets(B \cup {"live"}, s)' /\ B \cup {"live"} \in SUBSET Fact
      BY <1>1, <1>2, <2>1, <2>4, <3>1 DEF Meets, Rest, Same, Freed, Fact
    <3>3. Leads("submit", B \cup {"live"}, B)
      BY <3>1, <3>2 DEF Leads, Flat, Op, Needs, After, Keeps, Makes
    <3>4. QED
      BY <3>2, <3>3, Flow1
  <2>5. Ops(s, <<"submit">>) \in Seq(Call)
    <3>1. <<"submit">> \in Seq(Op)
      BY DEF Op
    <3>2. QED
      BY <3>1, OpsType
  <2>6. QED
    BY <1>1, <1>6, <2>1, <2>2, <2>3, <2>4, <2>5, InsertInv
<1>7. QED
  BY <1>5, <1>6 DEF Prepare, waiting

LEMMA SubmitStep ==
    ASSUME Inv, NEW s \in Sessions, Submit(s)
    PROVE  Inv'
<1> DEFINE op == "submit"
<1>1. /\ Calls(op, s) /\ op \in Flat /\ todo' = Tail(todo)
      /\ queue' = Append(queue, [session |-> s, work |-> speculation[s].work])
      /\ UNCHANGED <<speculation, candidateFence, published, deferred, fences,
                     scoped, lock, staged, dirty, pending, learning, phase, revision, window,
                     secure, field, status, holds, at, job, context, result, workerFence>>
  BY DEF Submit, Flat, Op, Return, fenceState, learnState, screen, domain
<1>2. /\ TypeOK /\ FencesOwned /\ ConverterInv(s) /\ ~dirty[s]
      /\ speculation[s] \in SpecState
  BY <1>1, AtCall
<1>3. Rebound(s)
  BY <1>1, <1>2, Untouched
<1>4. queue' \in Seq([session : Sessions, work : Nat])
  <2>1. queue \in Seq([session : Sessions, work : Nat])
        /\ [session |-> s, work |-> speculation[s].work] \in [session : Sessions, work : Nat]
    BY <1>2 DEF TypeOK, SpecState
  <2>2. QED
    BY <1>1, <2>1
<1>5. TypeOK' /\ Framed(s)
  BY <1>1, <1>2, <1>4 DEF TypeOK, Framed
<1>6. ConverterInv(s)'
  BY <1>1, <1>2 DEF ConverterInv, Clean
<1>7. ASSUME NEW A \in SUBSET Fact, Meets(A, s), Needs(op) \subseteq A
      PROVE  Meets(After(op, A), s)'
  <2>1. After(op, A) \subseteq A \cap {"live", "rest", "bare", "resolved", "undeferred"}
    BY DEF After, Keeps, Makes
  <2>2. QED
    BY <1>1, <1>7, <2>1 DEF Meets, Rest
<1>8. QED
  BY <1>1, <1>3, <1>5, <1>6, <1>7, PlainInv

LEMMA LockOrderStep ==
    ASSUME Inv, NEW s \in Sessions, LockOrder(s)
    PROVE  Inv'
<1> DEFINE op == "lock"
           state == speculation[s]
           none == Frozen(revision[s], 0, "none")
           locked == Frozen(revision[s], learning, state.step)
<1>1. /\ Calls(op, s) /\ op \in Flat /\ todo' = Tail(todo)
      /\ UNCHANGED <<scoped, lock, staged, dirty, pending, learning, phase, revision, window,
                     secure, field, status, holds, queue, at, job, context, result,
                     workerFence>>
  BY DEF LockOrder, Flat, Op, Return, learnState, screen, domain, jobVars
<1>2. /\ TypeOK /\ FencesOwned /\ ConverterInv(s) /\ ~dirty[s] /\ status[s] = "live"
      /\ state \in SpecState
  BY <1>1, AtCall
<1>3. /\ none \in SpecState /\ none.kind = "frozen" /\ none.step = "none"
      /\ none.context.revision = revision[s] /\ Discarded(none) = none
      /\ locked \in SpecState /\ locked.kind = "frozen" /\ locked.step = state.step
      /\ locked.context.revision = revision[s]
  <2>1. revision[s] \in Nat /\ learning \in Nat
        /\ state.step \in {"none", "plain", "learnable"}
    BY <1>2 DEF TypeOK, SpecState
  <2>2. none \in SpecState /\ locked \in SpecState
    BY <2>1, StateTypes
  <2>3. QED
    BY <2>2 DEF Frozen, State, Context, Discarded
<1> HIDE DEF state, none, locked
<1>4. \/ Keep(s, state) /\ state.kind # "idle"
      \/ Keep(s, locked) /\ state.kind = "ready"
      \/ Keep(s, none)
      \/ Take(s, none) /\ state.kind = "ready"
      \/ Take(s, none) /\ ~published[s] /\ ~staged[s] /\ ~deferred[s]
  <2>1. state.kind \in {"idle", "pending", "ready", "frozen"}
    BY <1>2 DEF SpecState
  <2>2. QED
    BY <2>1 DEF LockOrder, Unless, InUse, state, none, locked
<1>5. /\ Rebound(s)
      /\ \/ Same(s) /\ speculation'[s] = state
         \/ Same(s) /\ speculation'[s] = locked /\ state.kind = "ready"
         \/ Same(s) /\ speculation'[s] = none
         \/ Freed(s) /\ speculation'[s] = none /\ ~published[s] /\ ~staged[s] /\ ~deferred[s]
  <2>1. state.kind = "ready" => ~published[s] /\ ~staged[s] /\ ~deferred[s]
    BY <1>2 DEF ConverterInv, state
  <2>2. CASE Keep(s, state) \/ Keep(s, none) \/ (Keep(s, locked) /\ state.kind = "ready")
    BY <1>1, <1>2, <1>3, <2>2, Keeping
  <2>3. CASE Take(s, none) /\ ~published[s] /\ ~staged[s] /\ ~deferred[s]
    BY <1>1, <1>2, <1>3, <2>3, Freeing
  <2>4. QED
    BY <1>4, <2>1, <2>2, <2>3
<1>6. TypeOK' /\ Framed(s)
  BY <1>1, <1>2, <1>5 DEF TypeOK, SpecState, Framed, Rebound
<1>7. ConverterInv(s)'
  BY <1>1, <1>2, <1>3, <1>5 DEF ConverterInv, Same, Freed, Clean, state
<1>8. ASSUME NEW A \in SUBSET Fact, Meets(A, s), Needs(op) \subseteq A
      PROVE  Meets(After(op, A), s)'
  <2>1. After(op, A) \subseteq A \cap {"live", "rest", "bare", "resolved", "undeferred"}
    BY DEF After, Keeps, Makes
  <2>2. QED
    BY <1>1, <1>5, <1>8, <2>1 DEF Meets, Rest, Same, Freed
<1>9. QED
  BY <1>1, <1>5, <1>6, <1>7, <1>8, PlainInv

LEMMA AbandonStep ==
    ASSUME Inv, NEW s \in Sessions, Abandon(s)
    PROVE  Inv'
<1> DEFINE op == "abandon"
           state == speculation[s]
<1>1. /\ Calls(op, s) /\ op \in Flat /\ todo' = Tail(todo)
      /\ UNCHANGED <<scoped, lock, staged, dirty, pending, learning, phase, revision, window,
                     secure, field, status, holds, queue, at, job, context, result,
                     workerFence>>
  BY DEF Abandon, Flat, Op, Return, learnState, screen, domain, jobVars
<1>2. /\ TypeOK /\ FencesOwned /\ ConverterInv(s) /\ ~dirty[s]
      /\ state \in SpecState
  BY <1>1, AtCall
<1>3. /\ Discarded(state).kind = state.kind
      /\ Discarded(state).context.revision = state.context.revision
      /\ state.kind = "frozen" => Discarded(state).step = "none"
  BY <1>2, StateTypes
<1>4. \/ Keep(s, state)
      \/ Take(s, state) /\ state.kind = "frozen" /\ ~published[s] /\ ~staged[s] /\ ~deferred[s]
  BY DEF Abandon, Unless, InUse
<1>5. /\ Rebound(s)
      /\ \/ Same(s) /\ speculation'[s] = state
         \/ /\ Freed(s) /\ speculation'[s] = Discarded(state) /\ state.kind = "frozen"
            /\ ~published[s] /\ ~staged[s] /\ ~deferred[s]
  <2>1. CASE Keep(s, state)
    BY <1>1, <1>2, <2>1, Keeping
  <2>2. CASE /\ Take(s, state) /\ state.kind = "frozen"
             /\ ~published[s] /\ ~staged[s] /\ ~deferred[s]
    BY <1>1, <1>2, <2>2, Freeing
  <2>3. QED
    BY <1>4, <2>1, <2>2
<1>6. TypeOK' /\ Framed(s)
  BY <1>1, <1>2, <1>5 DEF TypeOK, SpecState, Framed, Rebound
<1>7. ConverterInv(s)'
  BY <1>1, <1>2, <1>3, <1>5 DEF ConverterInv, Same, Freed, Clean
<1>8. ASSUME NEW A \in SUBSET Fact, Meets(A, s), Needs(op) \subseteq A
      PROVE  Meets(After(op, A), s)'
  <2>1. After(op, A) \subseteq A \cap {"live", "rest", "bare", "resolved", "undeferred"}
    BY DEF After, Keeps, Makes
  <2>2. QED
    BY <1>1, <1>5, <1>8, <2>1 DEF Meets, Rest, Same, Freed
<1>9. QED
  BY <1>1, <1>5, <1>6, <1>7, <1>8, PlainInv

LEMMA StopStep ==
    ASSUME Inv, NEW s \in Sessions, StopComposition(s)
    PROVE  Inv'
<1> DEFINE op == "stop"
           state == speculation[s]
<1>1. /\ Calls(op, s) /\ op \in Flat /\ todo' = Tail(todo)
      /\ UNCHANGED <<scoped, lock, staged, dirty, pending, learning, phase, revision, window,
                     secure, field, status, holds, queue, at, job, context, result,
                     workerFence>>
  BY DEF StopComposition, Flat, Op, Return, screen, domain, jobVars
<1>2. /\ TypeOK /\ FencesOwned /\ ConverterInv(s) /\ ~dirty[s] /\ status[s] = "live"
      /\ state \in SpecState
  BY <1>1, AtCall
<1>3. /\ Discarded(state).kind = state.kind
      /\ Discarded(state).context.revision = state.context.revision
      /\ state.kind # "frozen" => Discarded(state) = state
      /\ state.kind = "frozen" => Discarded(state).step = "none"
  BY <1>2, StateTypes
<1>4. \/ Keep(s, state) /\ (deferred[s] => staged[s])
      \/ Take(s, state) /\ deferred[s] /\ ~staged[s]
  BY <1>1, <1>2 DEF StopComposition, EndDeferral, Unless
<1>5. /\ Rebound(s)
      /\ \/ Same(s) /\ speculation'[s] = state /\ (deferred[s] => staged[s])
         \/ Freed(s) /\ speculation'[s] = Discarded(state) /\ deferred[s] /\ ~staged[s]
  <2>1. CASE Keep(s, state) /\ (deferred[s] => staged[s])
    BY <1>1, <1>2, <2>1, Keeping
  <2>2. CASE Take(s, state) /\ deferred[s] /\ ~staged[s]
    BY <1>1, <1>2, <2>2, Freeing
  <2>3. QED
    BY <1>4, <2>1, <2>2
<1>6. TypeOK' /\ Framed(s)
  BY <1>1, <1>2, <1>5 DEF TypeOK, SpecState, Framed, Rebound
<1>7. ConverterInv(s)'
  BY <1>1, <1>2, <1>3, <1>5 DEF ConverterInv, Same, Freed, Clean
<1>8. ASSUME NEW A \in SUBSET Fact, Meets(A, s), Needs(op) \subseteq A
      PROVE  Meets(After(op, A), s)'
  <2>1. After(op, A) \subseteq (A \cap {"live", "rest", "bare", "resolved"})
                                \cup {f \in {"undeferred"} : "resolved" \in A}
    BY DEF After, Keeps, Makes
  <2>2. "resolved" \in A => ~staged[s]
    BY <1>2, <1>8 DEF Meets, ConverterInv
  <2>3. "undeferred" \in After(op, A) => ~deferred'[s]
    BY <1>5, <2>1, <2>2 DEF Same, Freed
  <2>4. "rest" \in After(op, A) => Rest(s)'
    BY <1>1, <1>5, <1>8, <2>1 DEF Meets, Rest, Same, Freed
  <2>5. QED
    BY <1>1, <1>8, <2>1, <2>3, <2>4 DEF Meets
<1>9. QED
  BY <1>1, <1>5, <1>6, <1>7, <1>8, PlainInv

LEMMA SegmentsStep ==
    ASSUME Inv, NEW s \in Sessions, Segments(s)
    PROVE  Inv'
<1> DEFINE op == "segments"
           state == speculation[s]
           merges == state.kind = "frozen" /\ state.step # "none"
           giveUp == Ops(s, <<"abandon">>) \o (Stop(s) \o Ops(s, <<"retire">>))
<1>1. Calls(op, s) /\ op \in Flat
      /\ UNCHANGED <<scoped, lock, staged, dirty, pending, learning, revision,
                     secure, field, status, holds, queue, at, job, context, result,
                     workerFence>>
  BY DEF Segments, Flat, Op, learnState, domain, jobVars
<1>2. /\ TypeOK /\ FencesOwned /\ ConverterInv(s) /\ ~dirty[s] /\ status[s] = "live"
      /\ state \in SpecState /\ Tail(todo) \in Seq(Call)
      /\ ~pending[s] /\ ~deferred[s] /\ Rest(s)
  <2>1. \E A \in SUBSET Fact : Meets(A, s) /\ Needs(op) \subseteq A
    BY <1>1, AtCall
  <2>2. ~pending[s] /\ ~deferred[s] /\ Rest(s)
    BY <2>1 DEF Needs, Meets
  <2>3. QED
    BY <1>1, <2>2, AtCall
<1>3. ~staged[s]
  BY <1>2 DEF ConverterInv
<1>4. /\ Discarded(state).kind = state.kind
      /\ Discarded(state).context.revision = state.context.revision
      /\ state.kind = "frozen" => Discarded(state).step = "none"
  BY <1>2, StateTypes
<1>5. PICK outcome \in {"shown", "fails", "failsLater"}, fits \in BOOLEAN :
        /\ todo' = IF outcome = "shown" THEN Tail(todo)
                   ELSE Ops(s, <<"abandon">>) \o Stop(s) \o Ops(s, <<"retire">>)
                           \o Tail(todo)
        /\ phase' = [phase EXCEPT ![s] =
                 IF outcome = "shown" THEN "converted"
                 ELSE IF phase[s] = "inside" THEN "inside" ELSE "composing"]
        /\ \/ /\ outcome = "fails"
              /\ Keep(s, state)
              /\ UNCHANGED window
           \/ /\ outcome # "fails" /\ merges /\ fits /\ state.step = "learnable"
              /\ published' = [published EXCEPT ![s] = candidateFence[s] # NoFence]
              /\ window' = [window EXCEPT ![s] = "learnable"]
              /\ UNCHANGED <<speculation, candidateFence, deferred, fences>>
           \/ /\ outcome # "fails" /\ ~(merges /\ fits /\ state.step = "learnable")
              /\ Unless(~merges \/ staged[s] \/ deferred[s], s, state)
              /\ window' = [window EXCEPT ![s] = "mozc"]
  BY DEF Segments, Set
<1>6. phase' \in [Sessions -> {"idle", "composing", "inside", "converted"}]
  BY <1>2, <1>5 DEF TypeOK
<1>7. /\ Rebound(s) /\ ConverterInv(s)'
      /\ window' \in [Sessions -> {"none", "mozc", "learnable"}]
      /\ \A u \in Sessions \ {s} : window'[u] = window[u]
      /\ outcome = "shown" => Rest(s)'
  <2>1. CASE outcome = "fails" /\ Keep(s, state) /\ UNCHANGED window
    <3>1. Rebound(s) /\ Same(s) /\ speculation'[s] = state
      BY <1>1, <1>2, <2>1, Keeping
    <3>2. window \in [Sessions -> {"none", "mozc", "learnable"}]
      BY <1>2 DEF TypeOK
    <3>3. QED
      BY <1>1, <1>2, <2>1, <3>1, <3>2 DEF ConverterInv, Same, Clean
  <2>2. CASE /\ outcome # "fails" /\ merges /\ fits /\ state.step = "learnable"
             /\ published' = [published EXCEPT ![s] = candidateFence[s] # NoFence]
             /\ window' = [window EXCEPT ![s] = "learnable"]
             /\ UNCHANGED <<speculation, candidateFence, deferred, fences>>
    <3>1. candidateFence[s] # NoFence /\ ~secure[s]
      BY <1>2, <2>2 DEF ConverterInv, Clean
    <3>2. Rebound(s)
      <4>1. FencesOwned'
        BY <1>1, <1>2, <2>2 DEF FencesOwned
      <4>2. /\ published' \in [Sessions -> BOOLEAN]
            /\ \A u \in Sessions \ {s} : published'[u] = published[u]
        BY <1>2, <2>2 DEF TypeOK
      <4>3. speculation' \in [Sessions -> SpecState]
        BY <1>2, <2>2 DEF TypeOK, SpecState
      <4>4. QED
        BY <1>2, <2>2, <4>1, <4>2, <4>3 DEF Rebound, TypeOK
    <3>3. published'[s] /\ window'[s] = "learnable"
      BY <1>2, <2>2, <3>1 DEF TypeOK
    <3>4. ConverterInv(s)'
      BY <1>1, <1>2, <2>2, <3>1, <3>3 DEF ConverterInv
    <3>5. Rest(s)'
      BY <1>1, <1>2, <2>2, <3>1, <3>3 DEF Rest
    <3>6. QED
      BY <1>2, <2>2, <3>2, <3>4, <3>5 DEF TypeOK
  <2>3. CASE /\ outcome # "fails" /\ ~(merges /\ fits /\ state.step = "learnable")
             /\ Unless(~merges \/ staged[s] \/ deferred[s], s, state)
             /\ window' = [window EXCEPT ![s] = "mozc"]
    <3>1. \/ Keep(s, state)
          \/ Take(s, state) /\ state.kind = "frozen"
      BY <2>3 DEF Unless
    <3>2. /\ Rebound(s)
          /\ \/ Same(s) /\ speculation'[s] = state
             \/ Freed(s) /\ speculation'[s] = Discarded(state) /\ state.kind = "frozen"
      <4>1. CASE Keep(s, state)
        BY <1>1, <1>2, <4>1, Keeping
      <4>2. CASE Take(s, state) /\ state.kind = "frozen"
        BY <1>1, <1>2, <4>2, Freeing
      <4>3. QED
        BY <3>1, <4>1, <4>2
    <3>3. ConverterInv(s)'
      BY <1>1, <1>2, <1>3, <1>4, <3>2 DEF ConverterInv, Same, Freed, Clean
    <3>4. window'[s] = "mozc"
      BY <1>2, <2>3 DEF TypeOK
    <3>5. QED
      BY <1>2, <2>3, <3>2, <3>3, <3>4 DEF TypeOK, Rest
  <2>4. QED
    BY <1>5, <2>1, <2>2, <2>3
<1>8. TypeOK' /\ Framed(s)
  BY <1>1, <1>2, <1>6, <1>7 DEF TypeOK, SpecState, Framed, Rebound
<1>9. CASE outcome = "shown"
  <2>1. ASSUME NEW A \in SUBSET Fact, Meets(A, s), Needs(op) \subseteq A
        PROVE  Meets(After(op, A), s)'
    <3>1. After(op, A) \subseteq {"live", "rest"}
      BY DEF After, Keeps, Makes
    <3>2. QED
      BY <1>1, <1>2, <1>7, <1>9, <3>1 DEF Meets
  <2>2. todo' = Tail(todo)
    BY <1>5, <1>9
  <2>3. QED
    BY <1>1, <1>2, <1>7, <1>8, <2>1, <2>2, PlainInv
<1>10. CASE outcome # "shown"
  <2>1. Leads("abandon", {"live"}, {"live"})
    BY DEF Leads, Flat, Op, Needs, After, Keeps, Makes, Fact
  <2>2. /\ Ops(s, <<"abandon">>) \in Seq(Call)
        /\ Flows(Ops(s, <<"abandon">>), s, {"live"}, {"live"})
    BY <2>1, Flow1
  <2>3. Ops(s, <<"retire">>) \in Seq(Call) /\ Stop(s) \in Seq(Call)
    <3>1. <<"retire">> \in Seq(Op) /\ {"live"} \in SUBSET Fact /\ {} \in SUBSET Fact
          /\ {} \subseteq Stopped(s, {"live"})
      BY DEF Op, Fact
    <3>2. QED
      BY <3>1, OpsType, StopFlow
  <2>4. giveUp \in Seq(Call) /\ todo' = giveUp \o Tail(todo)
    <3>1. todo' = Ops(s, <<"abandon">>) \o Stop(s) \o Ops(s, <<"retire">>) \o Tail(todo)
      BY <1>5, <1>10
    <3> DEFINE abandon == Ops(s, <<"abandon">>)
               retire == Ops(s, <<"retire">>)
               Grouped(a, b, c, d) == a \o b \o c \o d = (a \o (b \o c)) \o d
    <3>2. \A a, b, c, d \in Seq(Call) : Grouped(a, b, c, d)
      OBVIOUS
    <3>3. \A a, b, c \in Seq(Call) : a \o (b \o c) \in Seq(Call)
      OBVIOUS
    <3> HIDE DEF Grouped
    <3>4. Grouped(abandon, Stop(s), retire, Tail(todo))
      BY <1>2, <2>2, <2>3, <3>2, Zenon
    <3>5. todo' = giveUp \o Tail(todo)
      BY <3>1, <3>4 DEF Grouped
    <3>6. giveUp \in Seq(Call)
      BY <2>2, <2>3, <3>3, Zenon
    <3>7. QED
      BY <3>5, <3>6
  <2>5. ASSUME NEW A \in SUBSET Fact, Meets(A, s), Needs(op) \subseteq A,
               NEW B \in SUBSET Fact, B \subseteq After(op, A)
        PROVE  \E D \in SUBSET Fact : Meets(D, s)' /\ Flows(giveUp, s, D, B)
    <3>1. B \in SUBSET {"live", "rest", "bare"}
      BY <2>5 DEF After, Keeps, Makes
    <3>2. Flows(giveUp, s, {"live"}, B)
      BY <2>2, <3>1, StopRetire, FlowsConcat
    <3>3. {"live"} \in SUBSET Fact /\ Meets({"live"}, s)'
      BY <1>1, <1>2 DEF Fact, Meets
    <3>4. QED
      BY <3>2, <3>3
  <2> HIDE DEF giveUp
  <2>6. QED
    BY <1>1, <1>2, <1>7, <1>8, <2>4, <2>5, InsertInv
<1>11. QED
  BY <1>9, <1>10

LEMMA Inserted ==
    ASSUME NEW s \in Sessions, NEW op \in Op, NEW q \in Seq(Call)
    PROVE  /\ Ops(s, <<op>>) \in Seq(Call)
           /\ Ops(s, <<op>>) \o q # <<>> /\ Head(Ops(s, <<op>>) \o q) = <<op, s>>
<1>1. <<op>> \in Seq(Op) /\ Len(<<op>>) = 1 /\ <<op>>[1] = op
  OBVIOUS
<1>2. /\ Ops(s, <<op>>) \in Seq(Call) /\ Len(Ops(s, <<op>>)) = 1
      /\ Ops(s, <<op>>)[1] = <<op, s>>
  BY <1>1, OpsType
<1> DEFINE a == Ops(s, <<op>>)
<1> HIDE DEF a
<1>3. ASSUME NEW b \in Seq(Call), Len(b) = 1
      PROVE  b \o q # <<>> /\ Head(b \o q) = b[1]
  BY <1>3
<1>4. QED
  BY <1>2, <1>3

LEMMA LearnStep ==
    ASSUME Inv, NEW s \in Sessions, Learn(s)
    PROVE  Inv'
<1> DEFINE op == "learn"
           more == Ops(s, <<"commitLearning">>)
<1>1. Calls(op, s) /\ op \in Flat
      /\ UNCHANGED <<scoped, lock, speculation, candidateFence, published, fences, learning,
                     phase, revision, window, secure, field, status, holds,
                     queue, at, job, context, result, workerFence>>
  BY DEF Learn, Flat, Op, screen, domain, jobVars
<1>2. /\ TypeOK /\ FencesOwned /\ ConverterInv(s) /\ ~dirty[s] /\ status[s] = "live"
      /\ Tail(todo) \in Seq(Call) /\ deferred[s]
  <2>1. \E A \in SUBSET Fact : Meets(A, s) /\ Needs(op) \subseteq A
    BY <1>1, AtCall
  <2>2. deferred[s]
    BY <2>1 DEF Needs, Meets
  <2>3. QED
    BY <1>1, <2>2, AtCall
<1>3. candidateFence[s] # NoFence /\ ~secure[s] /\ speculation[s].kind # "ready"
  BY <1>2 DEF ConverterInv, Clean
<1>4. FencesOwned'
  BY <1>1, <1>2 DEF FencesOwned
<1>5. CASE /\ staged' = [staged EXCEPT ![s] = TRUE]
           /\ pending' = [pending EXCEPT ![s] = TRUE]
           /\ deferred' = [deferred EXCEPT ![s] = deferred[s] \/ candidateFence[s] # NoFence]
           /\ todo' = Tail(todo) /\ UNCHANGED dirty
  <2>1. TypeOK' /\ Framed(s) /\ Rebound(s)
    <3>1. OtherTypes'
      BY <1>1, <1>2, <1>5 DEF TypeOK, OtherTypes
    <3>2. /\ deferred' \in [Sessions -> BOOLEAN]
          /\ \A u \in Sessions \ {s} : /\ deferred'[u] = deferred[u]
                                       /\ staged'[u] = staged[u] /\ pending'[u] = pending[u]
      BY <1>2, <1>5 DEF TypeOK
    <3>3. Rebound(s)
      BY <1>1, <1>2, <1>4, <3>2 DEF Rebound, TypeOK, SpecState
    <3>4. Framed(s)
      BY <1>1, <1>5, <3>2 DEF Framed
    <3>5. QED
      BY <3>1, <3>3, <3>4, ReboundTypes
  <2>2. ConverterInv(s)'
    BY <1>1, <1>2, <1>3, <1>5 DEF ConverterInv, TypeOK
  <2>3. ASSUME NEW A \in SUBSET Fact, Meets(A, s), Needs(op) \subseteq A
        PROVE  Meets(After(op, A), s)'
    <3>1. After(op, A) \subseteq A \cap {"live", "bare"}
      BY DEF After, Keeps, Makes
    <3>2. QED
      BY <1>1, <2>3, <3>1 DEF Meets
  <2>4. QED
    BY <1>1, <1>5, <2>1, <2>2, <2>3, PlainInv
<1>6. CASE /\ dirty' = [dirty EXCEPT ![s] = TRUE]
           /\ todo' = more \o Tail(todo)
           /\ UNCHANGED <<staged, pending, deferred>>
  <2>1. TypeOK' /\ Framed(s) /\ Rebound(s)
    BY <1>1, <1>2, <1>4, <1>6 DEF TypeOK, Framed, Rebound, SpecState
  <2>2. "commitLearning" \in Op
    BY DEF Op
  <2>3. more \in Seq(Call) /\ Calls("commitLearning", s)'
    BY <1>2, <1>6, <2>2, Inserted DEF Calls
  <2>4. ConverterInv(s)'
    BY <1>1, <1>2, <1>3, <1>6, <2>3 DEF ConverterInv
  <2>5. ASSUME NEW A \in SUBSET Fact, Meets(A, s), Needs(op) \subseteq A,
               NEW B \in SUBSET Fact, B \subseteq After(op, A)
        PROVE  \E D \in SUBSET Fact : Meets(D, s)' /\ Flows(more, s, D, B)
    <3>1. B \subseteq A \cap {"live", "bare"}
      BY <2>5 DEF After, Keeps, Makes
    <3>2. B \cup {"live"} \in SUBSET Fact /\ Meets(B \cup {"live"}, s)'
      BY <1>1, <1>2, <2>5, <3>1 DEF Meets, Fact
    <3>3. Leads("commitLearning", B \cup {"live"}, B)
      BY <3>1, <3>2 DEF Leads, Flat, Op, Needs, After, Keeps, Makes
    <3>4. QED
      BY <3>2, <3>3, Flow1
  <2> HIDE DEF more
  <2>6. QED
    BY <1>1, <1>6, <2>1, <2>3, <2>4, <2>5, InsertInv
<1>7. QED
  BY <1>5, <1>6 DEF Learn, Set, Return

LEMMA CommitLearningStep ==
    ASSUME Inv, NEW s \in Sessions, CommitLearning(s)
    PROVE  Inv'
<1> DEFINE op == "commitLearning"
           state == speculation[s]
<1>1. /\ Calls(op, s) /\ op \in Flat /\ todo' = Tail(todo)
      /\ dirty' = [dirty EXCEPT ![s] = FALSE] /\ learning' \in {learning, NewLearning}
      /\ UNCHANGED <<scoped, lock, staged, pending, phase, revision, window,
                     secure, field, status, holds, queue, at, job, context, result,
                     workerFence>>
  BY DEF CommitLearning, Flat, Op, Return, Set, screen, domain, jobVars
<1>2. TypeOK /\ FencesOwned /\ ConverterInv(s) /\ status[s] = "live" /\ state \in SpecState
  BY <1>1, AtCall
<1>3. /\ Discarded(state).kind = state.kind
      /\ Discarded(state).context.revision = state.context.revision
      /\ state.kind # "frozen" => Discarded(state) = state
      /\ state.kind = "frozen" => Discarded(state).step = "none"
  BY <1>2, StateTypes
<1>4. ~dirty'[s] /\ dirty' \in [Sessions -> BOOLEAN]
      /\ \A u \in Sessions \ {s} : dirty'[u] = dirty[u]
  BY <1>1, <1>2 DEF TypeOK
<1>5. \/ Keep(s, state)
      \/ Take(s, state) /\ deferred[s] /\ ~staged[s]
  BY <1>1, <1>4 DEF CommitLearning, EndDeferral, Unless
<1>6. /\ Rebound(s)
      /\ \/ Same(s) /\ speculation'[s] = state
         \/ Freed(s) /\ speculation'[s] = Discarded(state) /\ deferred[s] /\ ~staged[s]
  <2>1. CASE Keep(s, state)
    BY <1>1, <1>2, <2>1, Keeping
  <2>2. CASE Take(s, state) /\ deferred[s] /\ ~staged[s]
    BY <1>1, <1>2, <2>2, Freeing
  <2>3. QED
    BY <1>5, <2>1, <2>2
<1>7. TypeOK' /\ Framed(s)
  <2>1. learning' \in Nat
    BY <1>1, <1>2, NewNumbers DEF TypeOK
  <2>2. QED
    BY <1>1, <1>2, <1>4, <1>6, <2>1 DEF TypeOK, SpecState, Framed, Rebound
<1>8. ConverterInv(s)'
  BY <1>1, <1>2, <1>3, <1>4, <1>6 DEF ConverterInv, Same, Freed, Clean
<1>9. ASSUME NEW A \in SUBSET Fact, Meets(A, s), Needs(op) \subseteq A
      PROVE  Meets(After(op, A), s)'
  <2>1. After(op, A) \subseteq
            A \cap {"live", "rest", "bare", "learnable", "resolved", "undeferred"}
    BY DEF After, Keeps, Makes
  <2>2. "rest" \in After(op, A) => Rest(s)'
    BY <1>1, <1>6, <1>9, <2>1 DEF Meets, Rest, Same, Freed
  <2>3. QED
    BY <1>1, <1>6, <1>9, <2>1, <2>2 DEF Meets, Same, Freed
<1>10. QED
  BY <1>1, <1>2, <1>6, <1>7, <1>8, <1>9, PlainInv

LEMMA ResolveCommitStep ==
    ASSUME Inv, NEW s \in Sessions, ResolveCommit(s)
    PROVE  Inv'
<1> DEFINE op == "commit"
           more == Ops(s, <<"commitLearning">>)
<1>1. /\ Calls(op, s) /\ op \in Flat
      /\ pending' = [pending EXCEPT ![s] = FALSE]
      /\ UNCHANGED <<scoped, lock, speculation, candidateFence, published, deferred, fences,
                     learning, phase, revision, window, secure, field, status, holds,
                     queue, at, job, context, result, workerFence>>
  BY DEF ResolveCommit, Flat, Op, Set, fenceState, screen, domain, jobVars
<1>2. /\ TypeOK /\ FencesOwned /\ ConverterInv(s) /\ ~dirty[s] /\ status[s] = "live"
      /\ Tail(todo) \in Seq(Call)
  BY <1>1, AtCall
<1>3. Rebound(s)
  BY <1>1, <1>2, Untouched
<1>4. ~pending'[s] /\ pending' \in [Sessions -> BOOLEAN]
      /\ \A u \in Sessions \ {s} : pending'[u] = pending[u]
  BY <1>1, <1>2 DEF TypeOK
<1>5. CASE pending[s]
  <2>1. /\ staged' = [staged EXCEPT ![s] = FALSE]
        /\ dirty' = [dirty EXCEPT ![s] = dirty[s] \/ staged[s]]
        /\ todo' = more \o Tail(todo)
    BY <1>5 DEF ResolveCommit, Set
  <2>2. TypeOK' /\ Framed(s)
    <3>1. OtherTypes'
      BY <1>1, <1>2, <1>4, <2>1 DEF TypeOK, OtherTypes
    <3>2. TypeOK'
      BY <1>3, <3>1, ReboundTypes
    <3>3. \A u \in Sessions \ {s} : staged'[u] = staged[u] /\ dirty'[u] = dirty[u]
      BY <1>2, <2>1 DEF TypeOK
    <3>4. Framed(s)
      BY <1>1, <1>3, <1>4, <3>3 DEF Framed, Rebound
    <3>5. QED
      BY <3>2, <3>4
  <2>3. "commitLearning" \in Op
    BY DEF Op
  <2>4. more \in Seq(Call) /\ Calls("commitLearning", s)'
    BY <1>2, <2>1, <2>3, Inserted DEF Calls
  <2>5. ConverterInv(s)'
    <3>1. ~secure[s]
      BY <1>2, <1>5 DEF ConverterInv, Clean
    <3>2. ~staged'[s] /\ (dirty'[s] => candidateFence[s] # NoFence)
      BY <1>2, <2>1 DEF ConverterInv, TypeOK
    <3>3. QED
      BY <1>1, <1>2, <2>4, <3>1, <3>2 DEF ConverterInv
  <2>6. ASSUME NEW A \in SUBSET Fact, Meets(A, s), Needs(op) \subseteq A,
               NEW B \in SUBSET Fact, B \subseteq After(op, A)
        PROVE  \E D \in SUBSET Fact : Meets(D, s)' /\ Flows(more, s, D, B)
    <3>1. "resolved" \notin A
      BY <1>5, <2>6 DEF Meets
    <3>2. B \subseteq (A \cap {"live", "rest", "bare", "learnable", "undeferred"})
                        \cup {"resolved"}
      BY <2>6, <3>1 DEF After, Keeps, Makes
    <3>3. B \cup {"live"} \in SUBSET Fact
      BY DEF Fact
    <3>4. "rest" \in B => Rest(s)'
      BY <1>1, <1>2, <1>5, <2>6, <3>2 DEF Meets, Rest
    <3>5. Meets(B \cup {"live"}, s)'
      BY <1>1, <1>2, <1>4, <2>6, <3>2, <3>4 DEF Meets
    <3>6. Leads("commitLearning", B \cup {"live"}, B)
      BY <3>2, <3>3 DEF Leads, Flat, Op, Needs, After, Keeps, Makes
    <3>7. QED
      BY <3>3, <3>5, <3>6, Flow1
  <2> HIDE DEF more
  <2>7. QED
    BY <1>1, <1>3, <2>1, <2>2, <2>4, <2>5, <2>6, InsertInv
<1>6. CASE ~pending[s]
  <2>1. UNCHANGED <<staged, dirty>> /\ todo' = Tail(todo)
    BY <1>6 DEF ResolveCommit, Return
  <2>2. TypeOK' /\ Framed(s)
    BY <1>1, <1>2, <1>3, <1>4, <2>1 DEF TypeOK, SpecState, Framed, Rebound
  <2>3. ConverterInv(s)'
    BY <1>1, <1>2, <1>4, <1>6, <2>1 DEF ConverterInv, Clean
  <2>4. ASSUME NEW A \in SUBSET Fact, Meets(A, s), Needs(op) \subseteq A
        PROVE  Meets(After(op, A), s)'
    <3>1. After(op, A) \subseteq
            (A \cap {"live", "rest", "bare", "learnable", "undeferred", "deferred"})
                \cup {"resolved"}
      BY DEF After, Keeps, Makes
    <3>2. QED
      BY <1>1, <1>4, <1>6, <2>4, <3>1 DEF Meets, Rest
  <2>5. QED
    BY <1>1, <1>3, <2>1, <2>2, <2>3, <2>4, PlainInv
<1>7. QED
  BY <1>5, <1>6

LEMMA ResolveDiscardStep ==
    ASSUME Inv, NEW s \in Sessions, ResolveDiscard(s)
    PROVE  Inv'
<1> DEFINE op == "discard"
           state == speculation[s]
<1>1. /\ Calls(op, s) /\ op \in Flat /\ todo' = Tail(todo)
      /\ pending' = [pending EXCEPT ![s] = FALSE]
      /\ UNCHANGED <<scoped, lock, dirty, learning, phase, revision, window,
                     secure, field, status, holds, queue, at, job, context, result,
                     workerFence>>
  BY DEF ResolveDiscard, Flat, Op, Return, Set, screen, domain, jobVars
<1>2. /\ TypeOK /\ FencesOwned /\ ConverterInv(s) /\ ~dirty[s] /\ status[s] = "live"
      /\ state \in SpecState
  BY <1>1, AtCall
<1>3. /\ Discarded(state).kind = state.kind
      /\ Discarded(state).context.revision = state.context.revision
      /\ state.kind # "frozen" => Discarded(state) = state
      /\ state.kind = "frozen" => Discarded(state).step = "none"
  BY <1>2, StateTypes
<1>4. ~pending'[s] /\ pending' \in [Sessions -> BOOLEAN]
      /\ \A u \in Sessions \ {s} : pending'[u] = pending[u]
  BY <1>1, <1>2 DEF TypeOK
<1>5. /\ ~staged'[s] /\ staged' \in [Sessions -> BOOLEAN]
      /\ \A u \in Sessions \ {s} : staged'[u] = staged[u]
      /\ \/ Keep(s, state)
         \/ Take(s, state) /\ deferred[s] /\ pending[s]
  <2>1. CASE pending[s] /\ staged[s]
    <3>1. staged' = [staged EXCEPT ![s] = FALSE] /\ Unless(~deferred[s], s, state)
      BY <2>1 DEF ResolveDiscard, Set
    <3>2. /\ ~staged'[s] /\ staged' \in [Sessions -> BOOLEAN]
          /\ \A u \in Sessions \ {s} : staged'[u] = staged[u]
      BY <1>2, <3>1 DEF TypeOK
    <3>3. Keep(s, state) \/ (Take(s, state) /\ deferred[s])
      BY <3>1, Zenon DEF Unless
    <3>4. QED
      BY <2>1, <3>2, <3>3
  <2>2. CASE ~(pending[s] /\ staged[s])
    <3>1. ~staged[s] /\ UNCHANGED staged /\ Keep(s, state)
      BY <1>2, <2>2 DEF ResolveDiscard, ConverterInv
    <3>2. staged \in [Sessions -> BOOLEAN]
      BY <1>2 DEF TypeOK
    <3>3. QED
      BY <3>1, <3>2
  <2>3. QED
    BY <2>1, <2>2
<1>6. /\ Rebound(s)
      /\ \/ Same(s) /\ speculation'[s] = state
         \/ Freed(s) /\ speculation'[s] = Discarded(state) /\ deferred[s] /\ pending[s]
  <2>1. CASE Keep(s, state)
    BY <1>1, <1>2, <2>1, Keeping
  <2>2. CASE Take(s, state) /\ deferred[s] /\ pending[s]
    BY <1>1, <1>2, <2>2, Freeing
  <2>3. QED
    BY <1>5, <2>1, <2>2
<1>7. TypeOK' /\ Framed(s)
  <2>1. OtherTypes'
    BY <1>1, <1>2, <1>4, <1>5 DEF TypeOK, OtherTypes
  <2>2. TypeOK'
    BY <1>6, <2>1, ReboundTypes
  <2>3. Framed(s)
    BY <1>1, <1>4, <1>5, <1>6 DEF Framed, Rebound
  <2>4. QED
    BY <2>2, <2>3
<1>8. ConverterInv(s)'
  BY <1>1, <1>2, <1>3, <1>4, <1>5, <1>6 DEF ConverterInv, Same, Freed, Clean
<1>9. ASSUME NEW A \in SUBSET Fact, Meets(A, s), Needs(op) \subseteq A
      PROVE  Meets(After(op, A), s)'
  <2>1. After(op, A) \subseteq
            (A \cap {"live", "rest", "bare", "undeferred"}) \cup {"resolved"}
    BY DEF After, Keeps, Makes
  <2>2. "rest" \in After(op, A) => Rest(s)'
    BY <1>1, <1>4, <1>6, <1>9, <2>1 DEF Meets, Rest, Same, Freed
  <2>3. QED
    BY <1>1, <1>4, <1>6, <1>9, <2>1, <2>2 DEF Meets, Same, Freed
<1>10. QED
  BY <1>1, <1>6, <1>7, <1>8, <1>9, PlainInv

LEMMA RecordLearningStep ==
    ASSUME Inv, NEW s \in Sessions, RecordLearning(s)
    PROVE  Inv'
<1>1. PICK op \in {"forget", "record"} : Calls(op, s)
  BY DEF RecordLearning
<1>2. /\ op \in Flat /\ op # "commitLearning" /\ todo' = Tail(todo)
      /\ learning' = NewLearning
      /\ UNCHANGED <<scoped, lock, speculation, candidateFence, published, deferred, fences,
                     staged, dirty, pending, phase, revision, window, secure, field, status,
                     holds,
                     queue, at, job, context, result, workerFence>>
  BY DEF RecordLearning, Flat, Op, Return, fenceState, screen, domain, jobVars
<1>3. TypeOK /\ FencesOwned /\ ConverterInv(s) /\ ~dirty[s]
  BY <1>1, <1>2, AtCall
<1>4. Rebound(s)
  BY <1>2, <1>3, Untouched
<1>5. TypeOK' /\ Framed(s)
  <2>1. learning' \in Nat
    BY <1>2, <1>3, NewNumbers
  <2>2. QED
    BY <1>2, <1>3, <2>1 DEF TypeOK, Framed
<1>6. ConverterInv(s)'
  BY <1>2, <1>3 DEF ConverterInv, Clean
<1>7. ASSUME NEW A \in SUBSET Fact, Meets(A, s), Needs(op) \subseteq A
      PROVE  Meets(After(op, A), s)'
  <2>1. After(op, A) \subseteq A
    BY DEF After, Keeps, Makes
  <2>2. QED
    BY <1>2, <1>7, <2>1 DEF Meets, Rest, Emptied, Clean
<1>8. QED
  BY <1>1, <1>2, <1>4, <1>5, <1>6, <1>7, PlainInv

LEMMA PurgeStateStep ==
    ASSUME Inv, NEW s \in Sessions, PurgeState(s)
    PROVE  Inv'
<1> DEFINE op == "purgeState"
<1>1. /\ Calls(op, s) /\ op \in Flat /\ todo' = Tail(todo) /\ Take(s, Idle)
      /\ staged' = [staged EXCEPT ![s] = FALSE] /\ dirty' = [dirty EXCEPT ![s] = FALSE]
      /\ UNCHANGED <<scoped, lock, pending, learning, phase, revision, window,
                     secure, field, status, holds, queue, at, job, context, result,
                     workerFence>>
  BY DEF PurgeState, Flat, Op, Return, Set, screen, domain, jobVars
<1>2. TypeOK /\ FencesOwned /\ ConverterInv(s)
  BY <1>1, AtCall
<1>3. Idle \in SpecState /\ Discarded(Idle) = Idle
      /\ Idle.kind = "idle" /\ Idle.step = "none"
  BY StateTypes DEF Discarded, Idle, State
<1>4. Rebound(s) /\ Freed(s) /\ speculation'[s] = Idle
  BY <1>1, <1>2, <1>3, Freeing
<1>5. /\ ~staged'[s] /\ ~dirty'[s]
      /\ staged' \in [Sessions -> BOOLEAN] /\ dirty' \in [Sessions -> BOOLEAN]
      /\ \A u \in Sessions \ {s} : staged'[u] = staged[u] /\ dirty'[u] = dirty[u]
  BY <1>1, <1>2 DEF TypeOK
<1>6. TypeOK' /\ Framed(s)
  BY <1>1, <1>2, <1>4, <1>5 DEF TypeOK, SpecState, Framed, Rebound
<1>7. ConverterInv(s)'
  BY <1>1, <1>2, <1>3, <1>4, <1>5 DEF ConverterInv, Freed, Clean
<1>8. ASSUME NEW A \in SUBSET Fact, Meets(A, s), Needs(op) \subseteq A
      PROVE  Meets(After(op, A), s)'
  <2>1. After(op, A) \subseteq (A \cap {"live", "bare", "resolved"})
            \cup {"undeferred", "emptied"} \cup {f \in {"rest"} : "bare" \in A}
    BY DEF After, Keeps, Makes
  <2>2. Emptied(s)' /\ ~deferred'[s]
    BY <1>3, <1>4, <1>5 DEF Emptied, Freed
  <2>3. "rest" \in After(op, A) => Rest(s)'
    BY <1>1, <1>8, <2>1 DEF Meets, Rest
  <2>4. QED
    BY <1>1, <1>8, <2>1, <2>2, <2>3 DEF Meets
<1>9. QED
  BY <1>1, <1>4, <1>6, <1>7, <1>8, PlainInv

LEMMA PurgeHazkeyStep ==
    ASSUME Inv, NEW s \in Sessions, PurgeHazkey(s)
    PROVE  Inv'
<1> DEFINE op == "purgeHazkey"
<1>1. /\ Calls(op, s) /\ op \in Flat /\ todo' = Tail(todo) /\ lock # "worker"
      /\ holds' = [holds EXCEPT ![s] = FALSE]
      /\ UNCHANGED <<scoped, lock, speculation, candidateFence, published, deferred, fences,
                     staged, dirty, pending, learning, phase, revision, window, secure,
                     field, status,
                     queue, at, job, context, result, workerFence>>
  BY DEF PurgeHazkey, HazkeyFree, Flat, Op, Return, Set, fenceState, learnState, screen,
         jobVars
<1>2. TypeOK /\ FencesOwned /\ ConverterInv(s) /\ ~dirty[s]
  BY <1>1, AtCall
<1>3. Rebound(s)
  BY <1>1, <1>2, Untouched
<1>4. ~holds'[s] /\ holds' \in [Sessions -> BOOLEAN]
      /\ \A u \in Sessions \ {s} : holds'[u] = holds[u]
  BY <1>1, <1>2 DEF TypeOK
<1>5. TypeOK' /\ Framed(s)
  BY <1>1, <1>2, <1>4 DEF TypeOK, Framed
<1>6. ConverterInv(s)'
  BY <1>1, <1>2, <1>4 DEF ConverterInv, Clean
<1>7. at \notin Inside
  BY <1>1 DEF Inv, GateInv
<1>8. ASSUME NEW A \in SUBSET Fact, Meets(A, s), Needs(op) \subseteq A
      PROVE  Meets(After(op, A), s)'
  <2>1. After(op, A) \subseteq A \cup {f \in {"clean"} : {"emptied", "resolved"} \subseteq A}
    BY DEF After, Keeps, Makes
  <2>2. "clean" \in After(op, A) => Clean(s)' /\ speculation'[s].kind = "idle"
    BY <1>1, <1>4, <1>7, <1>8, <2>1 DEF Meets, Emptied, Clean, Inside
  <2>3. QED
    BY <1>1, <1>8, <2>1, <2>2 DEF Meets, Rest, Emptied
<1>9. QED
  BY <1>1, <1>3, <1>5, <1>6, <1>8, PlainInv

LEMMA AwaitWorkerStep ==
    ASSUME Inv, NEW s \in Sessions, AwaitWorker(s)
    PROVE  Inv'
<1> DEFINE op == "awaitWorker"
<1>1. /\ Calls(op, s) /\ op \in Flat /\ todo' = Tail(todo)
      /\ UNCHANGED <<scoped, lock, speculation, candidateFence, published, deferred, fences,
                     staged, dirty, pending, learning, phase, revision, window, secure,
                     field, status,
                     holds, queue, at, job, context, result, workerFence>>
  BY DEF AwaitWorker, Flat, Op, Return, fenceState, learnState, screen, domain, jobVars
<1>2. TypeOK /\ FencesOwned /\ ConverterInv(s) /\ ~dirty[s]
  BY <1>1, AtCall
<1>3. Rebound(s)
  BY <1>1, <1>2, Untouched
<1>4. TypeOK' /\ Framed(s)
  BY <1>1, <1>2 DEF TypeOK, Framed
<1>5. ConverterInv(s)'
  BY <1>1, <1>2 DEF ConverterInv, Clean
<1>6. ASSUME NEW A \in SUBSET Fact, Meets(A, s), Needs(op) \subseteq A
      PROVE  Meets(After(op, A), s)'
  <2>1. After(op, A) \subseteq A
    BY DEF After, Keeps, Makes
  <2>2. QED
    BY <1>1, <1>6, <2>1 DEF Meets, Rest, Emptied, Clean
<1>7. QED
  BY <1>1, <1>3, <1>4, <1>5, <1>6, PlainInv

LEMMA RefreshStep ==
    ASSUME Inv, NEW s \in Sessions, Refresh(s)
    PROVE  Inv'
<1> DEFINE op == "refresh"
<1>1. /\ Calls(op, s) /\ op \in Flat /\ todo' = Tail(todo)
      /\ UNCHANGED <<scoped, lock, speculation, candidateFence, published, deferred, fences,
                     staged, dirty, pending, learning, phase, revision, window, secure,
                     field, status,
                     holds, queue, at, job, context, result, workerFence>>
  BY DEF Refresh, Flat, Op, Return, fenceState, learnState, screen, domain, jobVars
<1>2. TypeOK /\ FencesOwned /\ ConverterInv(s) /\ ~dirty[s]
  BY <1>1, AtCall
<1>3. Rebound(s)
  BY <1>1, <1>2, Untouched
<1>4. TypeOK' /\ Framed(s)
  BY <1>1, <1>2 DEF TypeOK, Framed
<1>5. ConverterInv(s)'
  BY <1>1, <1>2 DEF ConverterInv, Clean
<1>6. ASSUME NEW A \in SUBSET Fact, Meets(A, s), Needs(op) \subseteq A
      PROVE  Meets(After(op, A), s)'
  <2>1. After(op, A) \subseteq A
    BY DEF After, Keeps, Makes
  <2>2. QED
    BY <1>1, <1>6, <2>1 DEF Meets, Rest, Emptied, Clean
<1>7. QED
  BY <1>1, <1>3, <1>4, <1>5, <1>6, PlainInv

LEMMA ChangeSecureStep ==
    ASSUME Inv, NEW s \in Sessions, ChangeSecure(s)
    PROVE  Inv'
<1> DEFINE op == "changeSecure"
<1>1. /\ Calls(op, s) /\ op \in Flat /\ todo' = Tail(todo)
      /\ secure' = [secure EXCEPT ![s] = ~secure[s]]
      /\ UNCHANGED <<scoped, lock, speculation, candidateFence, published, deferred, fences,
                     staged, dirty, pending, learning, phase, revision, window, field, status,
                     holds, queue, at, job, context, result, workerFence>>
  BY DEF ChangeSecure, Flat, Op, Return, Set, fenceState, learnState, screen, jobVars
<1>2. TypeOK /\ FencesOwned /\ ConverterInv(s) /\ ~dirty[s] /\ Clean(s)
  <2>1. \E A \in SUBSET Fact : Meets(A, s) /\ Needs(op) \subseteq A
    BY <1>1, AtCall
  <2>2. Clean(s)
    BY <2>1 DEF Needs, Meets
  <2>3. QED
    BY <1>1, <2>2, AtCall
<1>3. Rebound(s)
  BY <1>1, <1>2, Untouched
<1>4. TypeOK' /\ Framed(s)
  <2>1. secure' \in [Sessions -> BOOLEAN]
    BY <1>1, <1>2 DEF TypeOK
  <2>2. TypeOK'
    BY <1>1, <1>2, <2>1 DEF TypeOK
  <2>3. QED
    BY <1>1, <2>2 DEF Framed
<1>5. ConverterInv(s)'
  BY <1>1, <1>2 DEF ConverterInv, Clean
<1>6. ASSUME NEW A \in SUBSET Fact, Meets(A, s), Needs(op) \subseteq A
      PROVE  Meets(After(op, A), s)'
  <2>1. /\ After(op, A) \subseteq (A \cap {"live", "bare", "resolved", "undeferred"}) \cup {"rest"}
        /\ "rest" \in After(op, A) => "bare" \in A
    BY DEF After, Keeps, Makes
  <2>2. "bare" \in A => window'[s] # "learnable"
    BY <1>1, <1>6 DEF Meets
  <2>3. QED
    BY <1>1, <1>6, <2>1, <2>2 DEF Meets, Rest
<1>7. QED
  BY <1>1, <1>3, <1>4, <1>5, <1>6, PlainInv

LEMMA DropStep ==
    ASSUME Inv, NEW s \in Sessions, Drop(s)
    PROVE  Inv'
<1> DEFINE op == "drop"
<1>1. /\ Calls(op, s) /\ op \in Flat /\ todo' = Tail(todo)
      /\ status' = [status EXCEPT ![s] = "dropped"]
      /\ UNCHANGED <<scoped, lock, speculation, candidateFence, published, deferred, fences,
                     staged, dirty, pending, learning, phase, revision, window, secure,
                     field,
                     holds, queue, at, job, context, result, workerFence>>
  BY DEF Drop, Flat, Op, Return, Set, fenceState, learnState, screen, jobVars
<1>2. TypeOK /\ FencesOwned /\ ConverterInv(s) /\ ~dirty[s] /\ status[s] = "live"
  BY <1>1, AtCall
<1>3. Rebound(s)
  BY <1>1, <1>2, Untouched
<1>4. status'[s] = "dropped" /\ status' \in [Sessions -> {"gone", "live", "dropped"}]
      /\ \A u \in Sessions \ {s} : status'[u] = status[u]
  BY <1>1, <1>2 DEF TypeOK
<1>5. TypeOK' /\ Framed(s)
  BY <1>1, <1>2, <1>4 DEF TypeOK, Framed
<1>6. ConverterInv(s)'
  BY <1>1, <1>2, <1>4 DEF ConverterInv, Clean
<1>7. ASSUME NEW A \in SUBSET Fact, Meets(A, s), Needs(op) \subseteq A
      PROVE  Meets(After(op, A), s)'
  <2>1. After(op, A) \subseteq {"rest"}
    BY DEF After, Keeps, Makes
  <2>2. QED
    BY <1>4, <2>1 DEF Meets, Rest
<1>8. QED
  BY <1>1, <1>3, <1>4, <1>5, <1>6, <1>7, PlainInv

\* A call that only changes the suspensions or the lock
LEMMA GateStep ==
    ASSUME Inv, NEW s \in Sessions, NEW op \in {"suspend", "resume", "acquire", "release"},
           Calls(op, s), todo' = Tail(todo),
           UNCHANGED <<speculation, candidateFence, published, deferred, learnState, screen,
                       domain, jobVars>>,
           TypeOK', FencesOwned', GateInv',
           Len(scoped') = IF op = "suspend" THEN Len(scoped) + 1
                          ELSE IF op = "resume" THEN Len(scoped) - 1 ELSE Len(scoped),
           (lock' = "main") = IF op = "acquire" THEN TRUE
                              ELSE IF op = "release" THEN FALSE ELSE lock = "main"
    PROVE  Inv'
<1>1. /\ TypeOK /\ Tail(todo) \in Seq(Call) /\ todo' \in Seq(Call) /\ Len(scoped) \in Nat
      /\ \A u \in Sessions : ConverterInv(u) /\ ~dirty[u]
  <2>1. TypeOK /\ Tail(todo) \in Seq(Call)
    BY AtCall
  <2>2. \A u \in Sessions : ConverterInv(u) /\ ~dirty[u]
    BY DEF Inv, ConverterInv, Calls
  <2>3. Len(scoped) \in Nat
    BY <2>1 DEF TypeOK
  <2>4. QED
    BY <2>1, <2>2, <2>3
<1>2. /\ UNCHANGED <<speculation, candidateFence, published, deferred, staged, dirty, pending,
                     phase, revision, window, secure, field, status, holds, at, job>>
  BY DEF learnState, screen, domain, jobVars
<1>3. \A u \in Sessions : ConverterInv(u)'
  BY <1>1, <1>2 DEF ConverterInv, Clean
<1>4. ASSUME NEW t \in Sessions PROVE Outlined(t)'
  <2>1. PICK A \in SUBSET Fact, k \in Mark :
            /\ Meets(A, t)
            /\ Fits(<<op, s>>, t, MarkOf(A), k)
            /\ Runs(Tail(todo), t, k, Done)
    BY CallMarks
  <2>2. /\ k.depth \in Nat /\ k.held \in BOOLEAN /\ k.facts \in SUBSET Fact
        /\ k = [depth |-> k.depth, held |-> k.held, facts |-> k.facts]
    BY DEF Mark
  <2>3. k.depth = Len(scoped')
    BY <1>1, <2>1, <2>2 DEF Fits, MarkOf
  <2>4. k.held = (lock' = "main")
    BY <2>1 DEF Fits, MarkOf
  <2>5. k.facts \subseteq A
    <3>1. After(op, A) = A
      BY DEF After, Keeps, Makes
    <3>2. QED
      BY <2>1, <3>1 DEF Fits, MarkOf
  <2>6. Meets(k.facts, t)'
    BY <1>2, <2>1, <2>5 DEF Meets, Rest, Emptied, Clean
  <2>7. Runs(todo', t, [depth |-> Len(scoped'), held |-> lock' = "main", facts |-> k.facts],
             Done)
    BY <2>1, <2>2, <2>3, <2>4
  <2>8. QED
    BY <2>2, <2>6, <2>7 DEF Outlined
<1>5. QED
  BY <1>1, <1>3, <1>4 DEF Inv, HybridInv

LEMMA SuspendStep ==
    ASSUME Inv, NEW s \in Sessions, Suspend(s)
    PROVE  Inv'
<1> DEFINE op == "suspend"
<1>1. /\ Calls(op, s) /\ todo' = Tail(todo)
      /\ fences' = fences \cup {NewFence} /\ scoped' = <<NewFence>> \o scoped
      /\ UNCHANGED <<speculation, candidateFence, published, deferred, learnState, screen,
                     domain, jobVars, lock>>
  BY DEF Suspend, Return
<1>2. TypeOK /\ FencesOwned /\ GateInv
  BY DEF Inv, HybridInv
<1>3. NewFence \in Nat \ {NoFence} /\ NewFence \notin fences
  BY <1>2, NewFenceFresh
<1> HIDE DEF NewFence
<1>4. /\ scoped \in Seq(Nat) /\ scoped' \in Seq(Nat) /\ Len(scoped') = Len(scoped) + 1
      /\ ToSet(scoped') = ToSet(scoped) \cup {NewFence}
      /\ \A i \in 1 .. Len(scoped') :
            scoped'[i] = IF i = 1 THEN NewFence ELSE scoped[i - 1]
      /\ DOMAIN scoped' = 1 .. Len(scoped')
  <2>1. scoped \in Seq(Nat)
    BY <1>2 DEF TypeOK
  <2>2. /\ scoped' \in Seq(Nat) /\ Len(scoped') = Len(scoped) + 1
        /\ \A i \in 1 .. Len(scoped') :
            scoped'[i] = IF i = 1 THEN NewFence ELSE scoped[i - 1]
    BY <1>1, <1>3, <2>1
  <2>3. DOMAIN scoped' = 1 .. Len(scoped') /\ DOMAIN scoped = 1 .. Len(scoped)
        /\ Len(scoped) \in Nat
    BY <2>1, <2>2
  <2>4. ToSet(scoped') \subseteq ToSet(scoped) \cup {NewFence}
    <3>1. ASSUME NEW i \in 1 .. Len(scoped'), i # 1
          PROVE  i - 1 \in 1 .. Len(scoped) /\ scoped'[i] = scoped[i - 1]
      BY <2>2, <2>3, <3>1
    <3>2. \A i \in 1 .. Len(scoped') : scoped'[i] \in ToSet(scoped) \cup {NewFence}
      BY <2>2, <2>3, <3>1 DEF ToSet
    <3>3. QED
      BY <2>3, <3>2 DEF ToSet
  <2>5. \A i \in 1 .. Len(scoped) :
            i + 1 \in 1 .. Len(scoped') /\ scoped'[i + 1] = scoped[i]
    BY <2>2, <2>3
  <2>6. ToSet(scoped) \subseteq ToSet(scoped')
    BY <2>3, <2>5 DEF ToSet
  <2>7. NewFence \in ToSet(scoped')
    BY <2>2, <2>3 DEF ToSet
  <2>8. QED
    BY <2>1, <2>2, <2>3, <2>4, <2>6, <2>7
<1>5. UNCHANGED <<candidateFence, workerFence, status, at, job, result, queue, context>>
  BY <1>1 DEF jobVars, domain
<1>6. FencesOwned'
  <2>1. NewFence \notin ToSet(scoped) /\ NewFence # workerFence
        /\ \A u \in Sessions : NewFence # candidateFence[u]
    BY <1>2, <1>3 DEF FencesOwned
  <2>2. IsInjective(scoped')
    <3>1. \A i \in 1 .. Len(scoped) : scoped[i] # NewFence
      BY <1>4, <2>1 DEF ToSet
    <3>2. \A i, j \in 1 .. Len(scoped) : scoped[i] = scoped[j] => i = j
      BY <1>2, <1>4 DEF FencesOwned, IsInjective
    <3>3. Len(scoped) \in Nat
      BY <1>4
    <3>4. ASSUME NEW i \in 1 .. Len(scoped'), NEW j \in 1 .. Len(scoped'),
                 scoped'[i] = scoped'[j]
          PROVE  i = j
      <4>0. ASSUME NEW l \in 1 .. Len(scoped'), l # 1
            PROVE  l - 1 \in 1 .. Len(scoped) /\ scoped'[l] = scoped[l - 1]
        BY <1>4, <3>3, <4>0
      <4>1. \A l \in 1 .. Len(scoped') : l # 1 => scoped'[l] # NewFence
        BY <3>1, <4>0
      <4>2. (i = 1) <=> (j = 1)
        BY <1>4, <3>4, <4>1
      <4>3. CASE i # 1 /\ j # 1
        <5>1. i - 1 \in 1 .. Len(scoped) /\ j - 1 \in 1 .. Len(scoped)
              /\ scoped[i - 1] = scoped[j - 1]
          BY <3>4, <4>0, <4>3
        <5>2. i - 1 = j - 1
          BY <3>2, <5>1
        <5>3. i \in Int /\ j \in Int
          BY <3>4
        <5>4. QED
          BY <5>2, <5>3
      <4>4. QED
        BY <4>2, <4>3
    <3>5. QED
      BY <1>4, <3>4 DEF IsInjective
  <2>3. fences' = ({candidateFence'[u] : u \in Sessions} \cup {workerFence'}
                        \cup ToSet(scoped')) \ {NoFence}
    BY <1>1, <1>2, <1>3, <1>4, <1>5 DEF FencesOwned
  <2>4. QED
    BY <1>2, <1>4, <1>5, <2>1, <2>2, <2>3 DEF FencesOwned
<1>7. TypeOK'
  BY <1>1, <1>2, <1>3, <1>4 DEF TypeOK, learnState, screen, domain, jobVars
<1>8. GateInv'
  BY <1>1, <1>2, <1>3, <1>4, <1>5 DEF GateInv
<1>9. QED
  BY <1>1, <1>4, <1>6, <1>7, <1>8, GateStep

LEMMA ResumeStep ==
    ASSUME Inv, NEW s \in Sessions, Resume(s)
    PROVE  Inv'
<1> DEFINE op == "resume"
<1>1. /\ Calls(op, s) /\ todo' = Tail(todo)
      /\ fences' = fences \ {Head(scoped)} /\ scoped' = Tail(scoped)
      /\ UNCHANGED <<speculation, candidateFence, published, deferred, learnState, screen,
                     domain, jobVars, lock>>
  BY DEF Resume, Return
<1>2. TypeOK /\ FencesOwned /\ GateInv
  BY DEF Inv, HybridInv
<1>3. scoped \in Seq(Nat) /\ Len(scoped) \in Nat /\ Len(scoped) >= 1
  <2>1. PICK A \in SUBSET Fact, k \in Mark : Fits(<<op, s>>, s, MarkOf(A), k)
    BY <1>1, CallMarks
  <2>2. Len(scoped) = k.depth + 1 /\ k.depth \in Nat
    BY <2>1 DEF Fits, MarkOf, Mark
  <2>3. QED
    BY <1>2, <2>2 DEF TypeOK
<1>4. /\ scoped' \in Seq(Nat) /\ Len(scoped') = Len(scoped) - 1
      /\ Head(scoped) = scoped[1]
      /\ \A i \in 1 .. Len(scoped') :
            i + 1 \in 2 .. Len(scoped) /\ scoped'[i] = scoped[i + 1]
      /\ DOMAIN scoped' = 1 .. Len(scoped') /\ DOMAIN scoped = 1 .. Len(scoped)
      /\ Len(scoped') \in Nat
  BY <1>1, <1>3
<1>5. \A i, j \in 1 .. Len(scoped) : scoped[i] = scoped[j] => i = j
  BY <1>2, <1>4 DEF FencesOwned, IsInjective
<1>6. ToSet(scoped') = ToSet(scoped) \ {Head(scoped)} /\ Head(scoped) \in ToSet(scoped)
  <2>1. ASSUME NEW y \in ToSet(scoped') PROVE y \in ToSet(scoped) /\ y # Head(scoped)
    <3>1. PICK i \in 1 .. Len(scoped') : y = scoped'[i]
      BY <1>4 DEF ToSet
    <3>2. i + 1 \in 1 .. Len(scoped) /\ 1 \in 1 .. Len(scoped) /\ i + 1 # 1
          /\ y = scoped[i + 1]
      <4>1. i + 1 \in 2 .. Len(scoped) /\ y = scoped[i + 1]
        BY <1>4, <3>1
      <4>2. QED
        BY <1>3, <4>1
    <3>3. QED
      BY <1>4, <1>5, <3>2 DEF ToSet
  <2>2. ASSUME NEW y \in ToSet(scoped), y # Head(scoped) PROVE y \in ToSet(scoped')
    <3>1. PICK i \in 1 .. Len(scoped) : y = scoped[i]
      BY <1>4 DEF ToSet
    <3>2. i # 1
      BY <1>4, <2>2, <3>1
    <3>3. i - 1 \in 1 .. Len(scoped') /\ i - 1 + 1 = i
      BY <1>3, <1>4, <3>2
    <3>4. y = scoped'[i - 1]
      BY <1>4, <3>1, <3>3
    <3>5. QED
      BY <1>4, <3>3, <3>4 DEF ToSet
  <2>3. Head(scoped) \in ToSet(scoped)
    <3>1. Head(scoped) = scoped[1] /\ 1 \in 1 .. Len(scoped)
      BY <1>3
    <3>2. QED
      BY <1>4, <3>1 DEF ToSet
  <2>4. QED
    BY <2>1, <2>2, <2>3
<1>7. UNCHANGED <<candidateFence, workerFence, status, at, job, result, queue, context>>
  BY <1>1 DEF jobVars, domain
<1>8. FencesOwned'
  <2>1. IsInjective(scoped')
    <3>1. ASSUME NEW i \in 1 .. Len(scoped'), NEW j \in 1 .. Len(scoped'),
                 scoped'[i] = scoped'[j]
          PROVE  i = j
      <4>1. i + 1 \in 1 .. Len(scoped) /\ j + 1 \in 1 .. Len(scoped)
            /\ scoped[i + 1] = scoped[j + 1]
        BY <1>4, <3>1
      <4>2. i + 1 = j + 1
        BY <1>5, <4>1
      <4>3. QED
        BY <1>4, <4>2
    <3>2. QED
      BY <1>4, <3>1 DEF IsInjective
  <2>2. Head(scoped) # workerFence
        /\ \A u \in Sessions : candidateFence[u] # NoFence => Head(scoped) # candidateFence[u]
    BY <1>2, <1>6 DEF FencesOwned
  <2>3. fences' = ({candidateFence'[u] : u \in Sessions} \cup {workerFence'}
                        \cup ToSet(scoped')) \ {NoFence}
    BY <1>1, <1>2, <1>6, <1>7, <2>2 DEF FencesOwned
  <2>4. QED
    BY <1>2, <1>6, <1>7, <2>1, <2>3 DEF FencesOwned
<1>9. TypeOK'
  BY <1>1, <1>2, <1>4 DEF TypeOK, learnState, screen, domain, jobVars
<1>10. GateInv'
  BY <1>1, <1>2, <1>6, <1>7 DEF GateInv
<1>11. QED
  BY <1>1, <1>4, <1>8, <1>9, <1>10, GateStep

LEMMA LockGateStep ==
    ASSUME Inv, NEW s \in Sessions, LockGate(s)
    PROVE  Inv'
<1>1. /\ todo' = Tail(todo)
      /\ UNCHANGED <<speculation, candidateFence, published, deferred, fences, learnState,
                     screen, domain, jobVars, scoped>>
  BY DEF LockGate, Return, fenceState
<1>2. TypeOK /\ FencesOwned /\ GateInv
  BY DEF Inv, HybridInv
<1>3. UNCHANGED <<candidateFence, workerFence, status, at, job, result, queue, context>>
  BY <1>1 DEF jobVars, domain
<1>4. FencesOwned'
  BY <1>1, <1>2, <1>3 DEF FencesOwned
<1>5. CASE Calls("acquire", s) /\ lock = "free" /\ lock' = "main"
  <2>1. TypeOK'
    BY <1>1, <1>2, <1>5 DEF TypeOK, learnState, screen, domain, jobVars
  <2>2. GateInv'
    BY <1>1, <1>2, <1>3, <1>5 DEF GateInv
  <2>3. QED
    BY <1>1, <1>4, <1>5, <2>1, <2>2, GateStep
<1>6. CASE Calls("release", s) /\ lock' = "free"
  <2>1. lock = "main"
    <3>1. PICK A \in SUBSET Fact, k \in Mark : Fits(<<"release", s>>, s, MarkOf(A), k)
      BY <1>6, CallMarks
    <3>2. QED
      BY <3>1 DEF Fits, MarkOf
  <2>2. TypeOK'
    BY <1>1, <1>2, <1>6 DEF TypeOK, learnState, screen, domain, jobVars
  <2>3. GateInv'
    BY <1>1, <1>2, <1>3, <1>6, <2>1 DEF GateInv
  <2>4. QED
    BY <1>1, <1>4, <1>6, <2>1, <2>2, <2>3, GateStep
<1>7. QED
  BY <1>5, <1>6 DEF LockGate

\* Every call keeps the invariant
LEMMA CallsKeep ==
    ASSUME Inv, NEW s \in Sessions, CallStep(s)
    PROVE  Inv'
  BY InvalidateStep, InvalidateForCommitStep, ExternalStep, RetireStep, RelabelStep,
     PresentStep, PrepareStep, SubmitStep, LockOrderStep, SegmentsStep, AbandonStep,
     StopStep, LearnStep, CommitLearningStep, ResolveCommitStep, ResolveDiscardStep,
     RecordLearningStep, SuspendStep, ResumeStep, LockGateStep, PurgeStateStep,
     PurgeHazkeyStep, AwaitWorkerStep, RefreshStep, ChangeSecureStep, DropStep
  DEF CallStep

------------------------------------------------------------------------------
(* The worker                                                              *)

LEMMA WorkFrame ==
    ASSUME Inv, Work
    PROVE  /\ TypeOK /\ FencesOwned /\ GateInv /\ todo \in Seq(Call)
           /\ \A u \in Sessions : ConverterInv(u)
           /\ UNCHANGED <<staged, dirty, pending, learning, phase, revision, window, secure,
                          field,
                          status, todo, scoped>>
           /\ holds' = IF at = "converting" THEN [holds EXCEPT ![job.session] = TRUE]
                       ELSE holds
  BY DEF Work, Inv, HybridInv, learnState, screen, Set

\* The worker keeps the invariant when what it changes is not what a request
\* has to rely on
LEMMA WorkInv ==
    ASSUME Inv, Work, TypeOK', FencesOwned', GateInv', (lock' = "main") = (lock = "main"),
           \A u \in Sessions : ConverterInv(u)',
           \A u \in Sessions :
                published'[u] = published[u] /\ deferred'[u] = deferred[u],
           \A u \in Sessions : Emptied(u) => Emptied(u)',
           \A u \in Sessions : Clean(u) /\ speculation[u].kind = "idle" =>
                Clean(u)' /\ speculation'[u].kind = "idle"
    PROVE  Inv'
<1>1. UNCHANGED <<staged, dirty, pending, window, secure, field, status, todo, scoped>>
      /\ todo \in Seq(Call)
  BY WorkFrame
<1>2. ASSUME NEW t \in Sessions PROVE Outlined(t)'
  <2>1. PICK A \in SUBSET Fact :
        /\ Meets(A, t)
        /\ Runs(todo, t, [depth |-> Len(scoped), held |-> lock = "main", facts |-> A], Done)
    BY DEF Inv, Outlined
  <2>2. Meets(A, t)'
    BY <1>1, <2>1 DEF Meets, Rest
  <2>3. Runs(todo', t, [depth |-> Len(scoped'), held |-> lock' = "main", facts |-> A], Done)
    BY <1>1, <2>1
  <2>4. QED
    BY <2>2, <2>3 DEF Outlined
<1>3. QED
  BY <1>1, <1>2 DEF Inv, HybridInv

\* ... as most of its steps do
LEMMA QuietWork ==
    ASSUME Inv, Work, TypeOK', FencesOwned', GateInv', (lock' = "main") = (lock = "main"),
           UNCHANGED <<speculation, candidateFence, published, deferred>>,
           at # "converting", at' \notin {"converting", "fencing"}
    PROVE  Inv'
<1>1. /\ UNCHANGED <<staged, dirty, pending, revision, secure, field, status, holds, todo>>
      /\ \A u \in Sessions : ConverterInv(u)
  BY WorkFrame
<1>2. \A u \in Sessions : ConverterInv(u)'
  BY <1>1 DEF ConverterInv, Clean, Calls
<1>3. \A u \in Sessions : Emptied(u) => Emptied(u)'
  BY <1>1 DEF Emptied
<1>4. \A u \in Sessions : Clean(u) /\ speculation[u].kind = "idle" =>
            Clean(u)' /\ speculation'[u].kind = "idle"
  BY <1>1 DEF Clean
<1>5. QED
  BY <1>2, <1>3, <1>4, WorkInv

LEMMA DequeueStep ==
    ASSUME Inv, Work, Dequeue
    PROVE  Inv'
<1>1. /\ TypeOK /\ FencesOwned /\ GateInv /\ at = "free"
      /\ queue # <<>> /\ queue' = Tail(queue)
      /\ \/ /\ status[Head(queue).session] = "live"
            /\ at' = "admission" /\ job' = Head(queue)
         \/ UNCHANGED <<at, job>>
      /\ UNCHANGED <<speculation, candidateFence, published, deferred, fences, lock, context,
                     result, workerFence, staged, dirty, pending, learning, phase, revision,
                     window, secure, field, status, todo, scoped, holds>>
  BY WorkFrame DEF Dequeue, fenceState
<1>2. Head(queue) \in [session : Sessions, work : Nat]
      /\ queue' \in Seq([session : Sessions, work : Nat])
  <2>1. queue \in Seq([session : Sessions, work : Nat])
    BY <1>1 DEF TypeOK
  <2>2. ASSUME NEW S, NEW q \in Seq(S), q # <<>>
        PROVE  Head(q) \in S /\ Tail(q) \in Seq(S)
    BY <2>2
  <2>3. QED
    BY <1>1, <2>1, <2>2
<1>3. TypeOK'
  BY <1>1, <1>2 DEF TypeOK
<1>4. FencesOwned'
  BY <1>1 DEF FencesOwned
<1>5. GateInv'
  BY <1>1, <1>2 DEF GateInv, Inside
<1>6. QED
  BY <1>1, <1>3, <1>4, <1>5, QuietWork

LEMMA AdmitStep ==
    ASSUME Inv, Work, Admit \/ Enter
    PROVE  Inv'
<1>1. /\ TypeOK /\ FencesOwned /\ GateInv
      /\ \/ at = "admission" /\ at' = "entering" /\ lock' = lock
         \/ at = "entering" /\ lock = "free" /\ fences = {} /\ at' = "checking"
            /\ lock' = "worker"
         \/ at = "entering" /\ at' = "admission" /\ lock' = lock
      /\ UNCHANGED <<speculation, candidateFence, published, deferred, fences, context, queue,
                     job, result, workerFence, staged, dirty, pending, learning, phase,
                     revision, window, secure, field, status, todo, scoped, holds>>
  BY WorkFrame DEF Admit, Enter, fenceState
<1>2. TypeOK'
  BY <1>1 DEF TypeOK
<1>3. FencesOwned'
  BY <1>1 DEF FencesOwned
<1>4. fences = {} => \A s \in Sessions : candidateFence[s] = NoFence
  BY <1>1 DEF FencesOwned
<1>5. GateInv'
  BY <1>1, <1>4 DEF GateInv, Inside
<1>6. QED
  BY <1>1, <1>2, <1>3, <1>5, QuietWork

LEMMA FenceResultStep ==
    ASSUME Inv, Work, FenceResult
    PROVE  Inv'
<1>1. /\ TypeOK /\ FencesOwned /\ GateInv
      /\ at = "fencing" /\ at' = "finishing"
      /\ workerFence' = NewFence /\ fences' = fences \cup {NewFence}
      /\ UNCHANGED <<speculation, candidateFence, published, deferred, lock, context, queue,
                     job, result, staged, dirty, pending, learning, phase,
                     revision, window, secure, field, status, todo, scoped, holds>>
  BY WorkFrame DEF FenceResult
<1>2. NewFence \in Nat \ {NoFence} /\ NewFence \notin fences
  BY <1>1, NewFenceFresh
<1> HIDE DEF NewFence
<1>3. TypeOK'
  BY <1>1, <1>2 DEF TypeOK
<1>4. FencesOwned'
  <2>1. NewFence \notin ToSet(scoped) /\ \A u \in Sessions : NewFence # candidateFence[u]
    BY <1>1, <1>2 DEF FencesOwned
  <2>2. workerFence = NoFence
    BY <1>1 DEF GateInv
  <2>3. fences' = ({candidateFence'[u] : u \in Sessions} \cup {workerFence'}
                        \cup ToSet(scoped')) \ {NoFence}
    BY <1>1, <1>2, <2>2 DEF FencesOwned
  <2>4. QED
    BY <1>1, <2>1, <2>3 DEF FencesOwned
<1>5. GateInv'
  BY <1>1, <1>2 DEF GateInv, Inside
<1>6. QED
  BY <1>1, <1>3, <1>4, <1>5, QuietWork

LEMMA LeaveStep ==
    ASSUME Inv, Work, ReleaseWorkerFence \/ Leave
    PROVE  Inv'
<1>1. /\ TypeOK /\ FencesOwned /\ GateInv /\ at = "leaving"
      /\ \/ /\ fences' = fences \ {workerFence} /\ workerFence' = NoFence
            /\ workerFence # NoFence
            /\ UNCHANGED <<lock, at, job, context, result>>
         \/ /\ workerFence = NoFence /\ lock' = "free" /\ at' = "free" /\ job' = NoJob
            /\ context' = NoContext /\ result' = "none" /\ UNCHANGED <<workerFence, fences>>
      /\ UNCHANGED <<speculation, candidateFence, published, deferred, queue,
                     staged, dirty, pending, learning, phase,
                     revision, window, secure, field, status, todo, scoped, holds>>
  BY WorkFrame DEF ReleaseWorkerFence, Leave, fenceState
<1>2. NoJob \in [session : Sessions \cup {NoSession}, work : Nat]
      /\ NoContext \in [revision : Nat, learning : Nat] /\ NoFence \in Nat
  BY DEF NoJob, NoContext, Context, NoFence
<1>3. TypeOK'
  BY <1>1, <1>2 DEF TypeOK
<1>4. FencesOwned'
  <2>1. NoFence \notin ToSet(scoped)
    BY <1>1 DEF GateInv
  <2>2. workerFence # NoFence =>
            workerFence \notin ToSet(scoped) /\ \A u \in Sessions : workerFence # candidateFence[u]
    BY <1>1 DEF FencesOwned
  <2>3. fences' = ({candidateFence'[u] : u \in Sessions} \cup {workerFence'}
                        \cup ToSet(scoped')) \ {NoFence}
    BY <1>1, <2>2 DEF FencesOwned
  <2>4. QED
    BY <1>1, <2>1, <2>3 DEF FencesOwned
<1>5. GateInv' /\ (lock' = "main") = (lock = "main")
  BY <1>1 DEF GateInv, Inside
<1>6. QED
  BY <1>1, <1>3, <1>4, <1>5, QuietWork

LEMMA ConvertStep ==
    ASSUME Inv, Work, Convert
    PROVE  Inv'
<1>1. /\ TypeOK /\ FencesOwned /\ GateInv /\ at = "converting"
      /\ result' \in {"failed", "plain", "learnable", "stale"}
      /\ at' = IF result' = "learnable" THEN "fencing" ELSE "finishing"
      /\ at' = "fencing" => StillPending(job.session, context)
      /\ holds' = [holds EXCEPT ![job.session] = TRUE]
      /\ UNCHANGED <<speculation, candidateFence, published, deferred, fences, lock, queue,
                     job, context, workerFence, staged, dirty, pending, learning, phase,
                     revision, window, secure, field, status, todo, scoped>>
      /\ \A u \in Sessions : ConverterInv(u)
  BY WorkFrame DEF Convert, fenceState
<1>2. job.session \in Sessions
  BY <1>1 DEF GateInv
<1>3. holds' \in [Sessions -> BOOLEAN]
      /\ \A u \in Sessions : u # job.session => holds'[u] = holds[u]
  BY <1>1, <1>2 DEF TypeOK
<1>4. TypeOK'
  BY <1>1, <1>3 DEF TypeOK
<1>5. FencesOwned'
  BY <1>1 DEF FencesOwned
<1>6. GateInv'
  BY <1>1 DEF GateInv, Inside
<1>7. \A u \in Sessions : Clean(u) => Clean(u)'
  BY <1>1, <1>3 DEF Clean
<1>8. \A u \in Sessions : ConverterInv(u)'
  BY <1>1, <1>7 DEF ConverterInv, Calls
<1>9. \A u \in Sessions : Emptied(u) => Emptied(u)'
  BY <1>1 DEF Emptied
<1>10. QED
  BY <1>1, <1>4, <1>5, <1>6, <1>7, <1>8, <1>9, WorkInv

LEMMA ReadPendingStep ==
    ASSUME Inv, Work, ReadPending
    PROVE  Inv'
<1> DEFINE s == job.session
           read == speculation[s].context
           current == Context(read.revision, learning)
           fresh == State("pending", job.work, current, "none")
<1>1. /\ TypeOK /\ FencesOwned /\ GateInv /\ at = "checking"
      /\ \/ /\ speculation[s].kind = "pending"
            /\ speculation' = [speculation EXCEPT ![s] = fresh]
            /\ context' = current /\ at' = "converting" /\ UNCHANGED result
         \/ /\ result' = "stale" /\ at' = "finishing"
            /\ UNCHANGED <<speculation, context>>
      /\ UNCHANGED <<candidateFence, published, deferred, fences, lock, queue,
                     job, workerFence, staged, dirty, pending, learning, phase,
                     revision, window, secure, field, status, todo, scoped, holds>>
      /\ \A u \in Sessions : ConverterInv(u)
  BY WorkFrame DEF ReadPending, StillPending, fenceState, Set
<1>2. s \in Sessions
  BY <1>1 DEF GateInv
<1>3. fresh \in SpecState /\ current \in [revision : Nat, learning : Nat]
      /\ fresh.kind = "pending" /\ fresh.step = "none"
  <2>1. read.revision \in Nat /\ learning \in Nat /\ job.work \in Nat
    BY <1>1, <1>2 DEF TypeOK
  <2>2. QED
    BY <2>1, StateTypes DEF State, Context
<1> HIDE DEF fresh, current
<1>4. /\ speculation \in [Sessions -> SpecState] /\ speculation' \in [Sessions -> SpecState]
      /\ \A u \in Sessions : u # s => speculation'[u] = speculation[u]
      /\ \/ /\ speculation[s].kind = "pending" /\ speculation'[s].kind = "pending"
            /\ speculation'[s].step = "none" /\ at' = "converting"
         \/ speculation'[s] = speculation[s] /\ at' = "finishing" /\ result' = "stale"
  <2>1. speculation \in [Sessions -> SpecState]
    BY <1>1 DEF TypeOK, SpecState
  <2>2. QED
    BY <1>1, <1>2, <1>3, <2>1
<1>5. TypeOK'
  <2>1. context' \in [revision : Nat, learning : Nat]
        /\ result' \in {"none", "failed", "plain", "learnable", "stale"}
    BY <1>1, <1>3 DEF TypeOK
  <2>2. OtherTypes'
    BY <1>1, <2>1 DEF TypeOK, OtherTypes
  <2>3. QED
    BY <1>1, <1>4, <2>2 DEF TypeOK, OtherTypes, SpecState
<1>6. FencesOwned'
  BY <1>1 DEF FencesOwned
<1>7. GateInv'
  BY <1>1, <1>4 DEF GateInv, Inside
<1>8. \A u \in Sessions : Clean(u) /\ speculation[u].kind \in {"idle", "frozen"} =>
            Clean(u)' /\ speculation'[u] = speculation[u]
  BY <1>1, <1>4 DEF Clean
<1>9. \A u \in Sessions : ConverterInv(u)'
  <2>1. \A u \in Sessions : secure[u] => Clean(u)'
    BY <1>1, <1>8 DEF ConverterInv, Clean
  <2>2. QED
    BY <1>1, <1>2, <1>4, <2>1 DEF ConverterInv, Calls
<1>10. \A u \in Sessions : Emptied(u) => Emptied(u)'
  BY <1>1, <1>4 DEF Emptied
<1>11. QED
  BY <1>1, <1>5, <1>6, <1>7, <1>8, <1>9, <1>10, WorkInv

LEMMA FinishStep ==
    ASSUME Inv, Work, Finish
    PROVE  Inv'
<1> DEFINE s == job.session
           ready == State("ready", job.work, context, result)
           taken == /\ speculation[s].kind = "pending" /\ result \in {"plain", "learnable"}
                    /\ speculation' = [speculation EXCEPT ![s] = ready]
                    /\ workerFence' = NoFence
                    /\ IF workerFence = NoFence
                         THEN UNCHANGED <<candidateFence, published, deferred>>
                         ELSE /\ candidateFence' = [candidateFence EXCEPT ![s] = workerFence]
                              /\ published' = [published EXCEPT ![s] = FALSE]
                              /\ deferred' = [deferred EXCEPT ![s] = FALSE]
           dropped == /\ speculation[s].kind = "pending"
                      /\ speculation' = [speculation EXCEPT ![s] = Idle]
                      /\ UNCHANGED <<candidateFence, published, deferred, workerFence>>
           kept == UNCHANGED <<speculation, candidateFence, published, deferred, workerFence>>
<1>1. /\ TypeOK /\ FencesOwned /\ GateInv /\ at = "finishing" /\ at' = "leaving"
      /\ taken \/ dropped \/ kept
      /\ UNCHANGED <<fences, lock, queue, job, context, result, staged, dirty, pending,
                     learning, phase, revision, window, secure, field, status, todo, scoped,
                     holds>>
      /\ \A u \in Sessions : ConverterInv(u)
  BY WorkFrame DEF Finish, StillPending, fenceState, Set
<1>2. /\ s \in Sessions /\ status[s] # "gone" /\ NoFence \notin ToSet(scoped)
      /\ result = "learnable" => workerFence # NoFence
      /\ \A u \in Sessions : candidateFence[u] = NoFence
  BY <1>1 DEF GateInv, Inside
<1>3. /\ \A u \in Sessions : ~published[u] /\ ~deferred[u] /\ (staged[u] => status[u] = "gone")
      /\ speculation \in [Sessions -> SpecState] /\ NoFence \in Nat
  BY <1>1, <1>2 DEF ConverterInv, TypeOK, SpecState, NoFence
<1>4. Idle \in SpecState /\ Idle.kind = "idle" /\ Idle.step = "none"
  BY StateTypes DEF Idle, State
<1>5. CASE taken
  <2>1. ready \in SpecState /\ ready.kind = "ready" /\ ready.step = result
    <3>1. job.work \in Nat /\ context = Context(context.revision, context.learning)
          /\ context.revision \in Nat /\ context.learning \in Nat
      BY <1>1 DEF TypeOK, Context
    <3>2. ready = State("ready", job.work, Context(context.revision, context.learning), result)
      BY <3>1
    <3>3. ready \in SpecState
      BY <1>5, <3>1, <3>2, StateTypes
    <3>4. QED
      BY <3>3 DEF State
  <2> HIDE DEF ready
  <2>2. /\ speculation' \in [Sessions -> SpecState] /\ speculation'[s] = ready
        /\ \A u \in Sessions : u # s => speculation'[u] = speculation[u]
    BY <1>2, <1>3, <1>5, <2>1
  <2>3. /\ candidateFence' \in [Sessions -> Nat] /\ candidateFence'[s] = workerFence
        /\ \A u \in Sessions : u # s => candidateFence'[u] = NoFence
        /\ published' \in [Sessions -> BOOLEAN] /\ deferred' \in [Sessions -> BOOLEAN]
        /\ \A u \in Sessions : published'[u] = published[u] /\ deferred'[u] = deferred[u]
    <3>1. CASE workerFence = NoFence
      BY <1>1, <1>2, <1>5, <3>1 DEF TypeOK
    <3>2. CASE workerFence # NoFence
      <4>1. /\ candidateFence' = [candidateFence EXCEPT ![s] = workerFence]
            /\ published' = [published EXCEPT ![s] = FALSE]
            /\ deferred' = [deferred EXCEPT ![s] = FALSE]
        BY <1>5, <3>2
      <4>2. /\ candidateFence \in [Sessions -> Nat] /\ workerFence \in Nat
            /\ published \in [Sessions -> BOOLEAN] /\ deferred \in [Sessions -> BOOLEAN]
        BY <1>1 DEF TypeOK
      <4>3. candidateFence' \in [Sessions -> Nat] /\ candidateFence'[s] = workerFence
            /\ \A u \in Sessions : u # s => candidateFence'[u] = NoFence
        BY <1>2, <4>1, <4>2
      <4>4. published' \in [Sessions -> BOOLEAN]
            /\ \A u \in Sessions : published'[u] = published[u]
        BY <1>2, <1>3, <4>1, <4>2
      <4>5. deferred' \in [Sessions -> BOOLEAN]
            /\ \A u \in Sessions : deferred'[u] = deferred[u]
        BY <1>2, <1>3, <4>1, <4>2
      <4>6. QED
        BY <4>3, <4>4, <4>5
    <3>3. QED
      BY <3>1, <3>2
  <2>4. TypeOK'
    BY <1>1, <1>3, <1>5, <2>2, <2>3 DEF TypeOK, SpecState
  <2>5. FencesOwned'
    <3>1. workerFence' = NoFence
      BY <1>5
    <3>2. fences' = ({candidateFence'[u] : u \in Sessions} \cup {workerFence'}
                        \cup ToSet(scoped')) \ {NoFence}
      BY <1>1, <1>2, <2>3, <3>1 DEF FencesOwned
    <3>3. workerFence \notin ToSet(scoped)
      BY <1>1 DEF FencesOwned
    <3>4. QED
      BY <1>1, <1>2, <2>3, <3>1, <3>2, <3>3 DEF FencesOwned
  <2>6. GateInv'
    BY <1>1, <1>2 DEF GateInv, Inside
  <2>7. \A u \in Sessions : Clean(u) => u # s
    BY <1>5 DEF Clean
  <2>8. \A u \in Sessions : Clean(u) => Clean(u)' /\ speculation'[u] = speculation[u]
    BY <1>1, <1>2, <2>2, <2>3, <2>7 DEF Clean
  <2>9. \A u \in Sessions : ConverterInv(u)'
    <3>1. ASSUME NEW u \in Sessions, u # s PROVE ConverterInv(u)'
      BY <1>1, <1>2, <2>2, <2>3, <2>8, <3>1 DEF ConverterInv, Calls
    <3>2. ASSUME NEW u \in Sessions, u = s PROVE ConverterInv(u)'
      BY <1>1, <1>2, <1>3, <2>1, <2>2, <2>3, <2>7, <3>2 DEF ConverterInv, Calls
    <3>3. QED
      BY <3>1, <3>2
  <2>10. \A u \in Sessions : Emptied(u) => Emptied(u)'
    BY <1>1, <1>2, <1>5, <2>2, <2>3 DEF Emptied
  <2>11. QED
    BY <1>1, <2>3, <2>4, <2>5, <2>6, <2>8, <2>9, <2>10, WorkInv
<1>6. CASE dropped \/ kept
  <2>1. /\ UNCHANGED <<candidateFence, published, deferred, workerFence>>
        /\ speculation' \in [Sessions -> SpecState]
        /\ \A u \in Sessions : u # s => speculation'[u] = speculation[u]
        /\ \/ speculation[s].kind = "pending" /\ speculation'[s] = Idle
           \/ speculation'[s] = speculation[s]
    BY <1>2, <1>3, <1>4, <1>6
  <2>2. TypeOK'
    BY <1>1, <2>1 DEF TypeOK, SpecState
  <2>3. FencesOwned'
    BY <1>1, <2>1 DEF FencesOwned
  <2>4. GateInv'
    BY <1>1, <1>2, <2>1 DEF GateInv, Inside
  <2>5. \A u \in Sessions : Clean(u) => Clean(u)' /\ speculation'[u] = speculation[u]
    BY <1>1, <2>1 DEF Clean
  <2>6. \A u \in Sessions : ConverterInv(u)'
    BY <1>1, <1>2, <1>4, <2>1, <2>5 DEF ConverterInv, Calls
  <2>7. \A u \in Sessions : Emptied(u) => Emptied(u)'
    BY <1>1, <2>1 DEF Emptied
  <2>8. QED
    BY <1>1, <2>1, <2>2, <2>3, <2>4, <2>5, <2>6, <2>7, WorkInv
<1>7. QED
  BY <1>1, <1>5, <1>6

\* Every step of the worker keeps the invariant
LEMMA WorkKeeps ==
    ASSUME Inv, Work
    PROVE  Inv'
  BY DequeueStep, AdmitStep, ReadPendingStep, ConvertStep, FenceResultStep, FinishStep,
     LeaveStep
  DEF Work

------------------------------------------------------------------------------
(* Sessions that come and go, and requests                                 *)

LEMMA DeinitStep ==
    ASSUME Inv, NEW s \in Sessions, Deinit(s)
    PROVE  Inv'
<1>1. /\ TypeOK /\ FencesOwned /\ GateInv /\ todo \in Seq(Call)
      /\ \A u \in Sessions : ConverterInv(u)
  BY DEF Inv, HybridInv
<1>2. /\ status[s] = "dropped" /\ job.session # s /\ Take(s, Idle)
      /\ status' = [status EXCEPT ![s] = "gone"]
      /\ UNCHANGED <<staged, dirty, pending, learning, phase, revision, window, secure,
                     field, holds,
                     lock, queue, at, job, context, result, workerFence, todo, scoped>>
  BY DEF Deinit, Set, learnState, screen, jobVars
<1>3. ~dirty[s]
  <2>1. dirty[s] => Calls("commitLearning", s)
    BY <1>1 DEF ConverterInv
  <2>2. Calls("commitLearning", s) => status[s] = "live"
    BY AtCall
  <2>3. QED
    BY <1>2, <2>1, <2>2
<1>4. Idle \in SpecState /\ Discarded(Idle) = Idle
      /\ Idle.kind = "idle" /\ Idle.step = "none"
  BY StateTypes DEF Discarded, Idle, State
<1>5. Rebound(s) /\ Freed(s) /\ speculation'[s] = Idle
  BY <1>1, <1>2, <1>4, Freeing
<1>6. status'[s] = "gone" /\ status' \in [Sessions -> {"gone", "live", "dropped"}]
      /\ \A u \in Sessions \ {s} : status'[u] = status[u]
  BY <1>1, <1>2 DEF TypeOK
<1>7. TypeOK' /\ FencesOwned' /\ Framed(s)
  BY <1>1, <1>2, <1>5, <1>6 DEF TypeOK, SpecState, Framed, Rebound
<1>8. GateInv'
  BY <1>1, <1>2, <1>5, <1>6 DEF GateInv, Rebound, Inside
<1>9. ASSUME NEW u \in Sessions PROVE ConverterInv(u)'
  <2>1. CASE u = s
    BY <1>1, <1>2, <1>3, <1>4, <1>5, <1>6, <2>1 DEF ConverterInv, Freed, Clean
  <2>2. CASE u # s
    BY <1>1, <1>2, <1>7, <2>2 DEF ConverterInv, Framed, Clean, Calls
  <2>3. QED
    BY <2>1, <2>2
<1>10. ASSUME NEW t \in Sessions PROVE Outlined(t)'
  <2>1. PICK A \in SUBSET Fact :
        /\ Meets(A, t)
        /\ Runs(todo, t, [depth |-> Len(scoped), held |-> lock = "main", facts |-> A], Done)
    BY DEF Inv, Outlined
  <2>2. Meets(A, t)'
    <3>1. CASE t = s
      BY <1>2, <1>4, <1>5, <1>6, <2>1, <3>1 DEF Meets, Rest, Emptied, Clean, Freed
    <3>2. CASE t # s
      BY <1>7, <2>1, <3>2, OthersMeet
    <3>3. QED
      BY <3>1, <3>2
  <2>3. Runs(todo', t, [depth |-> Len(scoped'), held |-> lock' = "main", facts |-> A], Done)
    BY <1>2, <2>1
  <2>4. QED
    BY <2>2, <2>3 DEF Outlined
<1>11. QED
  BY <1>1, <1>2, <1>7, <1>8, <1>9, <1>10 DEF Inv, HybridInv

\* Between two requests every session is at rest
LEMMA AtRest ==
    ASSUME Inv, todo = <<>>, NEW s \in Sessions
    PROVE  /\ MarkOf({"rest"}) = Done /\ Len(scoped) = 0 /\ lock # "main"
           /\ \A t \in Sessions : Rest(t) /\ ~dirty[t]
<1>1. ASSUME NEW t \in Sessions
      PROVE  MarkOf({"rest"}) = Done /\ Len(scoped) = 0 /\ lock # "main" /\ Rest(t) /\ ~dirty[t]
  <2>1. PICK A \in SUBSET Fact : Meets(A, t) /\ Runs(<<>>, t, MarkOf(A), Done)
    BY DEF Inv, Outlined, MarkOf
  <2>2. MarkOf(A) \in Mark
    BY MarkType DEF Inv, HybridInv
  <2>3. Done = MarkOf(A)
    BY <2>1, <2>2, RunsNil
  <2>4. A = {"rest"} /\ Len(scoped) = 0 /\ (lock = "main") = FALSE
    BY <2>3 DEF Done, MarkOf
  <2>5. ~dirty[t]
    BY DEF Inv, ConverterInv, Calls
  <2>6. QED
    BY <2>1, <2>3, <2>4, <2>5 DEF Meets
<1>2. QED
  BY <1>1

LEMMA OpenStep ==
    ASSUME Inv, NEW s \in Sessions, Open(s)
    PROVE  Inv'
<1>1. /\ TypeOK /\ FencesOwned /\ GateInv /\ todo \in Seq(Call)
      /\ \A u \in Sessions : ConverterInv(u)
  BY DEF Inv, HybridInv
<1>2. /\ todo = <<>> /\ status[s] = "gone"
      /\ status' = [status EXCEPT ![s] = "live"]
      /\ phase' = [phase EXCEPT ![s] = "idle"]
      /\ window' = [window EXCEPT ![s] = "none"]
      /\ pending' = [pending EXCEPT ![s] = FALSE]
      /\ \E secret \in BOOLEAN : /\ secure' = [secure EXCEPT ![s] = secret]
                                /\ field' = [field EXCEPT ![s] = secret]
      /\ holds' = [holds EXCEPT ![s] = FALSE]
      /\ speculation' = [speculation EXCEPT ![s] = Idle]
      /\ published' = [published EXCEPT ![s] = FALSE]
      /\ deferred' = [deferred EXCEPT ![s] = FALSE]
      /\ staged' = [staged EXCEPT ![s] = FALSE]
      /\ dirty' = [dirty EXCEPT ![s] = FALSE]
      /\ todo' = Ops(s, <<"refresh">>)
      /\ UNCHANGED <<candidateFence, fences, revision, lock, learning, queue, at, job, context,
                     result, workerFence, scoped>>
  <2>1. {FALSE, "secure" \in asks[s]} \subseteq BOOLEAN
    OBVIOUS
  <2>2. \E secret \in BOOLEAN : /\ secure' = [secure EXCEPT ![s] = secret]
                               /\ field' = [field EXCEPT ![s] = secret]
    BY <2>1 DEF Open, Set
  <2>3. QED
    BY <2>2 DEF Open, Set, jobVars
<1>3. Idle \in SpecState /\ Idle.kind = "idle" /\ Idle.step = "none"
      /\ speculation \in [Sessions -> SpecState]
  BY <1>1, StateTypes DEF Idle, State, TypeOK, SpecState
<1>4. /\ status'[s] = "live" /\ window'[s] = "none" /\ ~pending'[s]
      /\ ~holds'[s] /\ speculation'[s] = Idle /\ ~published'[s] /\ ~deferred'[s]
      /\ ~staged'[s] /\ ~dirty'[s]
  BY <1>1, <1>2, <1>3 DEF TypeOK
<1>11. todo' \in Seq(Call)
  <2>1. <<"refresh">> \in Seq(Op)
    BY DEF Op
  <2>2. QED
    BY <1>2, <2>1, OpsType
<1>5. TypeOK'
  <2>1. secure' \in [Sessions -> BOOLEAN] /\ field' \in [Sessions -> BOOLEAN]
    BY <1>1, <1>2 DEF TypeOK
  <2>2. QED
    BY <1>1, <1>2, <1>3, <1>11, <2>1 DEF TypeOK, SpecState
<1>6. Framed(s)
  BY <1>1, <1>2, <1>3 DEF Framed, TypeOK
<1>7. FencesOwned'
  BY <1>1, <1>2 DEF FencesOwned
<1>8. GateInv'
  BY <1>1, <1>2, <1>4, <1>6 DEF GateInv, Framed
<1>9. ASSUME NEW u \in Sessions PROVE ConverterInv(u)'
  <2>1. CASE u = s
    <3>1. candidateFence'[s] = NoFence
      BY <1>1, <1>2 DEF ConverterInv
    <3>2. job'.session # s
      BY <1>1, <1>2, HybridAssumption DEF GateInv, NoJob, Inside
    <3>3. QED
      BY <1>3, <1>4, <2>1, <3>1, <3>2 DEF ConverterInv, Clean
  <2>2. CASE u # s
    <3>1. ~dirty[u]
      BY <1>2, AtRest
    <3>2. QED
      BY <1>1, <1>2, <1>6, <2>2, <3>1 DEF ConverterInv, Framed, Clean
  <2>3. QED
    BY <2>1, <2>2
<1>10. ASSUME NEW t \in Sessions PROVE Outlined(t)'
  <2> DEFINE A == IF t = s THEN {"live", "rest"} ELSE {"rest"}
  <2>1. Len(scoped') = 0 /\ (lock' = "main") = FALSE /\ Rest(t)
    BY <1>2, AtRest
  <2>2. A \in SUBSET Fact /\ {"rest"} \in SUBSET Fact /\ {"live", "rest"} \in SUBSET Fact
    BY DEF Fact
  <2>3. Meets(A, t)'
    <3>1. CASE t = s
      BY <1>4, <3>1 DEF Meets, Rest
    <3>2. CASE t # s
      BY <1>6, <2>1, <3>2 DEF Meets, Rest, Framed
    <3>3. QED
      BY <3>1, <3>2
  <2>4. Leads("refresh", {"live", "rest"}, {"rest"})
    BY <2>2 DEF Leads, Flat, Op, Needs, After, Keeps, Makes
  <2>5. Flows(todo', s, {"live", "rest"}, {"rest"})
    BY <1>2, <2>4, Flow1
  <2>6. Runs(todo', t, [depth |-> 0, held |-> FALSE, facts |-> A],
                       [depth |-> 0, held |-> FALSE, facts |-> {"rest"}])
    BY <2>2, <2>5 DEF Flows
  <2> HIDE DEF A
  <2>7. Runs(todo', t, [depth |-> Len(scoped'), held |-> lock' = "main", facts |-> A], Done)
    BY <2>1, <2>6 DEF Done
  <2>8. QED
    BY <2>2, <2>3, <2>7 DEF Outlined, A
<1>12. QED
  BY <1>5, <1>7, <1>8, <1>9, <1>10, <1>11 DEF Inv, HybridInv

Text == {"idle", "composing", "inside", "converted"}

\* A request keeps the invariant when its calls have an outline
LEMMA RequestStep ==
    ASSUME Inv, NEW s \in Sessions, NEW kind, NEW text \in Text, NEW calls \in Seq(Call),
           Request(kind, s, text, calls),
           \A t \in Sessions : \E A \in SUBSET Fact :
                Meets(A, t) /\ Runs(calls, t, MarkOf(A), Done)
    PROVE  Inv'
<1>1. /\ TypeOK /\ FencesOwned /\ GateInv
      /\ \A u \in Sessions : ConverterInv(u)
  BY DEF Inv, HybridInv
<1>2. /\ todo = <<>> /\ todo' = calls
      /\ phase' = [phase EXCEPT ![s] = text]
      /\ UNCHANGED <<speculation, candidateFence, published, deferred, fences,
                     staged, dirty, pending, learning, revision, window, secure, field,
                     status, holds,
                     lock, queue, at, job, context, result, workerFence, scoped>>
  BY DEF Request, Set, fenceState, learnState, domain, jobVars
<1>3. TypeOK'
  BY <1>1, <1>2 DEF TypeOK, Text
<1>4. FencesOwned'
  BY <1>1, <1>2 DEF FencesOwned
<1>5. GateInv'
  BY <1>1, <1>2 DEF GateInv
<1>6. ASSUME NEW u \in Sessions PROVE ConverterInv(u)'
  BY <1>1, <1>2 DEF ConverterInv, Clean, Calls
<1>7. ASSUME NEW t \in Sessions PROVE Outlined(t)'
  <2>1. PICK A \in SUBSET Fact : Meets(A, t) /\ Runs(calls, t, MarkOf(A), Done)
    OBVIOUS
  <2>2. Meets(A, t)'
    BY <1>2, <2>1 DEF Meets, Rest, Emptied, Clean
  <2>3. Runs(todo', t, [depth |-> Len(scoped'), held |-> lock' = "main", facts |-> A], Done)
    BY <1>2, <2>1 DEF MarkOf
  <2>4. QED
    BY <2>2, <2>3 DEF Outlined
<1>8. QED
  BY <1>2, <1>3, <1>4, <1>5, <1>6, <1>7 DEF Inv, HybridInv

\* What a request knows of its session when it starts
Known(s) ==
    {"live", "rest"}
        \cup {f \in {"learnable", "resolved", "undeferred"} : window[s] = "learnable"}
        \cup {f \in {"bare"} : secure[s] \/ window[s] # "learnable"}

\* ... and when its calls are of its session only
LEMMA RequestFlow ==
    ASSUME Inv, NEW s \in Sessions, NEW kind, NEW text \in Text, NEW calls \in Seq(Call),
           Request(kind, s, text, calls),
           NEW A \in SUBSET Known(s), Flows(calls, s, A, {"rest"})
    PROVE  Inv'
<1>1. todo = <<>> /\ status[s] = "live"
  BY DEF Request
<1>2. MarkOf({"rest"}) = Done /\ Len(scoped) = 0 /\ (lock = "main") = FALSE
      /\ \A t \in Sessions : Rest(t)
  BY <1>1, AtRest
<1>3. Meets(A, s) /\ A \in SUBSET Fact
  BY <1>1, <1>2 DEF Meets, Known, Rest, Fact
<1>4. ASSUME NEW t \in Sessions
      PROVE  \E B \in SUBSET Fact : Meets(B, t) /\ Runs(calls, t, MarkOf(B), Done)
  <2> DEFINE B == IF t = s THEN A ELSE {"rest"}
  <2>1. B \in SUBSET Fact /\ {"rest"} \in SUBSET Fact
    BY <1>3 DEF Fact
  <2>2. Meets(B, t)
    BY <1>2, <1>3 DEF Meets
  <2>3. Runs(calls, t, [depth |-> 0, held |-> FALSE, facts |-> B],
             [depth |-> 0, held |-> FALSE, facts |-> {"rest"}])
    BY <2>1 DEF Flows
  <2>4. MarkOf(B) = [depth |-> 0, held |-> FALSE, facts |-> B]
    BY <1>2 DEF MarkOf
  <2>5. QED
    BY <2>1, <2>2, <2>3, <2>4 DEF Done
<1>5. QED
  BY <1>4, RequestStep

\* Calls of s that lead from facts A to facts B
Path(calls, s, A, B) == calls \in Seq(Call) /\ Flows(calls, s, A, B)

LEMMA PathConcat ==
    ASSUME NEW s, NEW a, NEW b, NEW A, NEW B, NEW C, Path(a, s, A, B), Path(b, s, B, C)
    PROVE  Path(a \o b, s, A, C)
<1>1. a \in Seq(Call) /\ b \in Seq(Call)
  BY DEF Path
<1>2. Flows(a \o b, s, A, C)
  BY <1>1, FlowsConcat DEF Path
<1>3. a \o b \in Seq(Call)
  BY <1>1
<1>4. QED
  BY <1>2, <1>3 DEF Path

LEMMA WhenPath ==
    ASSUME NEW s, NEW A \in SUBSET Fact, NEW calls, NEW c \in BOOLEAN,
           c => Path(calls, s, A, A)
    PROVE  Path(When(c, calls), s, A, A)
<1>1. CASE c
  BY <1>1 DEF When
<1>2. CASE ~c
  BY <1>2, FlowsNothing DEF When, Path
<1>3. QED
  BY <1>1, <1>2

Alive == {"live"}
Tame == Flat \ {"learn", "forget", "segments", "changeSecure", "drop"}

LEMMA TamePath ==
    ASSUME NEW s \in Sessions, NEW ops \in Seq(Tame)
    PROVE  Path(Ops(s, ops), s, Alive, Alive)
<1> DEFINE f == [i \in 1 .. Len(ops) + 1 |-> Alive]
<1>1. ops \in Seq(Op) /\ Len(ops) \in Nat /\ \A i \in 1 .. Len(ops) : ops[i] \in Tame
  <2>1. Tame \subseteq Op
    BY DEF Tame, Flat
  <2>2. QED
    BY <2>1
<1>2. f \in [1 .. Len(ops) + 1 -> SUBSET Fact] /\ f[1] = Alive /\ f[Len(ops) + 1] = Alive
      /\ \A i \in 1 .. Len(ops) : f[i] = Alive /\ f[i + 1] = Alive
  BY <1>1 DEF Alive, Fact
<1> HIDE DEF f
<1>3. ASSUME NEW op \in Tame PROVE Leads(op, Alive, Alive)
  BY DEF Leads, Tame, Flat, Op, Needs, After, Keeps, Makes, Alive, Fact
<1>4. \A i \in 1 .. Len(ops) : Leads(ops[i], f[i], f[i + 1])
  BY <1>1, <1>2, <1>3
<1>5. Flows(Ops(s, ops), s, f[1], f[Len(ops) + 1])
  BY <1>1, <1>2, <1>4, FlatFlow
<1>6. QED
  BY <1>1, <1>2, <1>5, OpsType DEF Path

\* Paths that many requests take
LEMMA CommonPaths ==
    ASSUME NEW s \in Sessions
    PROVE  /\ Path(Stop(s), s, Alive, Alive) /\ Path(Purge(s), s, Alive, Alive)
           /\ Path(Ops(s, <<"retire">>), s, Alive, {"rest"})
           /\ Path(Ops(s, <<"retire", "prepare">>), s, Alive, {"rest"})
           /\ Path(Finishing(s), s, Alive, {"rest"})
           /\ Path(Ops(s, <<"invalidate", "commit">>), s, Alive, Alive)
           /\ Path(Ops(s, <<"invalidate", "discard">>), s, Alive, Alive)
           /\ Path(Ops(s, <<"discard", "invalidate">>), s, Alive, Alive)
           /\ Path(Ops(s, <<"invalidate">>), s, Alive, Alive)
<1>1. Alive \in SUBSET Fact /\ "live" \in Alive /\ Alive \subseteq Stopped(s, Alive)
      /\ Alive \subseteq Purged(Alive)
  BY DEF Alive, Fact, Stopped, Purged
<1>2. Path(Stop(s), s, Alive, Alive) /\ Path(Purge(s), s, Alive, Alive)
  BY <1>1, StopFlow, PurgeFlow DEF Path
<1>3. /\ Leads("retire", Alive, {"rest"})
      /\ Leads("retire", Alive, {"live", "rest"})
      /\ Leads("prepare", {"live", "rest"}, {"rest"})
      /\ Leads("prepare", {"live", "rest"}, {"live", "rest"})
      /\ Leads("present", {"live", "rest"}, {"rest"})
  BY DEF Leads, Flat, Op, Needs, After, Keeps, Makes, Fact, Alive
<1>4. /\ Path(Ops(s, <<"retire">>), s, Alive, {"rest"})
      /\ Path(Ops(s, <<"retire", "prepare">>), s, Alive, {"rest"})
      /\ Path(Finishing(s), s, Alive, {"rest"})
  BY <1>3, Flow1, Flow2, Flow3 DEF Path, Finishing
<1>5. "invalidate" \in Tame /\ "commit" \in Tame /\ "discard" \in Tame
  BY DEF Tame, Flat, Op
<1>6. /\ <<"invalidate", "commit">> \in Seq(Tame) /\ <<"invalidate", "discard">> \in Seq(Tame)
      /\ <<"discard", "invalidate">> \in Seq(Tame) /\ <<"invalidate">> \in Seq(Tame)
  BY <1>5
<1>7. QED
  BY <1>2, <1>4, <1>6, TamePath

\* A request whose calls take a path to rest
LEMMA RequestPath ==
    ASSUME Inv, NEW s \in Sessions, NEW kind, NEW text \in Text, NEW calls,
           Request(kind, s, text, calls),
           NEW A \in SUBSET Known(s), Path(calls, s, A, {"rest"})
    PROVE  Inv'
  BY RequestFlow DEF Path

\* Pinning the policy of the environment
LEMMA PinPath ==
    ASSUME NEW s \in Sessions, NEW revised \in BOOLEAN
    PROVE  /\ Path(Pin(s, revised), s, Alive, Alive)
           /\ \E A \in SUBSET {"live", "rest"} : Path(Pin(s, revised), s, A, {"rest"})
<1> DEFINE B == {"live", "resolved"}
           C == {"live", "clean"}
           D == {"live", "clean", "bare"}
           R == {"live", "rest"}
           head == Ops(s, <<"invalidate", "discard">>)
           tail == Ops(s, <<"retire", "changeSecure">>)
           refresh == When(phase[s] = "idle" /\ revised, Ops(s, <<"refresh">>))
           crossing == When(Crosses(s), Crossing(s))
<1>1. /\ B \in SUBSET Fact /\ C \in SUBSET Fact /\ R \in SUBSET Fact
      /\ Alive \in SUBSET Fact /\ {"rest"} \in SUBSET Fact
      /\ "live" \in B /\ C \subseteq Purged(B)
  BY DEF Alive, Fact, Purged
<1>2. /\ Leads("invalidate", Alive, Alive) /\ Leads("invalidate", R, Alive)
      /\ Leads("discard", Alive, B) /\ Leads("retire", C, D)
      /\ Leads("changeSecure", D, Alive) /\ Leads("changeSecure", D, {"rest"})
      /\ Leads("refresh", Alive, Alive) /\ Leads("refresh", R, R)
      /\ Leads("refresh", R, {"rest"})
  BY DEF Leads, Flat, Op, Needs, After, Keeps, Makes, Fact, Alive
<1>3. /\ Path(head, s, Alive, B) /\ Path(head, s, R, B)
      /\ Path(tail, s, C, Alive) /\ Path(tail, s, C, {"rest"})
      /\ Path(Ops(s, <<"refresh">>), s, Alive, Alive) /\ Path(Ops(s, <<"refresh">>), s, R, R)
      /\ Path(Ops(s, <<"refresh">>), s, R, {"rest"})
  BY <1>2, Flow1, Flow2 DEF Path
<1>4. Path(Purge(s), s, B, C)
  BY <1>1, PurgeFlow DEF Path
<1>5. Crossing(s) = head \o Purge(s) \o tail
  BY DEF Crossing
<1>6. Pin(s, revised) = refresh \o crossing
  BY DEF Pin
<1>7. (phase[s] = "idle" /\ revised) \in BOOLEAN /\ Crosses(s) \in BOOLEAN
  BY DEF Crosses
<1> HIDE DEF B, C, D, head, tail
<1>8. Path(head \o Purge(s), s, Alive, C) /\ Path(head \o Purge(s), s, R, C)
  BY <1>3, <1>4, PathConcat
<1>9. Path(Crossing(s), s, Alive, Alive) /\ Path(Crossing(s), s, R, {"rest"})
  BY <1>3, <1>5, <1>8, PathConcat
<1>10. /\ Path(refresh, s, Alive, Alive) /\ Path(refresh, s, R, R)
       /\ Path(crossing, s, Alive, Alive)
  BY <1>1, <1>3, <1>7, <1>9, WhenPath
<1>11. Path(Pin(s, revised), s, Alive, Alive)
  BY <1>6, <1>10, PathConcat
<1>12. CASE Crosses(s)
  <2>1. Path(crossing, s, R, {"rest"})
    BY <1>9, <1>12 DEF When
  <2>2. Path(Pin(s, revised), s, R, {"rest"})
    BY <1>6, <1>10, <2>1, PathConcat
  <2>3. QED
    BY <1>11, <2>2
<1>13. CASE ~Crosses(s)
  <2>1. crossing = <<>>
    BY <1>13 DEF When
  <2>2. Path(crossing, s, {"rest"}, {"rest"})
    BY <1>1, <2>1, FlowsNothing DEF Path
  <2>3. CASE phase[s] = "idle" /\ revised
    <3>1. Path(refresh, s, R, {"rest"})
      BY <1>3, <2>3 DEF When
    <3>2. Path(Pin(s, revised), s, R, {"rest"})
      BY <1>6, <2>2, <3>1, PathConcat
    <3>3. QED
      BY <1>11, <3>2
  <2>4. CASE ~(phase[s] = "idle" /\ revised)
    <3>1. Path(refresh, s, {"rest"}, {"rest"})
      BY <1>1, <2>4, FlowsNothing DEF When, Path
    <3>2. Path(Pin(s, revised), s, {"rest"}, {"rest"})
      BY <1>6, <2>2, <3>1, PathConcat
    <3>3. QED
      BY <1>11, <3>2
  <2>5. QED
    BY <2>3, <2>4
<1>14. QED
  BY <1>12, <1>13

LEMMA InsertTextStep ==
    ASSUME Inv, NEW s \in Sessions, InsertText(s)
    PROVE  Inv'
<1> DEFINE stop == When(window[s] # "none" /\ ~Crosses(s), Stop(s))
           head == Ops(s, <<"invalidate">>)
           commit == Ops(s, <<"commit">>)
<1>1. PICK text \in Text, revised \in BOOLEAN :
        Request("insert", s, text,
            head \o Pin(s, revised) \o commit \o stop \o Finishing(s))
  <2>1. Revised(s) \subseteq BOOLEAN
    BY DEF Revised
  <2>2. PICK text \in {"composing", "inside"}, revised \in Revised(s) :
        Request("insert", s, text,
            head \o Pin(s, revised) \o commit \o stop \o Finishing(s))
    BY DEF InsertText
  <2>3. text \in Text
    BY DEF Text
  <2>4. QED
    BY <2>1, <2>2, <2>3
<1>2. Alive \in SUBSET Known(s) /\ Alive \in SUBSET Fact
  BY DEF Alive, Known, Fact
<1>3. Path(head, s, Alive, Alive) /\ Path(Pin(s, revised), s, Alive, Alive)
  BY CommonPaths, PinPath
<1>4. Path(commit, s, Alive, Alive)
  <2>1. Leads("commit", Alive, Alive)
    BY DEF Leads, Flat, Op, Needs, After, Keeps, Makes, Fact, Alive
  <2>2. QED
    BY <2>1, Flow1 DEF Path
<1>5. Path(stop, s, Alive, Alive)
  <2>1. (window[s] # "none" /\ ~Crosses(s)) \in BOOLEAN
    BY DEF Crosses
  <2>2. QED
    BY <1>2, <2>1, CommonPaths, WhenPath
<1> HIDE DEF stop, head, commit
<1>6. Path(head \o Pin(s, revised), s, Alive, Alive)
  BY <1>3, PathConcat
<1>7. Path(head \o Pin(s, revised) \o commit, s, Alive, Alive)
  BY <1>4, <1>6, PathConcat
<1>8. Path(head \o Pin(s, revised) \o commit \o stop, s, Alive, Alive)
  BY <1>5, <1>7, PathConcat
<1>9. Path(head \o Pin(s, revised) \o commit \o stop \o Finishing(s), s, Alive, {"rest"})
  BY <1>8, CommonPaths, PathConcat
<1>10. QED
  BY <1>1, <1>2, <1>9, RequestPath

LEMMA DeleteStep ==
    ASSUME Inv, NEW s \in Sessions, Delete(s)
    PROVE  Inv'
<1>1. PICK text \in Text :
        Request("delete", s, text,
            Ops(s, <<"invalidate", "discard">>) \o When(window[s] # "none", Stop(s))
              \o When(secure[s] /\ text = "idle", Purge(s))
              \o IF text = "idle" THEN Ops(s, <<"retire">>) ELSE Finishing(s))
  BY DEF Delete, Text
<1> DEFINE stop == When(window[s] # "none", Stop(s))
           purge == When(secure[s] /\ text = "idle", Purge(s))
           end == IF text = "idle" THEN Ops(s, <<"retire">>) ELSE Finishing(s)
<1>2. Alive \in SUBSET Known(s) /\ Alive \in SUBSET Fact
  BY DEF Alive, Known, Fact
<1>3. Path(stop, s, Alive, Alive)
  BY <1>2, CommonPaths, WhenPath
<1>4. Path(purge, s, Alive, Alive)
  BY <1>2, CommonPaths, WhenPath
<1>5. Path(end, s, Alive, {"rest"})
  BY CommonPaths
<1>6. Request("delete", s, text,
            Ops(s, <<"invalidate", "discard">>) \o stop \o purge \o end)
  BY <1>1
<1> HIDE DEF stop, purge, end
<1>7. Path(Ops(s, <<"invalidate", "discard">>) \o stop, s, Alive, Alive)
  BY <1>3, CommonPaths, PathConcat
<1>8. Path(Ops(s, <<"invalidate", "discard">>) \o stop \o purge, s, Alive, Alive)
  BY <1>4, <1>7, PathConcat
<1>9. Path(Ops(s, <<"invalidate", "discard">>) \o stop \o purge \o end, s, Alive, {"rest"})
  BY <1>5, <1>8, PathConcat
<1>10. QED
  BY <1>2, <1>6, <1>9, RequestPath

LEMMA MoveCursorStep ==
    ASSUME Inv, NEW s \in Sessions, MoveCursor(s)
    PROVE  Inv'
<1>1. PICK text \in Text :
        Request("caret", s, text, Ops(s, <<"invalidate">>) \o Stop(s) \o Finishing(s))
  BY DEF MoveCursor, Text
<1>2. Alive \in SUBSET Known(s)
  BY DEF Alive, Known
<1>3. Path(Ops(s, <<"invalidate">>) \o Stop(s), s, Alive, Alive)
  BY CommonPaths, PathConcat
<1>4. Path(Ops(s, <<"invalidate">>) \o Stop(s) \o Finishing(s), s, Alive, {"rest"})
  BY <1>3, CommonPaths, PathConcat
<1>5. QED
  BY <1>1, <1>2, <1>4, RequestPath

LEMMA TransformTextStep ==
    ASSUME Inv, NEW s \in Sessions, TransformText(s)
    PROVE  Inv'
<1>1. phase[s] \in Text /\ Request("transform", s, phase[s],
        Ops(s, <<"discard", "invalidate">>) \o Stop(s) \o Ops(s, <<"retire", "prepare">>))
  BY DEF TransformText, Text
<1>2. Alive \in SUBSET Known(s)
  BY DEF Alive, Known
<1>3. Path(Ops(s, <<"discard", "invalidate">>) \o Stop(s), s, Alive, Alive)
  BY CommonPaths, PathConcat
<1>4. Path(Ops(s, <<"discard", "invalidate">>) \o Stop(s) \o Ops(s, <<"retire", "prepare">>),
           s, Alive, {"rest"})
  BY <1>3, CommonPaths, PathConcat
<1>5. QED
  BY <1>1, <1>2, <1>4, RequestPath

LEMMA StartConversionStep ==
    ASSUME Inv, NEW s \in Sessions, StartConversion(s)
    PROVE  Inv'
<1> DEFINE retired == When(phase[s] # "converted" /\ window[s] # "none",
                           Stop(s) \o Ops(s, <<"retire">>))
           A == {"live", "rest"} \cup {f \in {"bare"} : secure[s]}
           B == A \cup {"resolved"}
           C == {"live", "rest", "resolved", "undeferred"}
<1>1. phase[s] \in Text
      /\ Request("convert", s, phase[s],
            Ops(s, <<"commit">>) \o retired \o Ops(s, <<"lock">>) \o Stop(s)
                \o Ops(s, <<"segments">>))
  BY DEF StartConversion, Text, Inv, HybridInv, TypeOK
<1>2. A \in SUBSET Known(s) /\ A \in SUBSET Fact /\ B \in SUBSET Fact /\ C \in SUBSET Fact
  BY DEF Known, Fact
<1>3. Leads("commit", A, B) /\ Leads("lock", B, B) /\ Leads("segments", C, {"rest"})
  BY <1>2 DEF Leads, Flat, Op, Needs, After, Keeps, Makes, Fact
<1>4. /\ Path(Ops(s, <<"commit">>), s, A, B) /\ Path(Ops(s, <<"lock">>), s, B, B)
      /\ Path(Ops(s, <<"segments">>), s, C, {"rest"})
  BY <1>3, Flow1 DEF Path
<1>5. Path(Stop(s), s, B, C)
  <2>1. "live" \in B /\ C \subseteq Stopped(s, B)
    BY DEF Stopped
  <2>2. QED
    BY <1>2, <2>1, StopFlow DEF Path
<1>6. Path(retired, s, B, B)
  <2> DEFINE D == {"live", "resolved"}
  <2>1. D \in SUBSET Fact /\ D \subseteq Stopped(s, B) /\ "live" \in B
    BY DEF Fact, Stopped
  <2>2. Path(Stop(s), s, B, D)
    BY <1>2, <2>1, StopFlow DEF Path
  <2>3. Leads("retire", D, B)
    BY <1>2, <2>1 DEF Leads, Flat, Op, Needs, After, Keeps, Makes
  <2>4. Path(Ops(s, <<"retire">>), s, D, B)
    BY <2>3, Flow1 DEF Path
  <2>5. Path(Stop(s) \o Ops(s, <<"retire">>), s, B, B)
    BY <2>2, <2>4, PathConcat
  <2>6. QED
    BY <1>2, <2>5, WhenPath
<1> HIDE DEF retired, A, B, C
<1>7. Path(Ops(s, <<"commit">>) \o retired, s, A, B)
  BY <1>4, <1>6, PathConcat
<1>8. Path(Ops(s, <<"commit">>) \o retired \o Ops(s, <<"lock">>), s, A, B)
  BY <1>4, <1>7, PathConcat
<1>9. Path(Ops(s, <<"commit">>) \o retired \o Ops(s, <<"lock">>) \o Stop(s), s, A, C)
  BY <1>5, <1>8, PathConcat
<1>10. Path(Ops(s, <<"commit">>) \o retired \o Ops(s, <<"lock">>) \o Stop(s)
                \o Ops(s, <<"segments">>), s, A, {"rest"})
  BY <1>4, <1>9, PathConcat
<1>11. QED
  BY <1>1, <1>2, <1>10, RequestPath

LEMMA ReconvertStep ==
    ASSUME Inv, NEW s \in Sessions, Reconvert(s)
    PROVE  Inv'
<1> DEFINE ops == <<"invalidate", "commit", "stop", "retire", "lock", "stop", "segments">>
           B == {"live", "resolved"}
           C == {"live", "rest", "bare", "resolved", "undeferred"}
           D == {"live", "rest", "resolved", "undeferred"}
<1>1. PICK revised \in BOOLEAN :
        \/ Request("reconvert", s, phase[s], Pin(s, revised))
        \/ Request("reconvert", s, "inside", Pin(s, revised) \o Ops(s, ops))
  <2>1. Revised(s) \subseteq BOOLEAN
    BY DEF Revised
  <2>2. QED
    BY <2>1 DEF Reconvert
<1>2. Alive \in SUBSET Known(s) /\ {"live", "rest"} \subseteq Known(s) /\ "inside" \in Text
      /\ phase[s] \in Text
  BY DEF Alive, Known, Text, Inv, HybridInv, TypeOK
<1>3. /\ Leads("invalidate", Alive, Alive) /\ Leads("commit", Alive, B)
      /\ Leads("stop", B, B \cup {"undeferred"})
      /\ Leads("retire", B \cup {"undeferred"}, C) /\ Leads("lock", C, C)
      /\ Leads("stop", C, D) /\ Leads("segments", D, {"rest"})
  BY DEF Leads, Flat, Op, Needs, After, Keeps, Makes, Fact, Alive
<1>4. Path(Ops(s, ops), s, Alive, {"rest"})
  BY <1>3, Flow7 DEF Path
<1> HIDE DEF ops
<1>5. PICK A \in SUBSET Known(s) : Path(Pin(s, revised), s, A, {"rest"})
  BY <1>2, PinPath
<1>6. Path(Pin(s, revised) \o Ops(s, ops), s, Alive, {"rest"})
  BY <1>4, PinPath, PathConcat
<1>7. QED
  BY <1>1, <1>2, <1>5, <1>6, RequestPath

\* Requests whose calls leave the window as it is
LEMMA ShortSteps ==
    ASSUME Inv, NEW s \in Sessions,
           \/ Navigate(s) \/ TransformSegment(s) \/ ForgetCandidate(s)
           \/ ResolvePending(s) \/ ContextChanged(s)
    PROVE  Inv'
<1> DEFINE A == {"live", "rest"}
<1>1. /\ A \in SUBSET Known(s) /\ phase[s] \in Text /\ "converted" \in Text
      /\ Leads("lock", A, {"rest"}) /\ Leads("invalidate", A, A)
      /\ Leads("invalidate", A, {"rest"}) /\ Leads("relabel", A, {"rest"})
      /\ Leads("discard", A, A)
      /\ Leads("commit", A, {"rest"}) /\ Leads("discard", A, {"rest"})
  <2>1. A \in SUBSET Known(s) /\ phase[s] \in Text /\ "converted" \in Text
    BY DEF Known, Text, Inv, HybridInv, TypeOK
  <2>2. A \in SUBSET Fact /\ {"rest"} \in SUBSET Fact
    BY DEF Fact
  <2>3. QED
    BY <2>1, <2>2 DEF Leads, Flat, Op, Needs, After, Keeps, Makes
<1> HIDE DEF A
<1>2. CASE Navigate(s)
  <2>1. Path(Ops(s, <<"lock">>), s, A, {"rest"})
    BY <1>1, Flow1 DEF Path
  <2>2. Request("window", s, "converted", Ops(s, <<"lock">>))
    BY <1>2 DEF Navigate
  <2>3. QED
    BY <1>1, <2>1, <2>2, RequestPath
<1>3. CASE TransformSegment(s)
  <2>1. Path(Ops(s, <<"discard", "invalidate", "relabel">>), s, A, {"rest"})
    BY <1>1, Flow3 DEF Path
  <2>2. Request("transform", s, "converted", Ops(s, <<"discard", "invalidate", "relabel">>))
    BY <1>3 DEF TransformSegment
  <2>3. QED
    BY <1>1, <2>1, <2>2, RequestPath
<1>4. CASE ForgetCandidate(s)
  <2> DEFINE B == {"live", "rest", "learnable"}
  <2>1. window[s] = "learnable" /\ Request("window", s, phase[s], Ops(s, <<"forget">>))
    BY <1>4 DEF ForgetCandidate
  <2>2. B \in SUBSET Known(s) /\ B \in SUBSET Fact
    BY <2>1 DEF Known, Fact
  <2>3. Leads("forget", B, {"rest"})
    BY <2>2 DEF Leads, Flat, Op, Needs, After, Keeps, Makes, Fact
  <2>4. Path(Ops(s, <<"forget">>), s, B, {"rest"})
    BY <2>3, Flow1 DEF Path
  <2> HIDE DEF B
  <2>5. QED
    BY <1>1, <2>1, <2>2, <2>4, RequestPath
<1>5. CASE ResolvePending(s)
  <2>1. PICK resolution \in {"commit", "discard"} :
            Request("learn", s, phase[s], Ops(s, <<resolution>>))
    BY <1>5 DEF ResolvePending
  <2>2. Path(Ops(s, <<resolution>>), s, A, {"rest"})
    BY <1>1, Flow1 DEF Path
  <2>3. QED
    BY <1>1, <2>1, <2>2, RequestPath
<1>6. CASE ContextChanged(s)
  <2>1. Path(Ops(s, <<"invalidate">>), s, A, {"rest"})
    BY <1>1, Flow1 DEF Path
  <2>2. Request("focus", s, phase[s], Ops(s, <<"invalidate">>))
    BY <1>6 DEF ContextChanged
  <2>3. QED
    BY <1>1, <2>1, <2>2, RequestPath
<1>7. QED
  BY <1>2, <1>3, <1>4, <1>5, <1>6

LEMMA EditableText ==
    ASSUME Inv, NEW s \in Sessions
    PROVE  Editable(s) \in Text /\ phase[s] \in Text
<1>1. phase \in [Sessions -> {"idle", "composing", "inside", "converted"}]
  BY DEF Inv, HybridInv, TypeOK
<1>2. QED
  BY <1>1 DEF Editable, Text

LEMMA ResizeSegmentStep ==
    ASSUME Inv, NEW s \in Sessions, ResizeSegment(s)
    PROVE  Inv'
<1> DEFINE A == {"live", "rest"} \cup {f \in {"bare"} : secure[s]}
           B == {"live", "rest"}
<1>1. A \in SUBSET Known(s) /\ A \in SUBSET Fact /\ B \in SUBSET Fact
      /\ "live" \in A /\ B \subseteq Stopped(s, A)
  BY DEF Known, Fact, Stopped
<1>2. PICK text \in Text :
        Request("resize", s, text,
            Ops(s, <<"invalidate">>) \o Stop(s)
              \o Ops(s, << IF text = "converted" THEN "relabel" ELSE "retire" >>))
  <2>1. Editable(s) \in Text /\ "converted" \in Text
    BY EditableText DEF Text
  <2>2. PICK text \in {"converted", Editable(s)} :
        Request("resize", s, text,
            Ops(s, <<"invalidate">>) \o Stop(s)
              \o Ops(s, << IF text = "converted" THEN "relabel" ELSE "retire" >>))
    BY DEF ResizeSegment
  <2>3. text \in Text
    BY <2>1
  <2>4. QED
    BY <2>2, <2>3
<1> DEFINE last == IF text = "converted" THEN "relabel" ELSE "retire"
<1>3. /\ Leads("invalidate", A, A) /\ Leads(last, B, {"rest"})
  <2>1. {"rest"} \in SUBSET Fact
    BY DEF Fact
  <2>2. Leads("relabel", B, {"rest"}) /\ Leads("retire", B, {"rest"})
    BY <1>1, <2>1 DEF Leads, Flat, Op, Needs, After, Keeps, Makes
  <2>3. Leads("invalidate", A, A)
    BY <1>1 DEF Leads, Flat, Op, Needs, After, Keeps, Makes
  <2>4. QED
    BY <2>2, <2>3
<1>4. Path(Stop(s), s, A, B)
  BY <1>1, StopFlow DEF Path
<1>5. Request("resize", s, text, Ops(s, <<"invalidate">>) \o Stop(s) \o Ops(s, <<last>>))
  BY <1>2
<1> HIDE DEF A, B, last
<1>6. Path(Ops(s, <<"invalidate">>), s, A, A) /\ Path(Ops(s, <<last>>), s, B, {"rest"})
  BY <1>3, Flow1 DEF Path
<1>7. Path(Ops(s, <<"invalidate">>) \o Stop(s), s, A, B)
  BY <1>4, <1>6, PathConcat
<1>8. Path(Ops(s, <<"invalidate">>) \o Stop(s) \o Ops(s, <<last>>), s, A, {"rest"})
  BY <1>6, <1>7, PathConcat
<1>9. QED
  BY <1>1, <1>5, <1>8, RequestPath

LEMMA CommitAllStep ==
    ASSUME Inv, NEW s \in Sessions, CommitAll(s)
    PROVE  Inv'
<1> DEFINE head == Ops(s, <<"commit", "invalidateForCommit">>)
           end == Ops(s, <<"retire">>)
           B == {"live", "bare", "rest"}
<1>1. PICK learns \in BOOLEAN :
        /\ learns => window[s] = "learnable"
        /\ Request("commit", s, "idle",
                head \o When(learns, Ops(s, <<"learn">>)) \o end \o Stop(s))
  BY DEF CommitAll, Learns
<1>2. "idle" \in Text /\ Alive \in SUBSET Fact /\ B \in SUBSET Fact
      /\ {"rest"} \in SUBSET Fact /\ Alive \in SUBSET Known(s)
  BY DEF Text, Alive, Fact, Known
<1>3. Path(end, s, Alive, B) /\ Path(Stop(s), s, B, {"rest"})
  <2>1. Leads("retire", Alive, B)
    BY <1>2 DEF Leads, Flat, Op, Needs, After, Keeps, Makes, Alive
  <2>2. "live" \in B /\ {"rest"} \subseteq Stopped(s, B)
    BY DEF Stopped
  <2>3. QED
    BY <1>2, <2>1, <2>2, Flow1, StopFlow DEF Path
<1>4. PICK A \in SUBSET Known(s) : Path(head \o When(learns, Ops(s, <<"learn">>)), s, A, Alive)
  <2>1. CASE learns
    <3> DEFINE A == {"live", "rest", "learnable"}
               D == {"live", "deferred"}
    <3>1. A \in SUBSET Known(s) /\ A \in SUBSET Fact /\ D \in SUBSET Fact
      BY <1>1, <2>1 DEF Known, Fact
    <3>2. /\ Leads("commit", A, A) /\ Leads("invalidateForCommit", A, D)
          /\ Leads("learn", D, Alive)
      BY <1>2, <3>1 DEF Leads, Flat, Op, Needs, After, Keeps, Makes, Alive
    <3>3. Path(head, s, A, D) /\ Path(Ops(s, <<"learn">>), s, D, Alive)
      BY <3>2, Flow1, Flow2 DEF Path
    <3>4. Path(head \o Ops(s, <<"learn">>), s, A, Alive)
      BY <3>3, PathConcat
    <3>5. QED
      BY <2>1, <3>1, <3>4 DEF When
  <2>2. CASE ~learns
    <3>1. Leads("commit", Alive, Alive) /\ Leads("invalidateForCommit", Alive, Alive)
      BY <1>2 DEF Leads, Flat, Op, Needs, After, Keeps, Makes, Alive
    <3>2. Path(head, s, Alive, Alive)
      BY <3>1, Flow2 DEF Path
    <3>3. Path(When(learns, Ops(s, <<"learn">>)), s, Alive, Alive)
      BY <1>2, <2>2, WhenPath
    <3>4. Path(head \o When(learns, Ops(s, <<"learn">>)), s, Alive, Alive)
      BY <3>2, <3>3, PathConcat
    <3>5. QED
      BY <1>2, <3>4
  <2>3. QED
    BY <2>1, <2>2
<1> HIDE DEF head, end, B
<1>5. Path(head \o When(learns, Ops(s, <<"learn">>)) \o end, s, A, B)
  BY <1>3, <1>4, PathConcat
<1>6. Path(head \o When(learns, Ops(s, <<"learn">>)) \o end \o Stop(s), s, A, {"rest"})
  BY <1>3, <1>5, PathConcat
<1>7. QED
  BY <1>1, <1>2, <1>6, RequestPath

LEMMA CommitSelectedStep ==
    ASSUME Inv, NEW s \in Sessions, CommitSelected(s)
    PROVE  Inv'
<1> DEFINE head == Ops(s, <<"invalidateForCommit", "commit">>)
           end == Ops(s, <<"retire">>)
           again == Ops(s, <<"lock">>) \o Stop(s) \o Ops(s, <<"segments">>)
<1>1. PICK learns \in BOOLEAN, whole \in BOOLEAN, text \in Text :
        /\ learns => window[s] = "learnable"
        /\ Request("learn", s, text,
                head \o When(learns, Ops(s, <<"learn">>))
                  \o When(~whole, Ops(s, <<"commit">>)) \o Stop(s) \o end
                  \o When(~whole, again))
  <2>1. PICK learns \in Learns(s), whole \in BOOLEAN :
        Request("learn", s, IF whole THEN "idle" ELSE "composing",
                head \o When(learns, Ops(s, <<"learn">>))
                  \o When(~whole, Ops(s, <<"commit">>)) \o Stop(s) \o end
                  \o When(~whole, again))
    BY DEF CommitSelected
  <2>2. (IF whole THEN "idle" ELSE "composing") \in Text
    BY DEF Text
  <2>3. learns \in BOOLEAN /\ (learns => window[s] = "learnable")
    BY DEF Learns
  <2>4. QED
    BY <2>1, <2>2, <2>3
<1>2. Alive \in SUBSET Fact /\ {"rest"} \in SUBSET Fact /\ Alive \in SUBSET Known(s)
  BY DEF Alive, Fact, Known
<1>3. PICK A \in SUBSET Known(s) : Path(head \o When(learns, Ops(s, <<"learn">>)), s, A, Alive)
  <2>1. CASE learns
    <3> DEFINE A == {"live", "rest", "learnable", "resolved"}
               D == {"live", "resolved", "deferred"}
    <3>1. A \in SUBSET Known(s) /\ A \in SUBSET Fact /\ D \in SUBSET Fact
      BY <1>1, <2>1 DEF Known, Fact
    <3>2. /\ Leads("invalidateForCommit", A, D) /\ Leads("commit", D, D)
          /\ Leads("learn", D, Alive)
      BY <1>2, <3>1 DEF Leads, Flat, Op, Needs, After, Keeps, Makes, Alive
    <3>3. Path(head, s, A, D) /\ Path(Ops(s, <<"learn">>), s, D, Alive)
      BY <3>2, Flow1, Flow2 DEF Path
    <3>4. Path(head \o Ops(s, <<"learn">>), s, A, Alive)
      BY <3>3, PathConcat
    <3>5. QED
      BY <2>1, <3>1, <3>4 DEF When
  <2>2. CASE ~learns
    <3>1. Leads("commit", Alive, Alive) /\ Leads("invalidateForCommit", Alive, Alive)
      BY <1>2 DEF Leads, Flat, Op, Needs, After, Keeps, Makes, Alive
    <3>2. Path(head, s, Alive, Alive)
      BY <3>1, Flow2 DEF Path
    <3>3. Path(When(learns, Ops(s, <<"learn">>)), s, Alive, Alive)
      BY <1>2, <2>2, WhenPath
    <3>4. Path(head \o When(learns, Ops(s, <<"learn">>)), s, Alive, Alive)
      BY <3>2, <3>3, PathConcat
    <3>5. QED
      BY <1>2, <3>4
  <2>3. QED
    BY <2>1, <2>2
<1> DEFINE start == head \o When(learns, Ops(s, <<"learn">>))
           commit == When(~whole, Ops(s, <<"commit">>))
           rest == When(~whole, again)
<1>4. CASE whole
  <2>1. Path(commit, s, Alive, Alive) /\ Path(rest, s, {"rest"}, {"rest"})
    BY <1>2, <1>4, WhenPath
  <2>2. Path(start, s, A, Alive)
    BY <1>3
  <2> HIDE DEF start, commit, rest
  <2>3. Path(start \o commit, s, A, Alive)
    BY <2>1, <2>2, PathConcat
  <2>4. Path(start \o commit \o Stop(s), s, A, Alive)
    BY <2>3, CommonPaths, PathConcat
  <2>5. Path(start \o commit \o Stop(s) \o end, s, A, {"rest"})
    BY <2>4, CommonPaths, PathConcat
  <2>6. Path(start \o commit \o Stop(s) \o end \o rest, s, A, {"rest"})
    BY <2>1, <2>5, PathConcat
  <2>7. Request("learn", s, text, start \o commit \o Stop(s) \o end \o rest)
    BY <1>1 DEF start, commit, rest
  <2>8. QED
    BY <2>6, <2>7, RequestPath
<1>5. CASE ~whole
  <2> DEFINE B == {"live", "resolved"}
             C == {"live", "resolved", "undeferred"}
             D == {"live", "rest", "bare", "resolved", "undeferred"}
             E == {"live", "rest", "resolved", "undeferred"}
  <2>1. B \in SUBSET Fact /\ C \in SUBSET Fact /\ D \in SUBSET Fact /\ E \in SUBSET Fact
        /\ "live" \in B /\ C \subseteq Stopped(s, B) /\ "live" \in D /\ E \subseteq Stopped(s, D)
    BY DEF Fact, Stopped
  <2>2. /\ Leads("commit", Alive, B) /\ Leads("retire", C, D) /\ Leads("lock", D, D)
        /\ Leads("segments", E, {"rest"})
    BY <1>2, <2>1 DEF Leads, Flat, Op, Needs, After, Keeps, Makes, Alive
  <2>3. /\ Path(Ops(s, <<"commit">>), s, Alive, B) /\ Path(end, s, C, D)
        /\ Path(Ops(s, <<"lock">>), s, D, D) /\ Path(Ops(s, <<"segments">>), s, E, {"rest"})
    BY <2>2, Flow1 DEF Path
  <2>4. Path(Stop(s), s, B, C) /\ Path(Stop(s), s, D, E)
    BY <2>1, StopFlow DEF Path
  <2> HIDE DEF B, C, D, E
  <2>5. Path(Ops(s, <<"lock">>) \o Stop(s), s, D, E)
    BY <2>3, <2>4, PathConcat
  <2>6. Path(again, s, D, {"rest"})
    BY <2>3, <2>5, PathConcat
  <2>7. Path(commit, s, Alive, B) /\ Path(rest, s, D, {"rest"})
    BY <1>5, <2>3, <2>6 DEF When
  <2>8. Path(start, s, A, Alive)
    BY <1>3
  <2> HIDE DEF start, commit, rest, end
  <2>9. Path(start \o commit, s, A, B)
    BY <2>7, <2>8, PathConcat
  <2>10. Path(start \o commit \o Stop(s), s, A, C)
    BY <2>4, <2>9, PathConcat
  <2>11. Path(start \o commit \o Stop(s) \o end, s, A, D)
    BY <2>3, <2>10, PathConcat
  <2>12. Path(start \o commit \o Stop(s) \o end \o rest, s, A, {"rest"})
    BY <2>7, <2>11, PathConcat
  <2>13. Request("learn", s, text, start \o commit \o Stop(s) \o end \o rest)
    BY <1>1 DEF start, commit, rest
  <2>14. QED
    BY <2>12, <2>13, RequestPath
<1>6. QED
  BY <1>4, <1>5

LEMMA CancelStep ==
    ASSUME Inv, NEW s \in Sessions, Cancel(s)
    PROVE  Inv'
<1> DEFINE head == Ops(s, <<"invalidate", "discard">>)
           A == {"live", "rest"}
<1>1. /\ "converted" \in Text /\ "composing" \in Text /\ "idle" \in Text
      /\ A \in SUBSET Known(s) /\ Alive \in SUBSET Known(s) /\ {"rest"} \in SUBSET Fact
  BY DEF Text, Known, Alive, Fact
<1>2. Path(head, s, A, {"rest"})
  <2>1. Leads("invalidate", A, A) /\ Leads("discard", A, {"rest"})
    BY DEF Leads, Flat, Op, Needs, After, Keeps, Makes, Fact
  <2>2. QED
    BY <2>1, Flow2 DEF Path
<1>3. Path(head, s, Alive, Alive) /\ Path(Stop(s), s, Alive, Alive)
      /\ Path(Ops(s, <<"retire">>), s, Alive, {"rest"})
      /\ Path(Ops(s, <<"retire", "prepare">>), s, Alive, {"rest"})
  BY CommonPaths
<1> HIDE DEF head, A
<1>4. Path(head \o Stop(s), s, Alive, Alive)
  BY <1>3, PathConcat
<1>5. CASE Request("cancel", s, "converted", head)
  BY <1>1, <1>2, <1>5, RequestPath
<1>6. CASE Request("cancel", s, "composing", head \o Stop(s) \o Ops(s, <<"retire", "prepare">>))
  <2>1. Path(head \o Stop(s) \o Ops(s, <<"retire", "prepare">>), s, Alive, {"rest"})
    BY <1>3, <1>4, PathConcat
  <2>2. QED
    BY <1>1, <1>6, <2>1, RequestPath
<1>7. CASE Request("cancel", s, "idle",
            head \o When(phase[s] # "idle", Stop(s) \o Ops(s, <<"retire">>)))
  <2>1. CASE phase[s] = "idle"
    <3>1. Path(When(phase[s] # "idle", Stop(s) \o Ops(s, <<"retire">>)), s, {"rest"}, {"rest"})
      BY <1>1, <2>1, WhenPath
    <3>2. Path(head \o When(phase[s] # "idle", Stop(s) \o Ops(s, <<"retire">>)), s, A, {"rest"})
      BY <1>2, <3>1, PathConcat
    <3>3. QED
      BY <1>1, <1>7, <3>2, RequestPath
  <2>2. CASE phase[s] # "idle"
    <3>1. When(phase[s] # "idle", Stop(s) \o Ops(s, <<"retire">>))
            = Stop(s) \o Ops(s, <<"retire">>)
      BY <2>2 DEF When
    <3>2. Path(Stop(s) \o Ops(s, <<"retire">>), s, Alive, {"rest"})
      BY <1>3, PathConcat
    <3>3. Path(head \o (Stop(s) \o Ops(s, <<"retire">>)), s, Alive, {"rest"})
      BY <1>3, <3>2, PathConcat
    <3>4. Request("cancel", s, "idle", head \o (Stop(s) \o Ops(s, <<"retire">>)))
      BY <1>7, <3>1
    <3>5. QED
      BY <1>1, <3>3, <3>4, RequestPath
  <2>3. QED
    BY <2>1, <2>2
<1>8. QED
  BY <1>5, <1>6, <1>7 DEF Cancel, head

\* The requests that purge a secure field, or all that a lost server leaves
LEMMA PurgePath ==
    ASSUME NEW s \in Sessions
    PROVE  Path(Ops(s, <<"invalidate", "discard">>) \o Purge(s) \o Ops(s, <<"retire">>),
                s, Alive, {"rest"})
<1>1. Path(Ops(s, <<"invalidate", "discard">>) \o Purge(s), s, Alive, Alive)
  BY CommonPaths, PathConcat
<1>2. QED
  BY <1>1, CommonPaths, PathConcat

LEMMA FocusOutStep ==
    ASSUME Inv, NEW s \in Sessions, FocusOut(s)
    PROVE  Inv'
<1>1. "idle" \in Text /\ Editable(s) \in Text /\ Alive \in SUBSET Known(s)
  BY EditableText DEF Text, Known, Alive
<1>2. CASE secure[s]
  <2>1. Request("focus", s, "idle",
            Ops(s, <<"invalidate", "discard">>) \o Purge(s) \o Ops(s, <<"retire">>))
    BY <1>2 DEF FocusOut
  <2>2. QED
    BY <1>1, <2>1, PurgePath, RequestPath
<1>3. CASE ~secure[s]
  <2>1. Request("focus", s, Editable(s),
            Ops(s, <<"invalidate", "commit", "stop", "retire">>))
    BY <1>3 DEF FocusOut
  <2>2. /\ Leads("invalidate", Alive, Alive) /\ Leads("commit", Alive, Alive)
        /\ Leads("stop", Alive, Alive) /\ Leads("retire", Alive, {"rest"})
    BY DEF Leads, Flat, Op, Needs, After, Keeps, Makes, Fact, Alive
  <2>3. Path(Ops(s, <<"invalidate", "commit", "stop", "retire">>), s, Alive, {"rest"})
    BY <2>2, Flow4 DEF Path
  <2>4. QED
    BY <1>1, <2>1, <2>3, RequestPath
<1>4. QED
  BY <1>2, <1>3

LEMMA ServerRestartedStep ==
    ASSUME Inv, NEW s \in Sessions, ServerRestarted(s)
    PROVE  Inv'
<1>1. "idle" \in Text /\ Editable(s) \in Text /\ Alive \in SUBSET Known(s)
  BY EditableText DEF Text, Known, Alive
<1>2. (IF secure[s] THEN "idle" ELSE Editable(s)) \in Text
  BY <1>1
<1>3. Request("restart", s, IF secure[s] THEN "idle" ELSE Editable(s),
        Ops(s, <<"invalidate", "discard">>) \o Purge(s) \o Ops(s, <<"retire">>))
  BY DEF ServerRestarted
<1>4. QED
  BY <1>1, <1>2, <1>3, PurgePath, RequestPath

LEMMA SecureInputChangedStep ==
    ASSUME Inv, NEW s \in Sessions, SecureInputChanged(s)
    PROVE  Inv'
<1> DEFINE B == {"live", "resolved"}
           C == {"live", "clean"}
<1>1. "idle" \in Text /\ Alive \in SUBSET Known(s) /\ B \in SUBSET Fact /\ C \in SUBSET Fact
      /\ "live" \in B /\ C \subseteq Purged(B)
  BY DEF Text, Known, Alive, Fact, Purged
<1>2. Request("secure", s, "idle",
        Ops(s, <<"invalidate", "discard">>) \o Purge(s)
          \o Ops(s, <<"changeSecure", "retire">>))
  BY DEF SecureInputChanged
<1>3. /\ Leads("invalidate", Alive, Alive) /\ Leads("discard", Alive, B)
      /\ Leads("changeSecure", C, Alive) /\ Leads("retire", Alive, {"rest"})
  BY DEF Leads, Flat, Op, Needs, After, Keeps, Makes, Fact, Alive
<1>4. /\ Path(Ops(s, <<"invalidate", "discard">>), s, Alive, B)
      /\ Path(Ops(s, <<"changeSecure", "retire">>), s, C, {"rest"})
  BY <1>3, Flow2 DEF Path
<1>5. Path(Purge(s), s, B, C)
  BY <1>1, PurgeFlow DEF Path
<1> HIDE DEF B, C
<1>6. Path(Ops(s, <<"invalidate", "discard">>) \o Purge(s), s, Alive, C)
  BY <1>4, <1>5, PathConcat
<1>7. Path(Ops(s, <<"invalidate", "discard">>) \o Purge(s)
             \o Ops(s, <<"changeSecure", "retire">>), s, Alive, {"rest"})
  BY <1>4, <1>6, PathConcat
<1>8. QED
  BY <1>1, <1>2, <1>7, RequestPath

------------------------------------------------------------------------------
(* Requests of the registry, over several sessions                         *)

\* What stays known of a session as long as nothing but maintenance calls it
Settled(t) == {"rest"} \cup {f \in {"live"} : status[t] = "live"}

\* How far the request has suspended speculation and locked the gate
Ground == [depth |-> 0, held |-> FALSE]
Suspended == [depth |-> 1, held |-> FALSE]
Locked == [depth |-> 1, held |-> TRUE]
Point(l, t) == [depth |-> l.depth, held |-> l.held, facts |-> Settled(t)]

Told == {"external", "prepare", "discard", "commit", "record"}
Turns(op, l, m) ==
    \/ op = "suspend" /\ l = Ground /\ m = Suspended
    \/ op = "acquire" /\ l = Suspended /\ m = Locked
    \/ op = "release" /\ l = Locked /\ m = Suspended
    \/ op = "resume" /\ l = Suspended /\ m = Ground
    \/ op \in Told /\ l = m

Steady(calls, l, m) ==
    /\ calls \in Seq(Call)
    /\ \A t \in Sessions : Runs(calls, t, Point(l, t), Point(m, t))

LEMMA Levels ==
    /\ Ground.depth = 0 /\ Ground.held = FALSE
    /\ Suspended.depth = 1 /\ Suspended.held = FALSE
    /\ Locked.depth = 1 /\ Locked.held = TRUE
  BY DEF Ground, Suspended, Locked

LEMMA PointType ==
    ASSUME NEW l \in {Ground, Suspended, Locked}, NEW t
    PROVE  /\ Point(l, t) \in Mark
           /\ Point(l, t).depth = l.depth /\ Point(l, t).held = l.held
           /\ Point(l, t).facts = Settled(t)
<1>1. l.depth \in Nat /\ l.held \in BOOLEAN
  <2>1. l.depth \in {0, 1}
    BY Levels
  <2>2. l.held \in BOOLEAN
    BY Levels, Zenon
  <2>3. QED
    BY <2>1, <2>2
<1>2. Settled(t) \in SUBSET Fact
  BY DEF Settled, Fact
<1>3. QED
  BY <1>1, <1>2 DEF Point, Mark

LEMMA SteadyFits ==
    ASSUME NEW u \in Live, NEW op, NEW l \in {Ground, Suspended, Locked},
           NEW m \in {Ground, Suspended, Locked}, Turns(op, l, m), NEW t \in Sessions
    PROVE  Fits(<<op, u>>, t, Point(l, t), Point(m, t))
<1>1. Needs(op) = {"live"}
  BY DEF Turns, Needs, Told
<1>2. {"live", "rest"} \subseteq After(op, {"live", "rest"})
  BY DEF Turns, After, Keeps, Makes, Told, Fact
<1>3. t = u => Settled(t) = {"live", "rest"}
  BY DEF Settled, Live
<1>4. IF u = t THEN Needs(op) \subseteq Settled(t) /\ Settled(t) \subseteq After(op, Settled(t))
              ELSE Settled(t) \subseteq Settled(t)
  BY <1>1, <1>2, <1>3
<1>5. /\ l.depth = IF op = "resume" THEN m.depth + 1 ELSE l.depth
      /\ m.depth = IF op = "suspend" THEN l.depth + 1
                   ELSE IF op = "resume" THEN m.depth ELSE l.depth
  BY Levels DEF Turns, Told
<1>6. /\ l.held = IF op = "acquire" THEN FALSE
                  ELSE IF op = "release" THEN TRUE ELSE m.held
      /\ m.held = IF op = "acquire" THEN TRUE
                  ELSE IF op = "release" THEN FALSE ELSE l.held
  BY Levels, Zenon DEF Turns, Told
<1>7. /\ Point(l, t).depth = l.depth /\ Point(l, t).held = l.held
      /\ Point(m, t).depth = m.depth /\ Point(m, t).held = m.held
      /\ Point(l, t).facts = Settled(t) /\ Point(m, t).facts = Settled(t)
  BY PointType
<1> DEFINE p == Point(l, t)
           q == Point(m, t)
<1> HIDE DEF p, q
<1>8. <<op, u>>[1] = op /\ <<op, u>>[2] = u
  OBVIOUS
<1>9. /\ p.depth = IF op = "resume" THEN q.depth + 1 ELSE p.depth
      /\ q.depth = IF op = "suspend" THEN p.depth + 1
                   ELSE IF op = "resume" THEN q.depth ELSE p.depth
  BY <1>5, <1>7 DEF p, q
<1>10. /\ p.held = IF op = "acquire" THEN FALSE
                   ELSE IF op = "release" THEN TRUE ELSE q.held
       /\ q.held = IF op = "acquire" THEN TRUE
                   ELSE IF op = "release" THEN FALSE ELSE p.held
  BY <1>6, <1>7, Zenon DEF p, q
<1>11. IF u = t THEN Needs(op) \subseteq p.facts /\ q.facts \subseteq After(op, p.facts)
                ELSE q.facts \subseteq p.facts
  BY <1>4, <1>7 DEF p, q
<1>12. Fits(<<op, u>>, t, p, q)
  BY <1>8, <1>9, <1>10, <1>11, Zenon DEF Fits
<1>13. QED
  BY <1>12 DEF p, q

LEMMA SteadyConcat ==
    ASSUME NEW a, NEW b, NEW l, NEW m, NEW n, Steady(a, l, m), Steady(b, m, n)
    PROVE  Steady(a \o b, l, n)
<1>1. a \in Seq(Call) /\ b \in Seq(Call)
  BY DEF Steady
<1>2. a \o b \in Seq(Call)
  BY <1>1
<1>3. ASSUME NEW t \in Sessions PROVE Runs(a \o b, t, Point(l, t), Point(n, t))
  BY <1>1, RunsConcat DEF Steady
<1>4. QED
  BY <1>2, <1>3 DEF Steady

\* The calls of a sequence, one point between any two
LEMMA SteadySequence ==
    ASSUME NEW calls \in Seq(Call),
           NEW p \in [1 .. Len(calls) + 1 -> {Ground, Suspended, Locked}],
           \A i \in 1 .. Len(calls) :
                calls[i][2] \in Live /\ Turns(calls[i][1], p[i], p[i + 1])
    PROVE  Steady(calls, p[1], p[Len(calls) + 1])
<1>1. Len(calls) \in Nat
  OBVIOUS
<1>2. ASSUME NEW t \in Sessions
      PROVE  Runs(calls, t, Point(p[1], t), Point(p[Len(calls) + 1], t))
  <2> DEFINE w == [i \in 1 .. Len(calls) + 1 |-> Point(p[i], t)]
  <2>1. w \in [1 .. Len(calls) + 1 -> Mark]
    BY PointType
  <2>2. ASSUME NEW i \in 1 .. Len(calls) PROVE Fits(calls[i], t, w[i], w[i + 1])
    <3>1. i \in 1 .. Len(calls) + 1 /\ i + 1 \in 1 .. Len(calls) + 1
      BY <1>1
    <3>2. p[i] \in {Ground, Suspended, Locked} /\ p[i + 1] \in {Ground, Suspended, Locked}
      BY <3>1
    <3>3. calls[i] = <<calls[i][1], calls[i][2]>>
      BY DEF Call
    <3>4. Fits(<<calls[i][1], calls[i][2]>>, t, Point(p[i], t), Point(p[i + 1], t))
      <4> DEFINE op == calls[i][1]
                 u == calls[i][2]
                 l == p[i]
                 m == p[i + 1]
      <4>1. u \in Live /\ Turns(op, l, m)
        OBVIOUS
      <4>2. l \in {Ground, Suspended, Locked} /\ m \in {Ground, Suspended, Locked}
        BY <3>2
      <4> HIDE DEF op, u, l, m
      <4>3. Fits(<<op, u>>, t, Point(l, t), Point(m, t))
        BY <4>1, <4>2, SteadyFits
      <4>4. QED
        BY <4>3 DEF op, u, l, m
    <3>5. QED
      BY <3>1, <3>3, <3>4
  <2>3. w[1] = Point(p[1], t) /\ w[Len(calls) + 1] = Point(p[Len(calls) + 1], t)
    BY <1>1
  <2> HIDE DEF w
  <2>4. QED
    BY <2>1, <2>2, <2>3 DEF Runs
<1>3. QED
  BY <1>2 DEF Steady

LEMMA SteadyOp ==
    ASSUME NEW u \in Live, NEW op, NEW l \in {Ground, Suspended, Locked},
           NEW m \in {Ground, Suspended, Locked}, Turns(op, l, m)
    PROVE  Steady(Ops(u, <<op>>), l, m)
<1>1. op \in Op /\ u \in Sessions
  BY DEF Turns, Op, Told, Live
<1>2. <<op>> \in Seq(Op) /\ Len(<<op>>) = 1 /\ <<op>>[1] = op
  BY <1>1
<1>3. /\ Ops(u, <<op>>) \in Seq(Call) /\ Len(Ops(u, <<op>>)) = 1
      /\ Ops(u, <<op>>)[1] = <<op, u>>
  <2>1. /\ Ops(u, <<op>>) \in Seq(Call) /\ Len(Ops(u, <<op>>)) = Len(<<op>>)
        /\ \A i \in 1 .. Len(<<op>>) : Ops(u, <<op>>)[i] = <<<<op>>[i], u>>
    BY <1>1, <1>2, OpsType
  <2>2. QED
    BY <1>2, <2>1
<1> DEFINE p == <<l, m>>
           calls == Ops(u, <<op>>)
<1>4. p \in [1 .. 2 -> {Ground, Suspended, Locked}] /\ p[1] = l /\ p[2] = m
  OBVIOUS
<1> HIDE DEF p, calls
<1>5. /\ calls \in Seq(Call) /\ p \in [1 .. Len(calls) + 1 -> {Ground, Suspended, Locked}]
      /\ \A i \in 1 .. Len(calls) :
            calls[i][2] \in Live /\ Turns(calls[i][1], p[i], p[i + 1])
      /\ Len(calls) + 1 = 2
  <2>1. calls \in Seq(Call) /\ Len(calls) = 1 /\ calls[1] = <<op, u>>
    BY <1>3 DEF calls
  <2>2. calls[1][1] = op /\ calls[1][2] = u
    BY <2>1
  <2>3. ASSUME NEW i \in 1 .. 1
        PROVE  calls[i][2] \in Live /\ Turns(calls[i][1], p[i], p[i + 1])
    <3>1. i = 1 /\ i + 1 = 2
      OBVIOUS
    <3>2. calls[1][2] \in Live /\ Turns(calls[1][1], p[1], p[2])
      BY <1>4, <2>2
    <3>3. QED
      BY <3>1, <3>2
  <2>4. QED
    BY <1>4, <2>1, <2>3
<1>6. Steady(calls, p[1], p[Len(calls) + 1])
  BY <1>5, SteadySequence
<1>7. QED
  BY <1>4, <1>5, <1>6 DEF calls

LEMMA ConcatElements ==
    ASSUME NEW a \in Seq(Call), NEW b \in Seq(Call)
    PROVE  /\ a \o b \in Seq(Call) /\ Len(a \o b) = Len(a) + Len(b)
           /\ \A i \in 1 .. Len(a) : (a \o b)[i] = a[i]
           /\ \A i \in 1 .. Len(b) : (a \o b)[Len(a) + i] = b[i]
  OBVIOUS

LEMMA OpsTwo ==
    ASSUME NEW s \in Sessions, NEW a \in Op, NEW b \in Op
    PROVE  Ops(s, <<a, b>>) = Ops(s, <<a>>) \o Ops(s, <<b>>)
<1>1. /\ <<a, b>> \in Seq(Op) /\ <<a>> \in Seq(Op) /\ <<b>> \in Seq(Op)
      /\ Len(<<a, b>>) = 2 /\ Len(<<a>>) = 1 /\ Len(<<b>>) = 1
      /\ <<a, b>>[1] = a /\ <<a, b>>[2] = b /\ <<a>>[1] = a /\ <<b>>[1] = b
  OBVIOUS
<1>2. /\ Ops(s, <<a, b>>) \in Seq(Call) /\ Len(Ops(s, <<a, b>>)) = 2
      /\ Ops(s, <<a, b>>)[1] = <<a, s>> /\ Ops(s, <<a, b>>)[2] = <<b, s>>
  <2>1. /\ Ops(s, <<a, b>>) \in Seq(Call) /\ Len(Ops(s, <<a, b>>)) = Len(<<a, b>>)
        /\ \A i \in 1 .. Len(<<a, b>>) : Ops(s, <<a, b>>)[i] = << <<a, b>>[i], s>>
    BY <1>1, OpsType
  <2>2. QED
    BY <1>1, <2>1
<1>3. \A c \in Op : /\ Ops(s, <<c>>) \in Seq(Call) /\ Len(Ops(s, <<c>>)) = 1
                   /\ Ops(s, <<c>>)[1] = <<c, s>>
  <2>1. ASSUME NEW c \in Op
        PROVE  /\ Ops(s, <<c>>) \in Seq(Call) /\ Len(Ops(s, <<c>>)) = 1
               /\ Ops(s, <<c>>)[1] = <<c, s>>
    <3>1. <<c>> \in Seq(Op) /\ Len(<<c>>) = 1 /\ <<c>>[1] = c
      OBVIOUS
    <3>2. /\ Ops(s, <<c>>) \in Seq(Call) /\ Len(Ops(s, <<c>>)) = Len(<<c>>)
          /\ \A i \in 1 .. Len(<<c>>) : Ops(s, <<c>>)[i] = << <<c>>[i], s>>
      BY <3>1, OpsType
    <3>3. QED
      BY <3>1, <3>2
  <2>2. QED
    BY <2>1
<1> DEFINE both == Ops(s, <<a, b>>)
           first == Ops(s, <<a>>)
           second == Ops(s, <<b>>)
<1>4. /\ both \in Seq(Call) /\ Len(both) = 2 /\ both[1] = <<a, s>> /\ both[2] = <<b, s>>
      /\ first \in Seq(Call) /\ Len(first) = 1 /\ first[1] = <<a, s>>
      /\ second \in Seq(Call) /\ Len(second) = 1 /\ second[1] = <<b, s>>
  BY <1>2, <1>3
<1> HIDE DEF both, first, second
<1>5. /\ first \o second \in Seq(Call) /\ Len(first \o second) = Len(first) + Len(second)
      /\ \A i \in 1 .. Len(first) : (first \o second)[i] = first[i]
      /\ \A i \in 1 .. Len(second) : (first \o second)[Len(first) + i] = second[i]
  BY <1>4, ConcatElements
<1>6. /\ Len(first \o second) = 2
      /\ (first \o second)[1] = <<a, s>> /\ (first \o second)[2] = <<b, s>>
  <2>1. 1 \in 1 .. Len(first) /\ 1 \in 1 .. Len(second) /\ Len(first) + 1 = 2
    BY <1>4
  <2>2. QED
    BY <1>4, <1>5, <2>1
<1>7. both = first \o second
  BY <1>4, <1>5, <1>6
<1>8. QED
  BY <1>7 DEF both, first, second

LEMMA SteadyTwo ==
    ASSUME NEW u \in Live, NEW a, NEW b, NEW l \in {Ground, Suspended, Locked},
           NEW m \in {Ground, Suspended, Locked}, NEW n \in {Ground, Suspended, Locked},
           Turns(a, l, m), Turns(b, m, n)
    PROVE  Steady(Ops(u, <<a, b>>), l, n)
<1>1. a \in Op /\ b \in Op /\ u \in Sessions
  BY DEF Turns, Op, Told, Live
<1>2. Steady(Ops(u, <<a>>), l, m) /\ Steady(Ops(u, <<b>>), m, n)
  BY SteadyOp
<1>3. Steady(Ops(u, <<a>>) \o Ops(u, <<b>>), l, n)
  BY <1>2, SteadyConcat
<1>4. QED
  BY <1>1, <1>3, OpsTwo

\* The live sessions in some order
LEMMA LiveOrder ==
    Cardinality(Live) \in Nat /\ SetToSeq(Live) \in [1 .. Cardinality(Live) -> Live]
<1>1. IsFiniteSet(Live)
  BY HybridAssumption, FS_Subset DEF Live
<1>2. Cardinality(Live) \in Nat /\ ExistsBijection(1 .. Cardinality(Live), Live)
  BY <1>1, FS_CardinalityType
<1>3. \E f \in [1 .. Cardinality(Live) -> Live] : IsInjective(f)
  BY <1>2 DEF ExistsBijection, Bijection, Injection
<1>4. QED
  BY <1>2, <1>3 DEF SetToSeq

LEMMA SteadyAll ==
    ASSUME NEW op \in Told, NEW l \in {Ground, Suspended, Locked}
    PROVE  Steady(All(op), l, l)
<1> DEFINE order == SetToSeq(Live)
           calls == All(op)
           size == Cardinality(Live)
           p == [i \in 1 .. size + 1 |-> l]
<1>1. size \in Nat /\ order \in [1 .. size -> Live]
  BY LiveOrder
<1>2. calls = [i \in 1 .. size |-> <<op, order[i]>>]
  BY <1>1 DEF All
<1>3. op \in Op /\ Live \subseteq Sessions
  BY DEF Told, Op, Live
<1>4. p \in [1 .. size + 1 -> {Ground, Suspended, Locked}] /\ p[1] = l /\ p[size + 1] = l
      /\ \A i \in 1 .. size : p[i] = l /\ p[i + 1] = l
  BY <1>1
<1> HIDE DEF order, calls, size, p
<1>5. \A i \in 1 .. size : calls[i] = <<op, order[i]>> /\ order[i] \in Live
  BY <1>1, <1>2
<1>6. calls \in [1 .. size -> Call]
  BY <1>1, <1>2, <1>3 DEF Call
<1>7. calls \in Seq(Call) /\ Len(calls) = size
  BY <1>1, <1>6
<1>8. \A i \in 1 .. Len(calls) :
        calls[i][2] \in Live /\ Turns(calls[i][1], p[i], p[i + 1])
  BY <1>4, <1>5, <1>7 DEF Turns
<1>9. p \in [1 .. Len(calls) + 1 -> {Ground, Suspended, Locked}]
  BY <1>4, <1>7
<1>10. Steady(calls, p[1], p[Len(calls) + 1])
  BY <1>7, <1>8, <1>9, SteadySequence
<1>11. QED
  BY <1>4, <1>7, <1>10 DEF calls

\* In the end less may be known than is so
LEMMA RunsWeaken ==
    ASSUME NEW calls \in Seq(Call), calls # <<>>, NEW t, NEW m, NEW n \in Mark,
           Runs(calls, t, m, n), NEW k \in Mark,
           k.depth = n.depth, k.held = n.held, k.facts \subseteq n.facts
    PROVE  Runs(calls, t, m, k)
<1>1. PICK w \in [1 .. Len(calls) + 1 -> Mark] :
        /\ w[1] = m /\ w[Len(calls) + 1] = n
        /\ \A i \in 1 .. Len(calls) : Fits(calls[i], t, w[i], w[i + 1])
  BY DEF Runs
<1>2. Len(calls) \in Nat \ {0}
  OBVIOUS
<1> DEFINE v == [w EXCEPT ![Len(calls) + 1] = k]
<1>3. v \in [1 .. Len(calls) + 1 -> Mark] /\ v[1] = m /\ v[Len(calls) + 1] = k
      /\ \A i \in 1 .. Len(calls) : v[i] = w[i]
  BY <1>1, <1>2
<1>4. ASSUME NEW i \in 1 .. Len(calls) PROVE Fits(calls[i], t, v[i], v[i + 1])
  <2>1. CASE i = Len(calls)
    <3>1. Fits(calls[i], t, v[i], n) /\ v[i + 1] = k
      BY <1>1, <1>3, <2>1
    <3>2. Fits(calls[i], t, v[i], k)
      <4>1. ASSUME NEW c, NEW x, Fits(c, t, x, n) PROVE Fits(c, t, x, k)
        <5>1. IF c[2] = t
                THEN Needs(c[1]) \subseteq x.facts /\ k.facts \subseteq After(c[1], x.facts)
                ELSE k.facts \subseteq x.facts
          BY <4>1 DEF Fits
        <5>2. QED
          BY <4>1, <5>1, Zenon DEF Fits
      <4>2. QED
        BY <3>1, <4>1
    <3>3. QED
      BY <3>1, <3>2
  <2>2. CASE i # Len(calls)
    <3>1. i \in 1 .. Len(calls) /\ i + 1 \in 1 .. Len(calls)
      BY <1>2, <2>2
    <3>2. v[i] = w[i] /\ v[i + 1] = w[i + 1]
      BY <1>3, <3>1
    <3>3. QED
      BY <1>1, <3>2
  <2>3. QED
    BY <2>1, <2>2
<1> HIDE DEF v
<1>5. QED
  BY <1>3, <1>4 DEF Runs

LEMMA GroundStart ==
    ASSUME Inv, todo = <<>>, NEW t \in Sessions
    PROVE  /\ Settled(t) \in SUBSET Fact /\ Meets(Settled(t), t)
           /\ MarkOf(Settled(t)) = Point(Ground, t)
           /\ Done \in Mark /\ Done.depth = Point(Ground, t).depth
           /\ Done.held = Point(Ground, t).held
           /\ Done.facts \subseteq Point(Ground, t).facts
<1>1. Len(scoped) = 0 /\ (lock = "main") = FALSE /\ Rest(t)
  BY AtRest
<1>2. Settled(t) \in SUBSET Fact
  BY DEF Settled, Fact
<1>3. Meets(Settled(t), t)
  BY <1>1 DEF Meets, Settled
<1>4. Point(Ground, t) = [depth |-> 0, held |-> FALSE, facts |-> Settled(t)]
  BY DEF Point, Ground
<1>5. MarkOf(Settled(t)) = Point(Ground, t)
  BY <1>1, <1>4 DEF MarkOf
<1>6. {"rest"} \in SUBSET Fact
  BY DEF Fact
<1>7. Done \in Mark
  BY <1>6 DEF Done, Mark
<1>8. "rest" \in Settled(t)
  BY DEF Settled
<1>9. QED
  BY <1>2, <1>3, <1>4, <1>5, <1>7, <1>8 DEF Done

LEMMA SteadyRequest ==
    ASSUME Inv, NEW s \in Sessions, NEW kind, NEW text \in Text, NEW calls,
           Request(kind, s, text, calls), calls # <<>>, Steady(calls, Ground, Ground)
    PROVE  Inv'
<1>1. todo = <<>> /\ calls \in Seq(Call)
  BY DEF Request, Steady
<1>2. ASSUME NEW t \in Sessions
      PROVE  \E A \in SUBSET Fact : Meets(A, t) /\ Runs(calls, t, MarkOf(A), Done)
  <2>1. /\ Settled(t) \in SUBSET Fact /\ Meets(Settled(t), t)
        /\ MarkOf(Settled(t)) = Point(Ground, t)
        /\ Done \in Mark /\ Done.depth = Point(Ground, t).depth
        /\ Done.held = Point(Ground, t).held
        /\ Done.facts \subseteq Point(Ground, t).facts
    BY <1>1, GroundStart
  <2>2. Point(Ground, t) \in Mark
    BY PointType
  <2>3. Runs(calls, t, Point(Ground, t), Point(Ground, t))
    BY DEF Steady
  <2>4. Runs(calls, t, Point(Ground, t), Done)
    BY <1>1, <2>1, <2>2, <2>3, RunsWeaken
  <2>5. QED
    BY <2>1, <2>4
<1>3. QED
  BY <1>1, <1>2, RequestStep

LEMMA CloseSessionStep ==
    ASSUME Inv, NEW s \in Sessions, CloseSession(s)
    PROVE  Inv'
<1>1. PICK resolution \in {"commit", "discard"} :
        Request("close", s, phase[s],
            Ops(s, <<"suspend", "external", "acquire", resolution, "release", "resume",
                     "drop">>))
  BY DEF CloseSession
<1> DEFINE ops == <<"suspend", "external", "acquire", resolution, "release", "resume", "drop">>
<1>2. ops \in Seq(Op) /\ Len(ops) = 7
  BY DEF Op
<1>3. todo = <<>> /\ s \in Live /\ phase[s] \in Text
  BY <1>1, EditableText DEF Request, Live
<1>4. ASSUME NEW t \in Sessions
      PROVE  \E A \in SUBSET Fact : Meets(A, t) /\ Runs(Ops(s, ops), t, MarkOf(A), Done)
  <2> DEFINE P(l) == Point(l, t)
             w == <<P(Ground), P(Suspended), P(Suspended), P(Locked), P(Locked),
                    P(Suspended), P(Ground), Done>>
  <2>1. /\ Settled(t) \in SUBSET Fact /\ Meets(Settled(t), t)
        /\ MarkOf(Settled(t)) = Point(Ground, t)
        /\ Done \in Mark /\ Done.depth = Point(Ground, t).depth
        /\ Done.held = Point(Ground, t).held
        /\ Done.facts \subseteq Point(Ground, t).facts
    BY <1>3, GroundStart
  <2>2. P(Ground) \in Mark /\ P(Suspended) \in Mark /\ P(Locked) \in Mark
    BY PointType
  <2>3. /\ Fits(<<"suspend", s>>, t, P(Ground), P(Suspended))
        /\ Fits(<<"external", s>>, t, P(Suspended), P(Suspended))
        /\ Fits(<<"acquire", s>>, t, P(Suspended), P(Locked))
        /\ Fits(<<resolution, s>>, t, P(Locked), P(Locked))
        /\ Fits(<<"release", s>>, t, P(Locked), P(Suspended))
        /\ Fits(<<"resume", s>>, t, P(Suspended), P(Ground))
    <3>1. /\ Turns("suspend", Ground, Suspended) /\ Turns("external", Suspended, Suspended)
          /\ Turns("acquire", Suspended, Locked) /\ Turns(resolution, Locked, Locked)
          /\ Turns("release", Locked, Suspended) /\ Turns("resume", Suspended, Ground)
      BY DEF Turns, Told
    <3>2. QED
      BY <1>3, <3>1, SteadyFits
  <2>4. Fits(<<"drop", s>>, t, P(Ground), Done)
    <3>1. IF s = t THEN Needs("drop") \subseteq P(Ground).facts
                          /\ Done.facts \subseteq After("drop", P(Ground).facts)
                   ELSE Done.facts \subseteq P(Ground).facts
      <4>1. Needs("drop") = {"live"} /\ "rest" \in After("drop", P(Ground).facts)
        BY DEF Needs, After, Makes
      <4>2. P(Ground).facts = Settled(t) /\ (s = t => "live" \in Settled(t))
        BY <1>3, PointType DEF Settled, Live
      <4>3. Done.facts = {"rest"}
        BY DEF Done
      <4>4. QED
        BY <2>1, <4>1, <4>2, <4>3
    <3> HIDE DEF P
    <3>2. QED
      BY <2>1, <3>1, Zenon DEF Fits, P
  <2> HIDE DEF P
  <2>5. w \in [1 .. 8 -> Mark] /\ w[1] = P(Ground) /\ w[8] = Done
    BY <2>1, <2>2
  <2>6. \A i \in 1 .. 7 : Fits(<<ops[i], s>>, t, w[i], w[i + 1])
    BY <2>3, <2>4
  <2>7. /\ Len(Ops(s, ops)) = 7
        /\ \A i \in 1 .. 7 : Ops(s, ops)[i] = <<ops[i], s>>
    BY <1>2, OpsType
  <2> HIDE DEF w, ops
  <2>8. /\ w \in [1 .. Len(Ops(s, ops)) + 1 -> Mark]
        /\ w[1] = P(Ground) /\ w[Len(Ops(s, ops)) + 1] = Done
        /\ \A i \in 1 .. Len(Ops(s, ops)) : Fits(Ops(s, ops)[i], t, w[i], w[i + 1])
    BY <2>5, <2>6, <2>7
  <2>9. Runs(Ops(s, ops), t, P(Ground), Done)
    BY <2>8 DEF Runs
  <2>10. QED
    BY <2>1, <2>9 DEF P
<1>5. Ops(s, ops) \in Seq(Call)
  BY <1>2, OpsType
<1>6. Request("close", s, phase[s], Ops(s, ops))
  BY <1>1
<1> HIDE DEF ops
<1>7. QED
  BY <1>3, <1>4, <1>5, <1>6, RequestStep

LEMMA MaintainStep ==
    ASSUME Inv, NEW s \in Sessions, Maintain(s)
    PROVE  Inv'
<1>1. PICK calls \in {Reinitialization(s), Clearing(s), Saving(s), Configuration(s)} :
        Request("maintain", s, phase[s], calls)
  BY DEF Maintain
<1>2. s \in Live /\ phase[s] \in Text
  BY <1>1, EditableText DEF Request, Live
<1>3. /\ \A op \in Told : \A l \in {Ground, Suspended, Locked} : Turns(op, l, l)
      /\ Turns("suspend", Ground, Suspended) /\ Turns("acquire", Suspended, Locked)
      /\ Turns("release", Locked, Suspended) /\ Turns("resume", Suspended, Ground)
      /\ "external" \in Told /\ "prepare" \in Told /\ "discard" \in Told
      /\ "commit" \in Told /\ "record" \in Told
  BY DEF Turns, Told
<1>4. /\ Steady(Ops(s, <<"suspend">>), Ground, Suspended)
      /\ Steady(Ops(s, <<"suspend", "acquire">>), Ground, Locked)
      /\ Steady(Ops(s, <<"acquire">>), Suspended, Locked)
      /\ Steady(Ops(s, <<"acquire", "release">>), Suspended, Suspended)
      /\ Steady(Ops(s, <<"record", "release">>), Locked, Suspended)
      /\ Steady(Ops(s, <<"release", "resume">>), Locked, Ground)
      /\ Steady(Ops(s, <<"resume">>), Suspended, Ground)
  BY <1>2, <1>3, SteadyOp, SteadyTwo
<1>5. /\ Steady(InvalidateAll, Suspended, Suspended) /\ Steady(InvalidateAll, Locked, Locked)
      /\ Steady(All("discard"), Locked, Locked) /\ Steady(All("commit"), Locked, Locked)
      /\ Steady(All("prepare"), Suspended, Suspended)
      /\ Steady(All("prepare"), Ground, Ground)
  BY <1>3, SteadyAll DEF InvalidateAll
<1>6. Steady(Ops(s, <<"suspend">>) \o InvalidateAll, Ground, Suspended)
  BY <1>4, <1>5, SteadyConcat
<1>7. Steady(Reinitialization(s), Ground, Ground)
  <2>1. Steady(Ops(s, <<"suspend">>) \o InvalidateAll \o Ops(s, <<"acquire", "release">>),
               Ground, Suspended)
    BY <1>4, <1>6, SteadyConcat
  <2>2. Steady(Ops(s, <<"suspend">>) \o InvalidateAll \o Ops(s, <<"acquire", "release">>)
                 \o All("prepare"), Ground, Suspended)
    BY <1>5, <2>1, SteadyConcat
  <2>3. QED
    BY <1>4, <2>2, SteadyConcat DEF Reinitialization
<1>8. Steady(Ops(s, <<"suspend">>) \o InvalidateAll \o Ops(s, <<"acquire">>), Ground, Locked)
  BY <1>4, <1>6, SteadyConcat
<1>9. Steady(Clearing(s), Ground, Ground)
  <2>1. Steady(Ops(s, <<"suspend">>) \o InvalidateAll \o Ops(s, <<"acquire">>)
                 \o All("discard"), Ground, Locked)
    BY <1>5, <1>8, SteadyConcat
  <2>2. Steady(Ops(s, <<"suspend">>) \o InvalidateAll \o Ops(s, <<"acquire">>)
                 \o All("discard") \o Ops(s, <<"record", "release">>), Ground, Suspended)
    BY <1>4, <2>1, SteadyConcat
  <2>3. Steady(Ops(s, <<"suspend">>) \o InvalidateAll \o Ops(s, <<"acquire">>)
                 \o All("discard") \o Ops(s, <<"record", "release">>) \o All("prepare"),
               Ground, Suspended)
    BY <1>5, <2>2, SteadyConcat
  <2>4. QED
    BY <1>4, <2>3, SteadyConcat DEF Clearing
<1>10. Steady(Saving(s), Ground, Ground)
  <2>1. Steady(Ops(s, <<"suspend">>) \o InvalidateAll \o Ops(s, <<"acquire">>)
                 \o All("commit"), Ground, Locked)
    BY <1>5, <1>8, SteadyConcat
  <2>2. QED
    BY <1>4, <2>1, SteadyConcat DEF Saving
<1>11. Steady(Configuration(s), Ground, Ground)
  <2>1. Steady(Ops(s, <<"suspend", "acquire">>) \o InvalidateAll, Ground, Locked)
    BY <1>4, <1>5, SteadyConcat
  <2>2. Steady(Ops(s, <<"suspend", "acquire">>) \o InvalidateAll
                 \o Ops(s, <<"release", "resume">>), Ground, Ground)
    BY <1>4, <2>1, SteadyConcat
  <2>3. QED
    BY <1>5, <2>2, SteadyConcat DEF Configuration
<1>12. Steady(calls, Ground, Ground)
  BY <1>7, <1>9, <1>10, <1>11
<1>13. CASE calls # <<>>
  BY <1>1, <1>2, <1>12, <1>13, SteadyRequest
<1>14. CASE calls = <<>>
  <2>1. todo = <<>>
    BY <1>1 DEF Request
  <2>2. ASSUME NEW t \in Sessions
        PROVE  \E A \in SUBSET Fact : Meets(A, t) /\ Runs(calls, t, MarkOf(A), Done)
    <3>1. PICK A \in SUBSET Fact : Meets(A, t) /\ Runs(todo, t, MarkOf(A), Done)
      BY DEF Inv, Outlined, MarkOf
    <3>2. QED
      BY <1>14, <2>1, <3>1
  <2>3. calls \in Seq(Call)
    BY <1>12 DEF Steady
  <2>4. QED
    BY <1>1, <1>2, <2>2, <2>3, RequestStep
<1>15. QED
  BY <1>13, <1>14

------------------------------------------------------------------------------
(* The theorems                                                            *)

LEMMA AskKeeps ==
    ASSUME Inv, NEW s \in Sessions, Ask(s)
    PROVE  Inv'
  BY InsertTextStep, DeleteStep, MoveCursorStep, TransformTextStep, StartConversionStep,
     ReconvertStep, ShortSteps, ResizeSegmentStep, CommitAllStep, CommitSelectedStep,
     CancelStep, FocusOutStep, SecureInputChangedStep, ServerRestartedStep,
     CloseSessionStep, OpenStep, MaintainStep
  DEF Ask

LEMMA InitInv ==
    ASSUME Init
    PROVE  Inv
<1>1. Idle \in SpecState /\ Idle.kind = "idle" /\ Idle.step = "none"
  BY StateTypes DEF Idle, State
<1>2. TypeOK
  BY <1>1 DEF Init, TypeOK, SpecState, NoJob, NoContext, Context, NoFence
<1>3. ToSet(scoped) = {}
  BY DEF Init, ToSet
<1>4. FencesOwned
  BY <1>3 DEF Init, FencesOwned, IsInjective
<1>5. GateInv
  BY <1>3 DEF Init, GateInv, Inside
<1>6. ASSUME NEW s \in Sessions PROVE ConverterInv(s)
  BY <1>1 DEF Init, ConverterInv
<1>7. ASSUME NEW t \in Sessions PROVE Outlined(t)
  <2>1. {"rest"} \in SUBSET Fact
    BY DEF Fact
  <2>2. Meets({"rest"}, t)
    BY DEF Init, Meets, Rest
  <2>3. Done \in Mark
    BY <2>1 DEF Done, Mark
  <2>4. Runs(<<>>, t, Done, Done)
    BY <2>3, RunsNothing
  <2>5. [depth |-> Len(scoped), held |-> lock = "main", facts |-> {"rest"}] = Done
    <3>1. Len(scoped) = 0 /\ (lock = "main") = FALSE
      BY DEF Init
    <3>2. QED
      BY <3>1 DEF Done
  <2>6. QED
    BY <2>1, <2>2, <2>4, <2>5 DEF Init, Outlined
<1>8. todo \in Seq(Call)
  BY DEF Init
<1>9. QED
  BY <1>2, <1>4, <1>5, <1>6, <1>7, <1>8 DEF Inv, HybridInv

LEMMA StutterInv ==
    ASSUME Inv, UNCHANGED vars
    PROVE  Inv'
<1>1. UNCHANGED <<speculation, candidateFence, published, deferred, fences, staged, dirty,
                  pending, learning, phase, revision, window, secure, field, status, holds,
                  lock,
                  queue, at, job, context, result, workerFence, todo, scoped>>
  BY DEF vars, fenceState, learnState, screen, domain, jobVars
<1>2. TypeOK' /\ FencesOwned' /\ GateInv' /\ (todo \in Seq(Call))'
  <2>1. TypeOK /\ FencesOwned /\ GateInv /\ todo \in Seq(Call)
    BY DEF Inv, HybridInv
  <2>2. TypeOK'
    BY <1>1, <2>1 DEF TypeOK
  <2>3. FencesOwned'
    BY <1>1, <2>1 DEF FencesOwned
  <2>4. GateInv'
    BY <1>1, <2>1 DEF GateInv
  <2>5. (todo \in Seq(Call))'
    BY <1>1, <2>1
  <2>6. QED
    BY <2>2, <2>3, <2>4, <2>5
<1>3. ASSUME NEW s \in Sessions PROVE ConverterInv(s)'
  BY <1>1 DEF Inv, ConverterInv, Clean, Calls
<1>4. ASSUME NEW t \in Sessions PROVE Outlined(t)'
  <2>1. PICK A \in SUBSET Fact :
        Meets(A, t) /\ Runs(todo, t,
            [depth |-> Len(scoped), held |-> lock = "main", facts |-> A], Done)
    BY DEF Inv, Outlined
  <2>2. Meets(A, t)'
    BY <1>1, <2>1 DEF Meets, Rest, Emptied, Clean
  <2>3. QED
    BY <1>1, <2>1, <2>2 DEF Outlined
<1>5. QED
  BY <1>2, <1>3, <1>4 DEF Inv, HybridInv

\* The invariant of the converters, the worker and the running request
LEMMA Invariance == Spec => []Inv
<1>1. Start => Inv
  BY InitInv DEF Start
<1>2. Inv /\ [Next]_<<vars, asks>> => Inv'
  <2> SUFFICES ASSUME Inv, [Next]_<<vars, asks>> PROVE Inv'
    OBVIOUS
  <2>1. CASE Next
    BY <2>1, WorkKeeps, CallsKeep, DeinitStep, AskKeeps DEF Next
  <2>2. CASE UNCHANGED <<vars, asks>>
    BY <2>2, StutterInv
  <2>3. QED
    BY <2>1, <2>2
<1>3. QED
  BY <1>1, <1>2, PTL DEF Spec

\* Every fence has one owner that will release it: no number of sessions,
\* requests and conversions leaves one in the gate, where it would end
\* speculation, or releases another's
\* (MozcFirstHybridKanaKanjiConverter.swift:67, :774, :1055).
THEOREM FencesHaveOwners == Spec => []HybridInv
<1>1. Inv => HybridInv
  BY DEF Inv
<1>2. QED
  BY <1>1, Invariance, PTL

\* Candidates of Hazkey on the screen between two requests, staged learning and
\* learnable results are covered by the fence, so no conversion of another
\* session displaces what they refer to
\* (MozcFirstHybridKanaKanjiConverter.swift:1056).
THEOREM ReferencesFenced == Spec => []LearnableFenced
<1>1. Inv => LearnableFenced
  <2> SUFFICES ASSUME Inv PROVE LearnableFenced
    OBVIOUS
  <2>1. \A s \in Sessions : ConverterInv(s)
    BY DEF Inv
  <2>2. ASSUME NEW s \in Live, todo = <<>>, window[s] = "learnable"
        PROVE  candidateFence[s] # NoFence
    <3>1. s \in Sessions /\ status[s] = "live"
      BY DEF Live
    <3>2. published[s]
      BY <2>2, <3>1, AtRest DEF Rest
    <3>3. QED
      BY <2>1, <3>1, <3>2 DEF ConverterInv
  <2>3. ASSUME NEW s \in Live, staged[s] PROVE candidateFence[s] # NoFence
    BY <2>1, <2>3 DEF ConverterInv, Live
  <2>4. ASSUME NEW s \in Sessions, speculation[s].step = "learnable"
        PROVE  candidateFence[s] # NoFence
    BY <2>1, <2>4 DEF ConverterInv
  <2>5. QED
    BY <2>2, <2>3, <2>4 DEF LearnableFenced
<1>2. QED
  BY <1>1, Invariance, PTL

\* A key press that has to run Hazkey itself, to learn, to resolve or to forget,
\* never finds the worker converting: what it refers to was fenced before
\* (MozcFirstHybridKanaKanjiConverter.swift:250, :1055).  An open, a purge, maintenance
\* and a composition that starts under a new Grimodex revision may find it so.
THEOREM LearningKeysNeverWait == Spec => []LearningNeverWaits
<1>1. Inv => LearningNeverWaits
  <2> SUFFICES ASSUME Inv, NEW s \in Sessions, RunsHazkey(s)
               PROVE  at \notin {"converting", "fencing"}
    BY DEF LearningNeverWaits
  <2>1. GateInv /\ ConverterInv(s)
    BY DEF Inv
  <2>2. candidateFence[s] # NoFence
    <3>1. CASE Calls("learn", s)
      <4>1. PICK A \in SUBSET Fact : Meets(A, s) /\ Needs("learn") \subseteq A
        BY <3>1, AtCall
      <4>2. deferred[s]
        BY <4>1 DEF Needs, Meets
      <4>3. QED
        BY <2>1, <4>2 DEF ConverterInv
    <3>2. CASE Calls("forget", s)
      <4>1. PICK A \in SUBSET Fact : Meets(A, s) /\ Needs("forget") \subseteq A
        BY <3>2, AtCall
      <4>2. published[s]
        BY <4>1 DEF Needs, Meets, Rest
      <4>3. QED
        BY <2>1, <4>2 DEF ConverterInv
    <3>3. CASE (Calls("commit", s) \/ Calls("discard", s)) /\ pending[s] /\ staged[s]
      <4>1. status[s] = "live"
        BY <3>3, AtCall
      <4>2. QED
        BY <2>1, <3>3, <4>1 DEF ConverterInv
    <3>4. CASE Calls("commitLearning", s) /\ dirty[s]
      BY <2>1, <3>4 DEF ConverterInv
    <3>5. QED
      BY <3>1, <3>2, <3>3, <3>4 DEF RunsHazkey
  <2>3. QED
    BY <2>1, <2>2 DEF GateInv, Inside
<1>2. QED
  BY <1>1, Invariance, PTL

\* A secure field holds no result, fence or learning of Hazkey, nothing is left
\* in the adapter, and no conversion that started before is still going on
\* (MozcFirstHybridKanaKanjiConverter.swift:679).
THEOREM SecureFieldsHoldNothing == Spec => []SecureHoldsNothing
<1>1. Inv => SecureHoldsNothing
  BY DEF Inv, ConverterInv, Clean, SecureHoldsNothing, Live
<1>2. QED
  BY <1>1, Invariance, PTL

------------------------------------------------------------------------------
(* The order of the candidates                                             *)

Lasts(s) == speculation'[s] \in {speculation[s], Discarded(speculation[s])}

\* Whatever becomes of another converter leaves the order alone, and so does
\* the loss of its own fence
LEMMA OrderLasts ==
    ASSUME Inv, NEW s \in Sessions, NEW u \in Sessions, NEW state,
           Take(u, state) \/ Keep(u, state) \/ speculation' = Set(speculation, u, state),
           u = s => state \in {speculation[s], Discarded(speculation[s])}
    PROVE  Lasts(s)
<1>1. \/ speculation' = [speculation EXCEPT ![u] = state]
      \/ speculation' = [speculation EXCEPT ![u] = Discarded(state)]
  BY DEF Take, Keep, Set
<1>2. speculation \in [Sessions -> SpecState]
  BY DEF Inv, HybridInv, TypeOK, SpecState
<1>3. u = s => Discarded(state) \in {speculation[s], Discarded(speculation[s])}
  <2>1. ASSUME NEW x PROVE Discarded(Discarded(x)) = Discarded(x)
    BY DEF Discarded, Frozen, State, Context
  <2>2. QED
    BY <2>1
<1>4. CASE u = s
  BY <1>1, <1>2, <1>3, <1>4 DEF Lasts
<1>5. CASE u # s
  BY <1>1, <1>2, <1>5 DEF Lasts
<1>6. QED
  BY <1>4, <1>5

LEMMA OrderUnchanged ==
    ASSUME NEW s, UNCHANGED speculation
    PROVE  Lasts(s)
  BY DEF Lasts

LEMMA RetiringOrder ==
    ASSUME Inv, NEW s \in Sessions, NEW u \in Sessions, RetireWindow(u)
    PROVE  Lasts(s)
<1>1. \/ Take(u, speculation[u]) \/ Keep(u, speculation[u])
      \/ speculation' = Set(speculation, u, Discarded(speculation[u]))
  BY DEF RetireWindow
<1>2. QED
  BY <1>1, OrderLasts

LEMMA WorkOrder ==
    ASSUME Inv, NEW s \in Sessions, speculation[s].kind = "frozen", Work
    PROVE  Lasts(s)
<1>1. speculation \in [Sessions -> SpecState]
  BY DEF Inv, HybridInv, TypeOK, SpecState
<1>2. CASE ReadPending
  <2>1. CASE UNCHANGED speculation
    BY <2>1, OrderUnchanged
  <2>2. CASE ~UNCHANGED speculation
    <3>1. speculation[job.session].kind = "pending"
          /\ \E x : speculation' = [speculation EXCEPT ![job.session] = x]
      BY <1>2, <2>2 DEF ReadPending, StillPending, Set
    <3>2. speculation'[s] = speculation[s]
      BY <1>1, <3>1
    <3>3. QED
      BY <3>2 DEF Lasts
  <2>3. QED
    BY <2>1, <2>2
<1>3. CASE Finish
  <2>1. CASE UNCHANGED speculation
    BY <2>1, OrderUnchanged
  <2>2. CASE ~UNCHANGED speculation
    <3>1. speculation[job.session].kind = "pending"
          /\ \E x : speculation' = [speculation EXCEPT ![job.session] = x]
      BY <1>3, <2>2 DEF Finish, StillPending, Set
    <3>2. speculation'[s] = speculation[s]
      BY <1>1, <3>1
    <3>3. QED
      BY <3>2 DEF Lasts
  <2>3. QED
    BY <2>1, <2>2
<1>4. QED
  BY <1>2, <1>3, OrderUnchanged
  DEF Work, Dequeue, Admit, Enter, Convert, FenceResult, ReleaseWorkerFence, Leave

LEMMA CallOrder ==
    ASSUME Inv, NEW s \in Live, speculation[s].kind = "frozen",
           \A op \in {"invalidate", "invalidateForCommit", "external", "purgeState"} :
                ~Calls(op, s),
           NEW u \in Sessions, CallStep(u)
    PROVE  Lasts(s)
<1>1. s \in Sessions /\ speculation[s].context.revision = revision[s]
  BY DEF Live, Inv, ConverterInv
<1>2. CASE Invalidate(u) \/ InvalidateForCommit(u) \/ External(u) \/ PurgeState(u)
  <2>1. u # s
    BY <1>2 DEF Invalidate, InvalidateForCommit, External, PurgeState
  <2>2. Take(u, Idle) \/ Keep(u, Idle) \/ speculation' = Set(speculation, u, Idle)
    BY <1>2 DEF Invalidate, InvalidateForCommit, External, PurgeState, Unless
  <2>3. QED
    BY <1>1, <2>1, <2>2, OrderLasts
<1>3. CASE Retire(u) \/ Relabel(u) \/ Present(u)
  <2>1. RetireWindow(u) \/ Keep(u, speculation[u])
    BY <1>3 DEF Retire, Relabel, Present
  <2>2. QED
    BY <1>1, <2>1, RetiringOrder, OrderLasts
<1>4. CASE Segments(u) \/ Abandon(u) \/ StopComposition(u) \/ CommitLearning(u)
            \/ ResolveDiscard(u)
  <2>1. UNCHANGED speculation \/ Take(u, speculation[u]) \/ Keep(u, speculation[u])
    BY <1>4
    DEF Segments, Abandon, StopComposition, CommitLearning, ResolveDiscard, EndDeferral,
        Unless
  <2>2. QED
    BY <1>1, <2>1, OrderUnchanged, OrderLasts
<1>5. CASE Prepare(u)
  <2>1. CASE u = s
    <3>1. Keep(u, speculation[u])
      BY <1>1, <1>5, <2>1 DEF Prepare
    <3>2. QED
      BY <1>1, <3>1, OrderLasts
  <2>2. CASE u # s
    <3>1. \E x : Take(u, x) \/ Keep(u, x)
      BY <1>5 DEF Prepare, Unless
    <3>2. QED
      BY <1>1, <2>2, <3>1, OrderLasts
  <2>3. QED
    BY <2>1, <2>2
<1>6. CASE LockOrder(u)
  <2>1. CASE u = s
    <3>1. Keep(u, speculation[u])
      BY <1>1, <1>6, <2>1 DEF LockOrder
    <3>2. QED
      BY <1>1, <3>1, OrderLasts
  <2>2. CASE u # s
    <3> DEFINE state == speculation[u]
               none == Frozen(revision[u], 0, "none")
               locked == Frozen(revision[u], learning, state.step)
    <3>1. state.kind \in {"idle", "pending", "ready", "frozen"}
      BY DEF Inv, HybridInv, TypeOK
    <3>2. \/ Take(u, none) \/ Keep(u, none) \/ Keep(u, state) \/ Keep(u, locked)
      BY <1>6, <3>1 DEF LockOrder, Unless
    <3>3. QED
      BY <1>1, <2>2, <3>2, OrderLasts
  <2>3. QED
    BY <2>1, <2>2
<1>7. CASE \/ Submit(u) \/ Learn(u) \/ ResolveCommit(u) \/ RecordLearning(u) \/ Suspend(u)
           \/ Resume(u) \/ LockGate(u) \/ PurgeHazkey(u) \/ AwaitWorker(u)
           \/ Refresh(u) \/ ChangeSecure(u) \/ Drop(u)
  BY <1>7, OrderUnchanged
  DEF Submit, Learn, ResolveCommit, RecordLearning, Suspend, Resume, LockGate, PurgeHazkey,
      AwaitWorker, Refresh, ChangeSecure, Drop
<1>8. QED
  BY <1>2, <1>3, <1>4, <1>5, <1>6, <1>7 DEF CallStep

LEMMA AskOrder ==
    ASSUME Inv, NEW s \in Live, NEW u \in Sessions, Ask(u)
    PROVE  Lasts(s)
<1>1. CASE Open(u)
  <2>1. u # s /\ s \in Sessions /\ speculation' = Set(speculation, u, Idle)
    BY <1>1 DEF Open, Live
  <2>2. QED
    BY <2>1, OrderLasts
<1>2. CASE ~Open(u)
  <2>1. \E kind, text, calls : Request(kind, u, text, calls)
    BY <1>2
    DEF Ask, InsertText, Delete, MoveCursor, TransformText, StartConversion, Reconvert,
        Navigate, ResizeSegment, TransformSegment, ForgetCandidate, CommitAll,
        CommitSelected, Cancel, ResolvePending, FocusOut, ContextChanged,
        SecureInputChanged, ServerRestarted, CloseSession, Maintain
  <2>2. QED
    BY <2>1, OrderUnchanged DEF Request
<1>3. QED
  BY <1>1, <1>2

\* Once the order of the candidates is locked for a composition, only a change
\* of that composition or a purge replaces it; a conversion that ends late, a
\* new preparation, a second lock and the loss of the fence do not
\* (MozcFirstHybridKanaKanjiConverter.swift:251, :445, :507, :767).
THEOREM LockedOrderLasts == Spec => OrderLocked
<1>1. Inv /\ [Next]_<<vars, asks>>
        => [\A s \in Live :
              /\ speculation[s].kind = "frozen"
              /\ \A op \in {"invalidate", "invalidateForCommit", "external", "purgeState"} :
                    ~Calls(op, s)
              => speculation'[s] \in {speculation[s], Discarded(speculation[s])}]_vars
  <2> SUFFICES ASSUME Inv, Next, NEW s \in Live, speculation[s].kind = "frozen",
                      \A op \in {"invalidate", "invalidateForCommit", "external",
                                 "purgeState"} : ~Calls(op, s)
               PROVE  Lasts(s)
    BY DEF Lasts
  <2>1. s \in Sessions /\ status[s] = "live"
    BY DEF Live
  <2>2. CASE Work
    BY <2>1, <2>2, WorkOrder
  <2>3. ASSUME NEW u \in Sessions, CallStep(u) PROVE Lasts(s)
    BY <2>3, CallOrder
  <2>4. ASSUME NEW u \in Sessions, Deinit(u) PROVE Lasts(s)
    <3>1. u # s /\ Take(u, Idle)
      BY <2>1, <2>4 DEF Deinit
    <3>2. QED
      BY <2>1, <3>1, OrderLasts
  <2>5. ASSUME NEW u \in Sessions, Ask(u) PROVE Lasts(s)
    BY <2>5, AskOrder
  <2>6. QED
    BY <2>2, <2>3, <2>4, <2>5 DEF Next
<1>2. QED
  BY <1>1, Invariance, PTL DEF Spec, OrderLocked
=============================================================================
