----------------------- MODULE EffectDelivery_proofs -----------------------
(***************************************************************************)
(* Proofs about EffectDelivery, for every ID width MaxID and every bound:  *)
(* an effect is applied at most once, and none that was given an ID is     *)
(* lost while IDs last.                                                    *)
(***************************************************************************)
EXTENDS EffectDelivery, TLAPS

------------------------------------------------------------------------------
(* The affine map                                                          *)

\* Anchoring a namespace at a raw ID keeps its next global ID.
LEMMA AnchorFacts ==
    ASSUME NEW n \in Namespace, NEW r \in 1 .. MaxID
    PROVE  /\ Anchor(n, r) \in Namespace
           /\ Anchor(n, r).anchored
           /\ Anchor(n, r).next = n.next
           /\ n.anchored => Anchor(n, r) = n
           /\ ~n.anchored => /\ Anchor(n, r).raw = r
                             /\ Anchor(n, r).global = n.next
<1>1. n.next \in 1 .. MaxID /\ n.anchored \in BOOLEAN
  BY DEF Namespace
<1>2. n.next \in EffectIDs /\ r \in EffectIDs
  BY <1>1, MaxIDAssumption DEF EffectIDs
<1>3. CASE n.anchored
  BY <1>3 DEF Anchor
<1>4. CASE ~n.anchored
  <2>1. Anchor(n, r) = [n EXCEPT !.anchored = TRUE, !.raw = r, !.global = n.next]
    BY <1>4 DEF Anchor
  <2>2. QED
    BY <1>2, <1>4, <2>1 DEF Namespace
<1>5. QED
  BY <1>3, <1>4

\* A global ID fits in 64 bits.
LEMMA GlobalIDType ==
    ASSUME NEW n \in Namespace, NEW r \in 1 .. MaxID
    PROVE  GlobalID(n, r) \in EffectIDs
<1> DEFINE a == Anchor(n, r)
<1>1. a \in Namespace
  BY AnchorFacts
<1>2. a.raw \in 0 .. MaxID /\ a.global \in 0 .. MaxID
  BY <1>1 DEF Namespace, EffectIDs
<1> HIDE DEF a
<1>3. Mappable(a, r) => a.global + (r - a.raw) \in 0 .. MaxID
  BY <1>2, MaxIDAssumption DEF Mappable
<1>4. QED
  BY <1>3, MaxIDAssumption DEF GlobalID, a, EffectIDs

\* normalizeEffectIDs changes nothing of an anchored namespace but the next
\* global ID, and that never decreases.
LEMMA ObserveFacts ==
    ASSUME NEW n \in Namespace, NEW r \in 1 .. MaxID
    PROVE  /\ Observe(n, r) \in Namespace
           /\ Observe(n, r).anchored
           /\ Observe(n, r).raw = Anchor(n, r).raw
           /\ Observe(n, r).global = Anchor(n, r).global
           /\ Observe(n, r).next >= n.next
           /\ GlobalID(n, r) = 0 => Observe(n, r).next = n.next
           /\ GlobalID(n, r) = MaxID => Observe(n, r).next = MaxID
           /\ (GlobalID(n, r) # 0 /\ GlobalID(n, r) # MaxID) =>
                Observe(n, r).next = IF n.next > GlobalID(n, r) + 1
                                     THEN n.next ELSE GlobalID(n, r) + 1
<1> DEFINE a == Anchor(n, r)
           g == GlobalID(n, r)
<1>1. a \in Namespace /\ a.anchored /\ a.next = n.next
  BY AnchorFacts
<1>2. g \in 0 .. MaxID
  BY GlobalIDType DEF EffectIDs
<1>3. n.next \in 1 .. MaxID
  BY DEF Namespace
<1>4. Observe(n, r) = IF g = 0 THEN a
                      ELSE IF g = MaxID THEN [a EXCEPT !.next = g]
                      ELSE [a EXCEPT !.next =
                                IF a.next > g + 1 THEN a.next ELSE g + 1]
  BY DEF Observe
<1> HIDE DEF a, g
<1>5. QED
  BY <1>1, <1>2, <1>3, <1>4, MaxIDAssumption DEF Namespace, EffectIDs, a, g

\* The ID of an effect does not change once its namespace is anchored.
LEMMA GlobalIDStable ==
    ASSUME NEW n \in Namespace, NEW r \in 1 .. MaxID, NEW q \in 1 .. MaxID,
           n.anchored \/ q = r
    PROVE  GlobalID(Observe(n, r), q) = GlobalID(n, q)
<1> DEFINE o == Observe(n, r)
           a == Anchor(n, q)
<1>1. /\ o \in Namespace /\ o.anchored
      /\ o.raw = Anchor(n, r).raw /\ o.global = Anchor(n, r).global
  BY ObserveFacts
<1>2. Anchor(o, q) = o
  BY <1>1, AnchorFacts
<1>3. o.raw = a.raw /\ o.global = a.global
  BY <1>1, AnchorFacts
<1> HIDE DEF o, a
<1>4. QED
  BY <1>2, <1>3 DEF GlobalID, Mappable, o, a

\* Within one namespace a later raw ID has a later global ID.
LEMMA GlobalIDMonotone ==
    ASSUME NEW n \in Namespace, n.anchored, n.global >= 1,
           NEW q \in 1 .. MaxID, NEW r \in 1 .. MaxID, q < r, n.raw <= q,
           GlobalID(n, r) # 0
    PROVE  GlobalID(n, q) # 0 /\ GlobalID(n, q) < GlobalID(n, r)
<1>1. n.raw \in 0 .. MaxID /\ n.global \in 0 .. MaxID
  BY DEF Namespace, EffectIDs
<1>2. Anchor(n, q) = n /\ Anchor(n, r) = n
  BY AnchorFacts
<1>3. QED
  BY <1>1, <1>2, MaxIDAssumption DEF GlobalID, Mappable

------------------------------------------------------------------------------
(* Applied at most once                                                    *)

\* The part of the invariant that holds whether or not IDs are exhausted.
BaseInv == TypeOK /\ MapFixed /\ Provenance /\ Anchored

LEMMA InitBase == Init => BaseInv
  BY MaxIDAssumption
     DEF Init, BaseInv, TypeOK, MapFixed, Provenance, Anchored, Namespace,
         ClearedNamespace, EffectIDs, Effect

\* A received effect is the one already confirmed if there is one with the
\* same raw ID in this namespace.
LEMMA ReceiveBase ==
    ASSUME BaseInv, NEW r \in 1 .. MaxID, Receive(r),
           \/ r > top
           \/ \E c \in confirmed : c.epoch = epoch /\ c.raw = r
    PROVE  BaseInv'
<1> DEFINE e == [id |-> GlobalID(ns, r), epoch |-> epoch, raw |-> r]
<1>1. /\ ns \in Namespace /\ buffer \in Seq(Effect) /\ top \in EffectIDs
      /\ epoch \in Nat /\ confirmed \subseteq Effect /\ applied \subseteq Effect
      /\ highest \in EffectIDs
  BY DEF BaseInv, TypeOK
<1>2. e \in Effect
  BY <1>1, GlobalIDType DEF Effect
<1>3. /\ ns' = Observe(ns, r) /\ buffer' = Append(buffer, e)
      /\ confirmed' = confirmed \cup {e} /\ UNCHANGED <<highest, epoch, applied>>
      /\ top' = IF r > top THEN r ELSE top
  BY DEF Receive
<1>4. ns' \in Namespace /\ ns'.anchored /\ ns'.raw = Anchor(ns, r).raw
      /\ ns'.global = Anchor(ns, r).global
  BY <1>1, <1>3, ObserveFacts
<1>5. TypeOK'
  BY <1>1, <1>2, <1>3, <1>4, MaxIDAssumption DEF TypeOK, EffectIDs
<1>6. ns.anchored \/ \A c \in confirmed : c.epoch # epoch
  BY DEF BaseInv, MapFixed
<1>7. \A c \in confirmed : c.epoch = epoch => c.id = GlobalID(ns', c.raw)
  <2> SUFFICES ASSUME NEW c \in confirmed, c.epoch = epoch
               PROVE  c.id = GlobalID(ns', c.raw)
    OBVIOUS
  <2>1. c.raw \in 1 .. MaxID /\ c.id = GlobalID(ns, c.raw) /\ ns.anchored
    BY <1>1 DEF BaseInv, MapFixed, Effect
  <2>2. QED
    BY <1>1, <1>3, <2>1, GlobalIDStable
<1>8. GlobalID(ns', r) = e.id
  BY <1>1, <1>3, GlobalIDStable
<1>9. MapFixed'
  <2> SUFFICES ASSUME NEW c \in confirmed'
               PROVE  /\ c.epoch <= epoch'
                      /\ c.epoch = epoch' => /\ ns'.anchored
                                             /\ c.raw <= top'
                                             /\ c.id = GlobalID(ns', c.raw)
    BY DEF MapFixed
  <2>1. CASE c = e
    BY <1>1, <1>3, <1>4, <1>8, <2>1, MaxIDAssumption DEF EffectIDs
  <2>2. CASE c \in confirmed
    <3>1. c.epoch <= epoch /\ (c.epoch = epoch => c.raw <= top)
      BY <2>2 DEF BaseInv, MapFixed
    <3>2. c.raw \in 1 .. MaxID
      BY <1>1, <2>2 DEF Effect
    <3>3. QED
      BY <1>1, <1>3, <1>4, <1>7, <2>2, <3>1, <3>2, MaxIDAssumption
         DEF EffectIDs
  <2>3. QED
    BY <1>3, <2>1, <2>2
<1>10. Provenance'
  <2>1. applied' \subseteq confirmed' /\ \A a \in applied' : a.id <= highest'
    BY <1>3 DEF BaseInv, Provenance
  <2>2. \A i \in DOMAIN buffer' : buffer'[i] \in confirmed'
    BY <1>1, <1>2, <1>3 DEF BaseInv, Provenance
  <2>3. \A c \in confirmed : c.epoch = epoch /\ c.raw = r => c = e
    BY <1>1 DEF BaseInv, MapFixed, Effect
  <2>4. \A c, d \in confirmed' : c.epoch = d.epoch /\ c.raw = d.raw => c = d
    BY <1>3, <2>3 DEF BaseInv, Provenance
  <2>5. QED
    BY <2>1, <2>2, <2>4 DEF Provenance
<1>11. Anchored'
  <2>1. CASE ns.anchored
    <3>1. ns'.raw = ns.raw /\ ns'.global = ns.global
      BY <1>1, <1>4, <2>1, AnchorFacts
    <3>2. QED
      BY <1>1, <1>3, <1>4, <2>1, <3>1, MaxIDAssumption
         DEF BaseInv, Anchored, EffectIDs, Namespace
  <2>2. CASE ~ns.anchored
    <3>1. top = 0
      BY <2>2 DEF BaseInv, Anchored
    <3>2. ns'.raw = r /\ ns'.global = ns.next
      BY <1>1, <1>4, <2>2, AnchorFacts
    <3>3. ns.next \in 1 .. MaxID
      BY <1>1 DEF Namespace
    <3>4. QED
      BY <1>3, <1>4, <3>1, <3>2, <3>3, MaxIDAssumption DEF Anchored
  <2>3. QED
    BY <2>1, <2>2
<1>12. QED
  BY <1>5, <1>9, <1>10, <1>11 DEF BaseInv

LEMMA StepBase == BaseInv /\ [Next]_vars => BaseInv'
<1> SUFFICES ASSUME BaseInv, [Next]_vars
             PROVE  BaseInv'
  OBVIOUS
<1> USE MaxIDAssumption
<1>1. CASE ReceiveNew
  BY <1>1, ReceiveBase DEF ReceiveNew
<1>2. CASE ReceiveAgain
  <2>1. PICK c \in confirmed : c.epoch = epoch /\ Receive(c.raw)
    BY <1>2 DEF ReceiveAgain
  <2>2. c.raw \in 1 .. MaxID
    BY DEF BaseInv, TypeOK, Effect
  <2>3. QED
    BY <2>1, <2>2, ReceiveBase
<1>3. CASE Apply
  <2>1. buffer \in Seq(Effect) /\ buffer # <<>> /\ buffer' = Tail(buffer)
    BY <1>3 DEF Apply, BaseInv, TypeOK
  <2>2. Head(buffer) \in Effect /\ Head(buffer) = buffer[1] /\ 1 \in DOMAIN buffer
    BY <2>1
  <2>3. Head(buffer) \in confirmed
    BY <2>2 DEF BaseInv, Provenance
  <2>4. Tail(buffer) \in Seq(Effect)
        /\ \A i \in DOMAIN Tail(buffer) : /\ i + 1 \in DOMAIN buffer
                                          /\ Tail(buffer)[i] = buffer[i + 1]
    BY <2>1
  <2>5. TypeOK'
    BY <1>3, <2>1, <2>2, <2>4 DEF Apply, BaseInv, TypeOK, Effect
  <2>6. MapFixed' /\ Anchored'
    BY <1>3 DEF Apply, BaseInv, MapFixed, Anchored
  <2>7. Provenance'
    <3>1. applied' \subseteq confirmed'
      BY <1>3, <2>3 DEF Apply, BaseInv, Provenance
    <3>2. \A i \in DOMAIN buffer' : buffer'[i] \in confirmed'
      BY <1>3, <2>1, <2>4 DEF Apply, BaseInv, Provenance
    <3>3. \A a \in applied : a.id \in Nat
      BY DEF BaseInv, TypeOK, Effect, EffectIDs
    <3>4. \A a \in applied' : a.id <= highest'
      BY <1>3, <2>2, <3>3
         DEF Apply, Claims, BaseInv, Provenance, TypeOK, Effect, EffectIDs
    <3>5. QED
      BY <1>3, <3>1, <3>2, <3>4 DEF Apply, BaseInv, Provenance
  <2>8. QED
    BY <2>5, <2>6, <2>7 DEF BaseInv
<1>4. CASE FreshNamespace
  <2>1. /\ ns' = [ns EXCEPT !.anchored = FALSE, !.raw = 0, !.global = 0]
        /\ top' = 0 /\ epoch' = epoch + 1
        /\ UNCHANGED <<highest, buffer, confirmed, applied>>
    BY <1>4 DEF FreshNamespace, BeginFresh
  <2>2. 0 \in EffectIDs
    BY DEF EffectIDs
  <2>3. ns' \in Namespace /\ ~ns'.anchored /\ ns'.raw = 0 /\ ns'.global = 0
    BY <2>1, <2>2 DEF Namespace, BaseInv, TypeOK
  <2>4. TypeOK'
    BY <2>1, <2>2, <2>3 DEF BaseInv, TypeOK
  <2>5. MapFixed'
    BY <2>1 DEF BaseInv, TypeOK, MapFixed, Effect
  <2>6. Provenance' /\ Anchored'
    BY <2>1, <2>3 DEF BaseInv, Provenance, Anchored
  <2>7. QED
    BY <2>4, <2>5, <2>6 DEF BaseInv
<1>5. CASE Clear
  BY <1>5
     DEF Clear, ClearedNamespace, BaseInv, TypeOK, MapFixed, Provenance,
         Anchored, Namespace, EffectIDs, Effect
<1>6. CASE UNCHANGED vars
  BY <1>6 DEF vars, BaseInv, TypeOK, MapFixed, Provenance, Anchored
<1>7. QED
  BY <1>1, <1>2, <1>3, <1>4, <1>5, <1>6 DEF Next

\* The client's ID state stays within 64 bits and never wraps.
THEOREM TypeCorrect == Spec => []TypeOK
<1>1. Spec => []BaseInv
  BY InitBase, StepBase, PTL DEF Spec
<1>2. BaseInv => TypeOK
  BY DEF BaseInv
<1>3. QED
  BY <1>1, <1>2, PTL

\* HazkeyState::applyV2Response never applies the same effect twice.
THEOREM AtMostOnce == Spec => AppliedAtMostOnce
<1>1. Spec => []BaseInv
  BY InitBase, StepBase, PTL DEF Spec
<1>2. ASSUME BaseInv, [Next]_vars, highest' > highest, NEW a \in applied,
             a.epoch = Head(buffer).epoch, a.raw = Head(buffer).raw
      PROVE  FALSE
  <2>1. highest \in Nat
    BY <1>2 DEF BaseInv, TypeOK, EffectIDs
  <2>2. Apply
    <3>1. CASE Clear
      BY <1>2, <2>1, <3>1 DEF Clear
    <3>2. CASE ReceiveNew \/ ReceiveAgain \/ FreshNamespace \/ UNCHANGED vars
      <4>1. highest' = highest
        BY <3>2 DEF ReceiveNew, ReceiveAgain, Receive, FreshNamespace, vars
      <4>2. QED
        BY <1>2, <2>1, <4>1
    <3>3. QED
      BY <1>2, <3>1, <3>2 DEF Next
  <2>3. buffer \in Seq(Effect) /\ buffer # <<>>
    BY <1>2, <2>2 DEF Apply, BaseInv, TypeOK
  <2>4. Head(buffer) = buffer[1] /\ 1 \in DOMAIN buffer
    BY <2>3
  <2>5. Head(buffer) \in confirmed /\ a \in confirmed
    BY <1>2, <2>4 DEF BaseInv, Provenance
  <2>6. a = Head(buffer)
    BY <1>2, <2>5 DEF BaseInv, Provenance
  <2>7. highest' = Head(buffer).id /\ Head(buffer).id > highest
    BY <1>2, <2>1, <2>2 DEF Apply, Claims
  <2>8. a.id <= highest
    BY <1>2 DEF BaseInv, Provenance
  <2>9. a.id \in Nat
    BY <1>2, <2>5 DEF BaseInv, TypeOK, Effect, EffectIDs
  <2>10. QED
    BY <2>1, <2>6, <2>7, <2>8, <2>9
<1>3. BaseInv /\ [Next]_vars =>
        [highest' > highest
         => \A a \in applied : ~(/\ a.epoch = Head(buffer).epoch
                                 /\ a.raw = Head(buffer).raw)]_vars
  BY <1>2
<1>4. QED
  BY <1>1, <1>3, PTL DEF Spec, AppliedAtMostOnce

------------------------------------------------------------------------------
(* None lost while IDs last                                                *)

\* A new effect is numbered at or above the next global ID.
LEMMA NewAbove ==
    ASSUME BaseInv, Numbered, NEW r \in 1 .. MaxID, r > top,
           GlobalID(ns, r) # 0
    PROVE  GlobalID(ns, r) >= ns.next
<1>1. /\ ns \in Namespace /\ top \in 0 .. MaxID /\ ns.next \in 1 .. MaxID
      /\ ns.raw \in 0 .. MaxID /\ ns.global \in 0 .. MaxID
  BY DEF BaseInv, TypeOK, Namespace, EffectIDs
<1>2. CASE ns.anchored
  <2>1. top \in 1 .. MaxID /\ ns.raw <= top /\ ns.global >= 1
    BY <1>1, <1>2, MaxIDAssumption DEF BaseInv, Anchored
  <2>2. GlobalID(ns, top) # 0 /\ GlobalID(ns, top) < GlobalID(ns, r)
    BY <1>1, <1>2, <2>1, GlobalIDMonotone
  <2>3. GlobalID(ns, top) + 1 = ns.next
    BY <1>2, <2>2 DEF Numbered
  <2>4. GlobalID(ns, top) \in Nat /\ GlobalID(ns, r) \in Nat
    BY <1>1, <2>1, GlobalIDType DEF EffectIDs
  <2>5. QED
    BY <1>1, <2>2, <2>3, <2>4
<1>3. CASE ~ns.anchored
  <2> DEFINE a == Anchor(ns, r)
  <2>1. a.raw = r /\ a.global = ns.next
    BY <1>1, <1>3, AnchorFacts
  <2> HIDE DEF a
  <2>2. GlobalID(ns, r) = a.global + (r - a.raw)
    BY DEF GlobalID, a
  <2>3. QED
    BY <1>1, <2>1, <2>2, MaxIDAssumption
<1>4. QED
  BY <1>2, <1>3

\* Receiving an effect, new or repeated, keeps the order.
LEMMA ReceiveOrder ==
    ASSUME BaseInv, BaseInv', InOrder, NEW r \in 1 .. MaxID, Receive(r),
           \/ r > top
           \/ \E c \in confirmed : c.epoch = epoch /\ c.raw = r
    PROVE  InOrder'
<1> SUFFICES ASSUME ns'.next < MaxID
             PROVE  Numbered' /\ Waiting'
  BY DEF InOrder
<1> DEFINE g == GlobalID(ns, r)
           e == [id |-> g, epoch |-> epoch, raw |-> r]
<1>1. /\ ns \in Namespace /\ buffer \in Seq(Effect) /\ confirmed \subseteq Effect
      /\ top \in 0 .. MaxID /\ highest \in 0 .. MaxID /\ epoch \in Nat
      /\ ns.next \in 1 .. MaxID
  BY DEF BaseInv, TypeOK, EffectIDs, Namespace
<1>2. /\ ns' = Observe(ns, r) /\ buffer' = Append(buffer, e)
      /\ confirmed' = confirmed \cup {e} /\ UNCHANGED <<highest, epoch, applied>>
      /\ top' = IF r > top THEN r ELSE top
  BY DEF Receive
<1>3. g \in 0 .. MaxID
  BY <1>1, GlobalIDType DEF EffectIDs
<1>4. /\ ns' \in Namespace /\ ns'.next >= ns.next
      /\ g = 0 => ns'.next = ns.next
      /\ g # 0 => ns'.next = IF ns.next > g + 1 THEN ns.next ELSE g + 1
  <2>1. g = MaxID => ns'.next = MaxID
    BY <1>1, <1>2, ObserveFacts
  <2>2. g # MaxID
    BY <2>1, MaxIDAssumption
  <2>3. QED
    BY <1>1, <1>2, <2>2, ObserveFacts
<1>5. ns'.next \in 1 .. MaxID
  BY <1>4 DEF Namespace
<1>6. Numbered /\ Waiting
  BY <1>1, <1>4, <1>5, MaxIDAssumption DEF InOrder
<1>7. \A c \in confirmed : c.id \in Nat
  BY <1>1 DEF Effect, EffectIDs
<1>8. GlobalID(ns', r) = g
  BY <1>1, <1>2, GlobalIDStable
<1>9. /\ DOMAIN buffer = 1 .. Len(buffer) /\ Len(buffer) \in Nat
      /\ \A k \in DOMAIN buffer : buffer'[k] = buffer[k]
      /\ DOMAIN buffer' = 1 .. (Len(buffer) + 1)
      /\ buffer'[Len(buffer) + 1] = e
  BY <1>1, <1>2
<1>10. CASE r > top
  <2>1. g # 0 => g >= ns.next
    BY <1>6, <1>10, NewAbove
  <2>2. g # 0 => ns'.next = g + 1
    BY <1>1, <1>3, <1>4, <2>1
  <2>3. Numbered'
    <3>1. highest' < ns'.next /\ \A c \in confirmed' : c.id < ns'.next
      BY <1>1, <1>2, <1>3, <1>4, <1>5, <1>6, <1>7, <2>2 DEF Numbered
    <3>2. GlobalID(ns', top') # 0 => GlobalID(ns', top') + 1 = ns'.next
      BY <1>2, <1>8, <1>10, <2>2
    <3>3. \A c \in confirmed : c.id # g \/ g = 0
      BY <1>1, <1>3, <1>6, <1>7, <2>1 DEF Numbered
    <3>4. \A c, d \in confirmed' : (c.id = d.id /\ c.id # 0) => c = d
      BY <1>2, <1>6, <3>3 DEF Numbered
    <3>5. QED
      BY <3>1, <3>2, <3>4 DEF Numbered
  <2>4. \A i \in DOMAIN buffer : ~(e.id < buffer[i].id) \/ g = 0
    <3>1. \A i \in DOMAIN buffer : buffer[i] \in confirmed
      BY DEF BaseInv, Provenance
    <3>2. QED
      BY <1>1, <1>3, <1>6, <1>7, <2>1, <3>1 DEF Numbered
  <2>5. Waiting'
    <3>1. \A c \in confirmed' :
            (c.id # 0 /\ c.id <= highest') => c \in applied'
      BY <1>1, <1>2, <1>3, <1>6, <2>1 DEF Waiting, Numbered
    <3>2. \A c \in confirmed' :
            c.id > highest' => \E i \in DOMAIN buffer' : buffer'[i] = c
      BY <1>2, <1>6, <1>9 DEF Waiting
    <3>3. ASSUME NEW i \in DOMAIN buffer', NEW c \in confirmed',
                 highest' < c.id, c.id < buffer'[i].id
          PROVE  \E j \in 1 .. (i - 1) : buffer'[j] = c
      <4>1. c \in confirmed
        <5>1. c.id # 0
          BY <1>1, <1>2, <3>3
        <5>2. i \in DOMAIN buffer \/ i = Len(buffer) + 1
          BY <1>9, <3>3
        <5>3. CASE c = e
          BY <1>1, <1>2, <1>3, <1>9, <2>4, <3>3, <5>1, <5>2, <5>3
        <5>4. QED
          BY <1>2, <5>3
      <4>2. CASE i \in DOMAIN buffer
        BY <1>2, <1>6, <1>9, <3>3, <4>1, <4>2 DEF Waiting
      <4>3. CASE i = Len(buffer) + 1
        <5>1. PICK j \in DOMAIN buffer : buffer[j] = c
          BY <1>2, <1>6, <3>3, <4>1 DEF Waiting
        <5>2. QED
          BY <1>9, <4>3, <5>1
      <4>4. QED
        BY <1>9, <3>3, <4>2, <4>3
    <3>4. QED
      BY <3>1, <3>2, <3>3 DEF Waiting
  <2>6. QED
    BY <2>3, <2>5
<1>11. CASE ~(r > top)
  <2>1. PICK c \in confirmed : c.epoch = epoch /\ c.raw = r
    BY <1>11
  <2>2. c = e /\ ns.anchored
    BY <1>1, <2>1 DEF BaseInv, MapFixed, Effect
  <2>3. confirmed' = confirmed /\ top' = top
    BY <1>2, <1>11, <2>2
  <2>4. ns'.next = ns.next
    BY <1>1, <1>3, <1>4, <1>6, <2>2 DEF Numbered
  <2>5. GlobalID(ns', top) = GlobalID(ns, top)
    <3>1. top \in 1 .. MaxID
      BY <1>1, <2>2 DEF BaseInv, Anchored, EffectIDs, Namespace
    <3>2. QED
      BY <1>1, <1>2, <2>2, <3>1, GlobalIDStable
  <2>6. Numbered'
    BY <1>2, <1>6, <2>2, <2>3, <2>4, <2>5 DEF Numbered
  <2>7. Waiting'
    <3>1. \A d \in confirmed' :
            (d.id # 0 /\ d.id <= highest') => d \in applied'
      BY <1>2, <1>6, <2>3 DEF Waiting
    <3>2. \A d \in confirmed' :
            d.id > highest' => \E i \in DOMAIN buffer' : buffer'[i] = d
      BY <1>2, <1>6, <1>9, <2>3 DEF Waiting
    <3>3. ASSUME NEW i \in DOMAIN buffer', NEW d \in confirmed',
                 highest' < d.id, d.id < buffer'[i].id
          PROVE  \E j \in 1 .. (i - 1) : buffer'[j] = d
      <4>1. CASE i \in DOMAIN buffer
        BY <1>2, <1>6, <1>9, <2>3, <3>3, <4>1 DEF Waiting
      <4>2. CASE i = Len(buffer) + 1
        <5>1. PICK j \in DOMAIN buffer : buffer[j] = d
          BY <1>2, <1>6, <2>3, <3>3 DEF Waiting
        <5>2. QED
          BY <1>9, <4>2, <5>1
      <4>3. QED
        BY <1>9, <3>3, <4>1, <4>2
    <3>4. QED
      BY <3>1, <3>2, <3>3 DEF Waiting
  <2>8. QED
    BY <2>6, <2>7
<1>12. QED
  BY <1>10, <1>11

\* Applying the next effect keeps the order: nothing below it still waits.
LEMMA ApplyOrder ==
    ASSUME BaseInv, InOrder, Apply
    PROVE  InOrder'
<1> SUFFICES ASSUME ns'.next < MaxID
             PROVE  Numbered' /\ Waiting'
  BY DEF InOrder
<1> DEFINE e == Head(buffer)
<1>1. /\ UNCHANGED <<ns, top, epoch, confirmed>> /\ buffer' = Tail(buffer)
      /\ buffer # <<>>
      /\ highest' = IF e.id # 0 /\ e.id > highest THEN e.id ELSE highest
      /\ applied' = IF e.id # 0 /\ e.id > highest THEN applied \cup {e}
                    ELSE applied
  BY DEF Apply, Claims
<1>2. Numbered /\ Waiting
  BY <1>1 DEF InOrder
<1>3. /\ buffer \in Seq(Effect) /\ confirmed \subseteq Effect
      /\ highest \in Nat /\ \A c \in confirmed : c.id \in Nat
  BY DEF BaseInv, TypeOK, Effect, EffectIDs
<1>4. /\ e = buffer[1] /\ 1 \in DOMAIN buffer
      /\ DOMAIN buffer = 1 .. Len(buffer) /\ Len(buffer) \in Nat
      /\ DOMAIN buffer' = 1 .. (Len(buffer) - 1)
      /\ \A i \in DOMAIN buffer' : buffer'[i] = buffer[i + 1]
  BY <1>1, <1>3
<1>5. e \in confirmed /\ e.id \in Nat
  BY <1>3, <1>4 DEF BaseInv, Provenance
<1> HIDE DEF e
<1>6. e.id <= highest' /\ highest <= highest'
  BY <1>1, <1>3, <1>5
<1>7. Numbered'
  <2>1. highest' < ns'.next
    BY <1>1, <1>2, <1>5 DEF Numbered
  <2>2. QED
    BY <1>1, <1>2, <2>1 DEF Numbered
<1>8. ASSUME NEW c \in confirmed, c.id # 0, c.id <= highest'
      PROVE  c \in applied'
  <2>1. CASE c.id <= highest
    BY <1>1, <1>2, <1>8, <2>1 DEF Waiting
  <2>2. CASE c.id > highest /\ c.id = e.id
    BY <1>1, <1>2, <1>5, <1>8, <2>2 DEF Numbered
  <2>3. CASE c.id > highest /\ c.id # e.id
    <3>1. c.id < buffer[1].id
      BY <1>1, <1>3, <1>4, <1>5, <1>8, <2>3
    <3>2. \E j \in 1 .. (1 - 1) : buffer[j] = c
      BY <1>2, <1>4, <1>8, <2>3, <3>1 DEF Waiting
    <3>3. QED
      BY <3>2
  <2>4. QED
    BY <1>3, <1>8, <2>1, <2>2, <2>3
<1>9. ASSUME NEW c \in confirmed, c.id > highest'
      PROVE  \E i \in DOMAIN buffer' : buffer'[i] = c
  <2>1. c.id > highest
    BY <1>1, <1>3, <1>5, <1>9
  <2>2. PICK i \in DOMAIN buffer : buffer[i] = c
    BY <1>2, <1>9, <2>1 DEF Waiting
  <2>3. i # 1
    BY <1>1, <1>3, <1>4, <1>5, <1>9, <2>2
  <2>4. i - 1 \in DOMAIN buffer' /\ buffer'[i - 1] = c
    BY <1>4, <2>2, <2>3
  <2>5. QED
    BY <2>4
<1>10. ASSUME NEW i \in DOMAIN buffer', NEW c \in confirmed,
              highest' < c.id, c.id < buffer'[i].id
       PROVE  \E j \in 1 .. (i - 1) : buffer'[j] = c
  <2>1. c.id > highest
    BY <1>1, <1>3, <1>5, <1>10
  <2>2. i + 1 \in DOMAIN buffer /\ buffer'[i] = buffer[i + 1] /\ i \in Nat
    BY <1>4, <1>10
  <2>3. PICK j \in 1 .. i : buffer[j] = c
    <3>1. \E j \in 1 .. ((i + 1) - 1) : buffer[j] = c
      BY <1>2, <1>10, <2>1, <2>2 DEF Waiting
    <3>2. QED
      BY <2>2, <3>1
  <2>4. j # 1
    BY <1>1, <1>3, <1>4, <1>5, <1>10, <2>3
  <2>5. j - 1 \in 1 .. (i - 1) /\ buffer'[j - 1] = c
    BY <1>4, <1>10, <2>2, <2>3, <2>4
  <2>6. QED
    BY <2>5
<1>11. Waiting'
  BY <1>1, <1>8, <1>9, <1>10 DEF Waiting
<1>12. QED
  BY <1>7, <1>11

LEMMA StepOrder ==
    ASSUME BaseInv, BaseInv', InOrder, [Next]_vars
    PROVE  InOrder'
<1>1. CASE ReceiveNew
  BY <1>1, ReceiveOrder DEF ReceiveNew
<1>2. CASE ReceiveAgain
  <2>1. PICK c \in confirmed : c.epoch = epoch /\ Receive(c.raw)
    BY <1>2 DEF ReceiveAgain
  <2>2. c.raw \in 1 .. MaxID
    BY DEF BaseInv, TypeOK, Effect
  <2>3. QED
    BY <2>1, <2>2, ReceiveOrder
<1>3. CASE Apply
  BY <1>3, ApplyOrder
<1>4. CASE FreshNamespace
  <2>1. ns'.next = ns.next /\ ~ns'.anchored
        /\ UNCHANGED <<highest, buffer, confirmed, applied>>
    BY <1>4 DEF FreshNamespace, BeginFresh, BaseInv, TypeOK, Namespace
  <2>2. QED
    BY <2>1 DEF InOrder, Numbered, Waiting
<1>5. CASE Clear
  <2>1. ns'.next = 1 /\ ~ns'.anchored /\ highest' = 0
        /\ confirmed' = {} /\ buffer' = <<>>
    BY <1>5 DEF Clear, ClearedNamespace
  <2>2. QED
    BY <2>1 DEF InOrder, Numbered, Waiting
<1>6. CASE UNCHANGED vars
  BY <1>6 DEF vars, InOrder, Numbered, Waiting
<1>7. QED
  BY <1>1, <1>2, <1>3, <1>4, <1>5, <1>6 DEF Next

\* The strengthened invariant holds of every step of HazkeyState and of the
\* effects a server may send: IDs, namespaces, buffer and high-water mark fit
\* together.
THEOREM DeliveryCorrect == Spec => []DeliveryInv
<1>1. Init => BaseInv /\ InOrder
  <2>1. Init => InOrder
    BY MaxIDAssumption
       DEF Init, ClearedNamespace, InOrder, Numbered, Waiting
  <2>2. QED
    BY <2>1, InitBase
<1>2. (BaseInv /\ InOrder) /\ [Next]_vars => (BaseInv /\ InOrder)'
  BY StepBase, StepOrder
<1>3. BaseInv /\ InOrder => DeliveryInv
  BY DEF BaseInv, DeliveryInv
<1>4. QED
  BY <1>1, <1>2, <1>3, PTL DEF Spec

\* Until the client runs out of IDs, no confirmed effect is suppressed by
\* the ledger or dropped from replayedEffects_.
THEOREM NotLost == Spec => []ConfirmedNotLost
<1>1. DeliveryInv => ConfirmedNotLost
  <2> SUFFICES ASSUME TypeOK, InOrder, ns.next < MaxID,
                      NEW c \in confirmed, c.id # 0
               PROVE  \/ c \in applied
                      \/ \E i \in DOMAIN buffer : buffer[i] = c
    BY DEF ConfirmedNotLost, DeliveryInv
  <2>1. Waiting
    BY DEF InOrder
  <2>2. c.id \in Nat /\ highest \in Nat
    BY DEF TypeOK, Effect, EffectIDs
  <2>3. c.id <= highest \/ c.id > highest
    BY <2>2
  <2>4. QED
    BY <2>1, <2>3 DEF Waiting
<1>2. QED
  BY <1>1, DeliveryCorrect, PTL
==============================================================================
