--------------------------- MODULE EffectDelivery ---------------------------
(***************************************************************************)
(* The path of a confirmed effect through the client: normalised when the  *)
(* response that carries it is trusted, perhaps buffered in                *)
(* replayedEffects_ while a journal replay goes on, and claimed from the   *)
(* ledger when HazkeyState applies it.                                     *)
(*                                                                         *)
(* The server side is reduced to what IDs it may send: within a namespace  *)
(* it numbers new effects upwards (skipping the IDs of effects whose       *)
(* response was lost), and a response replayed from its request cache      *)
(* repeats IDs it already used.  epoch, confirmed and applied are history: *)
(* an effect is identified by the namespace it was sent in and its raw ID. *)
(***************************************************************************)
EXTENDS EffectNamespace, Sequences

CONSTANTS
    MaxEpoch,   \* bound on the namespaces of a behaviour
    MaxBuffer   \* bound on the effects waiting to be applied

ASSUME BoundAssumption == MaxEpoch \in Nat /\ MaxBuffer \in Nat

VARIABLES
    ns,         \* the client's raw-to-global map
    highest,    \* HazkeyEffectLedger::highestAppliedEffectID_
    buffer,     \* replayedEffects_
    top,        \* highest raw ID sent so far in the current namespace
    epoch,      \* how many namespaces there have been
    confirmed,  \* the effects whose trusted response reached the client
    applied     \* the effects HazkeyState handed to the application

vars == <<ns, highest, buffer, top, epoch, confirmed, applied>>

\* id is the global ID the client gave the effect
Effect == [id : EffectIDs, epoch : Nat, raw : 1 .. MaxID]

Init ==
    /\ ns = ClearedNamespace
    /\ highest = 0
    /\ buffer = <<>>
    /\ top = 0
    /\ epoch = 0
    /\ confirmed = {}
    /\ applied = {}

\* A trusted response carries an effect: normalizeEffectIDs, then
\* collectResponseEffects.  A response whose effects are applied at once
\* passes through the same queue: attachReplayedEffects puts the buffered
\* effects in front of the response's own.
Receive(rawID) ==
    LET e == [id |-> GlobalID(ns, rawID), epoch |-> epoch, raw |-> rawID]
    IN  /\ Len(buffer) < MaxBuffer
        /\ ns' = Observe(ns, rawID)
        /\ buffer' = Append(buffer, e)
        /\ confirmed' = confirmed \cup {e}
        /\ top' = IF rawID > top THEN rawID ELSE top
        /\ UNCHANGED <<highest, epoch, applied>>

\* A new effect of the session
ReceiveNew == \E rawID \in 1 .. MaxID : rawID > top /\ Receive(rawID)

\* A cached response is sent again; its effects were confirmed before
ReceiveAgain ==
    \E c \in confirmed : c.epoch = epoch /\ Receive(c.raw)

\* HazkeyState::applyV2Response takes the next effect of what it was handed
\* and applies it if shouldApplyEffect claims it
Apply ==
    LET e == Head(buffer)
        claimed == Claims(highest, e.id)
    IN  /\ buffer # <<>>
        /\ buffer' = Tail(buffer)
        /\ highest' = IF claimed THEN e.id ELSE highest
        /\ applied' = IF claimed THEN applied \cup {e} ELSE applied
        /\ UNCHANGED <<ns, top, epoch, confirmed>>

\* The session is replaced by one that numbers its effects from 1:
\* fallback reconstruction, or a context without recovery material
FreshNamespace ==
    /\ epoch < MaxEpoch
    /\ ns' = BeginFresh(ns)
    /\ top' = 0
    /\ epoch' = epoch + 1
    /\ UNCHANGED <<highest, buffer, confirmed, applied>>

\* clearEffects(): the UI target is gone, nothing sent before may be applied
Clear ==
    /\ epoch < MaxEpoch
    /\ ns' = ClearedNamespace
    /\ highest' = 0
    /\ buffer' = <<>>
    /\ top' = 0
    /\ epoch' = epoch + 1
    /\ confirmed' = {}
    /\ applied' = {}

Next == ReceiveNew \/ ReceiveAgain \/ Apply \/ FreshNamespace \/ Clear

Spec == Init /\ [][Next]_vars

------------------------------------------------------------------------------
\* The IDs stay within 64 bits and the next global ID never wraps to 0,
\* whatever IDs the server sends.
TypeOK ==
    /\ ns \in Namespace
    /\ highest \in EffectIDs
    /\ buffer \in Seq(Effect)
    /\ top \in EffectIDs
    /\ epoch \in Nat
    /\ confirmed \subseteq Effect
    /\ applied \subseteq Effect

\* HazkeyState never applies an effect twice: when the ledger lets an effect
\* through, no effect with the same namespace and raw ID was applied before,
\* even after IDs are exhausted and even if a cached response is replayed.
AppliedAtMostOnce ==
    [][ highest' > highest
        => \A a \in applied : ~(/\ a.epoch = Head(buffer).epoch
                                /\ a.raw = Head(buffer).raw) ]_vars

\* A confirmed effect is never suppressed: until global IDs are exhausted,
\* every effect that was given an ID has been applied or still waits in
\* replayedEffects_, although fresh namespaces start again at raw ID 1 and
\* the ledger only remembers one number.
ConfirmedNotLost ==
    ns.next < MaxID =>
        \A c \in confirmed :
            c.id # 0 => \/ c \in applied
                        \/ \E i \in DOMAIN buffer : buffer[i] = c

------------------------------------------------------------------------------
\* What makes the two properties inductive.

\* Within the current namespace the ID of an effect is the affine map of its
\* raw ID; in earlier ones it only has to be below what comes next.
MapFixed ==
    \A c \in confirmed :
        /\ c.epoch <= epoch
        /\ c.epoch = epoch =>
            /\ ns.anchored
            /\ c.raw <= top
            /\ c.id = GlobalID(ns, c.raw)

\* IDs identify effects, and an effect is found among the confirmed ones
\* wherever it went.
Provenance ==
    /\ applied \subseteq confirmed
    /\ \A i \in DOMAIN buffer : buffer[i] \in confirmed
    /\ \A c, d \in confirmed :
        (c.epoch = d.epoch /\ c.raw = d.raw) => c = d
    /\ \A a \in applied : a.id <= highest

\* An anchored namespace lies above the effects of earlier ones, and has an
\* anchor no later than the first raw ID it sent.
Anchored ==
    /\ ns.anchored => ns.raw >= 1 /\ ns.raw <= top /\ ns.global >= 1
    /\ ~ns.anchored => top = 0 /\ ns.raw = 0 /\ ns.global = 0

\* The next global ID is above everything numbered so far, the newest effect
\* of the namespace is just below it, and IDs identify effects.
Numbered ==
    /\ highest < ns.next
    /\ \A c \in confirmed : c.id < ns.next
    /\ ns.anchored /\ GlobalID(ns, top) # 0 => GlobalID(ns, top) + 1 = ns.next
    /\ \A c, d \in confirmed : (c.id = d.id /\ c.id # 0) => c = d

\* What lies at or below the high-water mark was applied, and what lies above
\* it waits in ascending order.
Waiting ==
    /\ \A c \in confirmed : (c.id # 0 /\ c.id <= highest) => c \in applied
    /\ \A c \in confirmed :
        c.id > highest => \E i \in DOMAIN buffer : buffer[i] = c
    /\ \A i \in DOMAIN buffer : \A c \in confirmed :
        (highest < c.id /\ c.id < buffer[i].id)
            => \E j \in 1 .. (i - 1) : buffer[j] = c

\* Both hold while IDs last.
InOrder == ns.next < MaxID => Numbered /\ Waiting

DeliveryInv ==
    /\ TypeOK
    /\ MapFixed
    /\ Provenance
    /\ Anchored
    /\ InOrder
==============================================================================
