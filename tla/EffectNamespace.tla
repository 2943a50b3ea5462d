--------------------------- MODULE EffectNamespace ---------------------------
(***************************************************************************)
(* How the Fcitx client numbers the effects (text to commit, ranges to     *)
(* delete) that server sessions send it.                                   *)
(*                                                                         *)
(* A server session numbers its effects 1, 2, 3, ...; a session restored   *)
(* from a checkpoint continues the numbering of its predecessor, a fresh   *)
(* one starts again at 1.  The client maps these raw IDs into one sequence *)
(* of global IDs with an affine map, anchored at the first raw ID it sees  *)
(* in a namespace, and applies an effect only if its global ID is above    *)
(* the high-water mark of the ledger.                                      *)
(*                                                                         *)
(* The fields rawEffectAnchor_, globalEffectAnchor_, nextGlobalEffectID_   *)
(* and hasEffectNamespaceAnchor_ of HazkeyClientSession are the record     *)
(* below.  highestRawEffectID_ is write-only in the code and left out.     *)
(***************************************************************************)
EXTENDS Naturals

CONSTANT MaxID      \* std::numeric_limits<uint64_t>::max()

ASSUME MaxIDAssumption == MaxID \in Nat \ {0}

EffectIDs == 0 .. MaxID

Namespace ==
    [anchored : BOOLEAN, raw : EffectIDs, global : EffectIDs,
     next : 1 .. MaxID]

\* clearEffects(), and the initial value of the fields
ClearedNamespace ==
    [anchored |-> FALSE, raw |-> 0, global |-> 0, next |-> 1]

\* Mutant: the anchor of the old namespace stays
BeginFresh_KeepsAnchor(ns) == ns

\* beginFreshEffectNamespace(): only the anchor is forgotten
BeginFresh(ns) ==
    [ns EXCEPT !.anchored = FALSE, !.raw = 0, !.global = 0]

\* The first raw ID observed in a namespace becomes its anchor
Anchor(ns, rawID) ==
    IF ns.anchored THEN ns
    ELSE [ns EXCEPT !.anchored = TRUE, !.raw = rawID, !.global = ns.next]

\* Neither older than the anchor nor beyond the last representable ID
Mappable(ns, rawID) ==
    /\ rawID >= ns.raw
    /\ rawID - ns.raw <= MaxID - ns.global

\* The global ID given to a raw ID; 0 is the ID the ledger never applies
GlobalID(ns, rawID) ==
    LET a == Anchor(ns, rawID)
    IN  IF rawID = 0 \/ ~Mappable(a, rawID) THEN 0
        ELSE a.global + (rawID - a.raw)

\* Mutant: the next global ID is the one just used
Observe_SameNext(ns, rawID) ==
    LET a == Anchor(ns, rawID)
        g == GlobalID(ns, rawID)
    IN  IF g = 0 THEN a
        ELSE [a EXCEPT !.next = IF a.next > g THEN a.next ELSE g]

\* The namespace after normalizeEffectIDs has seen rawID.  The next global
\* ID saturates at MaxID instead of wrapping to 0.
Observe(ns, rawID) ==
    LET a == Anchor(ns, rawID)
        g == GlobalID(ns, rawID)
    IN  IF rawID = 0 THEN ns
        ELSE IF g = 0 THEN a
        ELSE IF g = MaxID THEN [a EXCEPT !.next = g]
        ELSE [a EXCEPT !.next = IF a.next > g + 1 THEN a.next ELSE g + 1]

\* Mutant: a claim only checks that there is an ID
Claims_Any(highest, id) == id # 0

\* HazkeyEffectLedger::claim, for a ledger whose high-water mark is highest
Claims(highest, id) == id # 0 /\ id > highest
==============================================================================
