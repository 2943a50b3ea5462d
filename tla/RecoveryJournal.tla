--------------------------- MODULE RecoveryJournal ---------------------------
(***************************************************************************)
(* HazkeyRecoveryJournal: the semantic actions whose outcome the client    *)
(* does not know yet, in the order they were issued.                       *)
(*                                                                         *)
(* An entry records the request ID, the action, the revision it expects,   *)
(* the server session it was bound to and whether it touched the wire.     *)
(* Each operation that can fail is an operator for the new journal and a   *)
(* predicate for its success; a failed operation leaves the journal alone. *)
(* lastSnapshot_ is the field snap of the client session.                  *)
(***************************************************************************)
EXTENDS Naturals, Sequences

CONSTANT JournalLimit   \* limit_, 64 in the addon

ASSUME JournalLimitAssumption == JournalLimit \in Nat \ {0}

Has(j, rid) == \E i \in DOMAIN j : j[i].rid = rid

\* The first entry with the given request ID (std::find_if)
IndexOf(j, rid) ==
    CHOOSE i \in DOMAIN j :
        j[i].rid = rid /\ \A k \in 1 .. (i - 1) : j[k].rid # rid

Entry(j, rid) == j[IndexOf(j, rid)]

\* A request ID is an immutable server-cache key: recording it again is
\* accepted only for the exact same wire binding.
CanRecord(j, e) ==
    IF Has(j, e.rid)
    THEN LET old == Entry(j, e.rid)
         IN  old.act = e.act /\ old.exp = e.exp /\ old.sid = e.sid
    ELSE Len(j) < JournalLimit

Record(j, e) ==
    IF CanRecord(j, e) /\ ~Has(j, e.rid) THEN Append(j, e) ELSE j

\* The entry rid becomes e, in place; e.rid may be new but not another's
CanReplace(j, rid, e) ==
    /\ Has(j, rid)
    /\ \A i \in DOMAIN j : j[i].rid = e.rid => i = IndexOf(j, rid)

Replace(j, rid, e) ==
    IF CanReplace(j, rid, e) THEN [j EXCEPT ![IndexOf(j, rid)] = e] ELSE j

MarkSent(j, rid) ==
    IF Has(j, rid) THEN [j EXCEPT ![IndexOf(j, rid)].sent = TRUE] ELSE j

\* rebaseUnsent and rebindSent give an entry a new expected revision and
\* session; the first only before, the second only after it was sent.
CanRebase(j, rid, sent) == Has(j, rid) /\ Entry(j, rid).sent = sent

Rebase(j, rid, sent, exp, sid) ==
    IF CanRebase(j, rid, sent)
    THEN [j EXCEPT ![IndexOf(j, rid)].exp = exp, ![IndexOf(j, rid)].sid = sid]
    ELSE j

\* Mutant: a confirmed entry stays in the journal
Acknowledge_Nothing(j, rid) == j

Acknowledge(j, rid) ==
    LET kept[n \in 0 .. Len(j)] ==
            IF n = 0 THEN <<>>
            ELSE kept[n - 1] \o (IF j[n].rid = rid THEN <<>> ELSE <<j[n]>>)
    IN  kept[Len(j)]
==============================================================================
