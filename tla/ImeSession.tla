----------------------------- MODULE ImeSession -----------------------------
(***************************************************************************)
(* One session of hazkey-server as the addon sees it: ImeReducer's request *)
(* cache and revision check in front of the actions whose protocol         *)
(* behaviour differs.                                                      *)
(*                                                                         *)
(* Text is a sequence of keystrokes, each a distinct number.  The surface  *)
(* a conversion shows is the sequence of keystrokes it stands for, with    *)
(* the cursor at its end.  Candidates are left out: the phases previewing  *)
(* and selecting say that there are some.  Secure sessions never stage     *)
(* learning and publish no checkpoint.                                     *)
(***************************************************************************)
EXTENDS Naturals, Sequences, SequencesExt

NoCheckpoint == [rev |-> 0, comp |-> <<>>, eff |-> 0, proc |-> 0]

\* sid = 0: no such session
NoSession ==
    [sid |-> 0, secure |-> FALSE, rev |-> 0, phase |-> "idle", comp |-> <<>>,
     learn |-> {}, eff |-> 1, proc |-> 0, cache |-> {}]

NewSession(sid, secure, proc) ==
    [NoSession EXCEPT !.sid = sid, !.secure = secure, !.proc = proc]

\* Semantic actions.  Every action has the same fields, most of them unused.
Act(op) == [op |-> op, text |-> <<>>, commit |-> FALSE, ck |-> NoCheckpoint]
InsertText(text) == [Act("insertText") EXCEPT !.text = text]
ResolvePendingLearning(b) == [Act("resolve") EXCEPT !.commit = b]
RestoreCheckpoint(ck) == [Act("restore") EXCEPT !.ck = ck]

\* advanceRevision() builds the checkpoint from the state it publishes
Checkpoint(x) ==
    IF x.secure \/ x.rev = 0 THEN NoCheckpoint
    ELSE [rev |-> x.rev, comp |-> x.comp, eff |-> x.eff, proc |-> x.proc]

Snapshot(x, fx) ==
    [rev |-> x.rev, phase |-> x.phase, comp |-> x.comp,
     learn |-> x.learn # {}, ck |-> Checkpoint(x), fx |-> fx]

------------------------------------------------------------------------------
\* An outcome of an action: the session after it, the status, the effects,
\* the keystrokes whose staged learning was committed, and those whose text
\* the user deleted.
Outcome(x, st, fx, taught, cut) ==
    [x |-> x, st |-> st, fx |-> fx, taught |-> taught, cut |-> cut]

Edited(x, comp, phase) ==
    [x EXCEPT !.rev = @ + 1, !.comp = comp, !.learn = {},
              !.phase = IF comp = <<>> THEN "idle" ELSE phase]

Rejected(x) == {Outcome(x, "rejected", <<>>, {}, {})}

\* Success that leaves the composition alone
Moved(x, phase) == {Outcome([x EXCEPT !.rev = @ + 1, !.phase = phase],
                            "success", <<>>, {}, {})}

ReduceInsertText(x, text) ==
    IF x.phase = "selecting" \/ text = <<>> THEN Rejected(x)
    ELSE {Outcome(Edited(x, x.comp \o text, "composing"),
                  "success", <<>>, x.learn, {})}

ReduceDeleteBackward(x) ==
    IF x.comp = <<>> THEN {Outcome(Edited(x, <<>>, "idle"), "success", <<>>, {}, {})}
    ELSE {Outcome(Edited(x, Front(x.comp), "composing"),
                  "success", <<>>, {}, {Last(x.comp)})}

\* The converter may fail; the failure is published under a new revision.
ReduceStartConversion(x) ==
    IF x.comp = <<>>
    THEN {Outcome(Edited(x, <<>>, "idle"), "success", <<>>, x.learn, {})}
    ELSE {Outcome(Edited(x, x.comp, "previewing"), "success", <<>>, x.learn, {}),
          Outcome(Edited(x, x.comp, "composing"), "rejected", <<>>, x.learn, {})}

\* Without candidates the composition is converted first; if that fails the
\* revision does not advance.
ReduceNavigateCandidate(x) ==
    CASE x.phase = "idle" -> Rejected(x)
      [] x.phase = "composing" -> Moved(x, "selecting") \cup Rejected(x)
      [] OTHER -> Moved(x, "selecting")

ReduceSelectCandidate(x) ==
    IF x.phase \in {"previewing", "selecting"} THEN Moved(x, "selecting")
    ELSE Rejected(x)

\* Learning is staged for a converted surface only.
ReduceCommitAll(x) ==
    IF x.comp = <<>>
    THEN {Outcome([x EXCEPT !.learn = {},
                            !.rev = IF x.learn = {} THEN @ ELSE @ + 1],
                  "success", <<>>, x.learn, {})}
    ELSE LET staged == IF x.phase = "composing" \/ x.secure THEN {}
                       ELSE ToSet(x.comp)
         IN  {Outcome([Edited(x, <<>>, "idle") EXCEPT !.eff = @ + 1,
                                                      !.learn = staged],
                      "success", <<[id |-> x.eff, text |-> x.comp]>>,
                      x.learn, {})}

ReduceCancel(x) ==
    CASE x.phase = "selecting" ->
            {Outcome(Edited(x, x.comp, "previewing"), "success", <<>>, {}, {})}
      [] x.phase = "previewing" ->
            {Outcome(Edited(x, x.comp, "composing"), "success", <<>>, {}, {})}
      [] x.phase = "composing" ->
            {Outcome(Edited(x, <<>>, "idle"), "success", <<>>, {}, ToSet(x.comp))}
      [] OTHER ->
            {Outcome([x EXCEPT !.learn = {},
                               !.rev = IF x.learn = {} THEN @ ELSE @ + 1],
                     "success", <<>>, {}, {})}

ReduceUpdateContext(x) ==
    IF x.phase # "idle" THEN Rejected(x) ELSE Moved(x, "idle")

ReduceResolve(x, commit) ==
    {Outcome([x EXCEPT !.rev = @ + 1, !.learn = {}], "success", <<>>,
             IF commit THEN x.learn ELSE {}, {})}

\* Mutant: the restored session numbers its effects from 1 again
ReduceRestore_FreshEffects(x, ck) ==
    IF x.secure \/ ck.proc # x.proc \/ ck.rev < x.rev THEN Rejected(x)
    ELSE {Outcome([Edited(x, ck.comp, "composing") EXCEPT !.rev = ck.rev + 1],
                  "success", <<>>, {}, {})}

\* restoreCheckpoint.  A server of another build (proc) cannot decode it.
ReduceRestore(x, ck) ==
    IF x.secure \/ ck.proc # x.proc \/ ck.rev < x.rev THEN Rejected(x)
    ELSE {Outcome([Edited(x, ck.comp, "composing")
                     EXCEPT !.rev = ck.rev + 1, !.eff = ck.eff],
                  "success", <<>>, {}, {})}

Reduce(x, act) ==
    CASE act.op = "insertText"  -> ReduceInsertText(x, act.text)
      [] act.op = "delete"      -> ReduceDeleteBackward(x)
      [] act.op = "convert"     -> ReduceStartConversion(x)
      [] act.op = "navigate"    -> ReduceNavigateCandidate(x)
      [] act.op = "select"      -> ReduceSelectCandidate(x)
      [] act.op = "commitAll"   -> ReduceCommitAll(x)
      [] act.op = "cancel"      -> ReduceCancel(x)
      [] act.op = "surrounding" -> ReduceUpdateContext(x)
      [] act.op = "resolve"     -> ReduceResolve(x, act.commit)
      [] act.op = "restore"     -> ReduceRestore(x, act.ck)

------------------------------------------------------------------------------
\* The request cache: a set of [rid, act, exp, st, snap], with different rid.
\* It holds 128 results, 1 in a secure session.  Only the results a client can
\* still ask for matter: see Forget.
CachedIn(x, rid) == {e \in x.cache : e.rid = rid}

Cache(x, entry) ==
    [x EXCEPT !.cache = (IF x.secure THEN {} ELSE @) \cup {entry}]

\* A request ID that its client will not use again cannot be told from one
\* that was never used.
Forget(x, rids) ==
    [x EXCEPT !.cache = {e \in @ : e.rid \in rids}]

\* ImeReducer.reduce: [x, st, snap, taught, cut] for one request
HandleImeAction(x, rid, act, exp) ==
    IF CachedIn(x, rid) # {}
    THEN LET e == CHOOSE c \in CachedIn(x, rid) : TRUE
             same == e.act = act /\ e.exp = exp
         IN  {[x |-> x, st |-> IF same THEN e.st ELSE "rejected",
               snap |-> IF same THEN e.snap ELSE Snapshot(x, <<>>),
               taught |-> {}, cut |-> {}]}
    ELSE {LET snap == Snapshot(o.x, o.fx)
          IN  [x |-> Cache(o.x, [rid |-> rid, act |-> act, exp |-> exp,
                                 st |-> o.st, snap |-> snap]),
               st |-> o.st, snap |-> snap,
               taught |-> o.taught, cut |-> o.cut] :
            o \in IF exp # x.rev THEN {Outcome(x, "stale", <<>>, {}, {})}
                  ELSE Reduce(x, act)}

\* rebaseRequestCacheToCurrentSnapshot: a retry keeps its effects but must
\* not resurrect the state an out-of-band change replaced.
RebaseRequestCache(x) ==
    [x EXCEPT !.cache = {[e EXCEPT !.snap = Snapshot(x, @.fx)] : e \in @}]

\* invalidateCandidatesForExternalDictionaryChange
InvalidateCandidates(x) ==
    IF x.phase \in {"previewing", "selecting"}
    THEN RebaseRequestCache([x EXCEPT !.rev = @ + 1, !.phase = "composing"])
    ELSE x

\* finalizePendingLearning(commit: false)
DiscardLearning(x) ==
    IF x.learn = {} THEN x
    ELSE RebaseRequestCache([x EXCEPT !.rev = @ + 1, !.learn = {}])
==============================================================================
