------------------------------- MODULE BlindReview -------------------------------
(***************************************************************************)
(* blind_conversion_ab.py: prepare() shows each case of the corpus with    *)
(* the two backends on sides that a secret seed chose, balanced in every   *)
(* category, and publishes the packet; a reviewer who sees only the sides  *)
(* judges; score() checks the packet against its key, undoes the placement *)
(* and publishes the report.                                               *)
(***************************************************************************)
EXTENDS EvidenceFiles, FiniteSetsExt

CONSTANTS
    Category,      \* case of the corpus -> its category
    Preferences    \* what a reviewer may prefer: case -> backend, "tie", "both_bad"

Backends == {"hazkey", "mozc"}

\* The corpus is finite, and the reviewer may prefer what a judgment can say
ASSUME ReviewAssumption ==
    /\ IsFiniteSet(DOMAIN Category)
    /\ \A preferred \in Preferences :
          Range(preferred) \subseteq Backends \cup {"tie", "both_bad"}

Other(backend) == CHOOSE b \in Backends : b # backend

ReviewCases == DOMAIN Category
CasesOf(g) == {k \in ReviewCases : Category[k] = g}
Categories == Range(Category)

------------------------------------------------------------------------------
(* The probe runs and what they propose                                    *)

Run(backend, source, corpus) ==
    [backend |-> backend, source |-> source, corpus |-> corpus]

\* The two runs prepare is given, in either order, or others
ProbeRuns ==
    LET mozc == Run("mozc", "ref", "fixed")
        hazkey == Run("hazkey", "ref", "fixed")
    IN [fixed |-> <<mozc, hazkey>>, swapped |-> <<hazkey, mozc>>,
        same |-> <<mozc, mozc>>, other |-> <<mozc, Run("hazkey", "other", "fixed")>>]

\* _validate_runs: two backends, of one source, over the corpus supplied
RunsComparable(runs, corpus) ==
    /\ runs[1].backend # runs[2].backend
    /\ runs[1].source = runs[2].source
    /\ \A i \in 1 .. 2 : runs[i].corpus = corpus

\* What a backend proposes for a case
Candidates(backend, k) == <<backend, k>>

------------------------------------------------------------------------------
(* The placement                                                           *)

\* Half of the cases have the first backend on x; of an odd corpus the seed says
Targets ==
    LET half == Cardinality(ReviewCases) \div 2
    IN IF Cardinality(ReviewCases) % 2 = 1 THEN {half, half + 1} ELSE {half}

Half(g) == Cardinality(CasesOf(g)) \div 2

OddCategories == {g \in Categories : Cardinality(CasesOf(g)) % 2 = 1}

\* Which odd categories have one more, so that the whole corpus meets the target
Favoured(target) ==
    kSubset(target - MapThenSumSet(Half, Categories), OddCategories)

\* The backend on side x of each case, for some seed
Placements(first) ==
    {[k \in ReviewCases |-> IF k \in firstOnX THEN first ELSE Other(first)] :
        firstOnX \in
            {s \in SUBSET ReviewCases :
                \E target \in Targets : \E favoured \in Favoured(target) :
                    \A g \in Categories :
                        Cardinality(s \cap CasesOf(g)) =
                            Half(g) + (IF g \in favoured THEN 1 ELSE 0)}}

------------------------------------------------------------------------------
(* The packet: what the reviewer sees, and the key that tells the sides     *)

\* The records shown: nothing in them names a backend but what it proposes
Shown(x) ==
    [k \in ReviewCases |->
        [category |-> Category[k], x |-> Candidates(x[k], k),
         y |-> Candidates(Other(x[k]), k)]]

\* How often each backend is on the side that `side` gives for a case
Counts(side) ==
    [b \in Backends |-> Cardinality({k \in DOMAIN side : side[k] = b})]

\* _case_contract
CaseContract(cases) == [k \in DOMAIN cases |-> cases[k].category]

KeyCases(x) ==
    [k \in ReviewCases |->
        [category |-> Category[k], x |-> x[k], y |-> Other(x[k]), record |-> Shown(x)[k]]]

Key(x) ==
    LET cases == KeyCases(x)
    IN [cases |-> cases, contract |-> CaseContract(cases), review |-> Shown(x),
        backends |-> Backends,
        placement |-> [x |-> Counts(x), y |-> Counts([k \in ReviewCases |-> cases[k].y])]]

\* The manifest holds the hashes of both
Packet(x) ==
    [review |-> Shown(x), key |-> Key(x),
     manifest |-> [review |-> Shown(x), key |-> Key(x)], stray |-> FALSE]

SidesOf(key) == [k \in DOMAIN key.cases |-> key.cases[k].x]

\* _validate_key, what is in it: each case has one backend on either side
KeyWellFormed(key) ==
    /\ key.backends = Backends
    /\ \A k \in DOMAIN key.cases : {key.cases[k].x, key.cases[k].y} = key.backends
    /\ key.contract = CaseContract(key.cases)

Balanced(x, cases) ==
    LET first == Cardinality({k \in cases : x[k] = "hazkey"})
    IN first - (Cardinality(cases) - first) \in -1 .. 1

\* _validate_key, the sides: as the key counts them, and balanced
KeyValid(key) ==
    LET x == SidesOf(key)
        cases == DOMAIN key.cases
    IN /\ KeyWellFormed(key)
       /\ key.placement.x = Counts(x)
       /\ key.placement.y = Counts([k \in cases |-> key.cases[k].y])
       /\ Balanced(x, cases)
       /\ \A g \in Range(key.contract) :
             Balanced(x, {k \in cases : key.contract[k] = g})

\* _load_review
ReviewMatchesKey(review, key) ==
    /\ review = key.review
    /\ DOMAIN review = DOMAIN key.cases
    /\ \A k \in DOMAIN review : /\ review[k] = key.cases[k].record
                               /\ review[k].category = key.cases[k].category

\* _load_packet: the three files and no other, whose hashes agree
PacketHolds(packet) ==
    /\ ~packet.stray
    /\ packet.manifest.review = packet.review
    /\ packet.manifest.key = packet.key
    /\ KeyValid(packet.key)
    /\ packet.key.review = packet.manifest.review
    /\ ReviewMatchesKey(packet.review, packet.key)

\* A packet as it is found: as published; with a file replaced; or with a case
\* turned round and every hash recomputed
FoundPacket(packet) ==
    LET turned == [SidesOf(packet.key) EXCEPT !["k1"] = Other(@)]
    IN CASE inputs.packet = "fixed" -> packet
         [] inputs.packet = "review" -> [packet EXCEPT !.review = Shown(turned)]
         [] inputs.packet = "key" -> [packet EXCEPT !.key = Key(turned)]
         [] inputs.packet = "turned" -> Packet(turned)

------------------------------------------------------------------------------
(* The judgments                                                           *)

\* The reviewer sees sides, and writes down the side of what is preferred
Judgments(packet, preferred) ==
    [k \in DOMAIN preferred |->
        IF preferred[k] \in Backends
        THEN IF packet.review[k].x = Candidates(preferred[k], k) THEN "x" ELSE "y"
        ELSE preferred[k]]

\* _load_judgments: one judgment for every case
JudgmentsComplete(judgments, review) == DOMAIN judgments = DOMAIN review

\* Mutant: side y is taken for the second backend whatever the placement
Outcome_FixedSide(x, judgment, backend) ==
    CASE judgment \in {"tie", "both_bad"} -> judgment
      [] judgment = "x" -> IF x = backend THEN "win" ELSE "loss"
      [] judgment = "y" -> IF backend = "mozc" THEN "win" ELSE "loss"

\* _record_outcome
Outcome(x, judgment, backend) ==
    CASE judgment \in {"tie", "both_bad"} -> judgment
      [] judgment = "x" -> IF x = backend THEN "win" ELSE "loss"
      [] judgment = "y" -> IF Other(x) = backend THEN "win" ELSE "loss"

Outcomes == {"win", "loss", "tie", "both_bad"}

\* The outcomes of each backend over some cases
Rendered(key, judgments, cases) ==
    [backend \in key.backends |-> [o \in Outcomes |->
        Cardinality({k \in cases :
            Outcome(key.cases[k].x, judgments[k], backend) = o})]]

\* _objective_quality: the candidates of each backend, from the sides shown
ObjectiveQuality(key, review) ==
    [backend \in key.backends |-> [k \in DOMAIN key.cases |->
        IF key.cases[k].x = backend THEN review[k].x ELSE review[k].y]]

\* The report of score
ScoreOf(key, review, judgments) ==
    [outcomes |-> Rendered(key, judgments, DOMAIN key.cases),
     categories |-> [g \in Range(key.contract) |->
         Rendered(key, judgments, {k \in DOMAIN key.cases : key.contract[k] = g})],
     quality |-> ObjectiveQuality(key, review), placement |-> key.placement]

------------------------------------------------------------------------------
(* prepare                                                                 *)

Prepares(c, from) ==
    /\ At(c, "prepare", from)
    /\ UNCHANGED <<scenario, inputs, moved, late>>

GivesUp(c) == Raises(c, "cleanup") /\ UNCHANGED dirVars

\* build_review_and_key, and the first look at the output
BuildPacket(c) ==
    /\ Prepares(c, "idle")
    /\ ~moved
    /\ LET runs == ProbeRuns[inputs.runs]
       IN IF Exists(Out(c)) \/ ~RunsComparable(runs, inputs.corpus)
          THEN Goes(c, "error") /\ UNCHANGED my
          ELSE /\ Goes(c, "reading")
               /\ \E x \in Placements(runs[1].backend) : Holds(c, Packet(x))
    /\ UNCHANGED <<dirVars, faults>>

\* mkdtemp, which comes before the try, and the files
WritePacket(c) ==
    /\ Prepares(c, "reading")
    /\ \/ ~moved /\ Makes(c, my[c].held, "unlocked", "error")
       \/ moved /\ Goes(c, "error") /\ UNCHANGED <<dirVars, my, faults>>

LockPacket(c) ==
    /\ Prepares(c, "unlocked")
    /\ \/ ~moved /\ CreatesLock(c) /\ UNCHANGED trees
       \/ (moved \/ Exists(Lock(c))) /\ GivesUp(c) /\ UNCHANGED faults

CheckPacket(c) ==
    /\ Prepares(c, "locked")
    /\ Requires(c, ~Exists(Out(c)), "frozen")
    /\ UNCHANGED <<dirVars, faults>>

\* os.rename: it replaces an empty directory, and fails on one that is not
RenamePacket(c) ==
    /\ Prepares(c, "frozen")
    /\ \/ /\ ~moved
          /\ entries[Out(c)] \in {Nothing, Foreign}
          /\ entries' = [entries EXCEPT ![Temp(c)] = Nothing, ![Out(c)] = Tree(c)]
          /\ Goes(c, "published")
          /\ UNCHANGED <<trees, my>>
       \/ (moved \/ Exists(Out(c))) /\ GivesUp(c)
    /\ UNCHANGED faults

SyncPacket(c) ==
    /\ Prepares(c, "published")
    /\ Goes(c, "cleanup")
    /\ my' = [my EXCEPT ![c].failed = IF moved THEN "error" ELSE "no"]
    /\ UNCHANGED <<dirVars, faults>>

UnlockPacket(c) ==
    /\ Prepares(c, "cleanup")
    /\ Goes(c, "discard")
    /\ UnlinkByName(c)
    /\ UNCHANGED <<trees, faults>>

RemovePacket(c) ==
    /\ Prepares(c, "discard")
    /\ RemoveByName(c)
    /\ EndsByName(c)
    /\ UNCHANGED <<my, faults>>

Prepare(c) ==
    \/ BuildPacket(c) \/ WritePacket(c) \/ LockPacket(c) \/ CheckPacket(c)
    \/ RenamePacket(c) \/ SyncPacket(c) \/ UnlockPacket(c) \/ RemovePacket(c)

------------------------------------------------------------------------------
(* score                                                                   *)

Scores(c, from) ==
    /\ At(c, "score", from)
    /\ UNCHANGED <<scenario, inputs, moved, late>>

\* The path given to score may lead to no packet
ReadPacket(c) ==
    /\ Scores(c, "idle")
    /\ ~moved
    /\ \E p \in Commands : \E preferred \in Preferences :
          IF kind[p] = "prepare" /\ Published(p)
          THEN LET packet == FoundPacket(trees[p])
                   judgments == Judgments(packet, preferred)
               IN IF /\ PacketHolds(packet)
                     /\ JudgmentsComplete(judgments, packet.review)
                  THEN /\ Goes(c, "reading")
                       /\ Holds(c, [preferred |-> preferred, report |->
                              ScoreOf(packet.key, packet.review, judgments)])
                  ELSE Goes(c, "error") /\ UNCHANGED my
          ELSE Goes(c, "error") /\ UNCHANGED my
    /\ UNCHANGED <<dirVars, faults>>

\* mkstemp, which comes before the try, and the report
WriteReport(c) ==
    /\ Scores(c, "reading")
    /\ \/ /\ ~moved /\ ~Exists(Out(c))
          /\ Makes(c, Joined(my[c].held.report, [stray |-> FALSE]), "written", "error")
       \/ /\ moved \/ Exists(Out(c))
          /\ Goes(c, "error")
          /\ UNCHANGED <<dirVars, my, faults>>

\* os.link: the report has both names until the temporary one is removed
LinkReport(c) ==
    /\ Scores(c, "written")
    /\ \/ /\ ~moved /\ ~Exists(Out(c))
          /\ Bind(Out(c), Tree(c))
          /\ Goes(c, "published")
          /\ UNCHANGED <<trees, my>>
       \/ (moved \/ Exists(Out(c))) /\ GivesUp(c)
    /\ UNCHANGED faults

SyncReport(c) ==
    /\ Scores(c, "published")
    /\ Goes(c, "cleanup")
    /\ my' = [my EXCEPT ![c].failed = IF moved THEN "error" ELSE "no"]
    /\ UNCHANGED <<dirVars, faults>>

UnlinkTemporary(c) ==
    /\ Scores(c, "cleanup")
    /\ IF moved THEN UNCHANGED entries ELSE Unbind(Temp(c))
    /\ Goes(c, IF my[c].failed = "no" THEN "ok" ELSE "error")
    /\ UNCHANGED <<trees, my, faults>>

ScoreReview(c) ==
    \/ ReadPacket(c) \/ WriteReport(c) \/ LinkReport(c) \/ SyncReport(c)
    \/ UnlinkTemporary(c)
=============================================================================
