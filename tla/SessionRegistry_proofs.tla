----------------------- MODULE SessionRegistry_proofs -----------------------
(***************************************************************************)
(* Proofs about SessionRegistry, for any number of clients, any limits and *)
(* any timeout: RegistryInv is inductive, and the capacity, eviction,      *)
(* refusal and learning properties follow from it.                         *)
(***************************************************************************)
EXTENDS SessionRegistry, FiniteSetTheorems, TLAPS

\* The clamped limits of init are positive.
LEMMA LimitsPositive ==
    /\ MaximumSessions \in Nat \ {0}
    /\ MaximumSessionsPerOwner \in Nat \ {0}
BY RegistryAssumption DEF MaximumSessions, MaximumSessionsPerOwner, AtLeastOne

\* No session has more staged than all sessions together.
LEMMA StagedMember ==
    \A id \in IDs : sessions[id].staged \subseteq Staged(IDs)
BY DEF Staged

\* Sessions that are only dropped or changed in place, with their owner, keep
\* the capacity.
LEMMA ShrinkKeepsCapacity ==
    ASSUME TypeOK, WithinCapacity,
           IDs' \subseteq IDs,
           \A id \in IDs' : sessions'[id].ownerFd = sessions[id].ownerFd
    PROVE  /\ WithinCapacity'
           /\ IsFiniteSet(IDs')
           /\ \A fd \in Fds : /\ Own(fd)' \subseteq Own(fd)
                              /\ IsFiniteSet(Own(fd)) /\ IsFiniteSet(Own(fd)')
<1>1. IsFiniteSet(IDs) /\ IsFiniteSet(IDs') /\ Cardinality(IDs') <= Cardinality(IDs)
  BY FS_Subset DEF TypeOK
<1>2. Cardinality(IDs) \in Nat /\ Cardinality(IDs') \in Nat
  BY <1>1, FS_CardinalityType
<1>3. ASSUME NEW fd \in Fds
      PROVE  /\ Own(fd)' \subseteq Own(fd)
             /\ IsFiniteSet(Own(fd)) /\ IsFiniteSet(Own(fd)')
             /\ Cardinality(Own(fd)') <= MaximumSessionsPerOwner
  <2>1. Own(fd)' \subseteq Own(fd) /\ Own(fd) \subseteq IDs
    BY DEF Own, IDs
  <2>2. IsFiniteSet(Own(fd))
    BY <1>1, <2>1, FS_Subset
  <2>3. IsFiniteSet(Own(fd)') /\ Cardinality(Own(fd)') <= Cardinality(Own(fd))
    BY <2>1, <2>2, FS_Subset
  <2>4. Cardinality(Own(fd)) \in Nat /\ Cardinality(Own(fd)') \in Nat
    BY <2>2, <2>3, FS_CardinalityType
  <2>5. Cardinality(Own(fd)) <= MaximumSessionsPerOwner
    BY DEF WithinCapacity
  <2>6. QED
    BY <2>1, <2>2, <2>3, <2>4, <2>5, LimitsPositive
<1>4. Cardinality(IDs') <= MaximumSessions
  BY <1>1, <1>2, LimitsPositive DEF WithinCapacity
<1>5. MaximumSessions' = MaximumSessions
      /\ MaximumSessionsPerOwner' = MaximumSessionsPerOwner
  BY DEF MaximumSessions, MaximumSessionsPerOwner, AtLeastOne
<1>6. QED
  BY <1>1, <1>3, <1>4, <1>5 DEF WithinCapacity

------------------------------------------------------------------------------
(* Shapes of steps                                                         *)

\* What dropping sessions does to the map
LEMMA RestrictFacts ==
    ASSUME TypeOK, NEW S \in SUBSET IDs, sessions' = Restrict(sessions, S)
    PROVE  /\ IDs' = S
           /\ sessions' \in [IDs' -> Session]
           /\ \A id \in IDs' : sessions'[id] = sessions[id]
BY DEF TypeOK, IDs, Restrict

\* A step other than Create adds no session and leaves every session with
\* its owner.
LEMMA StepShrinks ==
    ASSUME TypeOK, Next, ~Create
    PROVE  /\ IDs' \subseteq IDs
           /\ sessions' \in [IDs' -> Session]
           /\ \A id \in IDs' : sessions'[id].ownerFd = sessions[id].ownerFd
<1> DEFINE Goal == /\ IDs' \subseteq IDs
                   /\ sessions' \in [IDs' -> Session]
                   /\ \A id \in IDs' : sessions'[id].ownerFd = sessions[id].ownerFd
<1>1. ASSUME NEW S \in SUBSET IDs, sessions' = Restrict(sessions, S)
      PROVE  Goal
  BY <1>1, RestrictFacts
<1>2. ASSUME UNCHANGED sessions PROVE Goal
  BY <1>2 DEF TypeOK, IDs
<1>3. ASSUME sessions' = [id \in {} |-> 0] PROVE Goal
  BY <1>3 DEF IDs
<1>4. ASSUME NEW fd \in Fds, AttemptOpen(fd) PROVE Goal
  BY <1>1, <1>4 DEF AttemptOpen, Live
<1>5. ASSUME Evict PROVE Goal
  BY <1>1, <1>5 DEF Evict
<1>6. ASSUME NEW fd \in Fds, NEW id \in SessionIDs, HandleImeAction(fd, id)
      PROVE  Goal
  <2> DEFINE Use(staged) ==
        sessions' = [i \in Live |->
            IF i = id THEN [sessions[i] EXCEPT !.lastAccess = now, !.staged = staged]
            ELSE sessions[i]]
  <2>1. ASSUME NEW st \in SUBSET Nat, Use(st) PROVE Goal
    BY <2>1 DEF TypeOK, IDs, Live, Session
  <2>2. CASE sessions' = Restrict(sessions, Live)
    BY <1>1, <2>2 DEF Live
  <2>3. CASE id \in Live \cap Own(fd)
    <3>1. sessions[id].staged \in SUBSET Nat
      BY <2>3 DEF TypeOK, Session, Live
    <3>2. nextItem \in Nat
      BY DEF TypeOK
    <3>3. Use(sessions[id].staged) \/ Use(sessions[id].staged \cup {nextItem}) \/ Use({})
      BY <1>6, <2>3 DEF HandleImeAction
    <3> HIDE DEF Goal, Use
    <3>4. QED
      BY <2>1, <3>1, <3>2, <3>3
  <2>4. QED
    BY <1>6, <2>2, <2>3 DEF HandleImeAction
<1>7. ASSUME Diagnostics PROVE Goal
  BY <1>1, <1>7 DEF Diagnostics, Live
<1>8. ASSUME NEW fd \in Fds, NEW id \in SessionIDs, Close(fd, id) PROVE Goal
  BY <1>1, <1>8 DEF Close
<1>9. ASSUME NEW fd \in Fds, CloseAll(fd) PROVE Goal
  BY <1>1, <1>9 DEF CloseAll
<1>10. ASSUME ClearAllLearningData PROVE Goal
  BY <1>10 DEF ClearAllLearningData, TypeOK, IDs, Session
<1> HIDE DEF Goal
<1>11. Goal
  BY <1>2, <1>3, <1>4, <1>5, <1>6, <1>7, <1>8, <1>9, <1>10
     DEF Next, EvictForOwner, EvictForServer, Refuse, SaveAll, Crash, ClockMoves
<1>12. QED
  BY <1>11 DEF Goal

\* Create adds one session of the requester.
LEMMA CreateGrows ==
    ASSUME TypeOK, Create
    PROVE  \E id \in SessionIDs \ IDs :
            /\ IDs' = IDs \cup {id}
            /\ sessions' \in [IDs' -> Session]
            /\ sessions'[id] = [ownerFd |-> requester, lastAccess |-> now, staged |-> {}]
            /\ \A other \in IDs : sessions'[other] = sessions[other]
            /\ requester \in Fds
<1>1. PICK id \in SessionIDs \ IDs :
        sessions' = [i \in IDs \cup {id} |->
                        IF i = id THEN [ownerFd |-> requester,
                                        lastAccess |-> now, staged |-> {}]
                        ELSE sessions[i]]
  BY DEF Create
<1>2. requester \in Fds /\ now \in Nat
  BY DEF Create, TypeOK
<1>3. [ownerFd |-> requester, lastAccess |-> now, staged |-> {}] \in Session
  BY <1>2 DEF Session
<1>4. IDs' = IDs \cup {id}
  BY <1>1 DEF IDs
<1>5. QED
  BY <1>1, <1>2, <1>3, <1>4 DEF TypeOK

\* Every step keeps the types.
LEMMA TypeStep ==
    ASSUME TypeOK, Next
    PROVE  TypeOK'
<1>1. IDs' \subseteq SessionIDs /\ IsFiniteSet(IDs') /\ sessions' \in [IDs' -> Session]
  <2>1. CASE Create
    <3>1. PICK id \in SessionIDs \ IDs : IDs' = IDs \cup {id} /\ sessions' \in [IDs' -> Session]
      BY <2>1, CreateGrows
    <3>2. QED
      BY <3>1, FS_AddElement DEF TypeOK
  <2>2. CASE ~Create
    BY <2>2, StepShrinks, FS_Subset DEF TypeOK
  <2>3. QED
    BY <2>1, <2>2
<1>2. \A S \in SUBSET IDs : Staged(S) \subseteq Nat
  BY DEF Staged, TypeOK, Session
<1>3. \A S \in SUBSET IDs : \A reason : HistoryWithout(S, reason) \subseteq Nat
  BY <1>2 DEF HistoryWithout, TypeOK
<1>4. \A id \in IDs : sessions[id].staged \subseteq Nat
  BY DEF TypeOK, Session
<1>5. Expired \subseteq IDs /\ Live \subseteq IDs /\ \A fd : Own(fd) \subseteq IDs
  BY DEF Expired, Live, Own
<1>6. now' \in Nat /\ evicted' \in Nat /\ nextItem' \in Nat /\ requester' \in Fds \cup {NoFd}
  <2>1. ASSUME NEW fd \in Fds, NEW id \in SessionIDs, HandleImeAction(fd, id)
        PROVE  /\ UNCHANGED <<now, evicted, requester>>
               /\ nextItem' = nextItem \/ nextItem' = nextItem + 1
    BY <2>1, Zenon DEF HandleImeAction
  <2>2. CASE \E fd \in Fds, id \in SessionIDs : HandleImeAction(fd, id)
    BY <2>1, <2>2 DEF TypeOK
  <2>3. CASE \E fd \in Fds : AttemptOpen(fd)
    BY <2>3 DEF TypeOK, AttemptOpen
  <2>4. CASE EvictForOwner \/ EvictForServer
    <3>1. UNCHANGED <<now, requester, nextItem>> /\ evicted' = evicted + 1
      BY <2>4, Zenon DEF EvictForOwner, EvictForServer, Evict
    <3>2. QED
      BY <3>1 DEF TypeOK
  <2>5. CASE ClockMoves
    BY <2>5, RegistryAssumption DEF TypeOK, ClockMoves
  <2>6. CASE Refuse \/ Create \/ Diagnostics \/ Crash \/ SaveAll \/ ClearAllLearningData
    BY <2>6 DEF TypeOK, Refuse, Create, Diagnostics, Crash, SaveAll, ClearAllLearningData
  <2>7. CASE (\E fd \in Fds : CloseAll(fd)) \/ \E fd \in Fds, id \in SessionIDs : Close(fd, id)
    BY <2>7 DEF TypeOK, CloseAll, Close
  <2>8. QED
    BY <2>2, <2>3, <2>4, <2>5, <2>6, <2>7 DEF Next
<1>7. history' \subseteq Nat /\ forgotten' \subseteq Nat
  <2>1. history \subseteq Nat /\ forgotten \subseteq Nat
    BY DEF TypeOK
  <2>2. ASSUME NEW fd \in Fds, NEW id \in SessionIDs, HandleImeAction(fd, id)
        PROVE  history' \subseteq Nat /\ forgotten' \subseteq Nat
    <3>1. HistoryWithout(Expired, "idleTimeout") \subseteq Nat
      BY <1>3, <1>5
    <3>2. id \in Live => sessions[id].staged \subseteq Nat
      BY <1>4, <1>5
    <3>3. QED
      BY <2>1, <2>2, <3>1, <3>2, Zenon DEF HandleImeAction
  <2>3. ASSUME NEW fd \in Fds, NEW id \in SessionIDs, Close(fd, id)
        PROVE  history' \subseteq Nat /\ forgotten' \subseteq Nat
    <3>1. HistoryWithout({id}, "explicitClose") \subseteq Nat
      BY <1>3, <1>5, <2>3 DEF Close
    <3>2. QED
      BY <2>1, <2>3, <3>1 DEF Close
  <2>4. ASSUME NEW fd \in Fds, AttemptOpen(fd) \/ CloseAll(fd)
        PROVE  history' \subseteq Nat /\ forgotten' \subseteq Nat
    <3>1. Staged(Own(fd)) \subseteq Nat
      BY <1>2, <1>5
    <3>2. QED
      BY <1>3, <1>5, <2>1, <2>4, <3>1 DEF AttemptOpen, CloseAll
  <2>5. ASSUME Evict PROVE history' \subseteq Nat /\ forgotten' \subseteq Nat
    <3>1. PICK id \in IDs : history' = HistoryWithout({id}, "capacityEviction")
      BY <2>5 DEF Evict
    <3>2. HistoryWithout({id}, "capacityEviction") \subseteq Nat
      BY <1>3
    <3>3. QED
      BY <2>1, <2>5, <3>1, <3>2 DEF Evict
  <2>6. ASSUME Diagnostics \/ ClearAllLearningData \/ SaveAll
        PROVE  history' \subseteq Nat /\ forgotten' \subseteq Nat
    <3>1. Staged(IDs) \subseteq Nat
      BY <1>2
    <3>2. QED
      BY <1>3, <1>5, <2>1, <2>6, <3>1 DEF Diagnostics, ClearAllLearningData, SaveAll
  <2>7. QED
    BY <2>1, <2>2, <2>3, <2>4, <2>5, <2>6
       DEF Next, EvictForOwner, EvictForServer, Refuse, Create, Crash, ClockMoves
<1>8. QED
  BY <1>1, <1>6, <1>7 DEF TypeOK

------------------------------------------------------------------------------
(* Capacity                                                                *)

\* The limits are constants.
LEMMA LimitsConstant ==
    /\ MaximumSessions' = MaximumSessions
    /\ MaximumSessionsPerOwner' = MaximumSessionsPerOwner
BY DEF MaximumSessions, MaximumSessionsPerOwner, AtLeastOne

\* The sets that are counted are finite.
LEMMA FiniteCounts ==
    ASSUME TypeOK
    PROVE  /\ IsFiniteSet(IDs) /\ Cardinality(IDs) \in Nat
           /\ \A fd : IsFiniteSet(Own(fd)) /\ Cardinality(Own(fd)) \in Nat
<1>1. IsFiniteSet(IDs)
  BY DEF TypeOK
<1>2. \A fd : Own(fd) \in SUBSET IDs
  BY DEF Own
<1>3. \A fd : IsFiniteSet(Own(fd))
  BY <1>1, <1>2, FS_Subset
<1>4. QED
  BY <1>1, <1>3, FS_CardinalityType

\* Create runs only when there is room for one more.
LEMMA CapacityStep ==
    ASSUME TypeOK, WithinCapacity, Next
    PROVE  WithinCapacity'
<1>1. CASE ~Create
  BY <1>1, StepShrinks, ShrinkKeepsCapacity
<1>2. CASE Create
  <2>1. PICK id \in SessionIDs \ IDs :
            /\ IDs' = IDs \cup {id}
            /\ sessions'[id] = [ownerFd |-> requester, lastAccess |-> now, staged |-> {}]
            /\ \A other \in IDs : sessions'[other] = sessions[other]
            /\ requester \in Fds
    BY <1>2, CreateGrows
  <2>2. /\ Cardinality(IDs) < MaximumSessions
        /\ Cardinality(Own(requester)) < MaximumSessionsPerOwner
    BY <1>2, FiniteCounts, LimitsPositive DEF Create, OwnerIsFull, ServerIsFull
  <2>3. Cardinality(IDs') <= MaximumSessions
    <3>1. Cardinality(IDs') = Cardinality(IDs) + 1
      BY <2>1, FiniteCounts, FS_AddElement
    <3>2. QED
      BY <2>2, <3>1, FiniteCounts, LimitsPositive
  <2>4. ASSUME NEW fd \in Fds
        PROVE  Cardinality(Own(fd)') <= MaximumSessionsPerOwner
    <3>1. sessions'[id].ownerFd = requester
      BY <2>1
    <3>2. Own(fd)' = {i \in IDs \cup {id} : sessions'[i].ownerFd = fd}
      BY <2>1 DEF Own
    <3>3. CASE fd = requester
      <4>1. Own(fd)' = Own(fd) \cup {id} /\ id \notin Own(fd)
        BY <2>1, <3>1, <3>2, <3>3 DEF Own
      <4>2. Cardinality(Own(fd)') = Cardinality(Own(fd)) + 1
        BY <4>1, FiniteCounts, FS_AddElement
      <4>3. QED
        BY <2>2, <3>3, <4>2, FiniteCounts, LimitsPositive
    <3>4. CASE fd # requester
      <4>1. Own(fd)' = Own(fd)
        BY <2>1, <3>1, <3>2, <3>4 DEF Own
      <4>2. QED
        BY <4>1 DEF WithinCapacity
    <3>5. QED
      BY <3>3, <3>4
  <2>5. QED
    BY <2>3, <2>4, LimitsConstant DEF WithinCapacity
<1>3. QED
  BY <1>1, <1>2

------------------------------------------------------------------------------
(* An open in progress                                                     *)

\* An eviction takes one session of the requester and makes room.
LEMMA EvictFacts ==
    ASSUME TypeOK, WithinCapacity, requester \in Fds, Evict
    PROVE  /\ \E id \in Own(requester) : IDs' = IDs \ {id}
           /\ Cardinality(IDs') < MaximumSessions
           /\ Cardinality(Own(requester)') < MaximumSessionsPerOwner
           /\ \A id \in IDs' : sessions'[id] = sessions[id]
           /\ UNCHANGED <<now, requester>>
           /\ evicted' = evicted + 1
<1>1. PICK id \in IDs :
        /\ id \in Own(requester)
        /\ sessions' = Restrict(sessions, IDs \ {id})
        /\ evicted' = evicted + 1
        /\ UNCHANGED <<now, requester>>
  BY Zenon DEF Evict, LeastRecentlyUsed
<1>2. IDs' = IDs \ {id} /\ \A i \in IDs' : sessions'[i] = sessions[i]
  BY <1>1, RestrictFacts
<1>3. Own(requester)' = Own(requester) \ {id}
  BY <1>1, <1>2 DEF Own
<1>4. /\ Cardinality(IDs') = Cardinality(IDs) - 1
      /\ Cardinality(Own(requester)') = Cardinality(Own(requester)) - 1
  BY <1>1, <1>2, <1>3, FiniteCounts, FS_RemoveElement
<1>5. /\ Cardinality(IDs) <= MaximumSessions
      /\ Cardinality(Own(requester)) <= MaximumSessionsPerOwner
  BY DEF WithinCapacity
<1>6. /\ Cardinality(IDs') < MaximumSessions
      /\ Cardinality(Own(requester)') < MaximumSessionsPerOwner
  BY <1>4, <1>5, FiniteCounts, LimitsPositive
<1>7. QED
  BY <1>1, <1>2, <1>6

\* Whoever does not serve an open leaves nobody or somebody waiting as
\* before.
LEMMA OtherRequesters ==
    ASSUME Next, ~EvictForOwner, ~EvictForServer, \A fd \in Fds : ~AttemptOpen(fd)
    PROVE  requester' = NoFd
<1>1. ASSUME NEW fd \in Fds, NEW id \in SessionIDs, HandleImeAction(fd, id)
      PROVE  requester' = NoFd
  BY <1>1, Zenon DEF HandleImeAction
<1>2. QED
  BY <1>1, Zenon DEF Next, Refuse, Create, Diagnostics, Close, CloseAll,
                     ClearAllLearningData, SaveAll, Crash, ClockMoves

\* Pruning comes first, and one eviction is enough.
LEMMA OpenStep ==
    ASSUME TypeOK, WithinCapacity, OpenInProgress, Next
    PROVE  OpenInProgress'
<1>1. ASSUME NEW fd \in Fds, AttemptOpen(fd) PROVE OpenInProgress'
  <2>1. IDs' = Live /\ \A id \in IDs' : sessions'[id] = sessions[id]
    BY <1>1, RestrictFacts DEF AttemptOpen, Live
  <2>2. now' = now /\ evicted' = 0
    BY <1>1 DEF AttemptOpen
  <2>3. Expired' = {}
    BY <2>1, <2>2 DEF Expired, Live
  <2>4. QED
    BY <2>2, <2>3 DEF OpenInProgress
<1>2. ASSUME EvictForOwner \/ EvictForServer PROVE OpenInProgress'
  <2>1. /\ requester # NoFd /\ Evict
        /\ OwnerIsFull \/ ServerIsFull
    BY <1>2 DEF EvictForOwner, EvictForServer, OwnerIsFull, ServerIsFull
  <2>2. requester \in Fds
    BY <2>1 DEF TypeOK
  <2>3. evicted = 0 /\ Expired = {}
    BY <2>1 DEF OpenInProgress
  <2>4. /\ IDs' \subseteq IDs
        /\ Cardinality(IDs') < MaximumSessions
        /\ Cardinality(Own(requester)') < MaximumSessionsPerOwner
        /\ \A id \in IDs' : sessions'[id] = sessions[id]
        /\ UNCHANGED <<now, requester>>
        /\ evicted' = evicted + 1
    BY <2>1, <2>2, EvictFacts
  <2>5. Expired' = {}
    BY <2>3, <2>4 DEF Expired
  <2>6. TypeOK'
    BY TypeStep
  <2>7. ~OwnerIsFull' /\ ~ServerIsFull'
    <3>1. Cardinality(IDs') \in Nat
      BY <2>6, FiniteCounts, FS_CardinalityType DEF TypeOK
    <3>2. Own(requester)' \subseteq IDs' /\ IsFiniteSet(IDs')
      BY <2>6 DEF Own, TypeOK
    <3>3. Cardinality(Own(requester)') \in Nat
      BY <3>2, FS_Subset, FS_CardinalityType
    <3>4. ~(Cardinality(IDs') >= MaximumSessions)
          /\ ~(Cardinality(Own(requester)') >= MaximumSessionsPerOwner)
      BY <2>4, <3>1, <3>3, LimitsPositive
    <3>5. QED
      BY <2>4, <3>4, LimitsConstant DEF OwnerIsFull, ServerIsFull
  <2>8. QED
    BY <2>3, <2>4, <2>5, <2>7 DEF OpenInProgress
<1>3. CASE /\ ~EvictForOwner /\ ~EvictForServer
           /\ \A fd \in Fds : ~AttemptOpen(fd)
  BY <1>3, OtherRequesters DEF OpenInProgress
<1>4. QED
  BY <1>1, <1>2, <1>3

------------------------------------------------------------------------------
(* Learning                                                                *)

\* What the sessions of S have staged, no other session has.
LEMMA StagedElsewhere ==
    ASSUME LearningApart, NEW S \in SUBSET IDs, NEW id \in IDs \ S
    PROVE  sessions[id].staged \cap Staged(S) = {}
<1>1. SUFFICES ASSUME NEW x \in sessions[id].staged, x \in Staged(S)
               PROVE  FALSE
  OBVIOUS
<1>2. PICK other \in S : x \in sessions[other].staged
  BY <1>1 DEF Staged
<1>3. QED
  BY <1>1, <1>2 DEF LearningApart

\* New numbers are none of the old ones.
LEMMA IntervalFacts ==
    ASSUME NEW a \in Nat, NEW b \in Nat, b >= a
    PROVE  /\ 0 .. a - 1 \subseteq 0 .. b - 1
           /\ \A i \in a .. b - 1 : i \notin 0 .. a - 1 /\ i \in 0 .. b - 1
OBVIOUS

\* A step keeps learning apart if what it persists and what it forgets was
\* staged, is not the same and is staged no longer, and if what it stages is
\* new and goes to one session.
LEMMA LearningMoves ==
    ASSUME TypeOK, LearningApart, nextItem' \in Nat, nextItem' >= nextItem,
           history' \subseteq history \cup Staged(IDs),
           forgotten' \subseteq forgotten \cup Staged(IDs),
           (history' \ history) \cap (forgotten' \ forgotten) = {},
           \A id \in IDs' : id \in IDs \/ sessions'[id].staged = {},
           \A id \in IDs' : sessions'[id].staged \subseteq
                Staged(IDs) \cup (nextItem .. nextItem' - 1),
           \A id \in IDs' : sessions'[id].staged \cap (0 .. nextItem - 1)
                                \subseteq sessions[id].staged,
           \A id \in IDs' : sessions'[id].staged \cap
                ((history' \ history) \cup (forgotten' \ forgotten)) = {},
           \A id, other \in IDs' : \A i \in nextItem .. nextItem' - 1 :
                i \in sessions'[id].staged /\ i \in sessions'[other].staged
                    => id = other
    PROVE  LearningApart'
<1>1. nextItem \in Nat
  BY DEF TypeOK
<1>2. history \cup forgotten \cup Staged(IDs) \subseteq 0 .. nextItem - 1
  BY DEF LearningApart
<1>3. /\ 0 .. nextItem - 1 \subseteq 0 .. nextItem' - 1
      /\ \A i \in nextItem .. nextItem' - 1 :
            i \notin 0 .. nextItem - 1 /\ i \in 0 .. nextItem' - 1
  BY <1>1, IntervalFacts
<1>4. Staged(IDs)' \subseteq 0 .. nextItem' - 1
  <2>1. \A id \in IDs' : sessions'[id].staged \subseteq 0 .. nextItem' - 1
    BY <1>2, <1>3
  <2>2. QED
    BY <2>1 DEF Staged
<1>5. (history \cup forgotten)' \subseteq 0 .. nextItem' - 1
  BY <1>2, <1>3
<1>6. Staged(IDs) \cap (history \cup forgotten) = {}
  BY DEF Staged, LearningApart
<1>7. ForgottenStaysForgotten'
  BY <1>6 DEF LearningApart, ForgottenStaysForgotten
<1>8. \A id \in IDs' : (sessions[id].staged \cap (history \cup forgotten))' = {}
  <2>1. SUFFICES ASSUME NEW id \in IDs', NEW i \in sessions'[id].staged,
                        i \in history' \/ i \in forgotten'
                 PROVE  FALSE
    OBVIOUS
  <2>2. i \in history \/ i \in forgotten
    BY <2>1
  <2>3. id \in IDs /\ i \in sessions[id].staged
    BY <1>2, <2>1, <2>2
  <2>4. QED
    BY <2>2, <2>3 DEF LearningApart
<1>9. \A id, other \in IDs' :
        id # other => (sessions[id].staged \cap sessions[other].staged)' = {}
  <2>1. SUFFICES ASSUME NEW id \in IDs', NEW other \in IDs', id # other,
                        NEW i \in sessions'[id].staged, i \in sessions'[other].staged
                 PROVE  FALSE
    OBVIOUS
  <2>2. i \in 0 .. nextItem - 1
    BY <1>2, <2>1
  <2>3. id \in IDs /\ other \in IDs
    BY <2>1
  <2>4. i \in sessions[id].staged /\ i \in sessions[other].staged
    BY <2>1, <2>2
  <2>5. QED
    BY <2>1, <2>3, <2>4 DEF LearningApart
<1>10. QED
  BY <1>4, <1>5, <1>7, <1>8, <1>9 DEF LearningApart

\* Removing the sessions S settles what they have staged: all of it one way.
LEMMA LearningRemoval ==
    ASSUME TypeOK, LearningApart, nextItem' = nextItem,
           NEW S \in SUBSET IDs, sessions' = Restrict(sessions, IDs \ S),
           \/ history' = history \cup Staged(S) /\ forgotten' = forgotten
           \/ history' = history /\ forgotten' = forgotten \cup Staged(S)
    PROVE  LearningApart'
<1>1. IDs' = IDs \ S /\ \A id \in IDs' : sessions'[id] = sessions[id]
  BY RestrictFacts
<1>2. nextItem' \in Nat /\ nextItem' >= nextItem
  BY DEF TypeOK
<1>3. Staged(S) \subseteq Staged(IDs)
  BY DEF Staged
<1>4. \A id \in IDs' : sessions'[id].staged \cap Staged(S) = {}
  BY <1>1, StagedElsewhere
<1>5. /\ history' \subseteq history \cup Staged(IDs)
      /\ forgotten' \subseteq forgotten \cup Staged(IDs)
      /\ (history' \ history) \cap (forgotten' \ forgotten) = {}
      /\ \A id \in IDs' : sessions'[id].staged \cap
            ((history' \ history) \cup (forgotten' \ forgotten)) = {}
  BY <1>3, <1>4
<1>6. /\ \A id \in IDs' : id \in IDs \/ sessions'[id].staged = {}
      /\ \A id \in IDs' : sessions'[id].staged \subseteq
            Staged(IDs) \cup (nextItem .. nextItem' - 1)
      /\ \A id \in IDs' : sessions'[id].staged \cap (0 .. nextItem - 1)
                                \subseteq sessions[id].staged
  BY <1>1, StagedMember
<1>7. \A id, other \in IDs' : \A i \in nextItem .. nextItem' - 1 :
            i \in sessions'[id].staged /\ i \in sessions'[other].staged
                => id = other
  BY DEF TypeOK
<1>8. QED
  BY <1>2, <1>5, <1>6, <1>7, LearningMoves

\* What the reasons of a removal do to the persisted learning
LEMMA HistoryWithoutFacts ==
    \A S : /\ HistoryWithout(S, "explicitClose") = history \cup Staged(S)
           /\ HistoryWithout(S, "capacityEviction") = history \cup Staged(S)
           /\ HistoryWithout(S, "idleTimeout") = history \cup Staged(S)
           /\ HistoryWithout(S, "socketDisconnect") = history
BY DEF HistoryWithout, CommitsPendingLearning

\* A request of a session settles the expired sessions' learning, and may
\* stage, commit or cancel its own.
LEMMA LearningAction ==
    ASSUME TypeOK, LearningApart,
           NEW fd \in Fds, NEW id \in SessionIDs, HandleImeAction(fd, id)
    PROVE  LearningApart'
<1> DEFINE E == Staged(Expired)
           Use(st) == sessions' = [i \in Live |->
                IF i = id THEN [sessions[i] EXCEPT !.lastAccess = now, !.staged = st]
                ELSE sessions[i]]
<1>1. HistoryWithout(Expired, "idleTimeout") = history \cup E
  BY HistoryWithoutFacts
<1>2. Expired \in SUBSET IDs /\ Live = IDs \ Expired
  BY DEF Expired, Live
<1>3. E \in SUBSET Staged(IDs)
  BY <1>2 DEF Staged
<1>4. nextItem \in Nat
  BY DEF TypeOK
<1>5. CASE id \notin Live \cap Own(fd)
  <2>1. /\ sessions' = Restrict(sessions, IDs \ Expired)
        /\ history' = history \cup E
        /\ UNCHANGED <<nextItem, forgotten>>
    BY <1>1, <1>2, <1>5, Zenon DEF HandleImeAction
  <2>2. QED
    BY <1>2, <2>1, LearningRemoval
<1>6. CASE id \in Live \cap Own(fd)
  <2> DEFINE own == sessions[id].staged
  <2>1. ASSUME NEW st, Use(st)
        PROVE  /\ IDs' = Live
               /\ sessions'[id].staged = st
               /\ \A i \in Live \ {id} : sessions'[i].staged = sessions[i].staged
    BY <1>6, <2>1 DEF TypeOK, Session, IDs, Live
  <2>2. own \cap E = {} /\ \A i \in Live : sessions[i].staged \cap E = {}
    BY <1>2, <1>6, StagedElsewhere
  <2>3. \A i \in Live \ {id} : sessions[i].staged \cap own = {}
    BY <1>2, <1>6 DEF LearningApart
  <2>4. own \in SUBSET Staged(IDs) /\ E \cup own \in SUBSET Staged(IDs)
    BY <1>2, <1>3, <1>6, StagedMember
  <2>5. Staged(IDs) \subseteq 0 .. nextItem - 1
    BY DEF LearningApart
  <2>6. \/ Use(own) /\ history' = history \cup E
                    /\ forgotten' = forgotten /\ nextItem' = nextItem
        \/ Use(own \cup {nextItem}) /\ history' = history \cup E
                    /\ forgotten' = forgotten /\ nextItem' = nextItem + 1
        \/ Use({}) /\ history' = history \cup E \cup own
                   /\ forgotten' = forgotten /\ nextItem' = nextItem
        \/ Use({}) /\ history' = history \cup E
                   /\ forgotten' = forgotten \cup own /\ nextItem' = nextItem
    BY <1>1, <1>6, Zenon DEF HandleImeAction
  <2> HIDE DEF Use, E, own
  <2>7. ASSUME NEW st, Use(st),
               nextItem' \in Nat, nextItem' >= nextItem,
               history' \subseteq history \cup E \cup own,
               forgotten' \subseteq forgotten \cup own,
               (history' \ history) \cap (forgotten' \ forgotten) = {},
               st \subseteq own \cup (nextItem .. nextItem' - 1),
               st \cap ((history' \ history) \cup (forgotten' \ forgotten)) = {}
        PROVE  LearningApart'
    <3>1. /\ IDs' = Live /\ Live \subseteq IDs
          /\ sessions'[id].staged = st
          /\ \A i \in Live \ {id} : sessions'[i].staged = sessions[i].staged
      BY <1>2, <2>1, <2>7
    <3>2. /\ history' \subseteq history \cup Staged(IDs)
          /\ forgotten' \subseteq forgotten \cup Staged(IDs)
      BY <1>3, <2>4, <2>7
    <3>3. \A i \in Live \ {id} : sessions[i].staged \cap (E \cup own) = {}
      BY <2>2, <2>3
    <3>4. \A i \in IDs' : sessions'[i].staged \cap
                ((history' \ history) \cup (forgotten' \ forgotten)) = {}
      BY <2>7, <3>1, <3>3
    <3>5. \A i \in nextItem .. nextItem' - 1 : i \notin 0 .. nextItem - 1
      BY <1>4, <2>7, IntervalFacts
    <3>6. \A i \in IDs' : sessions'[i].staged \subseteq
                Staged(IDs) \cup (nextItem .. nextItem' - 1)
      BY <2>4, <2>7, <3>1, StagedMember
    <3>7. \A i \in IDs' : sessions'[i].staged \cap (0 .. nextItem - 1)
                                \subseteq sessions[i].staged
      BY <2>7, <3>1, <3>5 DEF own
    <3>8. \A i \in Live \ {id} : sessions'[i].staged \subseteq 0 .. nextItem - 1
      BY <2>5, <3>1, StagedMember
    <3>9. \A i, other \in IDs' : \A n \in nextItem .. nextItem' - 1 :
            n \in sessions'[i].staged /\ n \in sessions'[other].staged => i = other
      BY <3>1, <3>5, <3>8
    <3>10. \A i \in IDs' : i \in IDs \/ sessions'[i].staged = {}
      BY <3>1
    <3>11. QED
      BY <2>7, <3>2, <3>4, <3>6, <3>7, <3>9, <3>10, LearningMoves
  <2>8. CASE Use(own) /\ history' = history \cup E
             /\ forgotten' = forgotten /\ nextItem' = nextItem
    <3>1. nextItem' \in Nat /\ nextItem' >= nextItem
      BY <1>4, <2>8
    <3>2. QED
      BY <2>2, <2>7, <2>8, <3>1
  <2>9. CASE Use(own \cup {nextItem}) /\ history' = history \cup E
             /\ forgotten' = forgotten /\ nextItem' = nextItem + 1
    <3>1. nextItem \notin E /\ nextItem \in nextItem .. nextItem' - 1
      BY <1>3, <1>4, <2>5, <2>9
    <3>2. nextItem' \in Nat /\ nextItem' >= nextItem
      BY <1>4, <2>9
    <3>3. /\ own \cup {nextItem} \subseteq own \cup (nextItem .. nextItem' - 1)
          /\ (own \cup {nextItem}) \cap
                ((history' \ history) \cup (forgotten' \ forgotten)) = {}
      BY <2>2, <2>9, <3>1
    <3>4. QED
      BY <2>7, <2>9, <3>2, <3>3
  <2>10. CASE Use({}) /\ history' = history \cup E \cup own
              /\ forgotten' = forgotten /\ nextItem' = nextItem
    <3>1. nextItem' \in Nat /\ nextItem' >= nextItem
      BY <1>4, <2>10
    <3>2. QED
      BY <2>7, <2>10, <3>1
  <2>11. CASE Use({}) /\ history' = history \cup E
              /\ forgotten' = forgotten \cup own /\ nextItem' = nextItem
    <3>1. nextItem' \in Nat /\ nextItem' >= nextItem
      BY <1>4, <2>11
    <3>2. (history' \ history) \cap (forgotten' \ forgotten) = {}
      BY <2>2, <2>11
    <3>3. QED
      BY <2>7, <2>11, <3>1, <3>2
  <2>12. QED
    BY <2>6, <2>8, <2>9, <2>10, <2>11
<1>7. QED
  BY <1>5, <1>6

\* Clearing everything leaves nothing to be committed later.
LEMMA LearningClear ==
    ASSUME TypeOK, LearningApart, ClearAllLearningData
    PROVE  LearningApart'
<1>1. IDs' = IDs /\ \A id \in IDs : sessions'[id].staged = {}
  BY DEF ClearAllLearningData, TypeOK, Session, IDs
<1>2. Staged(IDs)' = {}
  BY <1>1 DEF Staged
<1>3. history' = {} /\ forgotten' = forgotten \cup history \cup Staged(IDs)
      /\ nextItem' = nextItem
  BY DEF ClearAllLearningData
<1>4. history' \cup forgotten' \cup Staged(IDs)' \subseteq 0 .. nextItem' - 1
  BY <1>2, <1>3 DEF LearningApart
<1>5. QED
  BY <1>1, <1>3, <1>4 DEF LearningApart, ForgottenStaysForgotten

\* Every step keeps each piece of learning in one place.
LEMMA LearningStep ==
    ASSUME TypeOK, LearningApart, Next
    PROVE  LearningApart'
<1>1. ASSUME NEW S \in SUBSET IDs, sessions' = Restrict(sessions, IDs \ S),
             history' = history \cup Staged(S), UNCHANGED <<nextItem, forgotten>>
      PROVE  LearningApart'
  BY <1>1, LearningRemoval
<1>2. Expired \in SUBSET IDs /\ Live = IDs \ Expired /\ \A fd : Own(fd) \in SUBSET IDs
  BY DEF Expired, Live, Own
<1>3. ASSUME UNCHANGED <<sessions, nextItem, history, forgotten>> PROVE LearningApart'
  BY <1>3 DEF LearningApart, ForgottenStaysForgotten, Staged, IDs
<1>4. ASSUME NEW fd \in Fds, AttemptOpen(fd) PROVE LearningApart'
  BY <1>1, <1>2, <1>4, HistoryWithoutFacts DEF AttemptOpen
<1>5. ASSUME Evict PROVE LearningApart'
  <2>1. PICK id \in IDs : /\ sessions' = Restrict(sessions, IDs \ {id})
                          /\ history' = HistoryWithout({id}, "capacityEviction")
                          /\ UNCHANGED <<nextItem, forgotten>>
    BY <1>5, Zenon DEF Evict
  <2>2. QED
    BY <1>1, <2>1, HistoryWithoutFacts
<1>6. ASSUME Create PROVE LearningApart'
  <2>1. PICK id \in SessionIDs \ IDs :
            /\ IDs' = IDs \cup {id}
            /\ sessions'[id].staged = {}
            /\ \A other \in IDs : sessions'[other] = sessions[other]
    BY <1>6, CreateGrows
  <2>2. UNCHANGED <<nextItem, history, forgotten>>
    BY <1>6 DEF Create
  <2>3. Staged(IDs)' \subseteq Staged(IDs)
    <3>1. \A i \in IDs' : sessions'[i].staged \subseteq Staged(IDs)
      BY <2>1, StagedMember
    <3>2. QED
      BY <3>1 DEF Staged
  <2>4. QED
    BY <2>1, <2>2, <2>3 DEF LearningApart, ForgottenStaysForgotten
<1>7. ASSUME Diagnostics PROVE LearningApart'
  BY <1>1, <1>2, <1>7, HistoryWithoutFacts DEF Diagnostics
<1>8. ASSUME NEW fd \in Fds, NEW id \in SessionIDs, Close(fd, id) PROVE LearningApart'
  <2>1. {id} \in SUBSET IDs
    BY <1>2, <1>8 DEF Close
  <2>2. QED
    BY <1>1, <1>8, <2>1, HistoryWithoutFacts DEF Close
<1>9. ASSUME NEW fd \in Fds, CloseAll(fd) PROVE LearningApart'
  BY <1>2, <1>9, HistoryWithoutFacts, LearningRemoval DEF CloseAll
<1>10. ASSUME SaveAll PROVE LearningApart'
  <2>1. sessions' = Restrict(sessions, IDs \ IDs)
    BY <1>10 DEF SaveAll, Restrict
  <2>2. QED
    BY <1>1, <1>10, <2>1 DEF SaveAll
<1>11. ASSUME Crash PROVE LearningApart'
  <2>1. IDs' = {} /\ Staged(IDs)' = {}
    BY <1>11 DEF Crash, IDs, Staged
  <2>2. QED
    BY <1>11, <2>1 DEF Crash, LearningApart, ForgottenStaysForgotten
<1>12. QED
  BY <1>3, <1>4, <1>5, <1>6, <1>7, <1>8, <1>9, <1>10, <1>11,
     LearningAction, LearningClear
     DEF Next, EvictForOwner, EvictForServer, Refuse, ClockMoves

------------------------------------------------------------------------------
(* The theorems                                                            *)

\* The registry's inductive invariant holds in every state
THEOREM RegistryCorrect == Spec => []RegistryInv
<1>1. Init => RegistryInv
  <2>1. SUFFICES ASSUME Init PROVE RegistryInv
    OBVIOUS
  <2>2. IDs = {} /\ Staged(IDs) = {} /\ \A fd : Own(fd) = {}
    BY <2>1 DEF Init, IDs, Staged, Own
  <2>3. TypeOK
    BY <2>1, <2>2, FS_EmptySet DEF TypeOK, Init
  <2>4. WithinCapacity
    BY <2>2, FS_EmptySet, LimitsPositive DEF WithinCapacity
  <2>5. LearningApart /\ OpenInProgress
    BY <2>1, <2>2 DEF Init, LearningApart, ForgottenStaysForgotten, OpenInProgress
  <2>6. QED
    BY <2>3, <2>4, <2>5 DEF RegistryInv
<1>2. RegistryInv /\ [Next]_vars => RegistryInv'
  <2>1. SUFFICES ASSUME RegistryInv, [Next]_vars PROVE RegistryInv'
    OBVIOUS
  <2>2. CASE Next
    BY <2>1, <2>2, TypeStep, CapacityStep, LearningStep, OpenStep DEF RegistryInv
  <2>3. CASE UNCHANGED vars
    BY <2>1, <2>3
       DEF RegistryInv, vars, TypeOK, WithinCapacity, LearningApart,
           ForgottenStaysForgotten, OpenInProgress, OwnerIsFull, ServerIsFull,
           Staged, Expired, Own, IDs, MaximumSessions, MaximumSessionsPerOwner
  <2>4. QED
    BY <2>1, <2>2, <2>3
<1>3. QED
  BY <1>1, <1>2, PTL DEF Spec

\* The capacity of the server and of every client is never exceeded, for
\* every setting of the limits
THEOREM CapacityKept == Spec => []WithinCapacity
<1>1. RegistryInv => WithinCapacity
  BY DEF RegistryInv
<1>2. QED
  BY <1>1, RegistryCorrect, PTL

\* Learning that was cancelled, abandoned with its socket or cleared is
\* never persisted afterwards
THEOREM ForgottenForever == Spec => []ForgottenStaysForgotten
<1>1. RegistryInv => ForgottenStaysForgotten
  BY DEF RegistryInv, LearningApart
<1>2. QED
  BY <1>1, RegistryCorrect, PTL

\* An open evicts at most one session, and that is the requester's own
THEOREM ForeignPreserved == Spec => OnlyOwnEvicted
<1> DEFINE A == requester # NoFd /\ requester' = requester =>
                    /\ IDs \ IDs' \subseteq Own(requester)
                    /\ evicted' <= 1
<1>1. RegistryInv /\ RegistryInv' /\ [Next]_vars => [A]_vars
  <2>1. SUFFICES ASSUME RegistryInv, RegistryInv', Next,
                        requester # NoFd, requester' = requester
                 PROVE  /\ IDs \ IDs' \subseteq Own(requester)
                        /\ evicted' <= 1
    OBVIOUS
  <2>2. (EvictForOwner \/ EvictForServer) \/ \E fd \in Fds : AttemptOpen(fd)
    BY <2>1, OtherRequesters
  <2>3. EvictForOwner \/ EvictForServer
    BY <2>1, <2>2 DEF AttemptOpen
  <2>4. Evict /\ requester \in Fds /\ TypeOK /\ WithinCapacity
    BY <2>1, <2>3 DEF EvictForOwner, EvictForServer, RegistryInv, TypeOK
  <2>5. \E id \in Own(requester) : IDs' = IDs \ {id}
    BY <2>4, EvictFacts
  <2>6. evicted' <= 1
    BY <2>1 DEF RegistryInv, OpenInProgress
  <2>7. QED
    BY <2>5, <2>6
<1>2. QED
  BY <1>1, RegistryCorrect, PTL DEF Spec, OnlyOwnEvicted

\* A refused open found the server full of other clients' live sessions and
\* evicted nothing
THEOREM RefusalsJustified == Spec => RefusalJustified
<1> DEFINE A == Refuse => /\ evicted = 0
                          /\ Cardinality(IDs) = MaximumSessions
                          /\ Expired = {}
<1>1. RegistryInv /\ [Next]_vars => [A]_vars
  <2>1. SUFFICES ASSUME RegistryInv, Refuse
                 PROVE  /\ evicted = 0
                        /\ Cardinality(IDs) = MaximumSessions
                        /\ Expired = {}
    OBVIOUS
  <2>2. requester # NoFd /\ ServerIsFull
    BY <2>1 DEF Refuse, ServerIsFull
  <2>3. evicted = 0 /\ Expired = {}
    BY <2>1, <2>2 DEF RegistryInv, OpenInProgress
  <2>4. Cardinality(IDs) >= MaximumSessions /\ Cardinality(IDs) <= MaximumSessions
    BY <2>1, <2>2 DEF ServerIsFull, RegistryInv, WithinCapacity
  <2>5. Cardinality(IDs) \in Nat
    BY <2>1, FiniteCounts DEF RegistryInv
  <2>6. QED
    BY <2>3, <2>4, <2>5, LimitsPositive
<1>2. QED
  BY <1>1, RegistryCorrect, PTL DEF Spec, RefusalJustified
==============================================================================
