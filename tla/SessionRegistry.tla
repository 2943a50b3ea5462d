-------------------------- MODULE SessionRegistry ---------------------------
(***************************************************************************)
(* HazkeySessionRegistry: the sessions of all clients of one server.       *)
(*                                                                         *)
(* The server answers one request at a time.  A session belongs to the     *)
(* file descriptor that opened it, remembers when it was last used, and    *)
(* may hold learning that is staged and not yet decided.  attemptOpen      *)
(* makes room in two loops; here each round of them is a step, and         *)
(* requester names the client that is being served meanwhile.              *)
(*                                                                         *)
(* A piece of learning is a number.  history is what the persisted memory  *)
(* of the converter contains; forgotten is a history variable: learning    *)
(* that was cancelled, that was undecided when its socket disappeared, or  *)
(* that existed when the user cleared everything.                          *)
(***************************************************************************)
EXTENDS Integers, FiniteSets, Functions

CONSTANTS
    Fds,                        \* client file descriptors
    NoFd,                       \* no client is being served
    SessionIDs,                 \* UUIDs; only their order matters
    ConfiguredSessions,         \* init's maximumSessions (128)
    ConfiguredSessionsPerOwner, \* init's maximumSessionsPerOwner (16)
    IdleTimeout,                \* half an hour
    MaxTime,                    \* bound on the clock
    MaxLearning                 \* bound on the pieces of learning

ASSUME RegistryAssumption ==
    /\ NoFd \notin Fds
    /\ SessionIDs \subseteq Nat
    /\ ConfiguredSessions \in Int /\ ConfiguredSessionsPerOwner \in Int
    /\ IdleTimeout \in Nat
    /\ MaxTime \in Nat /\ MaxLearning \in Nat

VARIABLES
    sessions,   \* the sessions by their ID
    now,        \* the clock
    requester,  \* the client whose open is in progress, or NoFd
    evicted,    \* how many sessions that open has evicted so far
    nextItem,   \* the number of the next piece of learning
    history,    \* the persisted learning
    forgotten   \* learning that must never be persisted (again)

vars == <<sessions, now, requester, evicted, nextItem, history, forgotten>>

AtLeastOne(n) == IF n < 1 THEN 1 ELSE n

MaximumSessions == AtLeastOne(ConfiguredSessions)

MaximumSessionsPerOwner ==
    AtLeastOne(IF ConfiguredSessionsPerOwner <= MaximumSessions
               THEN ConfiguredSessionsPerOwner ELSE MaximumSessions)

Session == [ownerFd : Fds, lastAccess : Nat, staged : SUBSET Nat]

IDs == DOMAIN sessions
Own(fd) == {id \in IDs : sessions[id].ownerFd = fd}
Staged(S) == UNION {sessions[id].staged : id \in S}

Init ==
    /\ sessions = [id \in {} |-> 0]
    /\ now = 0
    /\ requester = NoFd
    /\ evicted = 0
    /\ nextItem = 1
    /\ history = {}
    /\ forgotten = {}

------------------------------------------------------------------------------
(* Removing sessions                                                       *)

\* commitsPendingLearning
CommitsPendingLearning(reason) == reason # "socketDisconnect"

\* What removeSession leaves of the persisted learning
HistoryWithout(S, reason) ==
    history \cup (IF CommitsPendingLearning(reason) THEN Staged(S) ELSE {})

\* The sessions that pruneExpiredSessions removes
Expired == {id \in IDs : sessions[id].lastAccess < now - IdleTimeout}

Live == IDs \ Expired

\* leastRecentlyUsedSession: the older one, and of two equally old ones the
\* one with the smaller ID
LeastRecentlyUsed(id, S) ==
    /\ id \in S
    /\ \A other \in S :
        \/ sessions[id].lastAccess < sessions[other].lastAccess
        \/ /\ sessions[id].lastAccess = sessions[other].lastAccess
           /\ id <= other

\* Mutant: the least recently used session of anyone
Evict_Anyone ==
    \E id \in IDs :
        /\ LeastRecentlyUsed(id, IDs)
        /\ sessions' = Restrict(sessions, IDs \ {id})
        /\ history' = HistoryWithout({id}, "capacityEviction")
        /\ evicted' = evicted + 1
        /\ UNCHANGED <<now, requester, nextItem, forgotten>>

\* One round of a loop of attemptOpen
Evict ==
    \E id \in IDs :
        /\ LeastRecentlyUsed(id, Own(requester))
        /\ sessions' = Restrict(sessions, IDs \ {id})
        /\ history' = HistoryWithout({id}, "capacityEviction")
        /\ evicted' = evicted + 1
        /\ UNCHANGED <<now, requester, nextItem, forgotten>>

------------------------------------------------------------------------------
(* attemptOpen                                                             *)

\* Mutant: expired sessions stay
AttemptOpen_NoPrune(fd) ==
    /\ requester = NoFd
    /\ requester' = fd
    /\ evicted' = 0
    /\ UNCHANGED <<sessions, now, nextItem, history, forgotten>>

\* A client asks for a session: pruneExpiredSessions, then the loops
AttemptOpen(fd) ==
    /\ requester = NoFd
    /\ sessions' = Restrict(sessions, Live)
    /\ history' = HistoryWithout(Expired, "idleTimeout")
    /\ requester' = fd
    /\ evicted' = 0
    /\ UNCHANGED <<now, nextItem, forgotten>>

OwnerIsFull ==
    /\ requester # NoFd
    /\ Cardinality(Own(requester)) >= MaximumSessionsPerOwner

ServerIsFull ==
    /\ requester # NoFd
    /\ Cardinality(IDs) >= MaximumSessions

\* The requester has as many sessions as one client may have
EvictForOwner == OwnerIsFull /\ Evict

\* The server has as many sessions as it may have
EvictForServer == ~OwnerIsFull /\ ServerIsFull /\ Evict

\* None of them is the requester's: resourceExhausted
Refuse ==
    /\ ~OwnerIsFull /\ ServerIsFull
    /\ Own(requester) = {}
    /\ requester' = NoFd
    /\ UNCHANGED <<sessions, now, evicted, nextItem, history, forgotten>>

\* Mutant: the request is finished before its session is stored
Create_ResetFirst ==
    /\ requester # NoFd
    /\ ~OwnerIsFull /\ ~ServerIsFull
    /\ requester' = NoFd
    /\ \E id \in SessionIDs \ IDs :
        sessions' = [i \in IDs \cup {id} |->
                        IF i = id THEN [ownerFd |-> requester',
                                        lastAccess |-> now, staged |-> {}]
                        ELSE sessions[i]]
    /\ UNCHANGED <<now, evicted, nextItem, history, forgotten>>

\* There is room: a session with a new UUID
Create ==
    /\ requester # NoFd
    /\ ~OwnerIsFull /\ ~ServerIsFull
    /\ \E id \in SessionIDs \ IDs :
        sessions' = [i \in IDs \cup {id} |->
                        IF i = id THEN [ownerFd |-> requester,
                                        lastAccess |-> now, staged |-> {}]
                        ELSE sessions[i]]
    /\ requester' = NoFd
    /\ UNCHANGED <<now, evicted, nextItem, history, forgotten>>

------------------------------------------------------------------------------
(* The other requests                                                      *)

\* handleImeAction of session id: prune, look it up, mark it used, and let
\* its reducer stage learning, or commit or cancel what is staged
HandleImeAction(fd, id) ==
    LET pruned == HistoryWithout(Expired, "idleTimeout")
        Use(staged) ==
            sessions' = [i \in Live |->
                IF i = id THEN [sessions[i] EXCEPT !.lastAccess = now,
                                                   !.staged = staged]
                ELSE sessions[i]]
    IN  /\ requester = NoFd
        /\ \/ /\ id \notin Live \cap Own(fd)     \* sessionNotFound
              /\ sessions' = Restrict(sessions, Live)
              /\ history' = pruned
              /\ UNCHANGED <<nextItem, forgotten>>
           \/ /\ id \in Live \cap Own(fd)
              /\ \/ /\ Use(sessions[id].staged)
                    /\ history' = pruned
                    /\ UNCHANGED <<nextItem, forgotten>>
                 \/ /\ nextItem <= MaxLearning
                    /\ Use(sessions[id].staged \cup {nextItem})
                    /\ nextItem' = nextItem + 1
                    /\ history' = pruned
                    /\ UNCHANGED forgotten
                 \/ /\ Use({})
                    /\ history' = pruned \cup sessions[id].staged
                    /\ UNCHANGED <<nextItem, forgotten>>
                 \/ /\ Use({})
                    /\ history' = pruned
                    /\ forgotten' = forgotten \cup sessions[id].staged
                    /\ UNCHANGED nextItem
        /\ UNCHANGED <<now, requester, evicted>>

\* count, diagnostics and the like: nothing but pruneExpiredSessions
Diagnostics ==
    /\ requester = NoFd
    /\ sessions' = Restrict(sessions, Live)
    /\ history' = HistoryWithout(Expired, "idleTimeout")
    /\ UNCHANGED <<now, requester, evicted, nextItem, forgotten>>

\* close: only the owner may, and nothing is pruned
Close(fd, id) ==
    /\ requester = NoFd
    /\ id \in Own(fd)
    /\ sessions' = Restrict(sessions, IDs \ {id})
    /\ history' = HistoryWithout({id}, "explicitClose")
    /\ UNCHANGED <<now, requester, evicted, nextItem, forgotten>>

\* closeAll: the socket of fd is gone
CloseAll(fd) ==
    /\ requester = NoFd
    /\ sessions' = Restrict(sessions, IDs \ Own(fd))
    /\ history' = HistoryWithout(Own(fd), "socketDisconnect")
    /\ forgotten' = forgotten \cup Staged(Own(fd))
    /\ UNCHANGED <<now, requester, evicted, nextItem>>

\* Mutant: only the persisted learning is cleared
ClearAllLearningData_KeepsStaged ==
    /\ requester = NoFd
    /\ history' = {}
    /\ forgotten' = forgotten \cup history \cup Staged(IDs)
    /\ UNCHANGED <<sessions, now, requester, evicted, nextItem>>

\* clearAllLearningData: discard what is staged, then clear the memory
ClearAllLearningData ==
    /\ requester = NoFd
    /\ sessions' = [id \in IDs |-> [sessions[id] EXCEPT !.staged = {}]]
    /\ history' = {}
    /\ forgotten' = forgotten \cup history \cup Staged(IDs)
    /\ UNCHANGED <<now, requester, evicted, nextItem>>

\* The server leaves its loop: saveAll commits what is staged.  The next
\* process starts without sessions.
SaveAll ==
    /\ requester = NoFd
    /\ sessions' = [id \in {} |-> 0]
    /\ history' = history \cup Staged(IDs)
    /\ UNCHANGED <<now, requester, evicted, nextItem, forgotten>>

\* The server is killed: what is staged is gone
Crash ==
    /\ sessions' = [id \in {} |-> 0]
    /\ requester' = NoFd
    /\ evicted' = 0
    /\ UNCHANGED <<now, nextItem, history, forgotten>>

\* Time passes between requests.  Date() is the wall clock, which may also
\* be set back.
ClockMoves ==
    /\ requester = NoFd
    /\ now' \in 0 .. MaxTime
    /\ UNCHANGED <<sessions, requester, evicted, nextItem, history, forgotten>>

Next ==
    \/ \E fd \in Fds : AttemptOpen(fd)
    \/ EvictForOwner
    \/ EvictForServer
    \/ Refuse
    \/ Create
    \/ \E fd \in Fds, id \in SessionIDs : HandleImeAction(fd, id)
    \/ Diagnostics
    \/ \E fd \in Fds, id \in SessionIDs : Close(fd, id)
    \/ \E fd \in Fds : CloseAll(fd)
    \/ ClearAllLearningData
    \/ SaveAll
    \/ Crash
    \/ ClockMoves

Spec == Init /\ [][Next]_vars

------------------------------------------------------------------------------
(* Properties                                                              *)

\* A finite map from IDs to session records; evictions are counted
TypeOK ==
    /\ IDs \subseteq SessionIDs /\ IsFiniteSet(IDs)
    /\ sessions \in [IDs -> Session]
    /\ now \in Nat
    /\ requester \in Fds \cup {NoFd}
    /\ evicted \in Nat
    /\ nextItem \in Nat
    /\ history \subseteq Nat
    /\ forgotten \subseteq Nat

\* Neither the server nor a client ever has more sessions than init allows,
\* whatever order of opens, closes and expirations led here
WithinCapacity ==
    /\ Cardinality(IDs) <= MaximumSessions
    /\ \A fd \in Fds : Cardinality(Own(fd)) <= MaximumSessionsPerOwner

\* "Preserve every foreign owner's active composition": while a client
\* opens a session, every session taken to make room is its own, and no
\* more than one is taken
OnlyOwnEvicted ==
    [][requester # NoFd /\ requester' = requester =>
            /\ IDs \ IDs' \subseteq Own(requester)
            /\ evicted' <= 1]_vars

\* An open is refused only when the server is full of other clients'
\* sessions that are all in use; and a refused open has cost its client none
\* of its own sessions
RefusalJustified ==
    [][Refuse => /\ evicted = 0
                 /\ Cardinality(IDs) = MaximumSessions
                 /\ Expired = {}]_vars

\* What was cancelled, left undecided by a lost socket, or cleared by the
\* user is not learnt, and no later close, eviction, timeout or shutdown
\* brings it back
ForgottenStaysForgotten == history \cap forgotten = {}

\* Every piece of learning is staged in at most one session, or settled one
\* way: persisted or forgotten
LearningApart ==
    /\ history \cup forgotten \cup Staged(IDs) \subseteq 0 .. nextItem - 1
    /\ ForgottenStaysForgotten
    /\ \A id \in IDs : sessions[id].staged \cap (history \cup forgotten) = {}
    /\ \A id, other \in IDs :
        id # other => sessions[id].staged \cap sessions[other].staged = {}

\* While an open is in progress no session is expired, and as soon as it
\* has evicted one session there is room
OpenInProgress ==
    requester # NoFd =>
        /\ Expired = {}
        /\ evicted = 0 \/ (evicted = 1 /\ ~OwnerIsFull /\ ~ServerIsFull)

\* The inductive invariant: capacity is kept because an open evicts before
\* it creates, and learning stays forgotten because each piece is in one
\* place only
RegistryInv == TypeOK /\ WithinCapacity /\ LearningApart /\ OpenInProgress
==============================================================================
