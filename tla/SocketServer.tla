---------------------------- MODULE SocketServer ----------------------------
(***************************************************************************)
(* SocketManager and the main loop of the server: one thread that polls    *)
(* the listening socket and every client, reads whole frames, answers      *)
(* them and writes the answers, while the peers connect, send, read and    *)
(* leave whenever they like.                                               *)
(*                                                                         *)
(* Data is counted in units.  A frame is a header unit, carrying the       *)
(* announced length, and a body unit if it has a body; an answer is        *)
(* AnswerUnits numbered units.  A connection is used once; a descriptor is *)
(* used again by the next connection that gets it.                         *)
(***************************************************************************)
EXTENDS Integers, Sequences, FiniteSets, Functions

CONSTANTS
    Conns,            \* connections that peers may make
    Fds,              \* descriptors the kernel may hand out for them
    MaximumClients,   \* maximumClients (64)
    MaximumRead,      \* maximumReadPerPoll (256 KiB), in units
    MaximumPending,   \* maximumPendingOutputSize (2 MiB), in units
    PipeCapacity,     \* the kernel's buffer towards a peer, in units
    MaxRequests       \* bound on the frames of all peers together

ASSUME SocketAssumption ==
    /\ Fds \subseteq Nat
    /\ MaximumClients \in Nat \ {0}
    /\ IsFiniteSet(Fds) /\ Cardinality(Fds) > MaximumClients
    /\ MaximumRead \in Nat \ {0}
    /\ MaximumPending \in Nat /\ PipeCapacity \in Nat /\ MaxRequests \in Nat

VARIABLES
    status,    \* of each connection: "new", "waiting", "open" or "closed"
    backlog,   \* the connections accept has not returned yet
    gone,      \* the peers that closed their end
    asked,     \* the frames each peer began to send
    rest,      \* what each peer has yet to send of its last frame
    up,        \* units on their way to the server
    down,      \* units on their way to the peer
    got,       \* units the peer has read
    clients,   \* descriptor -> connection, input and output
    served,    \* the requests of each connection the delegate answered
    sessions,  \* open sessions: the owner descriptor and who opened them
    step,      \* where startListening stands
    events,    \* the entries of the poll snapshot still to be handled
    stopping   \* the write end of the stop pipe is closed

peerVars == <<gone, asked, rest, got>>
wires == <<up, down>>
serverVars == <<clients, served, sessions, step, events>>
vars == <<status, backlog, gone, asked, rest, up, down, got, clients, served,
          sessions, step, events, stopping>>

ClientState(c, input, output) ==
    [conn |-> c, input |-> input, output |-> output]

\* What a request may be: one with a body, one that opens a session, one
\* that announces more than maximumMessageSize, one answered with more
Kinds == {"plain", "opens", "tooLong", "answerTooLong"}

AnswerUnits == 2

FrameUnits(kind) == IF kind = "plain" THEN 2 ELSE 1

\* The units of the n-th frame of a connection
Frame(n, kind) ==
    [i \in 1 .. FrameUnits(kind) |->
        [request |-> n, kind |-> kind, header |-> i = 1]]

\* The units of the answer to the n-th request
Answer(n) == [i \in 1 .. AnswerUnits |-> AnswerUnits * (n - 1) + i]

Init ==
    /\ status = [c \in Conns |-> "new"]
    /\ backlog = <<>>
    /\ gone = {}
    /\ asked = [c \in Conns |-> <<>>]
    /\ rest = [c \in Conns |-> <<>>]
    /\ up = [c \in Conns |-> <<>>]
    /\ down = [c \in Conns |-> <<>>]
    /\ got = [c \in Conns |-> <<>>]
    /\ clients = [fd \in {} |-> 0]
    /\ served = [c \in Conns |-> <<>>]
    /\ sessions = {}
    /\ step = "poll"
    /\ events = [fd \in {} |-> {}]
    /\ stopping = FALSE

------------------------------------------------------------------------------
(* The peers                                                               *)

Connect(c) ==
    /\ status[c] = "new"
    /\ step # "stopped"
    /\ status' = [status EXCEPT ![c] = "waiting"]
    /\ backlog' = Append(backlog, c)
    /\ UNCHANGED <<peerVars, wires, serverVars, stopping>>

Reaches(c) == status[c] \in {"waiting", "open"} /\ c \notin gone

BeginFrame(c, kind) ==
    /\ Reaches(c)
    /\ rest[c] = <<>>
    /\ Cardinality(UNION {{d} \X DOMAIN asked[d] : d \in Conns}) < MaxRequests
    /\ LET frame == Frame(Len(asked[c]) + 1, kind)
       IN /\ up' = [up EXCEPT ![c] = Append(@, Head(frame))]
          /\ rest' = [rest EXCEPT ![c] = Tail(frame)]
    /\ asked' = [asked EXCEPT ![c] = Append(@, kind)]
    /\ UNCHANGED <<status, backlog, gone, down, got, serverVars, stopping>>

ContinueFrame(c) ==
    /\ Reaches(c)
    /\ rest[c] # <<>>
    /\ up' = [up EXCEPT ![c] = Append(@, Head(rest[c]))]
    /\ rest' = [rest EXCEPT ![c] = Tail(@)]
    /\ UNCHANGED <<status, backlog, gone, asked, down, got, serverVars, stopping>>

PeerReads(c) ==
    /\ c \notin gone
    /\ down[c] # <<>>
    /\ got' = [got EXCEPT ![c] = Append(@, Head(down[c]))]
    /\ down' = [down EXCEPT ![c] = Tail(@)]
    /\ UNCHANGED <<status, backlog, gone, asked, rest, up, serverVars, stopping>>

\* The peer gives up, perhaps in the middle of a frame
Leave(c) ==
    /\ Reaches(c)
    /\ gone' = gone \cup {c}
    /\ UNCHANGED <<status, backlog, asked, rest, wires, got, serverVars, stopping>>

\* stopServing, called by a signal handler
StopServing ==
    /\ ~stopping
    /\ stopping' = TRUE
    /\ UNCHANGED <<status, backlog, peerVars, wires, serverVars>>

------------------------------------------------------------------------------
(* poll                                                                    *)

Conn(fd) == clients[fd].conn

\* Mutant: no client is polled for POLLOUT
Revents_NoOutput(fd) ==
    {e \in {"hangup", "in"} :
        \/ e = "hangup" /\ Conn(fd) \in gone
        \/ e = "in" /\ (up[Conn(fd)] # <<>> \/ Conn(fd) \in gone)}

\* revents of a client; POLLOUT is asked for while there is output
Revents(fd) ==
    {e \in {"hangup", "in", "out"} :
        \/ e = "hangup" /\ Conn(fd) \in gone
        \/ e = "in" /\ (up[Conn(fd)] # <<>> \/ Conn(fd) \in gone)
        \/ /\ e = "out"
           /\ clients[fd].output # <<>>
           /\ Len(down[Conn(fd)]) < PipeCapacity}

Ready == {fd \in DOMAIN clients : Revents(fd) # {}}

\* The snapshot; the iteration looks at the listening socket first
Poll ==
    /\ step = "poll"
    /\ ~stopping
    /\ backlog # <<>> \/ Ready # {}
    /\ events' = [fd \in Ready |-> Revents(fd)]
    /\ step' = IF backlog # <<>> THEN "accept" ELSE "clients"
    /\ UNCHANGED <<status, backlog, peerVars, wires, clients, served, sessions,
                   stopping>>

\* The stop pipe is readable: the loop ends, start saves the sessions and the
\* process closes its sockets
Finish ==
    /\ step = "poll"
    /\ stopping
    /\ step' = "stopped"
    /\ status' = [c \in Conns |->
                    IF status[c] = "new" THEN "new" ELSE "closed"]
    /\ backlog' = <<>>
    /\ clients' = Restrict(clients, {})
    /\ sessions' = {}
    /\ UNCHANGED <<peerVars, wires, served, events, stopping>>

------------------------------------------------------------------------------
(* handleNewConnection                                                     *)

HandleNewConnection ==
    /\ step = "accept"
    /\ LET c == Head(backlog)
       IN IF Cardinality(DOMAIN clients) < MaximumClients
          THEN \E fd \in Fds \ DOMAIN clients :
                 /\ clients' = [f \in DOMAIN clients \cup {fd} |->
                      IF f = fd THEN ClientState(c, <<>>, <<>>) ELSE clients[f]]
                 /\ status' = [status EXCEPT ![c] = "open"]
          ELSE /\ status' = [status EXCEPT ![c] = "closed"]
               /\ UNCHANGED clients
    /\ backlog' = Tail(backlog)
    /\ step' = IF DOMAIN events = {} THEN "poll" ELSE "clients"
    /\ UNCHANGED <<peerVars, wires, served, sessions, events, stopping>>

------------------------------------------------------------------------------
(* The entries of the snapshot                                             *)

AtMost(m, n) == IF m <= n THEN m ELSE n

\* The entry that is being handled: clients are polled in the order of their
\* descriptors
Current(fd) == fd \in DOMAIN events /\ \A other \in DOMAIN events : fd <= other

\* The loop goes on with the next entry of the snapshot, or polls again
Advance(fd) ==
    /\ events' = Restrict(events, DOMAIN events \ {fd})
    /\ step' = IF DOMAIN events = {fd} THEN "poll" ELSE "clients"

\* closeClient, and closeAll(ownerFd) by the delegate
CloseClient(fd) ==
    /\ clients' = Restrict(clients, DOMAIN clients \ {fd})
    /\ status' = [status EXCEPT ![Conn(fd)] = "closed"]
    /\ sessions' = {s \in sessions : s.ownerFd # fd}
    /\ Advance(fd)

\* Mutant: closeClient is not followed by continue
HangUp_FallsThrough(fd) ==
    /\ step = "clients"
    /\ "hangup" \in events[fd]
    /\ clients' = Restrict(clients, DOMAIN clients \ {fd})
    /\ status' = [status EXCEPT ![Conn(fd)] = "closed"]
    /\ sessions' = {s \in sessions : s.ownerFd # fd}
    /\ events' = [events EXCEPT ![fd] = @ \ {"hangup"}]
    /\ UNCHANGED <<backlog, peerVars, wires, served, step, stopping>>

\* Mutant: a client with POLLHUP is passed over
HangUp_Continues(fd) ==
    /\ step = "clients"
    /\ "hangup" \in events[fd]
    /\ Advance(fd)
    /\ UNCHANGED <<status, backlog, peerVars, wires, clients, served, sessions,
                   stopping>>

\* POLLHUP or POLLERR: what the peer had sent is not looked at
HangUp(fd) ==
    /\ step = "clients"
    /\ "hangup" \in events[fd]
    /\ CloseClient(fd)
    /\ UNCHANGED <<backlog, peerVars, wires, served, stopping>>

\* Mutant: EAGAIN is not told from the end of the stream
EndOfStream_Again(c, n) == n < MaximumRead

\* read has taken all there is and finds that the peer left
EndOfStream(c, n) == n < MaximumRead /\ c \in gone

\* readAvailableData: up to maximumReadPerPoll
ReadAvailableData(fd) ==
    LET c == Conn(fd)
        n == AtMost(Len(up[c]), MaximumRead)
    IN /\ step = "clients"
       /\ "hangup" \notin events[fd] /\ "in" \in events[fd]
       /\ up' = [up EXCEPT ![c] = SubSeq(@, n + 1, Len(@))]
       /\ IF EndOfStream(c, n)
          THEN CloseClient(fd)
          ELSE /\ clients' = [clients EXCEPT ![fd] =
                    ClientState(c, @.input \o SubSeq(up[c], 1, n), @.output)]
               /\ events' = [events EXCEPT ![fd] = @ \ {"in"}]
               /\ step' = "frames"
               /\ UNCHANGED <<status, sessions>>
       /\ UNCHANGED <<backlog, peerVars, down, served, stopping>>

\* Mutant: a whole frame waits for the first byte after it
WholeFrame_OffByOne(input) ==
    input # <<>> /\ Len(input) > FrameUnits(input[1].kind)

\* input.count >= frameSize
WholeFrame(input) == input # <<>> /\ Len(input) >= FrameUnits(input[1].kind)

\* The length guard of processAvailableFrames
RefuseFrame(fd) ==
    /\ step = "frames"
    /\ clients[fd].input # <<>>
    /\ clients[fd].input[1].kind = "tooLong"
    /\ CloseClient(fd)
    /\ UNCHANGED <<backlog, peerVars, wires, served, stopping>>

\* One round of processAvailableFrames: the delegate answers, and the answer
\* is appended unless it, or all that is pending, is too large
ServeFrame(fd) ==
    LET client == clients[fd]
        frame  == Head(client.input)
        output == client.output \o Answer(frame.request)
    IN /\ step = "frames"
       /\ WholeFrame(client.input)
       /\ frame.kind # "tooLong"
       /\ served' = [served EXCEPT ![client.conn] = Append(@, frame.request)]
       /\ IF frame.kind = "answerTooLong" \/ Len(output) > MaximumPending
          THEN CloseClient(fd)
          ELSE /\ clients' = [clients EXCEPT ![fd] =
                    ClientState(@.conn,
                                SubSeq(@.input, FrameUnits(frame.kind) + 1, Len(@.input)),
                                output)]
               /\ sessions' = sessions \cup
                    {s \in {[ownerFd |-> fd, openedBy |-> client.conn]} :
                        frame.kind = "opens"}
               /\ UNCHANGED <<status, events, step>>
       /\ UNCHANGED <<backlog, peerVars, wires, stopping>>

\* The input holds no whole frame: the rest of it comes with a later read
AwaitInput(fd) ==
    /\ step = "frames"
    /\ ~WholeFrame(clients[fd].input)
    /\ step' = "flush"
    /\ UNCHANGED <<status, backlog, peerVars, wires, clients, served, sessions,
                   events, stopping>>

\* Mutant: removeFirst is forgotten
Unwritten_All(output, n) == output

\* What write(2) leaves of the output when it takes n units
Unwritten(output, n) == SubSeq(output, n + 1, Len(output))

\* flushAvailableOutput: as much as the kernel takes; a peer that left is
\* noticed by the failing write
Flush(fd) ==
    LET c      == Conn(fd)
        output == clients[fd].output
        n      == AtMost(Len(output), PipeCapacity - Len(down[c]))
    IN /\ IF c \in gone /\ output # <<>>
          THEN CloseClient(fd) /\ UNCHANGED down
          ELSE /\ down' = [down EXCEPT ![c] = @ \o SubSeq(output, 1, n)]
               /\ clients' = [clients EXCEPT ![fd] =
                    ClientState(c, @.input, Unwritten(output, n))]
               /\ IF step = "flush" /\ "out" \in events[fd]
                  THEN step' = "clients" /\ UNCHANGED events
                  ELSE Advance(fd)
               /\ UNCHANGED <<status, sessions>>
       /\ UNCHANGED <<backlog, peerVars, up, served, stopping>>

\* The last part of handleClientData
FlushAvailableOutput(fd) == step = "flush" /\ Flush(fd)

HandleClientWrite(fd) ==
    /\ step = "clients"
    /\ events[fd] = {"out"}
    /\ Flush(fd)

------------------------------------------------------------------------------

HandleClient(fd) ==
    \/ HangUp(fd)
    \/ ReadAvailableData(fd)
    \/ RefuseFrame(fd)
    \/ ServeFrame(fd)
    \/ AwaitInput(fd)
    \/ FlushAvailableOutput(fd)
    \/ HandleClientWrite(fd)

\* One thread, the main loop
Server ==
    \/ Poll
    \/ Finish
    \/ HandleNewConnection
    \/ \E fd \in DOMAIN events : Current(fd) /\ HandleClient(fd)

Peer(c) ==
    \/ Connect(c)
    \/ \E kind \in Kinds : BeginFrame(c, kind)
    \/ ContinueFrame(c)
    \/ PeerReads(c)
    \/ Leave(c)

Next == Server \/ StopServing \/ \E c \in Conns : Peer(c)

Spec == Init /\ [][Next]_vars

\* The loop is never left waiting, and a peer that stays reads its answers
FairSpec ==
    /\ Spec
    /\ WF_vars(Server)
    /\ \A c \in Conns : WF_vars(PeerReads(c))

------------------------------------------------------------------------------
(* Properties                                                              *)

Unit == [request : Nat \ {0}, kind : Kinds, header : BOOLEAN]
Client == [conn : Conns, input : Seq(Unit), output : Seq(Nat)]

\* The registry knows the owner of a session only by its descriptor.  Every
\* session belongs to the client that holds the descriptor now, and that
\* client opened it: nobody inherits a session with a descriptor
\* (socketManager.swift:353, server.swift:102).
SessionsOwned ==
    \A s \in sessions :
        s.ownerFd \in DOMAIN clients /\ Conn(s.ownerFd) = s.openedBy

TypeOK ==
    /\ status \in [Conns -> {"new", "waiting", "open", "closed"}]
    /\ backlog \in Seq(Conns)
    /\ gone \subseteq Conns
    /\ asked \in [Conns -> Seq(Kinds)]
    /\ rest \in [Conns -> Seq(Unit)]
    /\ up \in [Conns -> Seq(Unit)]
    /\ down \in [Conns -> Seq(Nat)]
    /\ \A c \in Conns : Len(down[c]) <= PipeCapacity
    /\ got \in [Conns -> Seq(Nat)]
    /\ DOMAIN clients \subseteq Fds
    /\ \A fd \in DOMAIN clients : clients[fd] \in Client
    /\ served \in [Conns -> Seq(Nat)]
    /\ sessions \subseteq [ownerFd : Fds, openedBy : Conns]
    /\ step \in {"poll", "accept", "clients", "frames", "flush", "stopped"}
    /\ stopping \in BOOLEAN

Ownership ==
    /\ \A fd \in DOMAIN clients : status[Conn(fd)] = "open"
    /\ \A fd1, fd2 \in DOMAIN clients : Conn(fd1) = Conn(fd2) => fd1 = fd2
    /\ \A i \in DOMAIN backlog : status[backlog[i]] = "waiting"
    /\ \A i, j \in DOMAIN backlog : backlog[i] = backlog[j] => i = j
    /\ SessionsOwned

Progress ==
    /\ step = "accept" => backlog # <<>>
    /\ step \in {"poll", "stopped"} => DOMAIN events = {}
    /\ DOMAIN events \subseteq DOMAIN clients
    /\ \A fd \in DOMAIN events : events[fd] \subseteq {"hangup", "in", "out"}

\* The connections and the descriptors fit together whatever order events
\* come in: an open connection has one descriptor, a waiting one stands once in
\* the backlog, and every entry of a poll snapshot that is still to be handled
\* is a client, never a descriptor closed earlier in the same iteration
\* (socketManager.swift:147, :186, :353).
SocketInv == TypeOK /\ Ownership /\ Progress

\* The addon pairs answers with requests by their order alone.  What a peer
\* has read, what is in the kernel and what is pending are the answers to its
\* requests, each once and in order, however writes were cut
\* (socketManager.swift:309, :316).
AnsweredInOrder ==
    /\ \A c \in Conns : \A n \in DOMAIN served[c] : served[c][n] = n
    /\ \A fd \in DOMAIN clients :
        LET c == Conn(fd)
            answers == got[c] \o down[c] \o clients[fd].output
        IN answers = [i \in 1 .. AnswerUnits * Len(served[c]) |-> i]

\* Answers the delegate gave and the peer has not read
Unread(c) == AnswerUnits * Len(served[c]) - Len(got[c])

Cause(c) ==
    \/ stopping
    \/ c \in gone
    \/ "tooLong" \in Range(asked[c])
    \/ "answerTooLong" \in Range(asked[c])
    \/ Unread(c)' > MaximumPending

\* A connection is closed because its own peer left, sent or caused something
\* too large or let its answers pile up, or because the server stops; it is
\* refused only when the limit is reached.  No event of another client, and no
\* snapshot entry gone stale, costs a peer its sessions
\* (socketManager.swift:186, :214).
ClosedForCause ==
    [][\A c \in Conns :
        /\ status[c] = "open" /\ status'[c] = "closed" => Cause(c)
        /\ status[c] = "waiting" /\ status'[c] = "closed" =>
            \/ stopping
            \/ Cardinality({d \in Conns : status[d] = "open"}) >= MaximumClients
      ]_vars

\* The peer has sent the n-th frame completely
Sent(c, n) == Len(asked[c]) > n \/ (Len(asked[c]) = n /\ rest[c] = <<>>)

\* Every whole frame is served or the connection is closed: no request waits
\* in a buffer for a byte that need not come, however the reads cut the stream
\* (socketManager.swift:284).
RequestsServed ==
    \A c \in Conns, n \in 1 .. MaxRequests :
        Sent(c, n) ~> (Len(served[c]) >= n \/ status[c] = "closed")

\* Every answer reaches a peer that goes on reading, although its buffer was
\* full when the answer was given (socketManager.swift:151).
AnswersDelivered ==
    \A c \in Conns, n \in 1 .. MaxRequests :
        Len(served[c]) >= n ~>
            (Len(got[c]) >= AnswerUnits * n \/ c \in gone \/ status[c] = "closed")

\* A peer that left is forgotten with all its sessions
\* (socketManager.swift:190).
LeaversForgotten ==
    \A c \in Conns :
        c \in gone ~> (status[c] = "closed" /\ \A s \in sessions : s.openedBy # c)
=============================================================================
