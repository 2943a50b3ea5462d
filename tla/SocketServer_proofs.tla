------------------------ MODULE SocketServer_proofs -------------------------
(***************************************************************************)
(* SocketInv, and with it SessionsOwned, the order of the answers and the  *)
(* causes for which a connection is closed, for any number of connections, *)
(* any set of descriptors and any capacity.                                *)
(***************************************************************************)
EXTENDS SocketServer, SequenceTheorems, FiniteSetTheorems, TLAPS

------------------------------------------------------------------------------
(* Facts about the data                                                    *)

\* The amount that is read or written exceeds neither bound.
LEMMA AtMostBounds ==
    ASSUME NEW m \in Nat, NEW n \in Nat
    PROVE  /\ AtMost(m, n) \in Nat
           /\ AtMost(m, n) <= m
           /\ AtMost(m, n) <= n
    BY DEF AtMost

\* What is taken from a sequence, and what is left of it.
LEMMA CutTypes ==
    ASSUME NEW S, NEW s \in Seq(S), NEW n \in Nat, n <= Len(s)
    PROVE  /\ SubSeq(s, 1, n) \in Seq(S)
           /\ Len(SubSeq(s, 1, n)) = n
           /\ SubSeq(s, n + 1, Len(s)) \in Seq(S)
<1>. Len(s) \in Nat
    BY LenProperties
<1>1. \A i \in 1 .. Len(s) : s[i] \in S
    BY ElementOfSeq
<1>. QED
    BY <1>1, SubSeqProperties

\* A frame is a sequence of units, and not an empty one.
LEMMA FrameType ==
    ASSUME NEW n \in Nat \ {0}, NEW kind \in Kinds
    PROVE  /\ Frame(n, kind) \in Seq(Unit) /\ Frame(n, kind) # <<>>
           /\ Head(Frame(n, kind)) \in Unit
           /\ Tail(Frame(n, kind)) \in Seq(Unit)
<1>1. FrameUnits(kind) \in {1, 2}
    BY DEF FrameUnits
<1>2. \A i \in 1 .. FrameUnits(kind) :
        [request |-> n, kind |-> kind, header |-> i = 1] \in Unit
    BY DEF Unit
<1>3. Frame(n, kind) \in Seq(Unit)
    BY <1>1, <1>2 DEF Frame
<1>4. Len(Frame(n, kind)) = FrameUnits(kind)
    BY <1>1 DEF Frame
<1>5. Frame(n, kind) # <<>>
    BY <1>1, <1>4
<1>. QED
    BY <1>3, <1>5, HeadTailProperties

\* An answer is a sequence of numbers.
LEMMA AnswerType ==
    ASSUME NEW n \in Nat \ {0}
    PROVE  Answer(n) \in Seq(Nat)
    BY DEF Answer, AnswerUnits

------------------------------------------------------------------------------
(* The initial states                                                      *)

\* The server starts with no client and no session.
LEMMA InitSocketInv == Init => SocketInv
<1>. SUFFICES ASSUME Init PROVE SocketInv
    OBVIOUS
<1>1. TypeOK
    <2>1. /\ up \in [Conns -> Seq(Unit)] /\ rest \in [Conns -> Seq(Unit)]
          /\ asked \in [Conns -> Seq(Kinds)] /\ backlog \in Seq(Conns)
          /\ down \in [Conns -> Seq(Nat)] /\ got \in [Conns -> Seq(Nat)]
          /\ served \in [Conns -> Seq(Nat)]
        BY DEF Init
    <2>2. \A c \in Conns : Len(down[c]) = 0
        BY DEF Init
    <2>3. /\ DOMAIN clients = {} /\ sessions = {} /\ gone = {}
          /\ status \in [Conns -> {"new", "waiting", "open", "closed"}]
          /\ step = "poll" /\ stopping = FALSE
        BY DEF Init
    <2>4. \A c \in Conns : Len(down[c]) <= PipeCapacity
        BY <2>2, SocketAssumption
    <2>5. /\ DOMAIN clients \subseteq Fds
          /\ \A fd \in DOMAIN clients : clients[fd] \in Client
          /\ sessions \subseteq [ownerFd : Fds, openedBy : Conns]
          /\ gone \subseteq Conns
        BY <2>3
    <2>. QED
        BY <2>1, <2>3, <2>4, <2>5 DEF TypeOK
<1>2. Ownership
    BY DEF Init, Ownership, SessionsOwned, Conn
<1>3. Progress
    BY DEF Init, Progress
<1>. QED
    BY <1>1, <1>2, <1>3 DEF SocketInv

------------------------------------------------------------------------------
(* The steps of the peers                                                  *)

\* What peers send and read, and a signal, change no client and no session.
LEMMA PeersKeepServer ==
    ASSUME SocketInv,
           UNCHANGED <<status, backlog, clients, sessions, step, events>>
    PROVE  Ownership' /\ Progress'
    BY DEF SocketInv, Ownership, Progress, SessionsOwned, Conn

\* A connection request joins the backlog once.
LEMMA ConnectStep ==
    ASSUME SocketInv, NEW c \in Conns, Connect(c)
    PROVE  SocketInv'
<1>1. /\ backlog \in Seq(Conns) /\ c \in Conns /\ status[c] = "new"
      /\ backlog' = Append(backlog, c)
      /\ status' = [status EXCEPT ![c] = "waiting"]
      /\ status \in [Conns -> {"new", "waiting", "open", "closed"}]
    BY DEF SocketInv, TypeOK, Connect
<1>2. /\ backlog' \in Seq(Conns)
      /\ DOMAIN backlog' = 1 .. Len(backlog) + 1
      /\ backlog'[Len(backlog) + 1] = c
      /\ \A i \in 1 .. Len(backlog) : backlog'[i] = backlog[i]
    BY <1>1, AppendProperties
<1>3. /\ Len(backlog) \in Nat /\ DOMAIN backlog = 1 .. Len(backlog)
      /\ \A i \in DOMAIN backlog : backlog[i] \in Conns
    BY <1>1, LenProperties, ElementOfSeq
<1>4. TypeOK'
    BY <1>1, <1>2 DEF SocketInv, TypeOK, Connect, peerVars, wires, serverVars
<1>5. /\ \A i \in DOMAIN backlog : status[backlog[i]] = "waiting"
      /\ \A i, j \in DOMAIN backlog : backlog[i] = backlog[j] => i = j
    BY DEF SocketInv, Ownership
<1>6. \A i \in DOMAIN backlog : backlog[i] # c
    BY <1>1, <1>5
<1>7. \A i \in DOMAIN backlog' : status'[backlog'[i]] = "waiting"
    BY <1>1, <1>2, <1>3, <1>5
<1>8. \A i, j \in DOMAIN backlog' : backlog'[i] = backlog'[j] => i = j
    BY <1>2, <1>3, <1>5, <1>6
<1>9. \A fd \in DOMAIN clients : status[Conn(fd)] = "open" /\ Conn(fd) \in Conns
    BY DEF SocketInv, Ownership, TypeOK, Client, Conn
<1>10. Ownership'
    <2>1. clients' = clients /\ sessions' = sessions
        BY DEF Connect, serverVars
    <2>2. \A fd \in DOMAIN clients : status'[Conn(fd)] = "open"
        BY <1>1, <1>9
    <2>. QED
        BY <1>7, <1>8, <2>1, <2>2
        DEF SocketInv, Ownership, SessionsOwned, Conn
<1>11. backlog' # <<>>
    BY <1>2, <1>3
<1>12. Progress'
    BY <1>11 DEF SocketInv, Progress, Connect, serverVars
<1>. QED
    BY <1>4, <1>10, <1>12 DEF SocketInv

\* The first unit of a frame, and the rest of it to be sent.
LEMMA BeginFrameStep ==
    ASSUME SocketInv, NEW c \in Conns, NEW kind \in Kinds, BeginFrame(c, kind)
    PROVE  SocketInv'
<1>. DEFINE n == Len(asked[c]) + 1
            frame == Frame(n, kind)
<1>1. /\ asked[c] \in Seq(Kinds) /\ up[c] \in Seq(Unit)
      /\ n \in Nat \ {0}
    BY LenProperties DEF SocketInv, TypeOK
<1>2. Head(frame) \in Unit /\ Tail(frame) \in Seq(Unit)
    BY <1>1, FrameType
<1>3. /\ up' = [up EXCEPT ![c] = Append(@, Head(frame))]
      /\ rest' = [rest EXCEPT ![c] = Tail(frame)]
      /\ asked' = [asked EXCEPT ![c] = Append(@, kind)]
    BY DEF BeginFrame
<1>4. Append(up[c], Head(frame)) \in Seq(Unit) /\ Append(asked[c], kind) \in Seq(Kinds)
    BY <1>1, <1>2, AppendProperties
<1>5. /\ up' \in [Conns -> Seq(Unit)] /\ rest' \in [Conns -> Seq(Unit)]
      /\ asked' \in [Conns -> Seq(Kinds)]
    BY <1>2, <1>3, <1>4 DEF SocketInv, TypeOK
<1>6. TypeOK'
    BY <1>5 DEF SocketInv, TypeOK, BeginFrame, serverVars
<1>7. Ownership' /\ Progress'
    BY PeersKeepServer DEF BeginFrame, serverVars
<1>. QED
    BY <1>6, <1>7 DEF SocketInv

\* A further unit of the frame.
LEMMA ContinueFrameStep ==
    ASSUME SocketInv, NEW c \in Conns, ContinueFrame(c)
    PROVE  SocketInv'
<1>1. rest[c] \in Seq(Unit) /\ up[c] \in Seq(Unit) /\ rest[c] # <<>>
    BY DEF SocketInv, TypeOK, ContinueFrame
<1>2. Head(rest[c]) \in Unit /\ Tail(rest[c]) \in Seq(Unit)
    BY <1>1, HeadTailProperties
<1>3. Append(up[c], Head(rest[c])) \in Seq(Unit)
    BY <1>1, <1>2, AppendProperties
<1>4. up' \in [Conns -> Seq(Unit)] /\ rest' \in [Conns -> Seq(Unit)]
    BY <1>2, <1>3 DEF SocketInv, TypeOK, ContinueFrame
<1>5. TypeOK'
    BY <1>4 DEF SocketInv, TypeOK, ContinueFrame, serverVars
<1>6. Ownership' /\ Progress'
    BY PeersKeepServer DEF ContinueFrame, serverVars
<1>. QED
    BY <1>5, <1>6 DEF SocketInv

\* Reading makes room in the kernel's buffer.
LEMMA PeerReadsStep ==
    ASSUME SocketInv, NEW c \in Conns, PeerReads(c)
    PROVE  SocketInv'
<1>1. down[c] \in Seq(Nat) /\ got[c] \in Seq(Nat) /\ down[c] # <<>>
    BY DEF SocketInv, TypeOK, PeerReads
<1>2. /\ Head(down[c]) \in Nat /\ Tail(down[c]) \in Seq(Nat)
      /\ Len(Tail(down[c])) = Len(down[c]) - 1 /\ Len(down[c]) \in Nat
    BY <1>1, HeadTailProperties, LenProperties
<1>3. Append(got[c], Head(down[c])) \in Seq(Nat)
    BY <1>1, <1>2, AppendProperties
<1>4. /\ down' = [down EXCEPT ![c] = Tail(down[c])]
      /\ got' = [got EXCEPT ![c] = Append(got[c], Head(down[c]))]
    BY DEF PeerReads
<1>5. down' \in [Conns -> Seq(Nat)] /\ got' \in [Conns -> Seq(Nat)]
    BY <1>2, <1>3, <1>4 DEF SocketInv, TypeOK
<1>6. \A d \in Conns : Len(down'[d]) <= PipeCapacity
    BY <1>2, <1>4, SocketAssumption DEF SocketInv, TypeOK
<1>7. TypeOK'
    BY <1>5, <1>6 DEF SocketInv, TypeOK, PeerReads, serverVars
<1>8. Ownership' /\ Progress'
    BY PeersKeepServer DEF PeerReads, serverVars
<1>. QED
    BY <1>7, <1>8 DEF SocketInv

\* Leaving, and a signal.
LEMMA LeaveStep ==
    ASSUME SocketInv, NEW c \in Conns, Leave(c)
    PROVE  SocketInv'
<1>1. TypeOK'
    BY DEF SocketInv, TypeOK, Leave, serverVars, wires
<1>2. Ownership' /\ Progress'
    BY PeersKeepServer DEF Leave, serverVars
<1>. QED
    BY <1>1, <1>2 DEF SocketInv

\* A signal only sets the flag that the loop reads.
LEMMA StopServingStep == SocketInv /\ StopServing => SocketInv'
<1>. SUFFICES ASSUME SocketInv, StopServing PROVE SocketInv'
    OBVIOUS
<1>1. TypeOK'
    BY DEF SocketInv, TypeOK, StopServing, serverVars, wires, peerVars
<1>2. Ownership' /\ Progress'
    BY PeersKeepServer DEF StopServing, serverVars
<1>. QED
    BY <1>1, <1>2 DEF SocketInv

------------------------------------------------------------------------------
(* The steps of the server                                                 *)

\* The snapshot has entries for clients only.
LEMMA PollStep == SocketInv /\ Poll => SocketInv'
<1>. SUFFICES ASSUME SocketInv, Poll PROVE SocketInv'
    OBVIOUS
<1>1. /\ step' \in {"accept", "clients"}
      /\ step' = "accept" => backlog # <<>>
      /\ DOMAIN events' = Ready
      /\ \A fd \in Ready : events'[fd] = Revents(fd)
    BY DEF Poll
<1>2. \A fd \in Ready : fd \in DOMAIN clients /\ Revents(fd) \subseteq {"hangup", "in", "out"}
    BY DEF Ready, Revents
<1>3. TypeOK'
    BY <1>1 DEF SocketInv, TypeOK, Poll, peerVars, wires
<1>4. Ownership'
    BY DEF SocketInv, Ownership, SessionsOwned, Conn, Poll
<1>5. Progress'
    BY <1>1, <1>2 DEF Progress, Poll
<1>. QED
    BY <1>3, <1>4, <1>5 DEF SocketInv

\* Nothing is left when the server has stopped.
LEMMA FinishStep == SocketInv /\ Finish => SocketInv'
<1>. SUFFICES ASSUME SocketInv, Finish PROVE SocketInv'
    OBVIOUS
<1>1. /\ DOMAIN clients' = {} /\ sessions' = {} /\ backlog' = <<>>
      /\ step = "poll" /\ step' = "stopped" /\ events' = events
      /\ status' \in [Conns -> {"new", "waiting", "open", "closed"}]
    BY DEF Finish, Restrict
<1>2. TypeOK'
    <2>1. backlog' \in Seq(Conns)
        BY <1>1
    <2>2. /\ DOMAIN clients' \subseteq Fds
          /\ \A fd \in DOMAIN clients' : clients'[fd] \in Client
          /\ sessions' \subseteq [ownerFd : Fds, openedBy : Conns]
        BY <1>1
    <2>. QED
        BY <1>1, <2>1, <2>2 DEF SocketInv, TypeOK, Finish, peerVars, wires
<1>3. Ownership'
    BY <1>1 DEF Ownership, SessionsOwned, Conn
<1>4. Progress'
    BY <1>1 DEF SocketInv, Progress
<1>. QED
    BY <1>2, <1>3, <1>4 DEF SocketInv

\* The oldest connection gets a descriptor that no client has, or is refused.
LEMMA HandleNewConnectionStep == SocketInv /\ HandleNewConnection => SocketInv'
<1>. SUFFICES ASSUME SocketInv, HandleNewConnection PROVE SocketInv'
    OBVIOUS
<1>. DEFINE c == Head(backlog)
<1>1. /\ backlog \in Seq(Conns) /\ backlog # <<>>
      /\ step = "accept" /\ backlog' = Tail(backlog)
      /\ \A i \in DOMAIN backlog : status[backlog[i]] = "waiting"
      /\ \A i, j \in DOMAIN backlog : backlog[i] = backlog[j] => i = j
    BY DEF SocketInv, TypeOK, Ownership, Progress, HandleNewConnection
<1>2. /\ c \in Conns /\ c = backlog[1] /\ 1 \in DOMAIN backlog
      /\ Tail(backlog) \in Seq(Conns)
      /\ \A i \in DOMAIN Tail(backlog) :
            i + 1 \in DOMAIN backlog /\ Tail(backlog)[i] = backlog[i + 1]
                                     /\ i \in Nat \ {0}
    BY <1>1, HeadTailProperties, LenProperties
<1>3. \A i \in DOMAIN backlog' :
        backlog'[i] # c /\ status[backlog'[i]] = "waiting" /\ backlog'[i] \in Conns
    BY <1>1, <1>2, ElementOfSeq
<1>4. \A i, j \in DOMAIN backlog' : backlog'[i] = backlog'[j] => i = j
    BY <1>1, <1>2
<1>5. \A fd \in DOMAIN clients :
        /\ clients[fd] \in Client /\ Conn(fd) \in Conns
        /\ status[Conn(fd)] = "open" /\ Conn(fd) # c
    BY <1>1, <1>2 DEF SocketInv, Ownership, TypeOK, Client, Conn
<1>6. /\ sessions' = sessions /\ events' = events /\ step' \in {"poll", "clients"}
      /\ step' = "poll" <=> DOMAIN events = {}
    BY DEF HandleNewConnection
<1>7. CASE Cardinality(DOMAIN clients) < MaximumClients
    <2>1. PICK fd \in Fds \ DOMAIN clients :
            /\ clients' = [f \in DOMAIN clients \cup {fd} |->
                  IF f = fd THEN ClientState(c, <<>>, <<>>) ELSE clients[f]]
            /\ status' = [status EXCEPT ![c] = "open"]
        BY <1>7 DEF HandleNewConnection
    <2>2. ClientState(c, <<>>, <<>>) \in Client /\ ClientState(c, <<>>, <<>>).conn = c
        BY <1>2 DEF ClientState, Client
    <2>3. /\ DOMAIN clients' = DOMAIN clients \cup {fd} /\ clients'[fd].conn = c
          /\ clients'[fd] \in Client
          /\ \A f \in DOMAIN clients : clients'[f] = clients[f] /\ f # fd
        BY <2>1, <2>2
    <2>4. status' \in [Conns -> {"new", "waiting", "open", "closed"}]
        BY <2>1, <1>2 DEF SocketInv, TypeOK
    <2>5. TypeOK'
        <3>1. /\ DOMAIN clients' \subseteq Fds
              /\ \A f \in DOMAIN clients' : clients'[f] \in Client
            BY <2>3, <1>5 DEF SocketInv, TypeOK
        <3>. QED
            BY <3>1, <2>4, <1>1, <1>2, <1>6
            DEF SocketInv, TypeOK, HandleNewConnection, peerVars, wires
    <2>6. \A f \in DOMAIN clients' : status'[clients'[f].conn] = "open"
        BY <1>2, <1>5, <2>1, <2>3 DEF Conn, SocketInv, TypeOK
    <2>7. \A f, g \in DOMAIN clients' : clients'[f].conn = clients'[g].conn => f = g
        BY <1>5, <2>3 DEF Conn, SocketInv, Ownership
    <2>8. \A i \in DOMAIN backlog' : status'[backlog'[i]] = "waiting"
        BY <1>3, <2>1 DEF SocketInv, TypeOK
    <2>9. SessionsOwned'
        BY <1>6, <2>3 DEF SocketInv, Ownership, SessionsOwned, Conn
    <2>10. Ownership'
        BY <1>4, <2>6, <2>7, <2>8, <2>9 DEF Ownership, Conn
    <2>11. Progress'
        BY <1>6, <2>3 DEF SocketInv, Progress
    <2>. QED
        BY <2>5, <2>10, <2>11 DEF SocketInv
<1>8. CASE ~ (Cardinality(DOMAIN clients) < MaximumClients)
    <2>1. clients' = clients /\ status' = [status EXCEPT ![c] = "closed"]
        BY <1>8 DEF HandleNewConnection
    <2>2. status' \in [Conns -> {"new", "waiting", "open", "closed"}]
        BY <2>1, <1>2 DEF SocketInv, TypeOK
    <2>3. TypeOK'
        BY <2>1, <2>2, <1>1, <1>2, <1>6
        DEF SocketInv, TypeOK, HandleNewConnection, peerVars, wires
    <2>4. \A f \in DOMAIN clients : status'[Conn(f)] = "open"
        BY <1>5, <2>1 DEF SocketInv, TypeOK
    <2>5. \A i \in DOMAIN backlog' : status'[backlog'[i]] = "waiting"
        BY <1>3, <2>1 DEF SocketInv, TypeOK
    <2>6. Ownership'
        BY <1>4, <1>6, <2>1, <2>4, <2>5 DEF SocketInv, Ownership, SessionsOwned, Conn
    <2>7. Progress'
        BY <1>6, <2>1 DEF SocketInv, Progress
    <2>. QED
        BY <2>3, <2>6, <2>7 DEF SocketInv
<1>. QED
    BY <1>7, <1>8

\* The state of the server's own variables after a step for one client.
ServerState ==
    /\ status \in [Conns -> {"new", "waiting", "open", "closed"}]
    /\ DOMAIN clients \subseteq Fds
    /\ \A fd \in DOMAIN clients : clients[fd] \in Client
    /\ sessions \subseteq [ownerFd : Fds, openedBy : Conns]
    /\ step \in {"poll", "accept", "clients", "frames", "flush", "stopped"}
    /\ Ownership
    /\ Progress

\* A closed client takes its descriptor, its sessions and its entry with it.
LEMMA CloseClientStep ==
    ASSUME SocketInv, NEW fd \in DOMAIN events, CloseClient(fd), backlog' = backlog
    PROVE  ServerState'
<1>1. /\ DOMAIN clients' = DOMAIN clients \ {fd}
      /\ \A f \in DOMAIN clients' : clients'[f] = clients[f]
      /\ status' = [status EXCEPT ![Conn(fd)] = "closed"]
      /\ sessions' = {s \in sessions : s.ownerFd # fd}
      /\ DOMAIN events' = DOMAIN events \ {fd}
      /\ \A f \in DOMAIN events' : events'[f] = events[f]
      /\ step' \in {"poll", "clients"}
      /\ step' = "poll" => DOMAIN events' = {}
    BY DEF CloseClient, Advance, Restrict
<1>2. /\ fd \in DOMAIN clients
      /\ \A f \in DOMAIN clients : /\ clients[f] \in Client /\ Conn(f) \in Conns
                                   /\ status[Conn(f)] = "open"
                                   /\ Conn(f) = Conn(fd) => f = fd
      /\ \A i \in DOMAIN backlog : status[backlog[i]] = "waiting" /\ backlog[i] \in Conns
  <2>1. fd \in DOMAIN clients
    BY DEF SocketInv, Progress
  <2>2. \A f \in DOMAIN clients : clients[f] \in Client /\ Conn(f) \in Conns
    BY DEF SocketInv, TypeOK, Client, Conn
  <2>3. \A f \in DOMAIN clients : status[Conn(f)] = "open" /\ (Conn(f) = Conn(fd) => f = fd)
    BY <2>1 DEF SocketInv, Ownership, Conn
  <2>4. \A i \in DOMAIN backlog : backlog[i] \in Conns
    BY ElementOfSeq, LenProperties DEF SocketInv, TypeOK
  <2>5. \A i \in DOMAIN backlog : status[backlog[i]] = "waiting"
    BY DEF SocketInv, Ownership
  <2> QED BY <2>1, <2>2, <2>3, <2>4, <2>5
<1>3. /\ status' \in [Conns -> {"new", "waiting", "open", "closed"}]
      /\ \A f \in DOMAIN clients' : status'[clients'[f].conn] = "open"
      /\ \A i \in DOMAIN backlog : status'[backlog[i]] = "waiting"
    BY <1>1, <1>2 DEF SocketInv, TypeOK, Conn
<1>4. \A f, g \in DOMAIN clients' : clients'[f].conn = clients'[g].conn => f = g
    BY <1>1 DEF SocketInv, Ownership, Conn
<1>5. SessionsOwned'
    BY <1>1 DEF SocketInv, Ownership, SessionsOwned, Conn
<1>6. Ownership'
    BY <1>3, <1>4, <1>5 DEF SocketInv, Ownership, Conn
<1>7. Progress'
    BY <1>1 DEF SocketInv, Progress
<1>8. /\ DOMAIN clients' \subseteq Fds
      /\ \A f \in DOMAIN clients' : clients'[f] \in Client
      /\ sessions' \subseteq [ownerFd : Fds, openedBy : Conns]
    BY <1>1, <1>2 DEF SocketInv, TypeOK
<1>. QED
    BY <1>1, <1>3, <1>6, <1>7, <1>8 DEF ServerState

\* A client that changes its buffers, and perhaps opens a session, stays the
\* same connection.
LEMMA UpdateClientStep ==
    ASSUME SocketInv, NEW fd \in DOMAIN events, NEW x \in Client,
           x.conn = Conn(fd),
           clients' = [clients EXCEPT ![fd] = x],
           status' = status, backlog' = backlog,
           sessions' \subseteq
               sessions \cup {[ownerFd |-> fd, openedBy |-> Conn(fd)]},
           step' \in {"poll", "clients", "frames", "flush"},
           Progress'
    PROVE  ServerState'
<1>1. /\ fd \in DOMAIN clients /\ fd \in Fds /\ Conn(fd) \in Conns
      /\ DOMAIN clients' = DOMAIN clients
      /\ clients'[fd] = x
      /\ \A f \in DOMAIN clients : clients'[f].conn = clients[f].conn
      /\ \A f \in DOMAIN clients : clients'[f] \in Client
    BY DEF SocketInv, TypeOK, Progress, Client, Conn
<1>2. sessions' \subseteq [ownerFd : Fds, openedBy : Conns]
    BY <1>1 DEF SocketInv, TypeOK
<1>3. SessionsOwned'
    BY <1>1 DEF SocketInv, Ownership, SessionsOwned, Conn
<1>4. Ownership'
    BY <1>1, <1>3 DEF SocketInv, Ownership, Conn
<1>. QED
    BY <1>1, <1>2, <1>4 DEF SocketInv, TypeOK, ServerState

\* The snapshot goes on without the entry that was handled.
LEMMA AdvanceStep ==
    ASSUME SocketInv, NEW fd \in DOMAIN events, Advance(fd),
           DOMAIN clients' = DOMAIN clients
    PROVE  Progress' /\ step' \in {"poll", "clients"}
    BY DEF SocketInv, Progress, Advance, Restrict

\* The server's part and the rest give the invariant.
LEMMA Assemble ==
    ASSUME SocketInv, ServerState',
           UNCHANGED <<backlog, peerVars, stopping>>,
           up' \in [Conns -> Seq(Unit)],
           down' \in [Conns -> Seq(Nat)],
           \A c \in Conns : Len(down'[c]) <= PipeCapacity,
           served' \in [Conns -> Seq(Nat)]
    PROVE  SocketInv'
    BY DEF SocketInv, TypeOK, ServerState, peerVars

\* closeClient as the whole of a step.
LEMMA ClosingStep ==
    ASSUME SocketInv, NEW fd \in DOMAIN events, CloseClient(fd),
           UNCHANGED <<backlog, peerVars, down, stopping>>,
           up' \in [Conns -> Seq(Unit)], served' \in [Conns -> Seq(Nat)]
    PROVE  SocketInv'
<1>1. ServerState'
    BY CloseClientStep
<1>2. down' \in [Conns -> Seq(Nat)] /\ \A c \in Conns : Len(down'[c]) <= PipeCapacity
    BY DEF SocketInv, TypeOK
<1>. QED
    BY <1>1, <1>2, Assemble

\* What a step may assume of the client whose entry it handles.
LEMMA CurrentClient ==
    ASSUME SocketInv, NEW fd \in DOMAIN events
    PROVE  /\ fd \in DOMAIN clients /\ clients[fd] \in Client
           /\ Conn(fd) \in Conns /\ Conn(fd) = clients[fd].conn
           /\ clients[fd].input \in Seq(Unit)
           /\ clients[fd].output \in Seq(Nat)
           /\ step \notin {"poll", "stopped"}
           /\ up[Conn(fd)] \in Seq(Unit)
           /\ down[Conn(fd)] \in Seq(Nat)
           /\ served[Conn(fd)] \in Seq(Nat)
    BY DEF SocketInv, TypeOK, Progress, Client, Conn

\* The peer hung up.
LEMMA HangUpStep ==
    ASSUME SocketInv, NEW fd \in DOMAIN events, HangUp(fd)
    PROVE  SocketInv'
    BY ClosingStep DEF HangUp, wires, SocketInv, TypeOK

\* The announced frame is too large.
LEMMA RefuseFrameStep ==
    ASSUME SocketInv, NEW fd \in DOMAIN events, RefuseFrame(fd)
    PROVE  SocketInv'
    BY ClosingStep DEF RefuseFrame, wires, SocketInv, TypeOK

\* The input holds no whole frame.
LEMMA AwaitInputStep ==
    ASSUME SocketInv, NEW fd \in DOMAIN events, AwaitInput(fd)
    PROVE  SocketInv'
<1>1. TypeOK'
    BY DEF SocketInv, TypeOK, AwaitInput, wires, peerVars
<1>2. Ownership'
    BY DEF SocketInv, Ownership, SessionsOwned, Conn, AwaitInput
<1>3. Progress'
    BY DEF SocketInv, Progress, AwaitInput
<1>. QED
    BY <1>1, <1>2, <1>3 DEF SocketInv

\* Units move from the kernel's buffer to the input.
LEMMA ReadAvailableDataStep ==
    ASSUME SocketInv, NEW fd \in DOMAIN events, ReadAvailableData(fd)
    PROVE  SocketInv'
<1>. DEFINE c == Conn(fd)
            n == AtMost(Len(up[c]), MaximumRead)
            x == ClientState(c, clients[fd].input \o SubSeq(up[c], 1, n),
                             clients[fd].output)
<1>1. up[c] \in Seq(Unit) /\ c \in Conns /\ clients[fd].input \in Seq(Unit)
      /\ clients[fd].output \in Seq(Nat) /\ fd \in DOMAIN clients
    BY CurrentClient
<1>2. n \in Nat /\ n <= Len(up[c])
    BY <1>1, AtMostBounds, LenProperties, SocketAssumption
<1>3. /\ SubSeq(up[c], 1, n) \in Seq(Unit)
      /\ SubSeq(up[c], n + 1, Len(up[c])) \in Seq(Unit)
    BY <1>1, <1>2, CutTypes
<1>4. /\ up' = [up EXCEPT ![c] = SubSeq(up[c], n + 1, Len(up[c]))]
      /\ UNCHANGED <<backlog, peerVars, down, served, stopping>>
    BY DEF ReadAvailableData
<1>5. up' \in [Conns -> Seq(Unit)] /\ served' \in [Conns -> Seq(Nat)]
    BY <1>3, <1>4 DEF SocketInv, TypeOK
<1>6. CASE EndOfStream(c, n)
    <2>1. CloseClient(fd)
        BY <1>6 DEF ReadAvailableData
    <2>. QED
        BY <1>4, <1>5, <2>1, ClosingStep
<1>7. CASE ~EndOfStream(c, n)
    <2>1. /\ clients' = [clients EXCEPT ![fd] = x]
          /\ events' = [events EXCEPT ![fd] = @ \ {"in"}]
          /\ step' = "frames"
          /\ status' = status /\ sessions' = sessions
        BY <1>7 DEF ReadAvailableData
    <2>2. clients[fd].input \o SubSeq(up[c], 1, n) \in Seq(Unit)
        BY <1>1, <1>3, ConcatProperties
    <2>3. x \in Client /\ x.conn = c
        BY <1>1, <2>2 DEF ClientState, Client
    <2>4. Progress'
        BY <2>1 DEF SocketInv, Progress
    <2>5. ServerState'
        BY <1>4, <2>1, <2>3, <2>4, UpdateClientStep
    <2>6. down' \in [Conns -> Seq(Nat)] /\ \A d \in Conns : Len(down'[d]) <= PipeCapacity
        BY <1>4 DEF SocketInv, TypeOK
    <2>. QED
        BY <1>4, <1>5, <2>5, <2>6, Assemble
<1>. QED
    BY <1>6, <1>7

\* One frame moves from the input to the answers.
LEMMA ServeFrameStep ==
    ASSUME SocketInv, NEW fd \in DOMAIN events, ServeFrame(fd)
    PROVE  SocketInv'
<1>. DEFINE c      == Conn(fd)
            input  == clients[fd].input
            frame  == Head(input)
            size   == FrameUnits(frame.kind)
            output == clients[fd].output \o Answer(frame.request)
            x      == ClientState(c, SubSeq(input, size + 1, Len(input)), output)
<1>1. /\ c \in Conns /\ c = clients[fd].conn /\ fd \in DOMAIN clients
      /\ input \in Seq(Unit) /\ clients[fd].output \in Seq(Nat)
      /\ served[c] \in Seq(Nat)
    BY CurrentClient
<1>2. input # <<>> /\ Len(input) >= FrameUnits(input[1].kind)
    BY DEF ServeFrame, WholeFrame
<1>3. frame \in Unit /\ frame = input[1]
    BY <1>1, <1>2, HeadTailProperties
<1>4. frame.request \in Nat \ {0}
    BY <1>3 DEF Unit
<1>5. size \in Nat /\ size <= Len(input)
    BY <1>2, <1>3 DEF FrameUnits
<1>6. SubSeq(input, size + 1, Len(input)) \in Seq(Unit)
    BY <1>1, <1>5, CutTypes
<1>7. output \in Seq(Nat)
    BY <1>1, <1>4, AnswerType, ConcatProperties
<1>8. Append(served[c], frame.request) \in Seq(Nat)
    BY <1>1, <1>4, AppendProperties
<1>9. /\ served' = [served EXCEPT ![c] = Append(served[c], frame.request)]
      /\ UNCHANGED <<backlog, peerVars, up, down, stopping>>
    BY <1>1 DEF ServeFrame, wires
<1>10. /\ served' \in [Conns -> Seq(Nat)] /\ up' \in [Conns -> Seq(Unit)]
       /\ down' \in [Conns -> Seq(Nat)]
       /\ \A d \in Conns : Len(down'[d]) <= PipeCapacity
    BY <1>8, <1>9 DEF SocketInv, TypeOK
<1>11. CASE frame.kind = "answerTooLong" \/ Len(output) > MaximumPending
    <2>1. CloseClient(fd)
        BY <1>11 DEF ServeFrame
    <2>. QED
        BY <1>9, <1>10, <2>1, ClosingStep
<1>12. CASE ~ (frame.kind = "answerTooLong" \/ Len(output) > MaximumPending)
    <2>1. /\ clients' = [clients EXCEPT ![fd] = x]
          /\ sessions' = sessions \cup
                {s \in {[ownerFd |-> fd, openedBy |-> c]} : frame.kind = "opens"}
          /\ status' = status /\ events' = events /\ step' = step
          /\ step = "frames"
        BY <1>1, <1>12 DEF ServeFrame
    <2>2. x \in Client /\ x.conn = c
        BY <1>1, <1>6, <1>7 DEF ClientState, Client
    <2>3. Progress'
        BY <2>1 DEF SocketInv, Progress
    <2>4. sessions' \subseteq sessions \cup {[ownerFd |-> fd, openedBy |-> Conn(fd)]}
        BY <2>1
    <2>5. ServerState'
        BY <1>9, <2>1, <2>2, <2>3, <2>4, UpdateClientStep
    <2>. QED
        BY <1>9, <1>10, <2>5, Assemble
<1>. QED
    BY <1>11, <1>12

\* Units move from the output to the kernel's buffer.
LEMMA FlushStep ==
    ASSUME SocketInv, NEW fd \in DOMAIN events, Flush(fd),
           step \in {"clients", "flush"}
    PROVE  SocketInv'
<1>. DEFINE c      == Conn(fd)
            output == clients[fd].output
            room   == PipeCapacity - Len(down[c])
            n      == AtMost(Len(output), room)
            x      == ClientState(c, clients[fd].input, Unwritten(output, n))
<1>1. /\ c \in Conns /\ fd \in DOMAIN clients
      /\ clients[fd].input \in Seq(Unit) /\ output \in Seq(Nat)
      /\ down[c] \in Seq(Nat) /\ Len(down[c]) <= PipeCapacity
    BY CurrentClient DEF SocketInv, TypeOK
<1>2. room \in Nat /\ Len(output) \in Nat /\ Len(down[c]) \in Nat
    BY <1>1, LenProperties, SocketAssumption
<1>3. n \in Nat /\ n <= Len(output) /\ n <= room
    BY <1>2, AtMostBounds
<1>4. /\ SubSeq(output, 1, n) \in Seq(Nat) /\ Len(SubSeq(output, 1, n)) = n
      /\ Unwritten(output, n) \in Seq(Nat)
    BY <1>1, <1>3, CutTypes DEF Unwritten
<1>5. /\ UNCHANGED <<backlog, peerVars, up, served, stopping>>
      /\ up' \in [Conns -> Seq(Unit)] /\ served' \in [Conns -> Seq(Nat)]
    BY DEF Flush, SocketInv, TypeOK
<1>6. CASE c \in gone /\ output # <<>>
    <2>1. CloseClient(fd) /\ down' = down
        BY <1>6 DEF Flush
    <2>. QED
        BY <1>5, <2>1, ClosingStep
<1>7. CASE ~ (c \in gone /\ output # <<>>)
    <2>1. /\ down' = [down EXCEPT ![c] = down[c] \o SubSeq(output, 1, n)]
          /\ clients' = [clients EXCEPT ![fd] = x]
          /\ \/ step = "flush" /\ step' = "clients" /\ events' = events
             \/ Advance(fd)
          /\ status' = status /\ sessions' = sessions
        BY <1>7 DEF Flush
    <2>2. /\ down[c] \o SubSeq(output, 1, n) \in Seq(Nat)
          /\ Len(down[c] \o SubSeq(output, 1, n)) = Len(down[c]) + n
        BY <1>1, <1>4, ConcatProperties
    <2>3. /\ down' \in [Conns -> Seq(Nat)]
          /\ \A d \in Conns : Len(down'[d]) <= PipeCapacity
        <3>1. Len(down[c]) + n <= PipeCapacity
            BY <1>2, <1>3, SocketAssumption
        <3>2. down' \in [Conns -> Seq(Nat)]
            BY <2>1, <2>2 DEF SocketInv, TypeOK
        <3>3. \A d \in Conns : d # c => Len(down'[d]) <= PipeCapacity
            BY <2>1 DEF SocketInv, TypeOK
        <3>4. down'[c] = down[c] \o SubSeq(output, 1, n)
            BY <1>1, <2>1 DEF SocketInv, TypeOK
        <3>. QED
            BY <2>2, <3>1, <3>2, <3>3, <3>4
    <2>4. x \in Client /\ x.conn = c
        BY <1>1, <1>4 DEF ClientState, Client
    <2>5. Progress' /\ step' \in {"poll", "clients"}
        <3>1. DOMAIN clients' = DOMAIN clients
            BY <2>1
        <3>2. CASE Advance(fd)
            BY <3>1, <3>2, AdvanceStep
        <3>3. CASE step = "flush" /\ step' = "clients" /\ events' = events
            BY <3>1, <3>3 DEF SocketInv, Progress
        <3>. QED
            BY <2>1, <3>2, <3>3
    <2>6. ServerState'
        BY <1>5, <2>1, <2>4, <2>5, UpdateClientStep
    <2>. QED
        BY <1>5, <2>3, <2>6, Assemble
<1>. QED
    BY <1>6, <1>7

------------------------------------------------------------------------------

\* SocketInv holds in every reachable state: whatever peers do and whenever
\* the snapshot goes stale, descriptors, connections, backlog and sessions fit
\* together (socketManager.swift:136-206).
THEOREM SocketCorrect == Spec => []SocketInv
<1>1. SocketInv /\ [Next]_vars => SocketInv'
    <2>. SUFFICES ASSUME SocketInv, [Next]_vars PROVE SocketInv'
        OBVIOUS
    <2>1. CASE \E c \in Conns : Peer(c)
        BY <2>1, ConnectStep, BeginFrameStep, ContinueFrameStep, PeerReadsStep,
           LeaveStep
        DEF Peer
    <2>2. CASE StopServing
        BY <2>2, StopServingStep
    <2>3. CASE Poll
        BY <2>3, PollStep
    <2>4. CASE Finish
        BY <2>4, FinishStep
    <2>5. CASE HandleNewConnection
        BY <2>5, HandleNewConnectionStep
    <2>6. CASE \E fd \in DOMAIN events : Current(fd) /\ HandleClient(fd)
        <3>1. PICK fd \in DOMAIN events : HandleClient(fd)
            BY <2>6
        <3>. QED
            BY <3>1, HangUpStep, ReadAvailableDataStep, RefuseFrameStep,
               ServeFrameStep, AwaitInputStep, FlushStep
            DEF HandleClient, FlushAvailableOutput, HandleClientWrite
    <2>7. CASE UNCHANGED vars
        <3>1. TypeOK'
            BY <2>7 DEF vars, SocketInv, TypeOK
        <3>2. Ownership'
            BY <2>7 DEF vars, SocketInv, Ownership, SessionsOwned, Conn
        <3>3. Progress'
            BY <2>7 DEF vars, SocketInv, Progress
        <3>. QED
            BY <3>1, <3>2, <3>3 DEF SocketInv
    <2>. QED
        BY <2>1, <2>2, <2>3, <2>4, <2>5, <2>6, <2>7 DEF Next, Server
<1>. QED
    BY <1>1, InitSocketInv, PTL DEF Spec

\* No client ever holds a descriptor that owns a session of another one, and
\* no session outlives its client (socketManager.swift:353, server.swift:102).
THEOREM SessionsAlwaysOwned == Spec => []SessionsOwned
<1>1. SocketInv => SessionsOwned
    BY DEF SocketInv, Ownership
<1>. QED
    BY <1>1, SocketCorrect, PTL

------------------------------------------------------------------------------
(* The streams of a connection                                             *)

\* The unit after the i-th: the body of the same frame, or the next header
Follows(seq, i) ==
    IF seq[i].header /\ FrameUnits(seq[i].kind) = 2
    THEN /\ i < Len(seq)
         /\ ~seq[i + 1].header
         /\ seq[i + 1].request = seq[i].request
    ELSE i < Len(seq) =>
            /\ seq[i + 1].header
            /\ seq[i + 1].request = seq[i].request + 1

\* The units are whole frames, from the one with the number first to the last
\* that was asked for
Numbered(seq, first, kinds) ==
    /\ \A i \in 1 .. Len(seq) :
        /\ seq[i].request \in 1 .. Len(kinds)
        /\ seq[i].kind = kinds[seq[i].request]
        /\ Follows(seq, i)
    /\ seq = <<>> => first = Len(kinds) + 1
    /\ seq # <<>> =>
        /\ seq[1].header /\ seq[1].request = first
        /\ seq[Len(seq)].request = Len(kinds)

\* The first n units of the answers
Count(n) == [i \in 1 .. AnswerUnits * n |-> i]

\* Three sequences are joined in either grouping
Regroups(a, b, d) == (a \o b) \o d = a \o (b \o d)

LEMMA Regroup ==
    ASSUME NEW S, NEW a \in Seq(S), NEW b \in Seq(S), NEW d \in Seq(S)
    PROVE  Regroups(a, b, d)
BY ConcatAssociative DEF Regroups

\* What was taken from the front of one sequence and put behind another.
LEMMA MoveHead ==
    ASSUME NEW S, NEW a \in Seq(S), NEW b \in Seq(S), b # <<>>
    PROVE  Append(a, Head(b)) \o Tail(b) = a \o b
<1>1. Head(b) \in S /\ Tail(b) \in Seq(S) /\ <<Head(b)>> \in Seq(S)
    BY HeadTailProperties
<1>2. Len(b) \in Nat \ {0} /\ Head(b) = b[1] /\ Tail(b) = SubSeq(b, 2, Len(b))
    BY EmptySeq, TailIsSubSeq
<1>3. SubSeq(b, 1, Len(b)) = <<b[1]>> \o SubSeq(b, 1 + 1, Len(b))
    BY <1>2, SubSeqRecursiveFirst
<1>4. <<Head(b)>> \o Tail(b) = b
    BY <1>2, <1>3, SubSeqFull
<1>5. Append(a, Head(b)) = a \o <<Head(b)>>
    BY <1>1, AppendIsConcat
<1>6. (a \o <<Head(b)>>) \o Tail(b) = a \o (<<Head(b)>> \o Tail(b))
    BY <1>1, ConcatAssociative
<1>. QED
    BY <1>4, <1>5, <1>6, Zenon

\* The same in front of a third one.
HeadMoves(a, b, d) == Append(a, Head(b)) \o (Tail(b) \o d) = a \o (b \o d)

LEMMA MoveHeadBefore ==
    ASSUME NEW S, NEW a \in Seq(S), NEW b \in Seq(S), b # <<>>, NEW d \in Seq(S)
    PROVE  HeadMoves(a, b, d)
<1>. DEFINE front == Append(a, Head(b))
            back  == Tail(b)
<1>1. front \in Seq(S) /\ back \in Seq(S)
    BY HeadTailProperties, AppendProperties
<1>2. front \o back = a \o b
    BY MoveHead
<1>. HIDE DEF front, back
<1>3. Regroups(front, back, d) /\ Regroups(a, b, d)
    BY <1>1, Regroup, Zenon
<1>4. (front \o back) \o d = front \o (back \o d) /\ (a \o b) \o d = a \o (b \o d)
    BY <1>3 DEF Regroups
<1>5. front \o (back \o d) = a \o (b \o d)
    BY <1>2, <1>4
<1>. QED
    BY <1>5 DEF front, back, HeadMoves

\* The same with n elements at once.
LEMMA MoveFront ==
    ASSUME NEW S, NEW a \in Seq(S), NEW b \in Seq(S), NEW n \in Nat, n <= Len(b)
    PROVE  (a \o SubSeq(b, 1, n)) \o SubSeq(b, n + 1, Len(b)) = a \o b
<1>. DEFINE front == SubSeq(b, 1, n)
            back  == SubSeq(b, n + 1, Len(b))
<1>1. front \in Seq(S) /\ back \in Seq(S) /\ Len(b) \in Nat
    BY CutTypes, LenProperties
<1>2. front \o back = b
  <2>1. 1 \in 1 .. Len(b) + 1 /\ n \in 1 - 1 .. Len(b) /\ Len(b) \in n .. Len(b)
    BY <1>1
  <2>2. SubSeq(b, 1, n) \o SubSeq(b, n + 1, Len(b)) = SubSeq(b, 1, Len(b))
    BY <2>1, ConcatAdjacentSubSeq
  <2>. QED
    BY <2>2, SubSeqFull
<1>. HIDE DEF front, back
<1>3. Regroups(a, front, back)
    BY <1>1, Regroup, Zenon
<1>4. (a \o front) \o back = a \o b
    BY <1>2, <1>3 DEF Regroups
<1>. QED
    BY <1>4 DEF front, back

\* The same in front of a third one.
LEMMA MoveFrontBefore ==
    ASSUME NEW a \in Seq(Unit), NEW b \in Seq(Unit), NEW n \in Nat, n <= Len(b),
           NEW d \in Seq(Unit)
    PROVE  (a \o SubSeq(b, 1, n)) \o (SubSeq(b, n + 1, Len(b)) \o d) = a \o (b \o d)
<1>. DEFINE front == a \o SubSeq(b, 1, n)
            back  == SubSeq(b, n + 1, Len(b))
<1>1. front \in Seq(Unit) /\ back \in Seq(Unit)
    BY CutTypes, ConcatProperties
<1>2. front \o back = a \o b
    BY MoveFront
<1>. HIDE DEF front, back
<1>3. Regroups(front, back, d) /\ Regroups(a, b, d)
    BY <1>1, Regroup, Zenon
<1>4. (front \o back) \o d = front \o (back \o d) /\ (a \o b) \o d = a \o (b \o d)
    BY <1>3 DEF Regroups
<1>5. front \o (back \o d) = a \o (b \o d)
    BY <1>2, <1>4
<1>. QED
    BY <1>5 DEF front, back

\* Answers are joined in any grouping.
LEMMA GroupAnswers == \A a, b, d \in Seq(Nat) : Regroups(a, b, d)
    BY Regroup, Zenon

\* Their lengths add up.
LEMMA JoinAnswers ==
    \A a, b \in Seq(Nat) : a \o b \in Seq(Nat) /\ Len(a \o b) = Len(a) + Len(b)
    BY ConcatProperties

\* What is cut off the first part is cut off the whole.
FrontDrops(a, b, n) ==
    SubSeq(a, n + 1, Len(a)) \o b = SubSeq(a \o b, n + 1, Len(a \o b))

LEMMA DropFront ==
    ASSUME NEW S, NEW a \in Seq(S), NEW b \in Seq(S), NEW n \in Nat, n <= Len(a)
    PROVE  FrontDrops(a, b, n)
<1>. DEFINE cut == SubSeq(a, n + 1, Len(a))
            all == a \o b
            end == SubSeq(all, n + 1, Len(all))
<1>1. /\ Len(a) \in Nat /\ Len(b) \in Nat
      /\ \A i \in 1 .. Len(a) : a[i] \in S
    BY LenProperties, ElementOfSeq
<1>2. /\ all \in Seq(S) /\ Len(all) = Len(a) + Len(b)
      /\ \A i \in 1 .. Len(a) + Len(b) :
            all[i] = IF i <= Len(a) THEN a[i] ELSE b[i - Len(a)]
    BY ConcatProperties
<1>3. \A i \in 1 .. Len(all) : all[i] \in S
    BY <1>2, ElementOfSeq
<1>4. /\ cut \in Seq(S) /\ Len(cut) = Len(a) - n
      /\ \A i \in 1 .. Len(a) - n : cut[i] = a[n + i]
  <2>1. \A i \in n + 1 .. Len(a) : a[i] \in S
    BY <1>1
  <2>2. /\ cut \in Seq(S)
        /\ Len(cut) = IF n + 1 <= Len(a) THEN Len(a) - (n + 1) + 1 ELSE 0
        /\ \A i \in 1 .. Len(a) - (n + 1) + 1 : cut[i] = a[n + 1 + i - 1]
    BY <1>1, <2>1, SubSeqProperties
  <2>3. Len(cut) = Len(a) - n
    BY <1>1, <2>2
  <2>4. \A i \in 1 .. Len(a) - n : cut[i] = a[n + i]
    BY <1>1, <2>2
  <2>. QED
    BY <2>2, <2>3, <2>4
<1>5. /\ end \in Seq(S) /\ Len(end) = Len(a) + Len(b) - n
      /\ \A i \in 1 .. Len(a) + Len(b) - n : end[i] = all[n + i]
  <2>1. \A i \in n + 1 .. Len(all) : all[i] \in S
    BY <1>1, <1>2, <1>3
  <2>2. /\ end \in Seq(S)
        /\ Len(end) = IF n + 1 <= Len(all) THEN Len(all) - (n + 1) + 1 ELSE 0
        /\ \A i \in 1 .. Len(all) - (n + 1) + 1 : end[i] = all[n + 1 + i - 1]
    BY <1>1, <1>2, <2>1, SubSeqProperties
  <2>3. Len(end) = Len(a) + Len(b) - n
    BY <1>1, <1>2, <2>2
  <2>4. \A i \in 1 .. Len(a) + Len(b) - n : end[i] = all[n + i]
    BY <1>1, <1>2, <2>2
  <2>. QED
    BY <2>2, <2>3, <2>4
<1>. HIDE DEF cut, all, end
<1>6. /\ cut \o b \in Seq(S) /\ Len(cut \o b) = Len(a) + Len(b) - n
      /\ \A i \in 1 .. Len(a) + Len(b) - n :
            (cut \o b)[i] = IF i <= Len(a) - n THEN cut[i] ELSE b[i - (Len(a) - n)]
  <2>1. /\ cut \o b \in Seq(S) /\ Len(cut \o b) = Len(cut) + Len(b)
        /\ \A i \in 1 .. Len(cut) + Len(b) :
              (cut \o b)[i] = IF i <= Len(cut) THEN cut[i] ELSE b[i - Len(cut)]
    BY <1>4, ConcatProperties
  <2>2. Len(cut) + Len(b) = Len(a) + Len(b) - n /\ Len(cut) = Len(a) - n
    BY <1>1, <1>4
  <2>. QED
    BY <2>1, <2>2
<1>7. ASSUME NEW i \in 1 .. Len(a) + Len(b) - n
      PROVE  (cut \o b)[i] = end[i]
  <2>1. n + i \in 1 .. Len(a) + Len(b) /\ end[i] = all[n + i]
    BY <1>1, <1>5
  <2>2. CASE i <= Len(a) - n
    BY <1>1, <1>2, <1>4, <1>6, <2>1, <2>2
  <2>3. CASE i > Len(a) - n
    <3>1. (n + i) - Len(a) = i - (Len(a) - n) /\ ~(n + i <= Len(a)) /\ ~(i <= Len(a) - n)
      BY <1>1, <2>3
    <3>2. (cut \o b)[i] = b[i - (Len(a) - n)]
      BY <1>6, <3>1
    <3>3. all[n + i] = b[(n + i) - Len(a)]
      BY <1>2, <2>1, <3>1
    <3>. QED
      BY <2>1, <3>1, <3>2, <3>3
  <2>4. i <= Len(a) - n \/ i > Len(a) - n
    BY <1>1
  <2>. QED
    BY <2>2, <2>3, <2>4, Zenon
<1>8. cut \o b = end
    BY <1>5, <1>6, <1>7, SeqEqual
<1>. QED
    BY <1>8 DEF cut, all, end, FrontDrops

------------------------------------------------------------------------------
(* Whole frames                                                            *)

\* Only the first unit of a frame is a header.
LEMMA FrameHeader ==
    ASSUME NEW n, NEW kind, NEW i \in 1 .. FrameUnits(kind)
    PROVE  Frame(n, kind)[i].header <=> i = 1
    BY Zenon DEF Frame

\* A frame that is appended has the next number.
LEMMA AppendFrame ==
    ASSUME NEW s \in Seq(Unit), NEW kinds \in Seq(Kinds), NEW kind \in Kinds,
           NEW first \in Nat, Numbered(s, first, kinds)
    PROVE  Numbered(s \o Frame(Len(kinds) + 1, kind), first, Append(kinds, kind))
<1>. DEFINE n     == Len(kinds) + 1
            frame == Frame(n, kind)
            size  == FrameUnits(kind)
            all   == s \o frame
            asks  == Append(kinds, kind)
<1>1. /\ n \in Nat \ {0} /\ Len(kinds) \in Nat /\ Len(s) \in Nat /\ size \in {1, 2}
      /\ Len(kinds) = n - 1
    BY LenProperties DEF FrameUnits
<1>2. /\ Len(asks) = n /\ asks[n] = kind
      /\ \A i \in 1 .. Len(kinds) : asks[i] = kinds[i]
    BY AppendProperties
<1>3. /\ frame \in Seq(Unit) /\ Len(frame) = size
      /\ \A i \in 1 .. size : frame[i].request = n /\ frame[i].kind = kind
  <2>1. frame \in Seq(Unit)
    BY <1>1, FrameType
  <2>2. frame = [i \in 1 .. size |-> [request |-> n, kind |-> kind, header |-> i = 1]]
    BY DEF Frame
  <2>. QED
    BY <1>1, <2>1, <2>2
<1>4. frame[1].header /\ (size = 2 => ~frame[2].header)
  <2>1. 1 \in 1 .. size /\ (size = 2 => 2 \in 1 .. size)
    BY <1>1
  <2>. QED
    BY <2>1, FrameHeader
<1>. HIDE DEF frame
<1>5. /\ all \in Seq(Unit) /\ Len(all) = Len(s) + size
      /\ \A i \in 1 .. Len(s) + size :
            all[i] = IF i <= Len(s) THEN s[i] ELSE frame[i - Len(s)]
  <2>1. /\ all \in Seq(Unit) /\ Len(all) = Len(s) + Len(frame)
        /\ \A i \in 1 .. Len(s) + Len(frame) :
              all[i] = IF i <= Len(s) THEN s[i] ELSE frame[i - Len(s)]
    BY <1>3, ConcatProperties
  <2>. QED
    BY <1>3, <2>1
<1>. HIDE DEF all, asks, n
<1>6. all[Len(s) + 1] = frame[1]
    BY <1>1, <1>5
<1>7. size = 2 => all[Len(s) + 2] = frame[2]
    BY <1>1, <1>5
<1>8. \A i \in 1 .. Len(s) : all[i] = s[i]
    BY <1>1, <1>5
<1>9. frame[1].request = n /\ frame[1].kind = kind
      /\ (size = 2 => frame[2].request = n /\ frame[2].kind = kind)
    BY <1>1, <1>3
<1>10. \A i \in 1 .. Len(s) :
            /\ s[i].request \in 1 .. Len(kinds)
            /\ s[i].kind = kinds[s[i].request]
            /\ Follows(s, i)
    BY DEF Numbered
<1>11. /\ s = <<>> => first = n
       /\ s # <<>> => /\ s[1].header /\ s[1].request = first
                      /\ s[Len(s)].request = n - 1
    BY <1>1 DEF Numbered
<1>12. s # <<>> <=> Len(s) > 0
    BY <1>1, EmptySeq
<1>13. size = FrameUnits(kind)
    OBVIOUS
<1>. HIDE DEF size
<1>14. ASSUME NEW i \in 1 .. Len(all)
       PROVE  /\ all[i].request \in 1 .. Len(asks)
              /\ all[i].kind = asks[all[i].request]
              /\ Follows(all, i)
  <2>1. CASE i < Len(s)
    <3>1. i \in 1 .. Len(s) /\ i + 1 \in 1 .. Len(s) /\ i < Len(all)
      BY <1>1, <1>5, <2>1
    <3>2. all[i] = s[i] /\ all[i + 1] = s[i + 1]
      BY <1>8, <3>1
    <3>3. Follows(all, i)
      BY <1>10, <2>1, <3>1, <3>2 DEF Follows
    <3>. QED
      BY <1>1, <1>2, <1>10, <3>1, <3>2, <3>3
  <2>2. CASE i = Len(s)
    <3>1. i \in 1 .. Len(s) /\ all[i] = s[i] /\ ~(i < Len(s)) /\ s # <<>>
      BY <1>1, <1>8, <1>12, <2>2
    <3>2. ~(s[i].header /\ FrameUnits(s[i].kind) = 2)
      BY <1>10, <3>1 DEF Follows
    <3>3. all[i + 1].header /\ all[i + 1].request = all[i].request + 1
      BY <1>1, <1>4, <1>6, <1>9, <1>11, <2>2, <3>1
    <3>4. Follows(all, i)
      BY <3>1, <3>2, <3>3 DEF Follows
    <3>. QED
      BY <1>1, <1>2, <1>10, <3>1, <3>4
  <2>3. CASE i = Len(s) + 1
    <3>1. all[i] = frame[1] /\ (i < Len(all) <=> size = 2)
      BY <1>1, <1>5, <1>6, <2>3
    <3>2. size = 2 => all[i + 1] = frame[2]
      BY <1>1, <1>7, <2>3
    <3>3. all[i].request = n /\ all[i].kind = kind /\ all[i].header
      BY <1>4, <1>9, <3>1
    <3>4. size = 2 => ~all[i + 1].header /\ all[i + 1].request = n
      BY <1>4, <1>9, <3>2
    <3>5. Follows(all, i)
      BY <1>13, <3>1, <3>3, <3>4 DEF Follows
    <3>. QED
      BY <1>1, <1>2, <3>3, <3>5
  <2>4. CASE i = Len(s) + 2 /\ size = 2
    <3>1. all[i] = frame[2] /\ ~(i < Len(all))
      BY <1>1, <1>5, <1>7, <2>4
    <3>2. all[i].request = n /\ all[i].kind = kind /\ ~all[i].header
      BY <1>4, <1>9, <2>4, <3>1
    <3>3. Follows(all, i)
      BY <3>1, <3>2 DEF Follows
    <3>. QED
      BY <1>1, <1>2, <3>2, <3>3
  <2>. QED
    BY <1>1, <1>5, <2>1, <2>2, <2>3, <2>4
<1>15. all # <<>> => /\ all[1].header /\ all[1].request = first
                     /\ all[Len(all)].request = Len(asks)
  <2>1. all[Len(all)].request = n
    BY <1>1, <1>5, <1>6, <1>7, <1>9
  <2>2. CASE s = <<>>
    BY <1>1, <1>2, <1>4, <1>6, <1>9, <1>11, <1>12, <2>1, <2>2
  <2>3. CASE s # <<>>
    <3>1. 1 \in 1 .. Len(s)
      BY <1>1, <1>12, <2>3
    <3>. QED
      BY <1>2, <1>8, <1>11, <2>1, <2>3, <3>1
  <2>. QED
    BY <2>2, <2>3
<1>16. all = <<>> => first = Len(asks) + 1
    BY <1>1, <1>5
<1>17. Numbered(all, first, asks)
    BY <1>14, <1>15, <1>16 DEF Numbered
<1>. QED
    BY <1>17 DEF all, asks, n, frame

\* Without its first frame the sequence starts with the next number.
LEMMA DropFrame ==
    ASSUME NEW s \in Seq(Unit), s # <<>>, NEW kinds \in Seq(Kinds),
           NEW first \in Nat, Numbered(s, first, kinds)
    PROVE  /\ FrameUnits(s[1].kind) <= Len(s)
           /\ Numbered(SubSeq(s, FrameUnits(s[1].kind) + 1, Len(s)), first + 1, kinds)
<1>. DEFINE size == FrameUnits(s[1].kind)
            tail == SubSeq(s, size + 1, Len(s))
<1>1. Len(s) \in Nat \ {0} /\ Len(kinds) \in Nat /\ size \in {1, 2}
    BY EmptySeq, LenProperties DEF FrameUnits
<1>2. \A i \in 1 .. Len(s) :
        /\ s[i].request \in 1 .. Len(kinds)
        /\ s[i].kind = kinds[s[i].request]
        /\ Follows(s, i)
    BY DEF Numbered
<1>3. s[1].header /\ s[1].request = first /\ s[Len(s)].request = Len(kinds)
    BY DEF Numbered
<1>4. /\ size = 2 => 1 < Len(s) /\ s[2].request = first /\ ~s[2].header
      /\ size = 1 /\ 1 < Len(s) => s[2].request = first + 1 /\ s[2].header
    BY <1>1, <1>2, <1>3 DEF Follows
<1>5. size = 2 /\ 2 < Len(s) => s[3].request = first + 1 /\ s[3].header
  <2>. SUFFICES ASSUME size = 2, 2 < Len(s) PROVE s[3].request = first + 1 /\ s[3].header
    OBVIOUS
  <2>1. 2 \in 1 .. Len(s)
    BY <1>1
  <2>. QED
    BY <1>2, <1>4, <2>1 DEF Follows
<1>. HIDE DEF size
<1>6. size <= Len(s)
    BY <1>1, <1>4
<1>7. /\ tail \in Seq(Unit) /\ Len(tail) = Len(s) - size
      /\ \A i \in 1 .. Len(s) - size : tail[i] = s[size + i]
  <2>1. \A i \in size + 1 .. Len(s) : s[i] \in Unit
    BY <1>1, ElementOfSeq
  <2>2. /\ tail \in Seq(Unit)
        /\ Len(tail) = IF size + 1 <= Len(s) THEN Len(s) - (size + 1) + 1 ELSE 0
        /\ \A i \in 1 .. Len(s) - (size + 1) + 1 : tail[i] = s[size + 1 + i - 1]
    BY <1>1, <2>1, SubSeqProperties
  <2>3. Len(tail) = Len(s) - size
    BY <1>1, <1>6, <2>2
  <2>4. \A i \in 1 .. Len(s) - size : tail[i] = s[size + i]
    BY <1>1, <2>2
  <2>. QED
    BY <2>2, <2>3, <2>4
<1>. HIDE DEF tail
<1>8. ASSUME NEW i \in 1 .. Len(tail)
      PROVE  /\ tail[i].request \in 1 .. Len(kinds)
             /\ tail[i].kind = kinds[tail[i].request]
             /\ Follows(tail, i)
  <2>1. size + i \in 1 .. Len(s) /\ tail[i] = s[size + i]
        /\ (i < Len(tail) <=> size + i < Len(s))
    BY <1>1, <1>7
  <2>2. i < Len(tail) => tail[i + 1] = s[(size + i) + 1]
    BY <1>1, <1>7
  <2>3. Follows(s, size + i)
    BY <1>2, <2>1
  <2>4. Follows(tail, i)
    BY <2>1, <2>2, <2>3 DEF Follows
  <2>. QED
    BY <1>2, <2>1, <2>4
<1>9. tail = <<>> => first + 1 = Len(kinds) + 1
  <2>. SUFFICES ASSUME tail = <<>> PROVE first = Len(kinds)
    OBVIOUS
  <2>1. Len(s) = size
    BY <1>1, <1>7
  <2>. QED
    BY <1>1, <1>3, <1>4, <2>1
<1>10. tail # <<>> => /\ tail[1].header /\ tail[1].request = first + 1
                      /\ tail[Len(tail)].request = Len(kinds)
  <2>. SUFFICES ASSUME tail # <<>>
                PROVE  /\ tail[1].header /\ tail[1].request = first + 1
                       /\ tail[Len(tail)].request = Len(kinds)
    OBVIOUS
  <2>1. Len(tail) \in Nat \ {0}
    BY <1>7, EmptySeq
  <2>2. tail[1] = s[size + 1] /\ tail[Len(tail)] = s[Len(s)] /\ size < Len(s)
    BY <1>1, <1>7, <2>1
  <2>. QED
    BY <1>1, <1>3, <1>4, <1>5, <2>2
<1>11. Numbered(tail, first + 1, kinds)
    BY <1>8, <1>9, <1>10 DEF Numbered
<1>. QED
    BY <1>6, <1>11 DEF tail, size

\* The answers go on with the next one.
LEMMA NextAnswer ==
    ASSUME NEW n \in Nat
    PROVE  /\ Count(n) \in Seq(Nat) /\ Len(Count(n)) = AnswerUnits * n
           /\ Count(n) \o Answer(n + 1) = Count(n + 1)
<1>. DEFINE all == Count(n) \o Answer(n + 1)
<1>1. /\ Count(n) \in Seq(Nat) /\ Len(Count(n)) = 2 * n
      /\ \A i \in 1 .. 2 * n : Count(n)[i] = i
    BY DEF Count, AnswerUnits
<1>2. /\ Count(n + 1) \in Seq(Nat) /\ Len(Count(n + 1)) = 2 * n + 2
      /\ \A i \in 1 .. 2 * n + 2 : Count(n + 1)[i] = i
    BY DEF Count, AnswerUnits
<1>3. /\ Answer(n + 1) \in Seq(Nat) /\ Len(Answer(n + 1)) = 2
      /\ \A i \in 1 .. 2 : Answer(n + 1)[i] = 2 * n + i
    BY DEF Answer, AnswerUnits
<1>4. /\ all \in Seq(Nat) /\ Len(all) = Len(Count(n)) + Len(Answer(n + 1))
      /\ \A i \in 1 .. Len(Count(n)) + Len(Answer(n + 1)) :
            all[i] = IF i <= Len(Count(n)) THEN Count(n)[i]
                     ELSE Answer(n + 1)[i - Len(Count(n))]
    BY <1>1, <1>3, ConcatProperties
<1>. HIDE DEF all
<1>5. /\ Len(all) = 2 * n + 2
      /\ \A i \in 1 .. 2 * n + 2 :
            all[i] = IF i <= 2 * n THEN Count(n)[i] ELSE Answer(n + 1)[i - 2 * n]
    BY <1>1, <1>3, <1>4
<1>6. ASSUME NEW i \in 1 .. 2 * n + 2 PROVE all[i] = Count(n + 1)[i]
  <2>1. CASE i <= 2 * n
    <3>1. all[i] = Count(n)[i]
      BY <1>5, <2>1
    <3>2. i \in 1 .. 2 * n
      BY <2>1
    <3>. QED
      BY <1>1, <1>2, <3>1, <3>2
  <2>2. CASE i > 2 * n
    <3>1. i - 2 * n \in 1 .. 2 /\ 2 * n + (i - 2 * n) = i /\ ~(i <= 2 * n)
      BY <2>2
    <3>2. all[i] = Answer(n + 1)[i - 2 * n]
      BY <1>5, <3>1
    <3>. QED
      BY <1>2, <1>3, <3>1, <3>2
  <2>. QED
    BY <2>1, <2>2
<1>7. all = Count(n + 1)
    BY <1>2, <1>4, <1>5, <1>6, SeqEqual
<1>. QED
    BY <1>1, <1>7 DEF all, AnswerUnits

------------------------------------------------------------------------------
(* The invariant                                                           *)

\* What the server has yet to answer, wherever it is: the client's input, the
\* kernel's buffer and what the peer has yet to send
Pending(c, input) == input \o (up[c] \o rest[c])

\* What was answered, wherever it is
Answered(c, output) == got[c] \o (down[c] \o output)

Flowing(c, input, output) ==
    /\ Numbered(Pending(c, input), Len(served[c]) + 1, asked[c])
    /\ Answered(c, output) = Count(Len(served[c]))

\* The requests were served in order
InOrder(c) == \A n \in DOMAIN served[c] : served[c][n] = n

\* Held by a descriptor
Held(c) == \E fd \in DOMAIN clients : Conn(fd) = c

\* Both streams of every connection are whole, and the snapshot says of a
\* client that it left only when its peer did.
StreamInv ==
    /\ \A c \in Conns :
        /\ InOrder(c)
        /\ status[c] \in {"new", "waiting"} => Flowing(c, <<>>, <<>>)
        /\ status[c] = "open" => Held(c)
    /\ \A fd \in DOMAIN clients :
        Flowing(Conn(fd), clients[fd].input, clients[fd].output)
    /\ \A fd \in DOMAIN events :
        "hangup" \in events[fd] => Conn(fd) \in gone

\* Nothing was asked in the initial states.
LEMMA InitStreamInv == Init => StreamInv
<1>. SUFFICES ASSUME Init PROVE StreamInv
    OBVIOUS
<1>1. ASSUME NEW c \in Conns PROVE InOrder(c) /\ Flowing(c, <<>>, <<>>)
  <2>1. /\ asked[c] = <<>> /\ rest[c] = <<>> /\ up[c] = <<>> /\ down[c] = <<>>
        /\ got[c] = <<>> /\ served[c] = <<>>
    BY DEF Init
  <2>2. Pending(c, <<>>) = <<>> /\ Answered(c, <<>>) = <<>>
    BY <2>1 DEF Pending, Answered
  <2>3. Count(0) = <<>>
    BY NextAnswer, EmptySeq DEF AnswerUnits
  <2>4. Numbered(<<>>, 1, <<>>)
    BY DEF Numbered
  <2>. QED
    BY <2>1, <2>2, <2>3, <2>4 DEF InOrder, Flowing
<1>2. \A c \in Conns : status[c] # "open"
    BY DEF Init
<1>3. DOMAIN clients = {} /\ DOMAIN events = {}
    BY DEF Init
<1>. QED
    BY <1>1, <1>2, <1>3 DEF StreamInv

\* The streams go on when they are the same as wholes.
LEMMA SameStreams ==
    ASSUME NEW c, NEW input, NEW output, NEW input2, NEW output2,
           Flowing(c, input, output),
           Pending(c, input2)' = Pending(c, input),
           Answered(c, output2)' = Answered(c, output),
           asked'[c] = asked[c], served'[c] = served[c]
    PROVE  Flowing(c, input2, output2)'
    BY DEF Flowing

\* They go on when nothing of them changes.
LEMMA OtherStreams ==
    ASSUME NEW c, NEW input, NEW output, Flowing(c, input, output),
           up'[c] = up[c], rest'[c] = rest[c], asked'[c] = asked[c],
           got'[c] = got[c], down'[c] = down[c], served'[c] = served[c]
    PROVE  Flowing(c, input, output)'
    BY DEF Flowing, Pending, Answered

\* A peer touches the streams of its own connection only.
LEMMA PeerStreams ==
    ASSUME SocketInv, StreamInv, NEW c \in Conns,
           UNCHANGED <<status, clients, events, served>>, gone \subseteq gone',
           \A d \in Conns \ {c} :
                /\ up'[d] = up[d] /\ rest'[d] = rest[d] /\ asked'[d] = asked[d]
                /\ got'[d] = got[d] /\ down'[d] = down[d],
           \A input \in Seq(Unit), output \in Seq(Nat) :
                Flowing(c, input, output) => Flowing(c, input, output)'
    PROVE  StreamInv'
<1>1. \A d \in Conns, input \in Seq(Unit), output \in Seq(Nat) :
        Flowing(d, input, output) => Flowing(d, input, output)'
    BY OtherStreams
<1>2. <<>> \in Seq(Unit) /\ <<>> \in Seq(Nat)
    OBVIOUS
<1>3. ASSUME NEW d \in Conns
      PROVE  /\ InOrder(d)'
             /\ (status[d] \in {"new", "waiting"} => Flowing(d, <<>>, <<>>))'
             /\ (status[d] = "open" => Held(d))'
  <2>1. InOrder(d)'
    BY DEF StreamInv, InOrder
  <2>2. (status[d] \in {"new", "waiting"} => Flowing(d, <<>>, <<>>))'
    BY <1>1, <1>2 DEF StreamInv
  <2>3. (status[d] = "open" => Held(d))'
    BY DEF StreamInv, Held, Conn
  <2>. QED
    BY <2>1, <2>2, <2>3
<1>4. ASSUME NEW fd \in DOMAIN clients'
      PROVE  Flowing(Conn(fd), clients[fd].input, clients[fd].output)'
  <2>1. /\ fd \in DOMAIN clients /\ Conn(fd) \in Conns /\ Conn(fd)' = Conn(fd)
        /\ clients[fd].input \in Seq(Unit) /\ clients[fd].output \in Seq(Nat)
        /\ clients'[fd] = clients[fd]
    BY DEF SocketInv, TypeOK, Client, Conn
  <2>2. Flowing(Conn(fd), clients[fd].input, clients[fd].output)
    BY <2>1 DEF StreamInv
  <2>. QED
    BY <1>1, <2>1, <2>2
<1>5. \A fd \in DOMAIN events' : "hangup" \in events'[fd] => Conn(fd)' \in gone'
    BY DEF StreamInv, Conn
<1>. QED
    BY <1>3, <1>4, <1>5 DEF StreamInv

\* The first unit of a frame is sent, the rest of it is to be sent: the whole
\* stream goes on by one frame.
LEMMA BeginFrameStreams ==
    ASSUME SocketInv, StreamInv, NEW c \in Conns, NEW kind \in Kinds,
           BeginFrame(c, kind)
    PROVE  StreamInv'
<1>. DEFINE n     == Len(asked[c]) + 1
            frame == Frame(n, kind)
<1>1. /\ asked[c] \in Seq(Kinds) /\ up[c] \in Seq(Unit) /\ rest[c] = <<>>
      /\ n \in Nat \ {0} /\ served[c] \in Seq(Nat)
    BY LenProperties DEF SocketInv, TypeOK, BeginFrame
<1>2. frame \in Seq(Unit) /\ frame # <<>>
    BY <1>1, FrameType
<1>3. /\ up' = [up EXCEPT ![c] = Append(up[c], Head(frame))]
      /\ rest' = [rest EXCEPT ![c] = Tail(frame)]
      /\ asked' = [asked EXCEPT ![c] = Append(asked[c], kind)]
      /\ UNCHANGED <<status, clients, events, served, gone, got, down>>
    BY DEF BeginFrame, serverVars
<1>4. /\ up'[c] = Append(up[c], Head(frame)) /\ rest'[c] = Tail(frame)
      /\ asked'[c] = Append(asked[c], kind)
      /\ \A d \in Conns \ {c} :
            up'[d] = up[d] /\ rest'[d] = rest[d] /\ asked'[d] = asked[d]
    BY <1>3 DEF SocketInv, TypeOK
<1>. HIDE DEF frame
<1>5. up'[c] \o rest'[c] = up[c] \o frame
    BY <1>1, <1>2, <1>4, MoveHead
<1>6. ASSUME NEW input \in Seq(Unit), NEW output \in Seq(Nat), Flowing(c, input, output)
      PROVE  Flowing(c, input, output)'
  <2>. DEFINE whole == input \o up[c]
  <2>1. whole \in Seq(Unit)
    BY <1>1, ConcatProperties
  <2>2. Pending(c, input) = whole
    <3>1. up[c] \o <<>> = up[c]
      BY <1>1, ConcatEmptySeq
    <3>. QED
      BY <1>1, <3>1 DEF Pending
  <2>3. Pending(c, input)' = whole \o frame
    <3>1. up[c] \in Seq(Unit) /\ frame \in Seq(Unit)
      BY <1>1, <1>2
    <3>2. \A a, b \in Seq(Unit) : (input \o a) \o b = input \o (a \o b)
      BY ConcatAssociative
    <3>3. (input \o up[c]) \o frame = input \o (up[c] \o frame)
      BY <3>1, <3>2, Zenon
    <3>. QED
      BY <1>5, <3>3 DEF Pending
  <2>4. Len(served[c]) + 1 \in Nat
    BY <1>1, LenProperties
  <2>. HIDE DEF whole
  <2>5. Numbered(whole, Len(served[c]) + 1, asked[c])
    BY <1>6, <2>2 DEF Flowing
  <2>6. Numbered(whole \o frame, Len(served[c]) + 1, Append(asked[c], kind))
    BY <1>1, <2>1, <2>4, <2>5, AppendFrame DEF frame
  <2>7. Answered(c, output)' = Answered(c, output) /\ served' = served
    BY <1>3 DEF Answered
  <2>. QED
    BY <1>4, <1>6, <2>3, <2>6, <2>7 DEF Flowing
<1>. QED
    BY <1>3, <1>4, <1>6, PeerStreams

\* A unit of the frame moves into the kernel's buffer.
LEMMA ContinueFrameStreams ==
    ASSUME SocketInv, StreamInv, NEW c \in Conns, ContinueFrame(c)
    PROVE  StreamInv'
<1>1. rest[c] \in Seq(Unit) /\ up[c] \in Seq(Unit) /\ rest[c] # <<>>
    BY DEF SocketInv, TypeOK, ContinueFrame
<1>2. /\ up' = [up EXCEPT ![c] = Append(up[c], Head(rest[c]))]
      /\ rest' = [rest EXCEPT ![c] = Tail(rest[c])]
      /\ UNCHANGED <<status, clients, events, served, gone, asked, got, down>>
    BY DEF ContinueFrame, serverVars
<1>3. /\ up'[c] = Append(up[c], Head(rest[c])) /\ rest'[c] = Tail(rest[c])
      /\ \A d \in Conns \ {c} : up'[d] = up[d] /\ rest'[d] = rest[d]
    BY <1>2 DEF SocketInv, TypeOK
<1>4. up'[c] \o rest'[c] = up[c] \o rest[c]
    BY <1>1, <1>3, MoveHead
<1>5. \A input : Pending(c, input)' = Pending(c, input)
    BY <1>4 DEF Pending
<1>6. \A output : Answered(c, output)' = Answered(c, output)
    BY <1>2 DEF Answered
<1>7. \A input \in Seq(Unit), output \in Seq(Nat) :
        Flowing(c, input, output) => Flowing(c, input, output)'
    BY <1>2, <1>5, <1>6, SameStreams
<1>. QED
    BY <1>2, <1>3, <1>7, PeerStreams

\* A unit of an answer moves out of the kernel's buffer.
LEMMA PeerReadsStreams ==
    ASSUME SocketInv, StreamInv, NEW c \in Conns, PeerReads(c)
    PROVE  StreamInv'
<1>1. down[c] \in Seq(Nat) /\ got[c] \in Seq(Nat) /\ down[c] # <<>>
    BY DEF SocketInv, TypeOK, PeerReads
<1>2. /\ got' = [got EXCEPT ![c] = Append(got[c], Head(down[c]))]
      /\ down' = [down EXCEPT ![c] = Tail(down[c])]
      /\ UNCHANGED <<status, clients, events, served, gone, asked, rest, up>>
    BY DEF PeerReads, serverVars
<1>3. /\ got'[c] = Append(got[c], Head(down[c])) /\ down'[c] = Tail(down[c])
      /\ \A d \in Conns \ {c} : got'[d] = got[d] /\ down'[d] = down[d]
    BY <1>2 DEF SocketInv, TypeOK
<1>4. \A input : Pending(c, input)' = Pending(c, input)
    BY <1>2 DEF Pending
<1>5. ASSUME NEW output \in Seq(Nat)
      PROVE  Answered(c, output)' = Answered(c, output)
  <2>1. HeadMoves(got[c], down[c], output)
    BY <1>1, MoveHeadBefore, Zenon
  <2>2. Append(got[c], Head(down[c])) \o (Tail(down[c]) \o output)
            = got[c] \o (down[c] \o output)
    BY <2>1 DEF HeadMoves
  <2>. QED
    BY <1>3, <2>2 DEF Answered
<1>6. \A input \in Seq(Unit), output \in Seq(Nat) :
        Flowing(c, input, output) => Flowing(c, input, output)'
    BY <1>2, <1>4, <1>5, SameStreams
<1>. QED
    BY <1>2, <1>3, <1>6, PeerStreams

\* Leaving moves nothing.
LEMMA LeaveStreams ==
    ASSUME SocketInv, StreamInv, NEW c \in Conns, Leave(c)
    PROVE  StreamInv'
<1>1. /\ UNCHANGED <<status, clients, events, served, asked, rest, up, down, got>>
      /\ gone \subseteq gone'
    BY DEF Leave, serverVars, wires
<1>2. \A input \in Seq(Unit), output \in Seq(Nat) :
        Flowing(c, input, output) => Flowing(c, input, output)'
    BY <1>1, OtherStreams
<1>. QED
    BY <1>1, <1>2, PeerStreams

\* Steps that move nothing and hold no other connection.
LEMMA QuietStreams ==
    ASSUME SocketInv, StreamInv,
           UNCHANGED <<peerVars, wires, clients, served>>,
           \A c \in Conns : status'[c] \in {"new", "waiting"} =>
                                status[c] \in {"new", "waiting"},
           \A c \in Conns : status'[c] = "open" => status[c] = "open",
           \A fd \in DOMAIN events' :
                "hangup" \in events'[fd] => Conn(fd) \in gone
    PROVE  StreamInv'
<1>1. ASSUME NEW c, NEW input, NEW output
      PROVE  Flowing(c, input, output)' = Flowing(c, input, output)
    BY DEF Flowing, Pending, Answered, peerVars, wires
<1>2. UNCHANGED <<clients, served, gone>>
    BY DEF peerVars
<1>3. ASSUME NEW c \in Conns
      PROVE  /\ InOrder(c)'
             /\ (status[c] \in {"new", "waiting"} => Flowing(c, <<>>, <<>>))'
             /\ (status[c] = "open" => Held(c))'
    BY <1>1, <1>2 DEF StreamInv, InOrder, Held, Conn
<1>4. ASSUME NEW fd \in DOMAIN clients'
      PROVE  Flowing(Conn(fd), clients[fd].input, clients[fd].output)'
    BY <1>1, <1>2 DEF StreamInv, Conn
<1>5. \A fd \in DOMAIN events' : "hangup" \in events'[fd] => Conn(fd)' \in gone'
    BY <1>2 DEF Conn
<1>. QED
    BY <1>3, <1>4, <1>5 DEF StreamInv

\* closeClient takes the client and its connection away.
LEMMA CloseStreams ==
    ASSUME SocketInv, StreamInv, NEW fd \in DOMAIN events, NEW c \in Conns,
           c = Conn(fd), CloseClient(fd), UNCHANGED peerVars,
           \A d \in Conns \ {c} :
                up'[d] = up[d] /\ down'[d] = down[d] /\ served'[d] = served[d],
           InOrder(c)'
    PROVE  StreamInv'
<1>1. /\ fd \in DOMAIN clients
      /\ DOMAIN clients' = DOMAIN clients \ {fd}
      /\ \A f \in DOMAIN clients \ {fd} : clients'[f] = clients[f]
      /\ status'[c] = "closed"
      /\ \A d \in Conns \ {c} : status'[d] = status[d]
    BY DEF SocketInv, TypeOK, Progress, CloseClient, Restrict
<1>2. \A f \in DOMAIN clients \ {fd} : Conn(f) \in Conns \ {c}
    BY <1>1 DEF SocketInv, TypeOK, Ownership, Client, Conn
<1>3. UNCHANGED <<gone, asked, rest, got>>
    BY DEF peerVars
<1>4. \A d \in Conns \ {c} : \A input, output :
        Flowing(d, input, output) => Flowing(d, input, output)'
    BY <1>3, OtherStreams
<1>5. ASSUME NEW d \in Conns \ {c}
      PROVE  /\ InOrder(d)'
             /\ (status[d] \in {"new", "waiting"} => Flowing(d, <<>>, <<>>))'
             /\ (status[d] = "open" => Held(d))'
  <2>1. InOrder(d)'
    BY DEF StreamInv, InOrder
  <2>2. (status[d] \in {"new", "waiting"} => Flowing(d, <<>>, <<>>))'
    BY <1>1, <1>4 DEF StreamInv
  <2>3. (status[d] = "open" => Held(d))'
    BY <1>1 DEF StreamInv, Held, Conn
  <2>. QED
    BY <2>1, <2>2, <2>3
<1>6. ASSUME NEW f \in DOMAIN clients'
      PROVE  Flowing(Conn(f), clients[f].input, clients[f].output)'
  <2>1. f \in DOMAIN clients \ {fd} /\ clients'[f] = clients[f] /\ Conn(f)' = Conn(f)
    BY <1>1 DEF Conn
  <2>2. Flowing(Conn(f), clients[f].input, clients[f].output)
    BY <2>1 DEF StreamInv
  <2>. QED
    BY <1>2, <1>4, <2>1, <2>2
<1>7. ASSUME NEW f \in DOMAIN events', "hangup" \in events'[f]
      PROVE  Conn(f)' \in gone'
  <2>1. f \in DOMAIN events /\ f # fd /\ events'[f] = events[f]
    BY DEF CloseClient, Advance, Restrict
  <2>2. Conn(f)' = Conn(f)
    BY <1>1, <2>1 DEF SocketInv, Progress, Conn
  <2>. QED
    BY <1>3, <1>7, <2>1, <2>2 DEF StreamInv
<1>. QED
    BY <1>1, <1>5, <1>6, <1>7 DEF StreamInv

\* A client changes its buffers and with them the streams of its own
\* connection.
LEMMA UpdateStreams ==
    ASSUME SocketInv, StreamInv, NEW fd \in DOMAIN events, NEW c \in Conns,
           c = Conn(fd), NEW x, x.conn = c, clients' = [clients EXCEPT ![fd] = x],
           status' = status, UNCHANGED peerVars,
           \A f \in DOMAIN events' : f \in DOMAIN events /\ events'[f] \subseteq events[f],
           \A d \in Conns \ {c} :
                up'[d] = up[d] /\ down'[d] = down[d] /\ served'[d] = served[d],
           InOrder(c)', Flowing(c, x.input, x.output)'
    PROVE  StreamInv'
<1>1. /\ fd \in DOMAIN clients /\ DOMAIN clients' = DOMAIN clients
      /\ clients'[fd] = x
      /\ \A f \in DOMAIN clients \ {fd} : clients'[f] = clients[f]
      /\ status[c] = "open"
    BY DEF SocketInv, TypeOK, Progress, Ownership
<1>2. \A f \in DOMAIN clients \ {fd} : Conn(f) \in Conns \ {c}
    BY <1>1 DEF SocketInv, TypeOK, Ownership, Client, Conn
<1>3. UNCHANGED <<gone, asked, rest, got>>
    BY DEF peerVars
<1>4. \A d \in Conns \ {c} : \A input, output :
        Flowing(d, input, output) => Flowing(d, input, output)'
    BY <1>3, OtherStreams
<1>5. \A f \in DOMAIN clients : Conn(f)' = Conn(f)
    BY <1>1 DEF Conn
<1>6. ASSUME NEW d \in Conns
      PROVE  /\ InOrder(d)'
             /\ (status[d] \in {"new", "waiting"} => Flowing(d, <<>>, <<>>))'
             /\ (status[d] = "open" => Held(d))'
  <2>1. InOrder(d)'
    BY DEF StreamInv, InOrder
  <2>2. (status[d] \in {"new", "waiting"} => Flowing(d, <<>>, <<>>))'
    BY <1>1, <1>4 DEF StreamInv
  <2>3. (status[d] = "open" => Held(d))'
    BY <1>1, <1>5 DEF StreamInv, Held
  <2>. QED
    BY <2>1, <2>2, <2>3
<1>7. ASSUME NEW f \in DOMAIN clients'
      PROVE  Flowing(Conn(f), clients[f].input, clients[f].output)'
  <2>1. CASE f = fd
    BY <1>1, <1>5, <2>1
  <2>2. CASE f # fd
    <3>1. f \in DOMAIN clients \ {fd} /\ clients'[f] = clients[f] /\ Conn(f)' = Conn(f)
      BY <1>1, <1>5, <2>2
    <3>2. Flowing(Conn(f), clients[f].input, clients[f].output)
      BY <3>1 DEF StreamInv
    <3>. QED
      BY <1>2, <1>4, <3>1, <3>2
  <2>. QED
    BY <2>1, <2>2
<1>8. ASSUME NEW f \in DOMAIN events', "hangup" \in events'[f]
      PROVE  Conn(f)' \in gone'
    BY <1>3, <1>5, <1>8 DEF StreamInv, SocketInv, Progress
<1>. QED
    BY <1>6, <1>7, <1>8 DEF StreamInv

\* What a step knows of the streams of the client whose entry it handles.
LEMMA CurrentStreams ==
    ASSUME SocketInv, StreamInv, NEW fd \in DOMAIN events
    PROVE  /\ Flowing(Conn(fd), clients[fd].input, clients[fd].output)
           /\ InOrder(Conn(fd))
           /\ rest[Conn(fd)] \in Seq(Unit) /\ asked[Conn(fd)] \in Seq(Kinds)
           /\ got[Conn(fd)] \in Seq(Nat)
    BY CurrentClient DEF StreamInv, SocketInv, TypeOK, Progress

\* The first unit of the input is the header of the next request.
LEMMA NextRequest ==
    ASSUME SocketInv, StreamInv, NEW fd \in DOMAIN events,
           clients[fd].input # <<>>
    PROVE  LET c     == Conn(fd)
               input == clients[fd].input
           IN  /\ input[1].request = Len(served[c]) + 1
               /\ input[1].request \in 1 .. Len(asked[c])
               /\ input[1].kind = asked[c][input[1].request]
               /\ Pending(c, input) \in Seq(Unit) /\ Pending(c, input) # <<>>
               /\ Pending(c, input)[1] = input[1]
<1>. DEFINE c     == Conn(fd)
            input == clients[fd].input
            after == up[c] \o rest[c]
            all   == input \o after
<1>1. input \in Seq(Unit) /\ up[c] \in Seq(Unit) /\ rest[c] \in Seq(Unit)
    BY CurrentClient, CurrentStreams
<1>2. after \in Seq(Unit)
    BY <1>1, ConcatProperties
<1>3. Len(input) \in Nat \ {0} /\ Len(after) \in Nat
    BY <1>1, <1>2, EmptySeq, LenProperties
<1>. HIDE DEF after, input
<1>4. /\ all \in Seq(Unit) /\ Len(all) = Len(input) + Len(after)
      /\ \A i \in 1 .. Len(input) + Len(after) :
            all[i] = IF i <= Len(input) THEN input[i] ELSE after[i - Len(input)]
    BY <1>1, <1>2, ConcatProperties
<1>5. Numbered(all, Len(served[c]) + 1, asked[c])
    BY CurrentStreams DEF Flowing, Pending, after, input
<1>. HIDE DEF all
<1>6. all[1] = input[1] /\ 1 \in 1 .. Len(all) /\ all # <<>>
    BY <1>3, <1>4, EmptySeq
<1>7. /\ all[1].request = Len(served[c]) + 1
      /\ all[1].request \in 1 .. Len(asked[c])
      /\ all[1].kind = asked[c][all[1].request]
    BY <1>5, <1>6 DEF Numbered
<1>8. Pending(c, input) = all
    BY DEF Pending, all, after
<1>. QED
    BY <1>4, <1>6, <1>7, <1>8 DEF input

\* The request that was answered is the next one.
LEMMA NextServed ==
    ASSUME SocketInv, StreamInv, NEW fd \in DOMAIN events, NEW c \in Conns,
           c = Conn(fd), clients[fd].input # <<>>,
           served' = [served EXCEPT ![c] = Append(@, clients[fd].input[1].request)]
    PROVE  /\ InOrder(c)' /\ Len(served'[c]) = Len(served[c]) + 1
           /\ \A d \in Conns \ {c} : served'[d] = served[d]
<1>1. /\ served[c] \in Seq(Nat) /\ InOrder(c) /\ Len(served[c]) \in Nat
      /\ DOMAIN served[c] = 1 .. Len(served[c])
    BY CurrentClient, CurrentStreams, LenProperties
<1>2. clients[fd].input[1].request = Len(served[c]) + 1
    BY NextRequest
<1>3. /\ served'[c] = Append(served[c], Len(served[c]) + 1)
      /\ \A d \in Conns \ {c} : served'[d] = served[d]
    BY <1>2 DEF SocketInv, TypeOK
<1>4. /\ served'[c] \in Seq(Nat) /\ Len(served'[c]) = Len(served[c]) + 1
      /\ \A i \in 1 .. Len(served[c]) : served'[c][i] = served[c][i]
      /\ served'[c][Len(served[c]) + 1] = Len(served[c]) + 1
  <2>1. Len(served[c]) + 1 \in Nat
    BY <1>1
  <2>. QED
    BY <1>1, <1>3, <2>1, AppendProperties
<1>5. DOMAIN served'[c] = 1 .. Len(served[c]) + 1
    BY <1>4, LenProperties
<1>6. \A n \in 1 .. Len(served[c]) : served[c][n] = n
    BY <1>1 DEF InOrder
<1>7. ASSUME NEW n \in DOMAIN served'[c] PROVE served'[c][n] = n
    BY <1>1, <1>4, <1>5, <1>6
<1>. QED
    BY <1>3, <1>4, <1>7 DEF InOrder

\* A peer hung up, or announced too much.
LEMMA PlainCloseStreams ==
    ASSUME SocketInv, StreamInv, NEW fd \in DOMAIN events, CloseClient(fd),
           UNCHANGED <<peerVars, served>>,
           \A d \in Conns \ {Conn(fd)} : up'[d] = up[d] /\ down'[d] = down[d]
    PROVE  StreamInv'
<1>1. Conn(fd) \in Conns /\ InOrder(Conn(fd))
    BY CurrentClient, CurrentStreams
<1>2. \A c \in Conns : InOrder(c) => InOrder(c)'
    BY DEF InOrder
<1>3. PICK c \in Conns : c = Conn(fd)
    BY <1>1
<1>4. InOrder(c)'
    BY <1>1, <1>2, <1>3
<1>. QED
    BY <1>3, <1>4, CloseStreams

\* Units move from the kernel's buffer to the input.
LEMMA ReadAvailableDataStreams ==
    ASSUME SocketInv, StreamInv, NEW fd \in DOMAIN events, ReadAvailableData(fd)
    PROVE  StreamInv'
<1>1. PICK c \in Conns : c = Conn(fd)
    BY CurrentClient
<1>. DEFINE n     == AtMost(Len(up[c]), MaximumRead)
            front == SubSeq(up[c], 1, n)
<1>2. /\ up[c] \in Seq(Unit) /\ clients[fd].input \in Seq(Unit) /\ rest[c] \in Seq(Unit)
      /\ fd \in DOMAIN clients
    BY <1>1, CurrentClient, CurrentStreams
<1>3. n \in Nat /\ n <= Len(up[c])
    BY <1>2, AtMostBounds, LenProperties, SocketAssumption
<1>4. /\ up' = [up EXCEPT ![c] = SubSeq(up[c], n + 1, Len(up[c]))]
      /\ UNCHANGED <<peerVars, down, served>>
    BY <1>1 DEF ReadAvailableData
<1>. HIDE DEF n
<1>5. /\ up'[c] = SubSeq(up[c], n + 1, Len(up[c]))
      /\ \A d \in Conns \ {c} : up'[d] = up[d] /\ down'[d] = down[d] /\ served'[d] = served[d]
    BY <1>4 DEF SocketInv, TypeOK
<1>6. CASE EndOfStream(c, n)
    <2>1. CloseClient(fd)
      BY <1>1, <1>6 DEF ReadAvailableData, n
    <2>. QED
      BY <1>1, <1>4, <1>5, <2>1, PlainCloseStreams
<1>7. CASE ~EndOfStream(c, n)
  <2>. PICK x : x = ClientState(c, clients[fd].input \o front, clients[fd].output)
    OBVIOUS
  <2>1. /\ clients' = [clients EXCEPT ![fd] = x]
        /\ events' = [events EXCEPT ![fd] = @ \ {"in"}]
        /\ status' = status
    BY <1>1, <1>7 DEF ReadAvailableData, n
  <2>2. x.conn = c /\ x.input = clients[fd].input \o front /\ x.output = clients[fd].output
    BY DEF ClientState
  <2>3. (clients[fd].input \o front) \o (SubSeq(up[c], n + 1, Len(up[c])) \o rest[c])
            = clients[fd].input \o (up[c] \o rest[c])
    <3>. DEFINE Units == Seq(Unit)
    <3>1. \A a, b, d \in Units : n <= Len(b) =>
            (a \o SubSeq(b, 1, n)) \o (SubSeq(b, n + 1, Len(b)) \o d) = a \o (b \o d)
      BY <1>3, MoveFrontBefore
    <3>2. clients[fd].input \in Units /\ up[c] \in Units /\ rest[c] \in Units
      BY <1>2
    <3>. HIDE DEF Units
    <3>. QED
      BY <1>3, <3>1, <3>2
  <2>4. Pending(c, x.input)' = Pending(c, clients[fd].input)
    BY <1>4, <1>5, <2>2, <2>3 DEF Pending, peerVars
  <2>5. Answered(c, x.output)' = Answered(c, clients[fd].output)
    BY <1>4, <2>2 DEF Answered, peerVars
  <2>6. Flowing(c, clients[fd].input, clients[fd].output) /\ InOrder(c)
    BY <1>1, CurrentStreams
  <2>7. Flowing(c, x.input, x.output)'
    BY <1>4, <2>4, <2>5, <2>6, SameStreams DEF peerVars
  <2>8. InOrder(c)'
    BY <1>4, <2>6 DEF InOrder
  <2>9. \A f \in DOMAIN events' : f \in DOMAIN events /\ events'[f] \subseteq events[f]
    BY <2>1
  <2>. QED
    BY <1>1, <1>4, <1>5, <2>1, <2>2, <2>7, <2>8, <2>9, UpdateStreams
<1>. QED
    BY <1>6, <1>7

\* Units move from the output to the kernel's buffer.
LEMMA FlushStreams ==
    ASSUME SocketInv, StreamInv, NEW fd \in DOMAIN events, Flush(fd)
    PROVE  StreamInv'
<1>1. PICK c \in Conns : c = Conn(fd)
    BY CurrentClient
<1>. DEFINE output == clients[fd].output
            n      == AtMost(Len(output), PipeCapacity - Len(down[c]))
<1>2. /\ output \in Seq(Nat) /\ down[c] \in Seq(Nat) /\ fd \in DOMAIN clients
      /\ Len(down[c]) <= PipeCapacity
    BY <1>1, CurrentClient DEF SocketInv, TypeOK
<1>3. n \in Nat /\ n <= Len(output)
  <2>1. Len(output) \in Nat /\ PipeCapacity - Len(down[c]) \in Nat
    BY <1>2, LenProperties, SocketAssumption
  <2>. QED
    BY <2>1, AtMostBounds
<1>4. UNCHANGED <<peerVars, up, served>>
    BY DEF Flush
<1>5. CASE c \in gone /\ output # <<>>
  <2>1. CloseClient(fd) /\ down' = down
    BY <1>1, <1>5 DEF Flush
  <2>. QED
    BY <1>4, <2>1, PlainCloseStreams
<1>6. CASE ~ (c \in gone /\ output # <<>>)
  <2>. PICK x : x = ClientState(c, clients[fd].input, Unwritten(output, n))
    OBVIOUS
  <2>1. /\ down' = [down EXCEPT ![c] = down[c] \o SubSeq(output, 1, n)]
        /\ clients' = [clients EXCEPT ![fd] = x]
        /\ \/ events' = events
           \/ Advance(fd)
        /\ status' = status
    BY <1>1, <1>6 DEF Flush
  <2>2. x.conn = c /\ x.input = clients[fd].input /\ x.output = SubSeq(output, n + 1, Len(output))
    BY DEF ClientState, Unwritten
  <2>. HIDE DEF n
  <2>3. (down[c] \o SubSeq(output, 1, n)) \o SubSeq(output, n + 1, Len(output))
            = down[c] \o output
    BY <1>2, <1>3, MoveFront
  <2>4. /\ down'[c] = down[c] \o SubSeq(output, 1, n)
        /\ \A d \in Conns \ {c} : down'[d] = down[d]
    BY <2>1 DEF SocketInv, TypeOK
  <2>5. Answered(c, x.output)' = Answered(c, output)
    BY <1>4, <2>2, <2>3, <2>4 DEF Answered, peerVars
  <2>6. Pending(c, x.input)' = Pending(c, clients[fd].input)
    BY <1>4, <2>2 DEF Pending, peerVars
  <2>7. Flowing(c, clients[fd].input, output) /\ InOrder(c)
    BY <1>1, CurrentStreams
  <2>8. Flowing(c, x.input, x.output)'
    BY <1>4, <2>5, <2>6, <2>7, SameStreams DEF peerVars
  <2>9. InOrder(c)'
    BY <1>4, <2>7 DEF InOrder
  <2>10. \A f \in DOMAIN events' : f \in DOMAIN events /\ events'[f] \subseteq events[f]
    BY <2>1 DEF Advance, Restrict
  <2>. QED
    BY <1>1, <1>4, <2>1, <2>2, <2>4, <2>8, <2>9, <2>10, UpdateStreams
<1>. QED
    BY <1>5, <1>6

\* One frame moves from the requests to the answers.
LEMMA ServeFrameStreams ==
    ASSUME SocketInv, StreamInv, NEW fd \in DOMAIN events, ServeFrame(fd)
    PROVE  StreamInv'
<1>1. PICK c \in Conns : c = Conn(fd)
    BY CurrentClient
<1>. DEFINE input  == clients[fd].input
            before == clients[fd].output
            size   == FrameUnits(input[1].kind)
            k      == Len(served[c])
            output == before \o Answer(k + 1)
            all    == Pending(c, input)
<1>. PICK x : x = ClientState(c, SubSeq(input, size + 1, Len(input)), output)
    OBVIOUS
<1>2. /\ input \in Seq(Unit) /\ before \in Seq(Nat) /\ up[c] \in Seq(Unit)
      /\ rest[c] \in Seq(Unit) /\ asked[c] \in Seq(Kinds)
      /\ down[c] \in Seq(Nat) /\ got[c] \in Seq(Nat)
      /\ fd \in DOMAIN clients /\ c = clients[fd].conn
      /\ k \in Nat
    BY <1>1, CurrentClient, CurrentStreams, LenProperties
<1>3. input # <<>> /\ size <= Len(input) /\ Head(input) = input[1] /\ size \in {1, 2}
    BY DEF ServeFrame, WholeFrame, FrameUnits
<1>4. /\ input[1].request = k + 1 /\ all \in Seq(Unit) /\ all # <<>> /\ all[1] = input[1]
    BY <1>1, <1>3, NextRequest
<1>5. /\ served' = [served EXCEPT ![c] = Append(@, input[1].request)]
      /\ UNCHANGED <<peerVars, up, down>>
    BY <1>1, <1>2, <1>3 DEF ServeFrame, wires
<1>6. /\ InOrder(c)' /\ Len(served'[c]) = k + 1
      /\ \A d \in Conns \ {c} : served'[d] = served[d]
    BY <1>1, <1>3, <1>5, NextServed
<1>7. CASE CloseClient(fd)
    BY <1>1, <1>5, <1>6, <1>7, CloseStreams
<1>8. CASE clients' = [clients EXCEPT ![fd] = x] /\ status' = status /\ events' = events
  <2>1. x.conn = c /\ x.input = SubSeq(input, size + 1, Len(input)) /\ x.output = output
    BY DEF ClientState
  <2>2. Flowing(c, input, before)
    BY <1>1, CurrentStreams
  <2>3. Numbered(Pending(c, x.input)', k + 2, asked[c])
    <3>1. up[c] \o rest[c] \in Seq(Unit) /\ size \in Nat
      BY <1>2, <1>3, ConcatProperties
    <3>2. SubSeq(input, size + 1, Len(input)) \o (up[c] \o rest[c])
            = SubSeq(all, size + 1, Len(all))
      <4>. DEFINE later == up[c] \o rest[c]
      <4>1. all = input \o later
        BY DEF Pending
      <4>. HIDE DEF later, all, input, size
      <4>2. FrontDrops(input, later, size)
        <5>1. later \in Seq(Unit)
          BY <3>1 DEF later
        <5>. QED
          BY <1>2, <1>3, <3>1, <5>1, DropFront, Zenon
      <4>. QED
        BY <4>1, <4>2 DEF FrontDrops, later
    <3>3. Pending(c, x.input)' = SubSeq(all, size + 1, Len(all))
      BY <1>5, <2>1, <3>2 DEF Pending, peerVars
    <3>4. Numbered(all, k + 1, asked[c])
      BY <2>2 DEF Flowing
    <3>5. Numbered(SubSeq(all, size + 1, Len(all)), k + 1 + 1, asked[c])
      <4>. HIDE DEF all, k
      <4>1. k + 1 \in Nat
        BY <1>2
      <4>. QED
        BY <1>2, <1>4, <3>4, <4>1, DropFrame
    <3>6. k + 1 + 1 = k + 2
      BY <1>2
    <3>. QED
      BY <3>3, <3>5, <3>6
  <2>4. Answered(c, x.output)' = Count(k + 1)
    <3>1. Answer(k + 1) \in Seq(Nat)
      BY <1>2, AnswerType
    <3>. DEFINE Answers == Seq(Nat)
    <3>2. \A a, b, d \in Answers : Regroups(a, b, d)
      BY GroupAnswers
    <3>3. got[c] \o (down[c] \o (before \o Answer(k + 1)))
            = (got[c] \o (down[c] \o before)) \o Answer(k + 1)
      <4>. DEFINE middle == down[c] \o before
                  next   == Answer(k + 1)
      <4>1. got[c] \in Answers /\ down[c] \in Answers /\ before \in Answers
            /\ next \in Answers /\ middle \in Answers
        BY <1>2, <3>1, ConcatProperties
      <4>. HIDE DEF Answers, before, k, middle, next
      <4>2. Regroups(down[c], before, next) /\ Regroups(got[c], middle, next)
        BY <3>2, <4>1, Zenon
      <4>3. middle \o next = down[c] \o (before \o next)
        BY <4>2 DEF Regroups, middle
      <4>4. (got[c] \o middle) \o next = got[c] \o (middle \o next)
        BY <4>2 DEF Regroups
      <4>5. got[c] \o (down[c] \o (before \o next)) = (got[c] \o middle) \o next
        BY <4>3, <4>4
      <4>. QED
        BY <4>5 DEF middle, next
    <3>4. got[c] \o (down[c] \o before) = Count(k)
      BY <2>2 DEF Flowing, Answered
    <3>5. Count(k) \o Answer(k + 1) = Count(k + 1)
      BY <1>2, NextAnswer
    <3>6. Answered(c, x.output)' = got[c] \o (down[c] \o (before \o Answer(k + 1)))
      BY <1>5, <2>1 DEF Answered, peerVars
    <3>. QED
      BY <3>3, <3>4, <3>5, <3>6, Zenon
  <2>5. Flowing(c, x.input, x.output)'
    <3>1. asked'[c] = asked[c] /\ Len(served'[c]) = k + 1 /\ (k + 1) + 1 = k + 2
      BY <1>2, <1>5, <1>6 DEF peerVars
    <3>. QED
      BY <2>3, <2>4, <3>1 DEF Flowing
  <2>. QED
    BY <1>1, <1>5, <1>6, <1>8, <2>1, <2>5, UpdateStreams
<1>. QED
    BY <1>1, <1>2, <1>3, <1>4, <1>7, <1>8 DEF ServeFrame

\* A new connection gets a descriptor and the streams go on from nothing.
LEMMA HandleNewConnectionStreams ==
    SocketInv /\ StreamInv /\ HandleNewConnection => StreamInv'
<1>. SUFFICES ASSUME SocketInv, StreamInv, HandleNewConnection PROVE StreamInv'
    OBVIOUS
<1>. DEFINE c == Head(backlog)
<1>1. /\ c \in Conns /\ status[c] = "waiting"
      /\ \A f \in DOMAIN clients : Conn(f) \in Conns
  <2>1. backlog \in Seq(Conns) /\ backlog # <<>>
    BY DEF SocketInv, TypeOK, Progress, HandleNewConnection
  <2>2. c \in Conns /\ c = backlog[1] /\ 1 \in DOMAIN backlog
    BY <2>1, HeadTailProperties, LenProperties, EmptySeq
  <2>. QED
    BY <2>2 DEF SocketInv, TypeOK, Ownership, Client, Conn
<1>2. UNCHANGED <<peerVars, wires, served, events>>
    BY DEF HandleNewConnection
<1>. HIDE DEF c
<1>3. CASE Cardinality(DOMAIN clients) < MaximumClients
  <2>1. PICK fd \in Fds \ DOMAIN clients :
          /\ clients' = [f \in DOMAIN clients \cup {fd} |->
                IF f = fd THEN ClientState(c, <<>>, <<>>) ELSE clients[f]]
          /\ status' = [status EXCEPT ![c] = "open"]
    BY <1>3 DEF HandleNewConnection, c
  <2>2. /\ DOMAIN clients' = DOMAIN clients \cup {fd}
        /\ clients'[fd].conn = c /\ clients'[fd].input = <<>> /\ clients'[fd].output = <<>>
        /\ \A f \in DOMAIN clients : clients'[f] = clients[f] /\ f # fd
        /\ status'[c] = "open" /\ \A d \in Conns \ {c} : status'[d] = status[d]
    BY <1>1, <2>1 DEF ClientState, SocketInv, TypeOK
  <2>3. ASSUME NEW d, NEW input, NEW output
        PROVE  Flowing(d, input, output)' = Flowing(d, input, output)
    BY <1>2 DEF Flowing, Pending, Answered, peerVars, wires
  <2>4. Flowing(c, <<>>, <<>>)
    BY <1>1 DEF StreamInv
  <2>5. ASSUME NEW d \in Conns
        PROVE  /\ InOrder(d)'
               /\ (status[d] \in {"new", "waiting"} => Flowing(d, <<>>, <<>>))'
               /\ (status[d] = "open" => Held(d))'
    <3>1. InOrder(d)'
      BY <1>2 DEF StreamInv, InOrder
    <3>2. (status[d] \in {"new", "waiting"} => Flowing(d, <<>>, <<>>))'
      BY <2>2, <2>3 DEF StreamInv
    <3>3. (status[d] = "open" => Held(d))'
      BY <2>2 DEF StreamInv, Held, Conn
    <3>. QED
      BY <3>1, <3>2, <3>3
  <2>6. ASSUME NEW f \in DOMAIN clients'
        PROVE  Flowing(Conn(f), clients[f].input, clients[f].output)'
    <3>1. CASE f = fd
      BY <2>2, <2>3, <2>4, <3>1 DEF Conn
    <3>2. CASE f # fd
      BY <2>2, <2>3, <3>2 DEF StreamInv, Conn
    <3>. QED
      BY <3>1, <3>2
  <2>7. ASSUME NEW f \in DOMAIN events', "hangup" \in events'[f]
        PROVE  Conn(f)' \in gone'
    BY <1>2, <2>2, <2>7 DEF StreamInv, SocketInv, Progress, Conn, peerVars
  <2>. QED
    BY <2>5, <2>6, <2>7 DEF StreamInv
<1>4. CASE ~ (Cardinality(DOMAIN clients) < MaximumClients)
  <2>1. clients' = clients /\ status' = [status EXCEPT ![c] = "closed"]
    BY <1>4 DEF HandleNewConnection, c
  <2>2. /\ \A d \in Conns : status'[d] \in {"new", "waiting"} =>
                                status[d] \in {"new", "waiting"}
        /\ \A d \in Conns : status'[d] = "open" => status[d] = "open"
    BY <1>1, <2>1 DEF SocketInv, TypeOK
  <2>3. \A fd \in DOMAIN events' : "hangup" \in events'[fd] => Conn(fd) \in gone
    BY <1>2 DEF StreamInv
  <2>. QED
    BY <1>2, <2>1, <2>2, <2>3, QuietStreams
<1>. QED
    BY <1>3, <1>4

\* Nobody is connected when the server has stopped.
LEMMA FinishStreams == SocketInv /\ StreamInv /\ Finish => StreamInv'
<1>. SUFFICES ASSUME SocketInv, StreamInv, Finish PROVE StreamInv'
    OBVIOUS
<1>1. /\ DOMAIN clients' = {} /\ DOMAIN events' = {}
      /\ \A c \in Conns : status'[c] # "open" /\ (status'[c] = "new" => status[c] = "new")
                          /\ status'[c] # "waiting"
      /\ UNCHANGED <<peerVars, wires, served>>
    BY DEF Finish, Restrict, SocketInv, Progress
<1>2. ASSUME NEW c \in Conns
      PROVE  InOrder(c)' /\ (Flowing(c, <<>>, <<>>)' = Flowing(c, <<>>, <<>>))
    BY <1>1 DEF StreamInv, InOrder, Flowing, Pending, Answered, peerVars, wires
<1>. QED
    BY <1>1, <1>2 DEF StreamInv

\* StreamInv is kept by every step.
LEMMA NextStreams == SocketInv /\ StreamInv /\ [Next]_vars => StreamInv'
<1>. SUFFICES ASSUME SocketInv, StreamInv, [Next]_vars PROVE StreamInv'
    OBVIOUS
<1>1. ASSUME NEW c \in Conns, Peer(c) PROVE StreamInv'
  <2>1. CASE Connect(c)
    <3>1. /\ UNCHANGED <<peerVars, wires, clients, served, events>>
          /\ status[c] = "new" /\ status' = [status EXCEPT ![c] = "waiting"]
      BY <2>1 DEF Connect, serverVars
    <3>2. /\ \A d \in Conns : status'[d] \in {"new", "waiting"} =>
                                status[d] \in {"new", "waiting"}
          /\ \A d \in Conns : status'[d] = "open" => status[d] = "open"
      BY <3>1 DEF SocketInv, TypeOK
    <3>3. \A fd \in DOMAIN events' : "hangup" \in events'[fd] => Conn(fd) \in gone
      BY <3>1 DEF StreamInv
    <3>. QED
      BY <3>1, <3>2, <3>3, QuietStreams
  <2>. QED
    BY <1>1, <2>1, BeginFrameStreams, ContinueFrameStreams, PeerReadsStreams,
       LeaveStreams
    DEF Peer
<1>2. CASE Poll
  <2>1. \A fd \in DOMAIN events' : "hangup" \in events'[fd] => Conn(fd) \in gone
    BY <1>2 DEF Poll, Ready, Revents
  <2>. QED
    BY <1>2, <2>1, QuietStreams DEF Poll
<1>3. CASE StopServing
    BY <1>3, QuietStreams DEF StopServing, serverVars, StreamInv
<1>4. ASSUME NEW fd \in DOMAIN events, HandleClient(fd) PROVE StreamInv'
  <2>1. CASE HangUp(fd)
    BY <2>1, PlainCloseStreams DEF HangUp, wires
  <2>2. CASE RefuseFrame(fd)
    BY <2>2, PlainCloseStreams DEF RefuseFrame, wires
  <2>3. CASE AwaitInput(fd)
    BY <2>3, QuietStreams DEF AwaitInput, StreamInv
  <2>. QED
    BY <1>4, <2>1, <2>2, <2>3, ReadAvailableDataStreams, ServeFrameStreams,
       FlushStreams
    DEF HandleClient, FlushAvailableOutput, HandleClientWrite
<1>5. CASE UNCHANGED vars
    BY <1>5, QuietStreams DEF vars, peerVars, wires, StreamInv
<1>. QED
    BY <1>1, <1>2, <1>3, <1>4, <1>5, FinishStreams, HandleNewConnectionStreams
    DEF Next, Server

\* Both streams of every connection are whole in every reachable state.
LEMMA StreamsWhole == Spec => [](SocketInv /\ StreamInv)
<1>1. Init => StreamInv
    BY InitStreamInv
<1>2. SocketInv /\ StreamInv /\ [Next]_vars => StreamInv'
    BY NextStreams
<1>. QED
    BY <1>1, <1>2, SocketCorrect, PTL DEF Spec

\* Every peer gets the answers to its requests, each once and in the order of
\* the requests, although frames arrive in pieces, reads and writes take what
\* there is, and the descriptors of the connections are used again
\* (socketManager.swift:309, :316).
THEOREM AnswersKeepOrder == Spec => []AnsweredInOrder
<1>1. SocketInv /\ StreamInv => AnsweredInOrder
  <2>. SUFFICES ASSUME SocketInv, StreamInv PROVE AnsweredInOrder
    OBVIOUS
  <2>1. \A c \in Conns : \A n \in DOMAIN served[c] : served[c][n] = n
    BY DEF StreamInv, InOrder
  <2>2. ASSUME NEW fd \in DOMAIN clients
        PROVE  got[Conn(fd)] \o down[Conn(fd)] \o clients[fd].output
                    = [i \in 1 .. AnswerUnits * Len(served[Conn(fd)]) |-> i]
    <3>. DEFINE Answers == Seq(Nat)
    <3>1. \A a, b, d \in Answers : Regroups(a, b, d)
      BY GroupAnswers
    <3>2. /\ got[Conn(fd)] \in Answers /\ down[Conn(fd)] \in Answers
          /\ clients[fd].output \in Answers
      BY DEF SocketInv, TypeOK, Client, Conn
    <3>3. got[Conn(fd)] \o (down[Conn(fd)] \o clients[fd].output)
            = Count(Len(served[Conn(fd)]))
      BY DEF StreamInv, Flowing, Answered
    <3>. HIDE DEF Answers
    <3>4. (got[Conn(fd)] \o down[Conn(fd)]) \o clients[fd].output
            = got[Conn(fd)] \o (down[Conn(fd)] \o clients[fd].output)
      <4>1. Regroups(got[Conn(fd)], down[Conn(fd)], clients[fd].output)
        BY <3>1, <3>2, Zenon
      <4>. QED
        BY <4>1 DEF Regroups
    <3>. QED
      BY <3>3, <3>4 DEF Count
  <2>. QED
    BY <2>1, <2>2 DEF AnsweredInOrder
<1>. QED
    BY <1>1, StreamsWhole, PTL

------------------------------------------------------------------------------
(* Why a connection is closed                                              *)

\* The answers the peer has not read, and those that wait for it.
LEMMA UnreadAfter ==
    ASSUME SocketInv, StreamInv, NEW fd \in DOMAIN events, NEW c \in Conns,
           c = Conn(fd), ServeFrame(fd)
    PROVE  LET output == clients[fd].output \o Answer(clients[fd].input[1].request)
           IN  /\ Len(output) \in Nat /\ Len(served'[c]) \in Nat /\ Len(got'[c]) \in Nat
               /\ 2 * Len(served'[c]) - Len(got'[c]) >= Len(output)
<1>. DEFINE before == clients[fd].output
            k      == Len(served[c])
<1>1. /\ before \in Seq(Nat) /\ down[c] \in Seq(Nat) /\ got[c] \in Seq(Nat)
      /\ served[c] \in Seq(Nat) /\ k \in Nat
    BY CurrentClient, CurrentStreams, LenProperties
<1>2. clients[fd].input # <<>> /\ clients[fd].conn = c
      /\ Head(clients[fd].input) = clients[fd].input[1]
    BY DEF ServeFrame, WholeFrame, Conn
<1>3. clients[fd].input[1].request = k + 1
    BY <1>2, NextRequest
<1>4. served' = [served EXCEPT ![c] = Append(@, clients[fd].input[1].request)] /\ got' = got
    BY <1>2 DEF ServeFrame, peerVars
<1>5. Len(served'[c]) = k + 1
    BY <1>2, <1>4, NextServed
<1>6. got[c] \o (down[c] \o before) = Count(k)
    BY CurrentStreams DEF Flowing, Answered
<1>7. Len(Count(k)) = 2 * k
    BY <1>1, NextAnswer DEF AnswerUnits
<1>8. Answer(k + 1) \in Seq(Nat) /\ Len(Answer(k + 1)) = 2
    BY <1>1 DEF Answer, AnswerUnits
<1>. DEFINE Answers == Seq(Nat)
            next    == Answer(k + 1)
            middle  == down[c] \o before
            all     == got[c] \o middle
<1>9. /\ got[c] \in Answers /\ down[c] \in Answers /\ before \in Answers
      /\ next \in Answers
    BY <1>1, <1>8
<1>10. \A a, b \in Answers : a \o b \in Answers /\ Len(a \o b) = Len(a) + Len(b)
    BY JoinAnswers
<1>11. Len(next) = 2 /\ Len(all) = 2 * k
    BY <1>6, <1>7, <1>8
<1>12. PICK g \in Nat, d \in Nat, b \in Nat :
            g = Len(got[c]) /\ d = Len(down[c]) /\ b = Len(before)
    BY <1>1, LenProperties
<1>. HIDE DEF Answers, next, before
<1>13. Len(before \o next) = b + 2
  <2>1. Len(before \o next) = Len(before) + Len(next)
    BY <1>9, <1>10, Zenon
  <2>. QED
    BY <1>11, <1>12, <2>1
<1>14. middle \in Answers /\ Len(middle) = d + b
    BY <1>9, <1>10, <1>12
<1>. HIDE DEF middle
<1>15. Len(all) = Len(got[c]) + Len(middle)
    BY <1>9, <1>10, <1>14
<1>. HIDE DEF all, k
<1>16. g + (d + b) = 2 * k
    BY <1>11, <1>12, <1>14, <1>15
<1>17. Len(served'[c]) = k + 1 /\ Len(got'[c]) = g /\ k \in Nat
    BY <1>1, <1>4, <1>5, <1>12
<1>18. 2 * (k + 1) - g >= b + 2
    BY <1>16, <1>17
<1>19. /\ Len(before \o next) \in Nat /\ Len(served'[c]) \in Nat /\ Len(got'[c]) \in Nat
       /\ 2 * Len(served'[c]) - Len(got'[c]) >= Len(before \o next)
    BY <1>13, <1>17, <1>18
<1>. QED
    BY <1>3, <1>19 DEF before, next

\* Only the connection whose entry is handled is closed.
LEMMA ClosesOwn ==
    ASSUME SocketInv, NEW fd \in DOMAIN events, HandleClient(fd), NEW c \in Conns,
           status[c] # "closed", status'[c] = "closed"
    PROVE  c = Conn(fd) /\ status[c] = "open" /\ CloseClient(fd)
<1>1. status[Conn(fd)] = "open"
    BY DEF SocketInv, Ownership, Progress
<1>2. \/ status' = status
      \/ CloseClient(fd)
    BY DEF HandleClient, HangUp, ReadAvailableData, RefuseFrame, ServeFrame,
           AwaitInput, FlushAvailableOutput, HandleClientWrite, Flush
<1>. QED
    BY <1>1, <1>2 DEF CloseClient, SocketInv, TypeOK

\* closeClient has a cause of the client's own.
LEMMA ClosingCause ==
    ASSUME SocketInv, StreamInv, NEW fd \in DOMAIN events, NEW c \in Conns,
           c = Conn(fd), HandleClient(fd), status'[c] = "closed"
    PROVE  Cause(c)
<1>. DEFINE input == clients[fd].input
<1>1. status[c] = "open" /\ status' # status /\ clients[fd].conn = c
    BY DEF SocketInv, Ownership, Progress, Conn
<1>2. asked[c] \in Seq(Kinds) /\ DOMAIN asked[c] = 1 .. Len(asked[c])
    BY CurrentStreams, LenProperties
<1>3. input # <<>> => /\ input[1].kind \in Range(asked[c])
                      /\ Head(input) = input[1]
  <2>. SUFFICES ASSUME input # <<>>
                PROVE  input[1].kind \in Range(asked[c]) /\ Head(input) = input[1]
    OBVIOUS
  <2>1. /\ input[1].request \in 1 .. Len(asked[c])
        /\ input[1].kind = asked[c][input[1].request]
    BY NextRequest
  <2>. QED
    BY <1>2, <2>1 DEF Range
<1>4. CASE HangUp(fd)
    BY <1>4 DEF HangUp, StreamInv, Cause
<1>5. CASE ReadAvailableData(fd)
    BY <1>1, <1>5 DEF ReadAvailableData, EndOfStream, Cause
<1>6. CASE RefuseFrame(fd)
    BY <1>3, <1>6 DEF RefuseFrame, Cause
<1>7. CASE ServeFrame(fd)
  <2>1. input # <<>>
    BY <1>7 DEF ServeFrame, WholeFrame
  <2>2. \/ input[1].kind = "answerTooLong"
        \/ Len(clients[fd].output \o Answer(input[1].request)) > MaximumPending
    BY <1>1, <1>3, <1>7, <2>1 DEF ServeFrame
  <2>3. CASE input[1].kind = "answerTooLong"
    BY <1>3, <2>1, <2>3 DEF Cause
  <2>4. CASE Len(clients[fd].output \o Answer(input[1].request)) > MaximumPending
    <3>. DEFINE length == Len(clients[fd].output \o Answer(input[1].request))
    <3>1. /\ length \in Nat /\ Len(served'[c]) \in Nat /\ Len(got'[c]) \in Nat
          /\ 2 * Len(served'[c]) - Len(got'[c]) >= length
      BY <1>7, UnreadAfter
    <3>2. PICK m \in Nat, s \in Nat, g \in Nat :
            m = length /\ s = Len(served'[c]) /\ g = Len(got'[c])
      BY <3>1
    <3>3. m > MaximumPending /\ 2 * s - g >= m
      BY <2>4, <3>1, <3>2
    <3>4. 2 * s - g > MaximumPending
      BY <3>3, SocketAssumption
    <3>. QED
      BY <3>2, <3>4 DEF Cause, Unread, AnswerUnits
  <2>. QED
    BY <2>2, <2>3, <2>4
<1>8. CASE AwaitInput(fd)
    BY <1>1, <1>8 DEF AwaitInput
<1>9. CASE Flush(fd)
    BY <1>1, <1>9 DEF Flush, Cause
<1>. QED
    BY <1>4, <1>5, <1>6, <1>7, <1>8, <1>9
    DEF HandleClient, FlushAvailableOutput, HandleClientWrite

\* There are as many open connections as clients.
LEMMA ClientsAreOpen ==
    ASSUME SocketInv, StreamInv
    PROVE  Cardinality({d \in Conns : status[d] = "open"}) = Cardinality(DOMAIN clients)
<1>. DEFINE open == {d \in Conns : status[d] = "open"}
            held == DOMAIN clients
            f    == [fd \in held |-> Conn(fd)]
<1>1. \A fd \in held : Conn(fd) \in open
    BY DEF SocketInv, TypeOK, Ownership, Client, Conn
<1>2. \A fd1, fd2 \in held : Conn(fd1) = Conn(fd2) => fd1 = fd2
    BY DEF SocketInv, Ownership
<1>3. \A d \in open : \E fd \in held : Conn(fd) = d
    BY DEF StreamInv, Held
<1>4. IsFiniteSet(held)
  <2>1. held \in SUBSET Fds /\ IsFiniteSet(Fds)
    BY SocketAssumption DEF SocketInv, TypeOK
  <2>. QED
    BY <2>1, FS_Subset
<1>. HIDE DEF open, held
<1>5. f \in Surjection(held, open)
    BY <1>1, <1>3 DEF Surjection
<1>6. f \in Injection(held, open)
    BY <1>1, <1>2 DEF Injection, IsInjective
<1>7. Cardinality(open) = Cardinality(held)
    BY <1>4, <1>5, <1>6, FS_Surjection
<1>. QED
    BY <1>7 DEF open, held

\* No connection is closed for what happened to another: its own peer left,
\* sent or caused something too large or let its answers pile up, or the
\* server stops; and it is refused only when maximumClients are connected
\* (socketManager.swift:186, :214).
THEOREM ClosesForCause == Spec => ClosedForCause
<1>. DEFINE Fair ==
        \A c \in Conns :
            /\ status[c] = "open" /\ status'[c] = "closed" => Cause(c)
            /\ status[c] = "waiting" /\ status'[c] = "closed" =>
                \/ stopping
                \/ Cardinality({d \in Conns : status[d] = "open"}) >= MaximumClients
<1>1. SocketInv /\ StreamInv /\ [Next]_vars => [Fair]_vars
  <2>. SUFFICES ASSUME SocketInv, StreamInv, [Next]_vars, NEW c \in Conns,
                       status[c] \in {"open", "waiting"}, status'[c] = "closed"
                PROVE  /\ status[c] = "open" => Cause(c)
                       /\ status[c] = "waiting" =>
                            \/ stopping
                            \/ Cardinality({d \in Conns : status[d] = "open"}) >= MaximumClients
    OBVIOUS
  <2>1. CASE \E fd \in DOMAIN events : Current(fd) /\ HandleClient(fd)
    <3>1. PICK fd \in DOMAIN events : HandleClient(fd)
      BY <2>1
    <3>2. c = Conn(fd) /\ status[c] = "open"
      BY <3>1, ClosesOwn
    <3>3. Cause(c)
      BY <3>1, <3>2, ClosingCause
    <3>. QED
      BY <3>2, <3>3
  <2>2. CASE HandleNewConnection
    <3>1. ~ (Cardinality(DOMAIN clients) < MaximumClients) /\ status[c] = "waiting"
      <4>1. PICK d \in Conns : d = Head(backlog) /\ status[d] = "waiting"
        <5>1. backlog \in Seq(Conns) /\ backlog # <<>>
          BY <2>2 DEF SocketInv, TypeOK, Progress, HandleNewConnection
        <5>2. Head(backlog) \in Conns /\ Head(backlog) = backlog[1] /\ 1 \in DOMAIN backlog
          BY <5>1, HeadTailProperties, LenProperties, EmptySeq
        <5>. QED
          BY <5>2 DEF SocketInv, Ownership
      <4>2. CASE Cardinality(DOMAIN clients) < MaximumClients
        <5>1. status' = [status EXCEPT ![d] = "open"]
          BY <2>2, <4>1, <4>2 DEF HandleNewConnection
        <5>. QED
          BY <5>1 DEF SocketInv, TypeOK
      <4>3. CASE ~ (Cardinality(DOMAIN clients) < MaximumClients)
        <5>1. status' = [status EXCEPT ![d] = "closed"]
          BY <2>2, <4>1, <4>3 DEF HandleNewConnection
        <5>. QED
          BY <4>1, <4>3, <5>1 DEF SocketInv, TypeOK
      <4>. QED
        BY <4>2, <4>3
    <3>2. Cardinality(DOMAIN clients) \in Nat
      <4>1. DOMAIN clients \in SUBSET Fds /\ IsFiniteSet(Fds)
        BY SocketAssumption DEF SocketInv, TypeOK
      <4>. QED
        BY <4>1, FS_Subset, FS_CardinalityType
    <3>. QED
      BY <3>1, <3>2, ClientsAreOpen, SocketAssumption
  <2>3. CASE Finish
    BY <2>3 DEF Finish, Cause
  <2>4. CASE Poll \/ StopServing \/ UNCHANGED vars
    BY <2>4 DEF Poll, StopServing, vars
  <2>5. CASE \E d \in Conns : Peer(d)
    BY <2>5 DEF Peer, Connect, BeginFrame, ContinueFrame, PeerReads, Leave, SocketInv, TypeOK
  <2>. QED
    BY <2>1, <2>2, <2>3, <2>4, <2>5 DEF Next, Server
<1>2. Spec => [][Fair]_vars
    BY <1>1, StreamsWhole, PTL DEF Spec
<1>. QED
    BY <1>2 DEF ClosedForCause
=============================================================================
