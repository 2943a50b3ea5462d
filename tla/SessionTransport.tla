-------------------------- MODULE SessionTransport --------------------------
(***************************************************************************)
(* What happens to one request of the addon: HazkeyServerConnector's one   *)
(* byte stream to the server, and the server that answers.                 *)
(*                                                                         *)
(* The addon is single threaded: a handler waits for each of its requests  *)
(* in turn, so a handler is one step and its requests are function calls.  *)
(* What a call may do is a set of outcomes; an outcome is a record of the  *)
(* world after the call and the value it returns.  The world w has         *)
(*   s    the HazkeyClientSession,          ui  the HazkeyState,           *)
(*   srv  the server session of this input context,                        *)
(*   net  [up, queue, proc]: is the socket connected, the lifecycle frames *)
(*        the connector owns, which build of the server runs,              *)
(*   h    history and fault budget.                                        *)
(*                                                                         *)
(* A lifecycle frame has a budget of 10 ms.  If no response came, its      *)
(* exchange stays at the head of the stream and later frames queue up      *)
(* behind it; the next request of any kind first finishes them.  The queue *)
(* is the sequence of these frames; the first may have been answered       *)
(* already (done).                                                         *)
(***************************************************************************)
EXTENDS ImeSession, FiniteSetsExt

CONSTANTS
    Faults,         \* which of the faults below may happen
    MaxFaults       \* how many in a behaviour

AllFaults == {"break", "refuse", "slow", "restart", "stop", "evict",
              "invalidate", "clearLearning"}

ASSUME FaultAssumption == Faults \subseteq AllFaults /\ MaxFaults \in Nat

NoSnapshot ==
    [rev |-> 0, phase |-> "idle", comp |-> <<>>, learn |-> FALSE, ck |-> NoCheckpoint,
     fx |-> <<>>]
Response(st, snap) == [st |-> st, sid |-> 0, snap |-> snap]
NoResponse == Response("none", NoSnapshot)

\* The outcomes of Do at p; those that ask for it are done once more, from where
\* they led
OnceMore(Do(_), Again(_), From(_), p) ==
    UNION {IF Again(o) THEN Do(From(o)) ELSE {o} : o \in Do(p)}

\* What n turns make of start; Turn(i, x) is what turn i makes of x
AfterTurns(Turn(_, _), start, n) ==
    LET after[i \in 0 .. n] == IF i = 0 THEN start ELSE Turn(i, after[i - 1])
    IN  after[n]

\* The worlds in which fault f happened in w, if it still may
Fault(w, f, after) ==
    IF f \in Faults /\ w.h.faults < MaxFaults
    THEN {[v EXCEPT !.h.faults = @ + 1] : v \in after} ELSE {}

\* Only equality of request and session IDs matters: take the least one that
\* nothing refers to.
Unused(used) == Min({n \in 1 .. Cardinality(used) + 1 : n \notin used})

FreshRid(w) == Unused({w.s.journal[i].rid : i \in DOMAIN w.s.journal}
                      \cup {e.rid : e \in w.srv.cache}
                      \cup {w.net.queue[i].m.rid : i \in DOMAIN w.net.queue})

FreshSid(w) == Unused({w.s.id, w.srv.sid}
                      \cup {w.s.journal[i].sid : i \in DOMAIN w.s.journal}
                      \cup {w.net.queue[i].m.sid : i \in DOMAIN w.net.queue})

OpenSession(ctx) ==
    [op |-> "open", sid |-> 0, rid |-> 0, act |-> Act("none"), exp |-> 0,
     secure |-> ctx.secure]
CloseSession(sid) == [OpenSession([secure |-> FALSE]) EXCEPT !.op = "close", !.sid = sid]
ImeAction(sid, a) ==
    [op |-> "action", sid |-> sid, rid |-> a.rid, act |-> a.act,
     exp |-> a.exp, secure |-> FALSE]

------------------------------------------------------------------------------
(* The server                                                              *)

\* Mutant: learning is committed on disconnect, too
RemoveSession_Commits(w, commitsPendingLearning) ==
    [w EXCEPT !.srv = NoSession, !.h.taught = @ \cup w.srv.learn]

\* removeSession: explicit close, idle timeout and capacity eviction commit
\* staged learning, a disconnected socket discards it
RemoveSession(w, commitsPendingLearning) ==
    [w EXCEPT !.srv = NoSession,
              !.h.taught = @ \cup IF commitsPendingLearning THEN w.srv.learn
                                  ELSE {}]

\* openSession
Opened(w, m) ==
    LET sid == FreshSid(w)
    IN  [w |-> [w EXCEPT !.srv = NewSession(sid, m.secure, w.net.proc),
                         !.h.orphans = @ \cup ({w.srv.sid} \ {0})],
         r |-> [Response("success", NoSnapshot) EXCEPT !.sid = sid]]

\* performImeAction
Handled(w, m) ==
    {[w |-> [w EXCEPT !.srv = o.x, !.h.taught = @ \cup o.taught,
                      !.h.deleted = @ \cup o.cut],
      r |-> Response(o.st, o.snap)] :
        o \in HandleImeAction(w.srv, m.rid, m.act, m.exp)}

\* ProtocolHandler.processProto
Serve(w, m) ==
    LET lives == w.srv.sid = m.sid /\ m.sid # 0
    IN  CASE m.op = "open" -> {Opened(w, m)}
          [] m.op \in {"close", "action"} /\ ~lives ->
                {[w |-> w, r |-> Response("gone", NoSnapshot)]}
          [] m.op = "close" /\ lives ->
                {[w |-> RemoveSession(w, TRUE), r |-> Response("success", NoSnapshot)]}
          [] m.op = "action" /\ lives -> Handled(w, m)

\* Events of the server that are not requests of this input context.
\* pruneExpiredSessions after half an hour, or LRU eviction for the open of
\* another input context, which waits behind the frames of this one: a frame
\* that is on the wire is served first.
Evict(w) == Fault(w, "evict",
    IF w.srv.sid # 0 /\ (w.net.queue = <<>> \/ Head(w.net.queue).done)
    THEN {RemoveSession(w, TRUE)} ELSE {})

DictionaryChange(w) == Fault(w, "invalidate",
    {[w EXCEPT !.srv = InvalidateCandidates(w.srv)]} \ {w})

ClearAllLearningData(w) == Fault(w, "clearLearning",
    {[w EXCEPT !.srv = DiscardLearning(w.srv)]} \ {w})

\* The socket is gone: the connector drops what it owned, closeAll discards
\* the sessions of its file descriptor.
Disconnected(w) ==
    [RemoveSession(w, FALSE) EXCEPT !.net.up = FALSE, !.net.queue = <<>>]

\* The server was killed and started again, perhaps by a build that cannot
\* read the checkpoints of the old one
Restart(w) == Fault(w, "restart",
    {[Disconnected(w) EXCEPT !.net.proc = p] : p \in {w.net.proc, w.net.proc + 1}})

\* The server was stopped in an orderly way: it leaves the poll loop without
\* another look at its clients, and saveAll commits what is staged.
Stop(w) == Fault(w, "stop",
    {[Disconnected(RemoveSession(w, TRUE)) EXCEPT !.net.proc = p] :
        p \in {w.net.proc, w.net.proc + 1}})

ServerEvent(w) ==
    Evict(w) \cup DictionaryChange(w) \cup ClearAllLearningData(w)
        \cup Restart(w) \cup Stop(w)

------------------------------------------------------------------------------
(* The connector                                                           *)

\* staleLifecycleRetry: a stale disposition is sent once more, under a new
\* request ID, at the revision the server reported
ServeLifecycle(w, m) ==
    OnceMore(LAMBDA p : Serve(p.w, p.m),
             LAMBDA o : o.r.st = "stale" /\ m.act.op = "resolve",
             LAMBDA o : [w |-> o.w, m |-> [m EXCEPT !.rid = FreshRid(o.w),
                                                    !.exp = o.r.snap.rev]],
             [w |-> w, m |-> m])

\* The head of lifecycleQueue_ stays there, answered or not, because its
\* exchange took too long; or the exchange broke
HeadUnfinished(w, o) ==
    Fault(w, "slow", {w, [o.w EXCEPT !.net.queue[1].done = TRUE,
                                     !.net.queue[1].r = o.r]})
        \cup Fault(o.w, "break", {Disconnected(o.w)})

\* finishHead: the frame at the head, unless it has been answered already
FinishHead(w) ==
    LET head == Head(w.net.queue)
    IN  IF head.done THEN {[w |-> w, r |-> head.r]} ELSE ServeLifecycle(w, head.m)

\* One turn of the loop over lifecycleQueue_, with which r becomes the response
\* of the frame if that equals m
DrainHead(o, m) ==
    IF ~o.ok THEN {o}
    ELSE UNION {{[w |-> [p.w EXCEPT !.net.queue = Tail(@)], ok |-> TRUE,
                  r |-> IF Head(o.w.net.queue).m = m THEN p.r ELSE o.r]}
                \cup {[w |-> v, r |-> o.r, ok |-> FALSE] : v \in HeadUnfinished(o.w, p)} :
                p \in FinishHead(o.w)}

\* Finish the frames in order.  ok tells whether the stream is free again.
Drain(w, m) ==
    AfterTurns(LAMBDA n, os : UNION {DrainHead(o, m) : o \in os},
               {[w |-> w, r |-> NoResponse, ok |-> TRUE]}, Len(w.net.queue))

\* connectServer
Connect(w) ==
    {[w EXCEPT !.net.up = TRUE]} \cup Fault(w, "refuse", {w})

\* transact(..., lifecycle): the connector takes the frame over, whatever
\* becomes of the exchange
TakeOver(w, m) ==
    IF \E i \in DOMAIN w.net.queue : w.net.queue[i].m = m THEN w
    ELSE [w EXCEPT !.net.queue =
            Append(@, [m |-> m, r |-> NoResponse, done |-> FALSE])]

\* The exchange broke; the connector tries to have a new socket at once
Broken(w, tryConnect) ==
    UNION {IF tryConnect THEN Connect(v) ELSE {v} :
            v \in Fault(w, "break", {Disconnected(w)})}

\* transact(..., normal) on a free stream: the response, or a broken exchange,
\* which may or may not have reached the server
Exchange(w, m, tryConnect) ==
    UNION {{o} \cup {[w |-> v, r |-> NoResponse] :
                        v \in Broken(w, tryConnect) \cup Broken(o.w, tryConnect)} :
            o \in Serve(w, m)}

\* One request, with whatever the server did of its own before it.  A
\* lifecycle request does not connect; every request first finishes the
\* frames the connector owns.
Transact(w, m, lifecycle, tryConnect) ==
    UNION {CASE ~v.net.up -> {[w |-> v, r |-> NoResponse]}
             [] OTHER ->
                UNION {IF lifecycle \/ ~o.ok \/ o.r # NoResponse
                       THEN {[w |-> o.w, r |-> o.r]}
                       ELSE Exchange(o.w, m, tryConnect) :
                       o \in Drain(IF lifecycle THEN TakeOver(v, m) ELSE v, m)} :
           v \in UNION {IF u.net.up \/ lifecycle \/ ~tryConnect THEN {u}
                        ELSE Connect(u) : u \in {w} \cup ServerEvent(w)}}
==============================================================================
