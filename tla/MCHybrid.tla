------------------------------ MODULE MCHybrid ------------------------------
EXTENDS HybridRequests

\* What a session of a client that resolves its learning asks for, and what
\* one of a client that does not
Asks(resolving, other) ==
    [s \in Sessions |-> IF s \in StagingSessions THEN resolving ELSE other]

\* One session of a client that asks for everything a session is asked while it
\* lives
Alone == Asks(Kinds \ {"restart", "close", "maintain"}, {})
\* A session that learns, and one that enters and leaves a secure field, each
\* beside a session that is typed into
Learning == Asks({"insert", "convert", "learn"}, {"insert"})
Secrecy == Asks({"insert", "convert", "secure"}, {"insert"})
\* Changes of context, and requests of the registry over two sessions
Changes == Asks({"insert", "focus", "revise"}, {"insert", "restart"})
Upkeep == Asks({"insert", "convert", "secure", "close", "revise"}, {"maintain"})

Speculating == {Alone, Learning, Secrecy, Changes, Upkeep}
Waiting == {Upkeep}
=============================================================================
