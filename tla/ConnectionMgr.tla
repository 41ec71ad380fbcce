--------------------------- MODULE ConnectionMgr ---------------------------
(***************************************************************************)
(* The connections to one server that mod_http keeps for its next request: *)
(* a Connection of ConnectionMgr, with a few slots, each empty or with a   *)
(* socket, each busy or not.  A request asks for a connection and opens    *)
(* one of its own if it gets none; when it has been answered the           *)
(* connection is kept, or closed with the request; a kept one goes when    *)
(* its time is over or the server closes.                                  *)
(***************************************************************************)
EXTENDS Naturals, FiniteSets, FiniteSetsExt

CONSTANTS Socks,     \* the sockets that are opened
          MaxConns,  \* MAX_CONN_PER_SERVER
          NoSock     \* NULL

ConnectionMgrAssumption == MaxConns \in Nat \ {0} /\ NoSock \notin Socks

VARIABLES conn,      \* the Connection of the server, and if there is one
          where      \* what has become of each socket

Slots == 1..MaxConns
NoConnection == [known |-> FALSE, slot |-> [i \in Slots |-> NoSock],
                 busy |-> [i \in Slots |-> FALSE], count |-> 0]

Init == conn = NoConnection /\ where = [s \in Socks |-> "unopened"]

\* The methods work on both: x.c is the Connection, x.w says where sockets are.
Now == [c |-> conn, w |-> where]
Become(x) == conn' = x.c /\ where' = x.w

\* Wrong: an empty slot is one that is not busy.
AddSocketFree(x, s) ==
    LET empty == {i \in Slots : ~x.c.busy[i]}
        i     == Min(empty)
    IN IF empty = {} THEN [x EXCEPT !.w[s] = "deleted"]
       ELSE [x EXCEPT !.c.slot[i] = s, !.c.count = @ + 1, !.w[s] = "kept"]

\* The socket is deleted if no slot is empty.
AddSocket(x, s) ==
    LET empty == {i \in Slots : x.c.slot[i] = NoSock}
        i     == Min(empty)
    IN IF empty = {} THEN [x EXCEPT !.w[s] = "deleted"]
       ELSE [x EXCEPT !.c.slot[i] = s, !.c.busy[i] = FALSE,
                      !.c.count = @ + 1, !.w[s] = "kept"]

AddConnection(x, s) ==
    IF x.c.known THEN AddSocket(x, s)
    ELSE [c |-> [NoConnection EXCEPT !.known = TRUE, !.slot[1] = s, !.count = 1],
          w |-> [x.w EXCEPT ![s] = "kept"]]

\* The slot is as busy as it was.
RemSocket(x, s) ==
    IF \E i \in Slots : x.c.slot[i] = s
    THEN [x EXCEPT !.c.slot = [i \in Slots |-> IF @[i] = s THEN NoSock ELSE @[i]],
                   !.c.count = @ - 1]
    ELSE x

RemoveConnection(x, s) ==
    LET y == RemSocket(x, s)
    IN IF x.c.known /\ y.c.count = 0 THEN [y EXCEPT !.c = NoConnection] ELSE y

\* RemoveConnection() and the delete that follows it everywhere.
Drop(x, s) ==
    LET y == RemoveConnection(x, s) IN [y EXCEPT !.w[s] = "deleted"]

ReleaseConnection(x, s) ==
    IF x.c.known /\ \E i \in Slots : x.c.slot[i] = s
    THEN [x EXCEPT !.c.busy = [i \in Slots |-> @[i] /\ x.c.slot[i] # s],
                   !.w[s] = "kept"]
    ELSE AddConnection(x, s)

\* An error of 0 in SO_ERROR, none at all, is one that StillConnected() does
\* not know, so that no connection ever is.
StillConnected == FALSE

\* GetSocket() takes the first slot that is not busy, empty or not.
Idle(x)   == {i \in Slots : ~x.c.busy[i]}
Finds(x)  == x.c.known /\ Idle(x) # {}
Found(x)  == x.c.slot[Min(Idle(x))]
Taken(x)  == [x EXCEPT !.c.busy[Min(Idle(x))] = TRUE]
Closed(x) == Finds(x) /\ Found(x) # NoSock /\ ~StillConnected

\* FindConnection() goes on while it is given sockets that are closed, each in a slot
\* of its own.  The result is the socket, or NULL.
FindConnection(x) ==
    LET tried[n \in 0..MaxConns] ==
            IF n = 0 THEN x
            ELSE IF Closed(tried[n - 1]) THEN Drop(Taken(tried[n - 1]), Found(tried[n - 1]))
            ELSE tried[n - 1]
        y == tried[MaxConns]
    IN IF ~Finds(y) THEN [x |-> y, sock |-> NoSock]
       ELSE IF Found(y) = NoSock THEN [x |-> Taken(y), sock |-> NoSock]
       ELSE [x |-> [Taken(y) EXCEPT !.w[Found(y)] = "used"], sock |-> Found(y)]

-----------------------------------------------------------------------------
\* ConnectToServer(), with a connection of its own if it finds none.
Connect ==
    LET found == FindConnection(Now)
    IN IF found.sock # NoSock THEN Become(found.x)
       ELSE \E s \in Socks : /\ where[s] = "unopened"
                             /\ Become([found.x EXCEPT !.w[s] = "used"])

\* ResetServerConnection() and CloseServerSocket().
Release(s) == where[s] = "used" /\ Become(ReleaseConnection(Now, s))
Close(s)   == where[s] = "used" /\ Become(Drop(Now, s))

\* SocketEvent(): an error, CONN_EXPIRE_TIME, or the end of the data.  The
\* server's bytes end it too, as HandleRead() asks StillConnected().
Expire(s) == where[s] = "kept" /\ Become(Drop(Now, s))

\* The module is unloaded, or a child process forked: Cleanup() closes the
\* connections that are used, Clear() those that are kept.
Cleanup ==
    /\ conn' = NoConnection
    /\ where' = [s \in Socks |-> IF where[s] = "unopened" THEN "unopened"
                                 ELSE "deleted"]

Next == \/ Connect \/ Cleanup
        \/ \E s \in Socks : Release(s) \/ Close(s) \/ Expire(s)

vars == <<conn, where>>

-----------------------------------------------------------------------------
\* Each connection that is kept is in one slot that is not busy, where the next
\* request looks, and one that is deleted is in none; a Connection is there as
\* long as it has any.  Slots that were emptied while they were busy, and the
\* order in which requests end and connections expire, do not change that.
PoolSound ==
    /\ conn.known => conn.count > 0
    /\ conn.count = Cardinality({i \in Slots : conn.slot[i] # NoSock})
    /\ \A s \in Socks :
          /\ where[s] = "kept" =>
                Cardinality({i \in Slots : conn.slot[i] = s /\ ~conn.busy[i]}) = 1
          /\ where[s] \in {"unopened", "deleted"} =>
                \A i \in Slots : conn.slot[i] # s

\* A connection is not kept for ever.
NoneKept == \A s \in Socks : where[s] # "kept"
=============================================================================
