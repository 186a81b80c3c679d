-------------------------------- MODULE HttpPool -------------------------------
(***************************************************************************)
(* HttpConnectionPool and HttpConnection (http/http_connection.cpp) with   *)
(* the HttpSession of an HttpServer at the other end (http/http_session.cpp, *)
(* http/http_server.cpp).  Fibers share the connections of the pool: one   *)
(* takes a connection, writes a request, reads the response and gives the  *)
(* connection back.  What ties a response to its request is only the order *)
(* on the connection, so one that failed must not be used again.           *)
(*                                                                         *)
(* The response to a chunked request comes in two parts: the header with   *)
(* the first chunk, and the rest, which recvResponse does not read because *)
(* it goes on only after the last chunk.  m_createTime is 0 for ever, so   *)
(* no connection is too old; m_maxSize bounds nothing.                     *)
(***************************************************************************)
EXTENDS Integers, Sequences

CONSTANTS Conns,       \* connections that may be made
          Clients,     \* fibers that make one request each
          Chunked,     \* those whose response is chunked
          MaxRequest,  \* m_maxRequest
          NoConn,      \* null
          Failed       \* an HttpResult without a response

ASSUME PoolAssumption == NoConn \notin Conns

VARIABLES
    idle,      \* m_conns
    total,     \* m_total
    linked,    \* connections whose socket is connected
    uses,      \* m_request
    stage,     \* how far the fiber of each request has come
    conn,      \* the connection it has
    got,       \* its result
    asked,     \* requests on the way to the server
    replies,   \* parts of responses on the way back
    serving    \* connections the server has not closed

poolVars == <<idle, total, linked, uses, stage, conn, got, asked, replies, serving>>

(***************************************************************************)
(* get       about to call getConnection                                   *)
(* connect   in it, nothing usable was idle                                *)
(* send      has a connection, about to write the request                  *)
(* receive   about to read the response                                    *)
(* release   has a result, the connection goes out of scope                *)
(***************************************************************************)
PoolTypeOK ==
    /\ idle \in Seq(Conns) /\ total \in Int
    /\ linked \subseteq Conns /\ serving \subseteq Conns
    /\ uses \in [Conns -> Nat]
    /\ stage \in [Clients -> {"get", "connect", "send", "receive", "release", "done"}]
    /\ conn \in [Clients -> Conns \cup {NoConn}]
    /\ got \in [Clients -> Clients \cup {NoConn, Failed}]
    /\ asked \in [Conns -> Seq(Clients)]
    /\ replies \in [Conns -> Seq(Clients \X {"head", "rest"})]

PoolInit ==
    /\ idle = <<>> /\ total = 0
    /\ linked = {} /\ serving = {}
    /\ uses = [c \in Conns |-> 0]
    /\ stage = [f \in Clients |-> "get"]
    /\ conn = [f \in Clients |-> NoConn]
    /\ got = [f \in Clients |-> NoConn]
    /\ asked = [c \in Conns |-> <<>>]
    /\ replies = [c \in Conns |-> <<>>]

Enters(f, s) == stage' = [stage EXCEPT ![f] = s]

\* getConnection under the lock: the first one that is connected.
Usable == {i \in 1..Len(idle) : idle[i] \in linked}
FirstUsable == CHOOSE i \in Usable : \A j \in Usable : i <= j

TakeIdle(f) ==
    /\ stage[f] = "get" /\ Usable # {}
    /\ conn' = [conn EXCEPT ![f] = idle[FirstUsable]]
    /\ idle' = SubSeq(idle, FirstUsable + 1, Len(idle))
    /\ total' = total - (FirstUsable - 1)
    /\ Enters(f, "send")
    /\ UNCHANGED <<linked, uses, got, asked, replies, serving>>

NoneIdle(f) ==
    /\ stage[f] = "get" /\ Usable = {}
    /\ idle' = <<>>
    /\ total' = total - Len(idle)
    /\ Enters(f, "connect")
    /\ UNCHANGED <<linked, uses, conn, got, asked, replies, serving>>

Connect(f, c) ==
    /\ stage[f] = "connect" /\ uses[c] = 0 /\ \A g \in Clients : conn[g] # c
    /\ conn' = [conn EXCEPT ![f] = c]
    /\ linked' = linked \cup {c}
    /\ serving' = serving \cup {c}
    /\ total' = total + 1
    /\ Enters(f, "send")
    /\ UNCHANGED <<idle, uses, got, asked, replies>>

ConnectFails(f) ==
    /\ stage[f] = "connect"
    /\ got' = [got EXCEPT ![f] = Failed]
    /\ Enters(f, "done")
    /\ UNCHANGED <<idle, total, linked, uses, conn, asked, replies, serving>>

(***************************************************************************)
(* doRequest.  A request written after the server has closed may seem to   *)
(* get through; when the write fails the connection is not closed.         *)
(***************************************************************************)
SendRequest(f) ==
    /\ stage[f] = "send"
    /\ asked' = IF conn[f] \in serving THEN [asked EXCEPT ![conn[f]] = Append(@, f)] ELSE asked
    /\ Enters(f, "receive")
    /\ UNCHANGED <<idle, total, linked, uses, conn, got, replies, serving>>

SendFails(f) ==
    /\ stage[f] = "send" /\ conn[f] \notin serving
    /\ got' = [got EXCEPT ![f] = Failed]
    /\ Enters(f, "release")
    /\ UNCHANGED <<idle, total, linked, uses, conn, asked, replies, serving>>

\* recvResponse: what was read beyond the response is dropped with the buffer.
ReceiveResponse(f) ==
    LET c == conn[f]
    IN  /\ stage[f] = "receive"
        /\ replies[c] # <<>> /\ Head(replies[c])[2] = "head"
        /\ got' = [got EXCEPT ![f] = Head(replies[c])[1]]
        /\ \E n \in 1..Len(replies[c]) :
              replies' = [replies EXCEPT ![c] = SubSeq(@, n + 1, Len(@))]
        /\ Enters(f, "release")
        /\ UNCHANGED <<idle, total, linked, uses, conn, asked, serving>>

\* mutant: a time-out leaves the connection open
ReceiveFailsOpen(f) ==
    /\ stage[f] = "receive"
    /\ got' = [got EXCEPT ![f] = Failed]
    /\ Enters(f, "release")
    /\ UNCHANGED <<idle, total, linked, uses, conn, asked, replies, serving>>

\* The receive timeout, the end of the stream, or something that does not parse.
ReceiveFails(f) ==
    /\ stage[f] = "receive"
    /\ got' = [got EXCEPT ![f] = Failed]
    /\ linked' = linked \ {conn[f]}
    /\ Enters(f, "release")
    /\ UNCHANGED <<idle, total, uses, conn, asked, replies, serving>>

Kept(c) == c \in linked /\ uses[c] + 1 < MaxRequest

\* ReleasePtr, when the shared_ptr goes.
Release(f) ==
    LET c == conn[f]
    IN  /\ stage[f] = "release"
        /\ uses' = [uses EXCEPT ![c] = @ + 1]
        /\ IF Kept(c)
           THEN idle' = Append(idle, c) /\ UNCHANGED <<linked, total>>
           ELSE linked' = linked \ {c} /\ total' = total - 1 /\ UNCHANGED idle
        /\ conn' = [conn EXCEPT ![f] = NoConn]
        /\ Enters(f, "done")
        /\ UNCHANGED <<got, asked, replies, serving>>

(***************************************************************************)
(* handleClient: recvRequest, the servlet, sendResponse, again.  Requests  *)
(* that were read together with the first are dropped with the buffer.     *)
(* The session is closed by its timeout, without keep-alive or by a server *)
(* that ends.                                                              *)
(***************************************************************************)
Answer(f) ==
    <<<<f, "head">>>> \o (IF f \in Chunked THEN <<<<f, "rest">>>> ELSE <<>>)

HandleClient(c) ==
    /\ c \in serving /\ asked[c] # <<>>
    /\ \E n \in 1..Len(asked[c]) : asked' = [asked EXCEPT ![c] = SubSeq(@, n + 1, Len(@))]
    /\ replies' = [replies EXCEPT ![c] = @ \o Answer(Head(asked[c]))]
    /\ UNCHANGED <<idle, total, linked, uses, stage, conn, got, serving>>

CloseSession(c) ==
    /\ c \in serving
    /\ serving' = serving \ {c}
    /\ UNCHANGED <<idle, total, linked, uses, stage, conn, got, asked, replies>>

-------------------------------------------------------------------------------
PoolNext ==
    \/ \E f \in Clients :
          \/ TakeIdle(f) \/ NoneIdle(f) \/ ConnectFails(f)
          \/ \E c \in Conns : Connect(f, c)
          \/ SendRequest(f) \/ SendFails(f)
          \/ ReceiveResponse(f) \/ ReceiveFails(f)
          \/ Release(f)
    \/ \E c \in Conns : HandleClient(c) \/ CloseSession(c)

PoolSpec == PoolInit /\ [][PoolNext]_poolVars
-------------------------------------------------------------------------------
(***************************************************************************)
(* A response is that of the request it is given to, also when an earlier  *)
(* request on the connection was given up and its response is still to     *)
(* come, and when parts of a chunked response were left unread             *)
(* (http/http_connection.cpp:15-118, 297-342, 431-474).                    *)
(***************************************************************************)
AnswersMatch == \A f \in Clients : got[f] \in {NoConn, Failed, f}
===============================================================================
