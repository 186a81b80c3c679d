------------------------------ MODULE RockStream ------------------------------
(***************************************************************************)
(* AsyncSocketStream and RockStream (async_socket_stream.cpp,              *)
(* rock/rockstream.cpp) with RockMessageDecoder (rock/rock_protocol.cpp).  *)
(*                                                                         *)
(* Callers put messages on m_list_ctxs and post m_fiber_sem; one fiber     *)
(* (runWrite) takes whatever the list holds and serializes it, another     *)
(* (runRead) parses what comes.  A request leaves its Ctx in m_map_ctxs    *)
(* and suspends.  The semaphore is the counting semaphore that             *)
(* FiberSemaphore implements.  A frame is written and read in one step:    *)
(* there is one writer and one reader, and they close on an error.         *)
(*                                                                         *)
(* The peer runs the same decoder, answers a request at most once, and may *)
(* send requests and notifies of its own and a frame nobody understands.   *)
(***************************************************************************)
EXTENDS Naturals, Sequences

CONSTANTS Requests,   \* requests of fibers of this process, named by their sn
          Notices,    \* messages given to sendMessage
          Asks,       \* messages of the peer; the reply to a request has its name
          Squeezed    \* messages of at least min_length bytes and less gzipped

\* A request has a sn of its own.
ASSUME RockAssumption == Requests \cap (Notices \cup Asks) = {}

Messages == Requests \cup Notices \cup Asks

VARIABLES
    list,       \* m_list_ctxs
    permits,    \* m_fiber_sem
    pending,    \* the keys of m_map_ctxs
    caller,     \* how far the sender of each message has come
    writer,     \* runWrite
    batch,      \* its ctxs
    reader,     \* runRead; the Ask it replies to while it does
    connected,  \* Socket::m_isConnected
    sent,       \* frames written to the socket
    taken,      \* how many of them the peer has read
    inbox,      \* frames the peer has written
    peer,       \* the peer has not closed
    spoken,     \* what the peer has sent of its own
    enqueued,   \* history: messages in the order of enqueue
    crashed     \* an invalid iterator or an uninitialized pointer was used

rockVars == <<list, permits, pending, caller, writer, batch, reader, connected,
              sent, taken, inbox, peer, spoken, enqueued, crashed>>

RockInit ==
    /\ list = <<>> /\ permits = 0 /\ pending = {}
    /\ caller = [m \in Messages |-> "new"]
    /\ writer = "loop" /\ batch = <<>>
    /\ reader = "loop"
    /\ connected = TRUE
    /\ sent = <<>> /\ taken = 0 /\ inbox = <<>> /\ peer = TRUE /\ spoken = {}
    /\ enqueued = <<>>
    /\ crashed = FALSE

(***************************************************************************)
(* request(): addCtx, enqueue, yieldToHold.  Nothing resumes the fiber:    *)
(* Ctx::rsp is reached only with what doRecv returns, and doRecv returns   *)
(* null or runs off its end.                                               *)
(***************************************************************************)
AddCtx(m) ==
    /\ m \in Requests /\ caller[m] = "new"
    /\ pending' = pending \cup {m}
    /\ caller' = [caller EXCEPT ![m] = "added"]
    /\ UNCHANGED <<list, permits, writer, batch, reader, connected, sent,
                   taken, inbox, peer, spoken, enqueued, crashed>>

\* mutant: the map is filled after the list
ReadyAtOnce(m) == caller[m] \in {"new", "added"} /\ (m \in Asks => reader = m)

Ready(m) ==
    \/ m \in Requests /\ caller[m] = "added"
    \/ m \in Notices /\ caller[m] = "new"
    \/ m \in Asks /\ reader = m /\ caller[m] = "new"

\* enqueue: push_back under the lock, then notify.
Push(m) ==
    /\ Ready(m)
    /\ list' = Append(list, m)
    /\ enqueued' = Append(enqueued, m)
    /\ caller' = [caller EXCEPT ![m] = "pushed"]
    /\ UNCHANGED <<permits, pending, writer, batch, reader, connected, sent,
                   taken, inbox, peer, crashed, spoken>>

\* mutant: notify only for the first message of the list
NotifiedOnce == IF Len(list) = 1 THEN permits + 1 ELSE permits

Notified == permits + 1

Notify(m) ==
    /\ caller[m] = "pushed"
    /\ permits' = Notified
    /\ caller' = [caller EXCEPT ![m] = IF m \in Requests THEN "held" ELSE "done"]
    /\ reader' = IF reader = m THEN "returned" ELSE reader
    /\ UNCHANGED <<list, pending, writer, batch, connected, sent, taken, inbox,
                   peer, spoken, enqueued, crashed>>

(***************************************************************************)
(* runWrite.                                                               *)
(***************************************************************************)
WriteLoop ==
    /\ writer = "loop"
    /\ writer' = IF connected THEN "wait" ELSE "done"
    /\ UNCHANGED <<list, permits, pending, caller, batch, reader, connected,
                   sent, taken, inbox, peer, spoken, enqueued, crashed>>

WriteWait ==
    /\ writer = "wait" /\ permits > 0
    /\ permits' = permits - 1
    /\ writer' = "swap"
    /\ UNCHANGED <<list, pending, caller, batch, reader, connected, sent,
                   taken, inbox, peer, spoken, enqueued, crashed>>

\* mutant: the list is copied
Copied == list

Swapped == <<>>

Swap ==
    /\ writer = "swap"
    /\ batch' = list
    /\ list' = Swapped
    /\ writer' = IF list = <<>> THEN "loop" ELSE "send"
    /\ UNCHANGED <<permits, pending, caller, reader, connected, sent, taken,
                   inbox, peer, spoken, enqueued, crashed>>

\* doSend returns unsigned: -1, -3 and -4 count as success, and the loop goes on.
Send ==
    /\ writer = "send"
    /\ sent' = IF connected /\ peer THEN Append(sent, Head(batch)) ELSE sent
    /\ batch' = Tail(batch)
    /\ writer' = IF Len(batch) = 1 THEN "loop" ELSE "send"
    /\ UNCHANGED <<list, permits, pending, caller, reader, connected, taken,
                   inbox, peer, spoken, enqueued, crashed>>

(***************************************************************************)
(* runRead and doRecv.  serializeTo compresses and flags a message of at   *)
(* least min_length bytes; parseFrom uncompresses a flagged frame only if  *)
(* the compressed length reaches min_length too, and takes the first byte  *)
(* of the gzip header for an invalid type otherwise.                       *)
(***************************************************************************)
Parsed(m) == m \notin Squeezed

ReadLoop ==
    /\ reader \in {"loop", "returned"}
    /\ IF reader = "returned"
       THEN \/ reader' = "loop" /\ UNCHANGED crashed
            \/ crashed' = TRUE /\ UNCHANGED reader
       ELSE reader' = (IF connected THEN "recv" ELSE "done") /\ UNCHANGED crashed
    /\ UNCHANGED <<list, permits, pending, caller, writer, batch, connected,
                   sent, taken, inbox, peer, spoken, enqueued>>

\* parseFrom fails: the stream is closed.
RecvError ==
    /\ reader = "recv"
    /\ IF inbox = <<>> THEN ~peer ELSE ~Parsed(Head(inbox)[2])
    /\ connected' = FALSE
    /\ reader' = "loop"
    /\ UNCHANGED <<list, permits, pending, caller, writer, batch, sent, taken,
                   inbox, peer, spoken, enqueued, crashed>>

Received(kind) ==
    /\ reader = "recv"
    /\ inbox # <<>> /\ Head(inbox)[1] = kind /\ Parsed(Head(inbox)[2])
    /\ inbox' = Tail(inbox)

\* sendMessage(rsp) is an enqueue by this fiber.
RecvRequest ==
    /\ Received("request")
    /\ reader' = Head(inbox)[2]
    /\ UNCHANGED <<list, permits, pending, caller, writer, batch, connected,
                   sent, taken, peer, spoken, enqueued, crashed>>

\* getAndDelCtx: find, erase, and the iterator is read all the same: it points
\* to an erased element, which may still read as it was, or is end().
RecvResponse ==
    /\ Received("response")
    /\ pending' = pending \ {Head(inbox)[2]}
    /\ \/ Head(inbox)[2] \in pending /\ reader' = "returned" /\ UNCHANGED crashed
       \/ crashed' = TRUE /\ UNCHANGED reader
    /\ UNCHANGED <<list, permits, caller, writer, batch, connected, sent,
                   taken, peer, spoken, enqueued>>

\* m_notify_handler keeps nothing.
RecvNotify ==
    /\ Received("notify")
    /\ reader' = "returned"
    /\ UNCHANGED <<list, permits, pending, caller, writer, batch, connected, sent,
                   taken, peer, spoken, enqueued, crashed>>

(***************************************************************************)
(* The peer.                                                               *)
(***************************************************************************)
NextRead == sent[taken + 1]

PeerReads ==
    /\ peer /\ taken < Len(sent)
    /\ taken' = taken + 1
    /\ peer' = Parsed(NextRead)
    /\ inbox' = IF NextRead \in Requests /\ Parsed(NextRead)
                THEN Append(inbox, <<"response", NextRead>>) ELSE inbox
    /\ UNCHANGED <<list, permits, pending, caller, writer, batch, reader,
                   connected, sent, spoken, enqueued, crashed>>

\* A request or a notify of the peer.
PeerSpeaks(m, kind) ==
    /\ peer /\ m \notin spoken
    /\ spoken' = spoken \cup {m}
    /\ inbox' = Append(inbox, <<kind, m>>)
    /\ UNCHANGED <<list, permits, pending, caller, writer, batch, reader, connected,
                   sent, taken, peer, enqueued, crashed>>

PeerCloses ==
    /\ peer
    /\ peer' = FALSE
    /\ UNCHANGED <<list, permits, pending, caller, writer, batch, reader,
                   connected, sent, taken, inbox, spoken, enqueued, crashed>>

-------------------------------------------------------------------------------
Calling(m) == AddCtx(m) \/ Push(m) \/ Notify(m)
Writing == WriteLoop \/ WriteWait \/ Swap \/ Send
Reading == ReadLoop \/ RecvError \/ RecvRequest \/ RecvResponse \/ RecvNotify

RockNext ==
    /\ ~crashed
    /\ \/ \E m \in Messages : Calling(m)
       \/ Writing
       \/ Reading
       \/ PeerReads
       \/ \E m \in Asks : PeerSpeaks(m, "request") \/ PeerSpeaks(m, "notify")
       \/ PeerCloses

RockSpec == RockInit /\ [][RockNext]_rockVars

(***************************************************************************)
(* The fibers go on: a fiber that can run is in m_fibers or on a thread.   *)
(* The peer, too, reads and answers.                                       *)
(***************************************************************************)
RockFairness ==
    /\ \A m \in Messages : WF_rockVars(~crashed /\ Calling(m))
    /\ WF_rockVars(~crashed /\ Writing)
    /\ WF_rockVars(~crashed /\ Reading)
    /\ WF_rockVars(~crashed /\ PeerReads)

RockFairSpec == RockSpec /\ RockFairness
-------------------------------------------------------------------------------
(***************************************************************************)
(* Properties.                                                             *)
(***************************************************************************)
(***************************************************************************)
(* The stages of the callers and of the two fibers, in the order of the    *)
(* statements of request, runWrite and runRead; only requests leave a Ctx. *)
(***************************************************************************)
RockTypeOK ==
    /\ list \in Seq(Messages) /\ permits \in Nat /\ pending \subseteq Requests
    /\ caller \in [Messages -> {"new", "added", "pushed", "held", "done"}]
    /\ writer \in {"loop", "wait", "swap", "send", "done"}
    /\ batch \in Seq(Messages)
    /\ reader \in {"loop", "recv", "returned", "done"} \cup Asks
    /\ connected \in BOOLEAN /\ peer \in BOOLEAN /\ crashed \in BOOLEAN
    /\ sent \in Seq(Messages) /\ taken \in 0..Len(sent)
    /\ inbox \in Seq({"response"} \X Requests \cup {"request", "notify"} \X Asks)
    /\ spoken \subseteq Asks /\ enqueued \in Seq(Messages)

(***************************************************************************)
(* While both ends are open every message is in one place and in the order *)
(* of enqueue: on the wire, with the writer or on the list, although       *)
(* producers push while the writer sends what it swapped out               *)
(* (async_socket_stream.cpp:42-73).                                        *)
(***************************************************************************)
SentInOrder == connected /\ peer => sent \o batch \o list = enqueued

(***************************************************************************)
(* The answer to a request finds its context: the request was in the map   *)
(* before it was on the wire, or getAndDelCtx would read through end()     *)
(* (async_socket_stream.cpp:75-94, rock/rockstream.cpp:27-79).             *)
(***************************************************************************)
RepliesFindRequest ==
    \A i \in 1..Len(inbox) : inbox[i][1] = "response" => inbox[i][2] \in pending

(***************************************************************************)
(* The list does not wait for another message: whatever is on it is taken, *)
(* unless the stream is closed; posts and permits may not fall apart.      *)
(***************************************************************************)
QueueServed == (list # <<>>) ~> (list = <<>> \/ ~connected \/ crashed)

(***************************************************************************)
(* A request returns: async_socket_stream.h has the fiber come back with   *)
(* the answer.                                                             *)
(***************************************************************************)
RequestsReturn ==
    \A m \in Requests :
        (caller[m] = "held") ~> (caller[m] = "done" \/ crashed \/ ~connected \/ ~peer)
===============================================================================
