------------------------------- MODULE WebSocket -------------------------------
(***************************************************************************)
(* WSSendMessage and WSRecvMessage (http/ws_session.cpp), one direction of *)
(* a WSConnection (a client) or a WSSession (a server).  A frame is        *)
(* written in up to four calls - head, length, mask, data - and each may   *)
(* suspend the fiber, so that another one may write in between: the pong   *)
(* of the fiber that receives, or a ping.  What was written in between     *)
(* makes the other end read something else than it expects.                *)
(*                                                                         *)
(* A client masks the data of the message in place.  Data is the message   *)
(* it came from and the masks that are on it: the same mask twice is none. *)
(***************************************************************************)
EXTENDS Naturals, Sequences

CONSTANTS Texts,     \* WSFrameMessages of the caller
          LengthOf,  \* "empty", "short", "long" (has a length field), "huge"
          MaxSends,  \* bound: frames that are sent
          MaxPongs   \* bound: pings and pongs

ASSUME WsAssumption ==
    /\ LengthOf \in [Texts -> {"empty", "short", "long", "huge"}]
    /\ MaxSends \in Nat /\ MaxPongs \in Nat

VARIABLES
    client,     \* the sender is a WSConnection
    masksOn,    \* the masks the data of each message has by now
    sends,      \* frames begun
    task,       \* what is left to write of the frame
    stream,     \* what has been written and not read
    pongs,
    offered,    \* history: the messages sent, of one or more frames
    parsing,    \* head of the frame the receiver reads, or NoHead
    joined,     \* data of the frames so far
    delivered,  \* messages recvMessage has returned
    open,       \* the receiver has not closed
    excuse      \* history: why it may

wsVars == <<client, masksOn, sends, task, stream, pongs, offered, parsing,
            joined, delivered, open, excuse>>

NoHead == [part |-> "none"]
Xor(A, k) == IF k \in A THEN A \ {k} ELSE A \cup {k}

WsInit ==
    /\ client \in BOOLEAN
    /\ masksOn = [x \in Texts |-> {}]
    /\ sends = 0 /\ task = <<>>
    /\ stream = <<>> /\ pongs = 0
    /\ offered = <<<<>>>>
    /\ parsing = NoHead /\ joined = <<>> /\ delivered = <<>>
    /\ open = TRUE /\ excuse = {}

(***************************************************************************)
(* The pieces of the frame that carries x: the length field only if the    *)
(* seven bits of the head do not hold it.                                  *)
(***************************************************************************)
\* mutant: a length that fits 16 bits is not written
FrameShort(x, k, f) ==
    <<[part |-> "head", op |-> "data", fin |-> f, length |-> LengthOf[x], masked |-> client]>>
    \o (IF client THEN <<[part |-> "mask", key |-> k]>> ELSE <<>>)
    \o <<[part |-> "data", of |-> x, masks |-> IF client THEN Xor(masksOn[x], k) ELSE masksOn[x]]>>

Frame(x, k, f) ==
    <<[part |-> "head", op |-> "data", fin |-> f, length |-> LengthOf[x], masked |-> client]>>
    \o (IF LengthOf[x] \in {"long", "huge"} THEN <<[part |-> "length"]>> ELSE <<>>)
    \o (IF client THEN <<[part |-> "mask", key |-> k]>> ELSE <<>>)
    \o (IF LengthOf[x] = "empty" THEN <<>>
        ELSE <<[part |-> "data", of |-> x,
                masks |-> IF client THEN Xor(masksOn[x], k) ELSE masksOn[x]]>>)

\* The caller sends x as the next frame of a message.
BeginSend(x, f) ==
    /\ open /\ task = <<>> /\ sends < MaxSends
    /\ sends' = sends + 1
    /\ task' = Frame(x, sends, f)
    /\ masksOn' = IF client THEN [masksOn EXCEPT ![x] = Xor(@, sends)] ELSE masksOn
    /\ offered' = LET n == Len(offered)
                      more == [offered EXCEPT ![n] = Append(@, x)]
                  IN  IF f THEN Append(more, <<>>) ELSE more
    /\ excuse' = excuse
          \cup (IF LengthOf[x] \in {"empty", "huge"} THEN {LengthOf[x]} ELSE {})
          \cup (IF masksOn[x] # {} THEN {"masked twice"} ELSE {})
    /\ UNCHANGED <<client, stream, pongs, parsing, joined, delivered, open>>

WritePiece ==
    /\ task # <<>>
    /\ stream' = IF open THEN Append(stream, Head(task)) ELSE stream
    /\ task' = IF open THEN Tail(task) ELSE <<>>
    /\ UNCHANGED <<client, masksOn, sends, pongs, offered, parsing, joined,
                   delivered, open, excuse>>

\* WSSendPing sends the opcode of a pong, too.
SendPong ==
    /\ open /\ pongs < MaxPongs
    /\ pongs' = pongs + 1
    /\ stream' = Append(stream, [part |-> "head", op |-> "pong", masked |-> FALSE])
    /\ excuse' = IF task # <<>> /\ Head(task).part # "head" THEN excuse \cup {"torn"} ELSE excuse
    /\ UNCHANGED <<client, masksOn, sends, task, offered, parsing, joined,
                   delivered, open>>

(***************************************************************************)
(* WSRecvMessage.  A fiber that finds other bytes than those it needs next *)
(* takes them for what it needs; here it gives up.                         *)
(***************************************************************************)
Shut ==
    /\ open' = FALSE
    /\ UNCHANGED <<client, masksOn, sends, task, stream, pongs, offered,
                   parsing, joined, delivered, excuse>>

Reads(piece) == open /\ stream # <<>> /\ Head(stream).part = piece /\ stream' = Tail(stream)

AfterHead(h) ==
    IF h.length \in {"long", "huge"} THEN "length"
    ELSE IF h.masked THEN "mask" ELSE "data"

\* A client does not insist on the mask.
RecvHead ==
    /\ parsing = NoHead
    /\ Reads("head")
    /\ IF Head(stream).op = "pong" THEN UNCHANGED parsing
       ELSE parsing' = [part |-> AfterHead(Head(stream)), head |-> Head(stream), key |-> 0]
    /\ UNCHANGED <<client, masksOn, sends, task, pongs, offered, joined,
                   delivered, open, excuse>>

RecvLength ==
    /\ parsing.part = "length"
    /\ parsing.head.length # "huge"
    /\ Reads("length")
    /\ parsing' = [parsing EXCEPT !.part = IF parsing.head.masked THEN "mask" ELSE "data"]
    /\ UNCHANGED <<client, masksOn, sends, task, pongs, offered, joined,
                   delivered, open, excuse>>

RecvMask ==
    /\ parsing.part = "mask"
    /\ Reads("mask")
    /\ parsing' = [parsing EXCEPT !.part = "data", !.key = Head(stream).key]
    /\ UNCHANGED <<client, masksOn, sends, task, pongs, offered, joined,
                   delivered, open, excuse>>

\* mutant: the mask stays on
UnmaskedNot(piece) == piece.masks

Unmasked(piece) == IF parsing.head.masked THEN Xor(piece.masks, parsing.key) ELSE piece.masks

RecvData ==
    LET more == Append(joined, <<Head(stream).of, Unmasked(Head(stream))>>)
    IN  /\ parsing.part = "data" /\ parsing.head.length # "empty"
        /\ Reads("data")
        /\ parsing' = NoHead
        /\ IF parsing.head.fin
           THEN delivered' = Append(delivered, more) /\ joined' = <<>>
           ELSE joined' = more /\ UNCHANGED delivered
        /\ UNCHANGED <<client, masksOn, sends, task, pongs, offered, open, excuse>>

\* Too long, nothing to read where readFixSize(0) is taken for an error, or torn.
RecvFails ==
    /\ open
    /\ \/ parsing.part = "length" /\ parsing.head.length = "huge"
       \/ parsing.part = "data" /\ parsing.head.length = "empty"
       \/ /\ stream # <<>>
          /\ Head(stream).part # (IF parsing = NoHead THEN "head" ELSE parsing.part)
    /\ Shut

-------------------------------------------------------------------------------
WsNext ==
    \/ \E x \in Texts, f \in BOOLEAN : BeginSend(x, f)
    \/ WritePiece
    \/ SendPong
    \/ RecvHead \/ RecvLength \/ RecvMask \/ RecvData
    \/ RecvFails

WsSpec == WsInit /\ [][WsNext]_wsVars
-------------------------------------------------------------------------------
Sizes == {"empty", "short", "long", "huge"}
Masks == SUBSET Nat

DataHeads ==
    [part : {"head"}, op : {"data"}, fin : BOOLEAN, length : Sizes, masked : BOOLEAN]

Pongs == [part : {"head"}, op : {"pong"}, masked : {FALSE}]

Pieces ==
    DataHeads \cup Pongs
    \cup [part : {"length"}] \cup [part : {"mask"}, key : Nat]
    \cup [part : {"data"}, of : Texts, masks : Masks]

Begun == [part : {"length", "mask", "data"}, head : DataHeads, key : Nat]

WsTypeOK ==
    /\ client \in BOOLEAN /\ open \in BOOLEAN
    /\ masksOn \in [Texts -> Masks]
    /\ sends \in Nat /\ pongs \in Nat
    /\ task \in Seq(Pieces) /\ stream \in Seq(Pieces)
    /\ offered \in Seq(Seq(Texts)) /\ Len(offered) > 0
    /\ parsing \in {NoHead} \cup Begun
    /\ joined \in Seq(Texts \X Masks) /\ delivered \in Seq(Seq(Texts \X Masks))
    /\ excuse \subseteq {"empty", "huge", "masked twice", "torn"}

(***************************************************************************)
(* What recvMessage returns is what was sent, message by message, with the *)
(* frames of each joined and their masks taken off, pings between frames   *)
(* or not.  A client that sends the same WSFrameMessage again sends it     *)
(* with the mask of the first time still on it.                            *)
(***************************************************************************)
DeliveredAsSent ==
    excuse = {} =>
        \A i \in 1..Len(delivered) :
            delivered[i] = [j \in 1..Len(offered[i]) |-> <<offered[i][j], {}>>]

(***************************************************************************)
(* The connection is not given up over frames that are well formed, unless *)
(* one is empty, which readFixSize makes an error, too large, or torn by a *)
(* ping or a pong that another fiber wrote into it.                        *)
(***************************************************************************)
SessionSurvives == open \/ excuse \ {"masked twice"} # {}
===============================================================================
