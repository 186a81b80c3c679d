---------------------------- MODULE Services_proofs ----------------------------
(***************************************************************************)
(* Proofs about what is built from fibers that suspend: RockStream, for    *)
(* any number of messages of each kind, WorkerGroup, for any number of     *)
(* permits, callbacks and callers, and TcpServer, for any sockets.         *)
(***************************************************************************)
EXTENDS RockStream, WorkerGroup, TcpServer, SequenceTheorems, FiniteSetTheorems, TLAPS

(* RockStream.                                                             *)

(* What the peer sends.                                                    *)
Frames == {"response"} \X Requests \cup {"request", "notify"} \X Asks

Distinct(s) == \A i, j \in DOMAIN s : s[i] = s[j] => i = j

(***************************************************************************)
(* The writer has something to send exactly when it is about to, and what  *)
(* was enqueued is, in this order, on the wire, with it and on the list.   *)
(***************************************************************************)
OrderInv ==
    /\ writer = "send" <=> batch # <<>>
    /\ SentInOrder

(***************************************************************************)
(* A message is enqueued once, and it is in one of the three places at     *)
(* most (in none, once a send has failed unnoticed).                       *)
(***************************************************************************)
PlaceInv ==
    /\ Distinct(list) /\ Distinct(batch) /\ Distinct(sent)
    /\ Range(list) \cap Range(batch) = {}
    /\ Range(list) \cap Range(sent) = {}
    /\ Range(batch) \cap Range(sent) = {}
    /\ \A m \in Range(list) \cup Range(batch) \cup Range(sent) :
          caller[m] \notin {"new", "added"}

(***************************************************************************)
(* A request has its context from addCtx on until the peer has answered.   *)
(***************************************************************************)
PendingInv ==
    /\ \A m \in Requests : caller[m] = "added" => m \in pending
    /\ \A m \in Requests : m \in Range(list) \cup Range(batch) => m \in pending
    /\ \A i \in (taken + 1)..Len(sent) : sent[i] \in Requests => sent[i] \in pending

(***************************************************************************)
(* A response on the way is for a request the peer has read, and the only  *)
(* one for it.                                                             *)
(***************************************************************************)
InboxInv ==
    /\ \A i \in DOMAIN inbox : inbox[i][1] = "response" =>
          \E k \in 1..taken : sent[k] = inbox[i][2]
    /\ \A i, j \in DOMAIN inbox :
          /\ inbox[i][1] = "response" /\ inbox[j][1] = "response"
          /\ inbox[i][2] = inbox[j][2]
          => i = j
    /\ RepliesFindRequest

RockInv == RockTypeOK /\ OrderInv /\ PlaceInv /\ PendingInv /\ InboxInv

-----------------------------------------------------------------------------
(* push_back: the new element, and the old ones where they were.           *)
LEMMA AppendOne ==
  ASSUME NEW S, NEW s \in Seq(S), NEW e \in S
  PROVE  /\ Append(s, e) \in Seq(S) /\ Len(Append(s, e)) = Len(s) + 1
         /\ DOMAIN Append(s, e) = 1..(Len(s) + 1) /\ DOMAIN s = 1..Len(s)
         /\ Len(s) \in Nat
         /\ \A i \in 1..Len(s) : Append(s, e)[i] = s[i]
         /\ Append(s, e)[Len(s) + 1] = e
  OBVIOUS

LEMMA AppendRange ==
  ASSUME NEW S, NEW s \in Seq(S), NEW e \in S
  PROVE  /\ Range(Append(s, e)) = Range(s) \cup {e}
         /\ Distinct(s) /\ e \notin Range(s) => Distinct(Append(s, e))
<1>1. /\ DOMAIN Append(s, e) = 1..(Len(s) + 1) /\ DOMAIN s = 1..Len(s)
      /\ Len(s) \in Nat
      /\ \A i \in 1..Len(s) : Append(s, e)[i] = s[i]
      /\ Append(s, e)[Len(s) + 1] = e
  BY AppendOne
<1> DEFINE t == Append(s, e)
<1> HIDE DEF t
<1>2. Range(t) = Range(s) \cup {e}
  BY <1>1 DEF Range, t
<1>3. ASSUME Distinct(s), e \notin Range(s)
      PROVE  Distinct(t)
  BY <1>1, <1>3 DEF Range, Distinct, t
<1> QED
  BY <1>2, <1>3 DEF t

(* The front of the batch, and the rest of it.                             *)
LEMMA TailFacts ==
  ASSUME NEW S, NEW s \in Seq(S), s # <<>>
  PROVE  /\ Head(s) \in S /\ Tail(s) \in Seq(S) /\ Head(s) = s[1]
         /\ Len(s) \in Nat \ {0} /\ Len(Tail(s)) = Len(s) - 1
         /\ DOMAIN s = 1..Len(s) /\ DOMAIN Tail(s) = 1..(Len(s) - 1)
         /\ \A i \in 1..(Len(s) - 1) : Tail(s)[i] = s[i + 1]
  OBVIOUS

LEMMA TailRange ==
  ASSUME NEW S, NEW s \in Seq(S), s # <<>>
  PROVE  /\ Head(s) \in Range(s) /\ Range(Tail(s)) \subseteq Range(s)
         /\ Distinct(s) => Distinct(Tail(s)) /\ Head(s) \notin Range(Tail(s))
<1>1. /\ Head(s) = s[1] /\ Len(s) \in Nat \ {0}
      /\ DOMAIN s = 1..Len(s) /\ DOMAIN Tail(s) = 1..(Len(s) - 1)
      /\ \A i \in 1..(Len(s) - 1) : Tail(s)[i] = s[i + 1]
  BY TailFacts
<1> DEFINE t == Tail(s)
           h == Head(s)
<1> HIDE DEF t, h
<1>2. h \in Range(s) /\ Range(t) \subseteq Range(s)
  BY <1>1 DEF Range, t, h
<1>3. ASSUME Distinct(s)
      PROVE  Distinct(t) /\ h \notin Range(t)
  BY <1>1, <1>3 DEF Range, Distinct, t, h
<1> QED
  BY <1>2, <1>3 DEF t, h

LEMMA EmptyFacts == /\ Range(<<>>) = {} /\ Distinct(<<>>)
                    /\ \A S : <<>> \in Seq(S)
  BY DEF Range, Distinct

(* The front moved from one sequence to the end of another.                *)
LEMMA MoveFront ==
  ASSUME NEW S, NEW s \in Seq(S), NEW t \in Seq(S), NEW u \in Seq(S), t # <<>>
  PROVE  Append(s, Head(t)) \o Tail(t) \o u = s \o t \o u
<1>1. Head(t) \in S /\ Tail(t) \in Seq(S)
  BY TailFacts
<1>2. t = <<Head(t)>> \o Tail(t)
  OBVIOUS
<1>3. <<Head(t)>> \in Seq(S)
  BY <1>1
<1>4. Append(s, Head(t)) = s \o <<Head(t)>>
  BY <1>1, AppendIsConcat
<1>5. Append(s, Head(t)) \o Tail(t) = s \o t
  BY <1>1, <1>2, <1>3, <1>4, ConcatAssociative
<1> QED
  BY <1>5

LEMMA AppendLast ==
  ASSUME NEW S, NEW s \in Seq(S), NEW t \in Seq(S), NEW e \in S
  PROVE  s \o Append(t, e) = Append(s \o t, e)
  OBVIOUS

LEMMA RockInitial == RockInit => RockInv
<1> SUFFICES ASSUME RockInit PROVE RockInv
  OBVIOUS
<1>1. RockTypeOK
  <2>1. /\ list \in Seq(Messages) /\ batch \in Seq(Messages)
        /\ sent \in Seq(Messages) /\ enqueued \in Seq(Messages)
        /\ inbox \in Seq(Frames)
        /\ Len(sent) = 0
    BY EmptyFacts DEF RockInit
  <2>2. /\ permits \in Nat /\ pending = {} /\ spoken = {}
        /\ caller \in [Messages -> {"new", "added", "pushed", "held", "done"}]
        /\ writer = "loop" /\ reader = "loop"
        /\ connected \in BOOLEAN /\ peer \in BOOLEAN /\ crashed \in BOOLEAN
        /\ taken = 0
    BY DEF RockInit
  <2> QED
    BY <2>1, <2>2 DEF RockTypeOK, Frames
<1>2. OrderInv
  BY DEF RockInit, OrderInv, SentInOrder
<1>3. PlaceInv
  BY EmptyFacts DEF RockInit, PlaceInv
<1>4. PendingInv
  BY EmptyFacts DEF RockInit, PendingInv, Messages
<1>5. InboxInv
  BY DEF RockInit, InboxInv, RepliesFindRequest
<1> QED
  BY <1>1, <1>2, <1>3, <1>4, <1>5 DEF RockInv

(* The frames of the peer: responses to requests, and messages of its own. *)
LEMMA FrameFacts ==
  \A e \in Frames : /\ e[1] = "response" => e[2] \in Requests
                    /\ e[1] # "response" => e[2] \in Asks
                    /\ e[2] \in Messages
  BY DEF Frames, Messages

(* The first frame of the inbox, and the rest of it.                       *)
LEMMA FrontFrame ==
  ASSUME RockTypeOK, inbox # <<>>
  PROVE  /\ Head(inbox) \in Frames /\ Head(inbox) = inbox[1]
         /\ Tail(inbox) \in Seq(Frames)
         /\ Len(inbox) \in Nat \ {0}
         /\ DOMAIN inbox = 1..Len(inbox) /\ DOMAIN Tail(inbox) = 1..(Len(inbox) - 1)
         /\ \A i \in 1..(Len(inbox) - 1) : Tail(inbox)[i] = inbox[i + 1]
<1>1. inbox \in Seq(Frames)
  BY DEF RockTypeOK, Frames
<1> QED
  BY <1>1, TailFacts

(* A frame is added to the inbox.                                          *)
LEMMA NewFrame ==
  ASSUME RockTypeOK, NEW e \in Frames
  PROVE  /\ Append(inbox, e) \in Seq(Frames)
         /\ Len(inbox) \in Nat /\ DOMAIN inbox = 1..Len(inbox)
         /\ DOMAIN Append(inbox, e) = 1..(Len(inbox) + 1)
         /\ \A i \in 1..Len(inbox) : Append(inbox, e)[i] = inbox[i]
         /\ Append(inbox, e)[Len(inbox) + 1] = e
<1>1. inbox \in Seq(Frames)
  BY DEF RockTypeOK, Frames
<1> QED
  BY <1>1, AppendOne

(* The frames on the wire, and those the peer has read.                    *)
LEMMA SentFacts ==
  ASSUME RockTypeOK
  PROVE  /\ taken \in Nat /\ Len(sent) \in Nat /\ taken <= Len(sent)
         /\ DOMAIN sent = 1..Len(sent)
         /\ \A i \in 1..Len(sent) : sent[i] \in Messages /\ sent[i] \in Range(sent)
<1>1. sent \in Seq(Messages) /\ taken \in 0..Len(sent)
  BY DEF RockTypeOK
<1>2. /\ Len(sent) \in Nat /\ DOMAIN sent = 1..Len(sent)
      /\ \A i \in 1..Len(sent) : sent[i] \in Messages
  BY <1>1
<1> QED
  BY <1>1, <1>2 DEF Range

(* Send puts the front of the batch on the wire, or loses it.              *)
LEMMA SendFacts ==
  ASSUME RockTypeOK, OrderInv, Send
  PROVE  /\ batch # <<>> /\ batch \in Seq(Messages) /\ sent \in Seq(Messages)
         /\ Head(batch) \in Messages /\ Tail(batch) \in Seq(Messages)
         /\ Len(batch) \in Nat \ {0} /\ Len(Tail(batch)) = Len(batch) - 1
         /\ Append(sent, Head(batch)) \in Seq(Messages)
         /\ Len(Append(sent, Head(batch))) = Len(sent) + 1 /\ Len(sent) \in Nat
         /\ sent' = sent \/ sent' = Append(sent, Head(batch))
<1>1. batch # <<>> /\ batch \in Seq(Messages) /\ sent \in Seq(Messages)
  BY DEF Send, OrderInv, RockTypeOK
<1>2. /\ Head(batch) \in Messages /\ Tail(batch) \in Seq(Messages)
      /\ Len(batch) \in Nat \ {0} /\ Len(Tail(batch)) = Len(batch) - 1
  BY <1>1, TailFacts
<1>3. /\ Append(sent, Head(batch)) \in Seq(Messages)
      /\ Len(Append(sent, Head(batch))) = Len(sent) + 1 /\ Len(sent) \in Nat
  BY <1>1, <1>2, AppendOne
<1>4. sent' = sent \/ sent' = Append(sent, Head(batch))
  BY DEF Send
<1> QED
  BY <1>1, <1>2, <1>3, <1>4

LEMMA CallingTypes ==
  ASSUME RockTypeOK, NEW m \in Messages, Calling(m)
  PROVE  RockTypeOK'
<1>1. CASE AddCtx(m)
  BY <1>1 DEF RockTypeOK, AddCtx, Messages
<1>2. CASE Push(m)
  <2>1. Append(list, m) \in Seq(Messages) /\ Append(enqueued, m) \in Seq(Messages)
    BY AppendOne DEF RockTypeOK
  <2> QED
    BY <1>2, <2>1 DEF RockTypeOK, Push, Messages
<1>3. CASE Notify(m)
  BY <1>3 DEF RockTypeOK, Notify, Notified, Messages
<1> QED
  BY <1>1, <1>2, <1>3 DEF Calling

LEMMA WritingTypes ==
  ASSUME RockTypeOK, OrderInv, Writing
  PROVE  RockTypeOK'
<1>1. CASE WriteLoop
  BY <1>1 DEF RockTypeOK, WriteLoop, Messages
<1>2. CASE WriteWait
  BY <1>2 DEF RockTypeOK, WriteWait, Messages
<1>3. CASE Swap
  BY <1>3, EmptyFacts DEF RockTypeOK, Swap, Swapped, Messages
<1>4. CASE Send
  <2>1. sent' \in Seq(Messages) /\ taken' \in 0..Len(sent')
    <3>1. taken' = taken /\ taken \in 0..Len(sent)
      BY <1>4 DEF Send, RockTypeOK
    <3> QED
      BY <1>4, <3>1, SendFacts
  <2>2. batch' \in Seq(Messages)
    BY <1>4, SendFacts DEF Send
  <2> QED
    BY <1>4, <2>1, <2>2 DEF RockTypeOK, Send, Messages
<1> QED
  BY <1>1, <1>2, <1>3, <1>4 DEF Writing

LEMMA ReadingTypes ==
  ASSUME RockTypeOK, Reading
  PROVE  RockTypeOK'
<1>1. CASE ReadLoop
  BY <1>1 DEF RockTypeOK, ReadLoop, Messages
<1>2. CASE RecvError
  BY <1>2 DEF RockTypeOK, RecvError, Messages
<1>3. CASE RecvRequest
  <2>1. /\ inbox # <<>> /\ Head(inbox)[1] = "request" /\ inbox' = Tail(inbox)
        /\ reader' = Head(inbox)[2]
    BY <1>3 DEF RecvRequest, Received
  <2>2. inbox' \in Seq(Frames) /\ reader' \in Asks
    BY <2>1, FrontFrame, FrameFacts
  <2> QED
    BY <1>3, <2>2 DEF RockTypeOK, RecvRequest, Messages, Frames
<1>4. CASE RecvResponse
  <2>1. inbox' \in Seq(Frames)
    BY <1>4, FrontFrame DEF RecvResponse, Received
  <2> QED
    BY <1>4, <2>1 DEF RockTypeOK, RecvResponse, Messages, Frames
<1>5. CASE RecvNotify
  <2>1. inbox' \in Seq(Frames)
    BY <1>5, FrontFrame DEF RecvNotify, Received
  <2> QED
    BY <1>5, <2>1 DEF RockTypeOK, RecvNotify, Messages, Frames
<1> QED
  BY <1>1, <1>2, <1>3, <1>4, <1>5 DEF Reading

LEMMA PeerReadsTypes ==
  ASSUME RockTypeOK, PeerReads
  PROVE  RockTypeOK'
<1>1. taken + 1 \in 1..Len(sent) /\ Len(sent) \in Nat
  BY SentFacts DEF PeerReads
<1>2. inbox' \in Seq(Frames)
  <2>1. CASE NextRead \in Requests
    <3>1. <<"response", NextRead>> \in Frames
      BY <2>1 DEF Frames
    <3> QED
      BY <3>1, NewFrame DEF PeerReads, RockTypeOK, Frames
  <2>2. CASE NextRead \notin Requests
    BY <2>2 DEF PeerReads, RockTypeOK, Frames
  <2> QED
    BY <2>1, <2>2
<1>3. taken' \in 0..Len(sent') /\ peer' \in BOOLEAN
  BY <1>1, SentFacts DEF PeerReads, Parsed
<1> QED
  BY <1>2, <1>3 DEF RockTypeOK, PeerReads, Messages, Frames

LEMMA PeerSpeaksTypes ==
  ASSUME RockTypeOK, NEW m \in Asks, NEW kind \in {"request", "notify"},
         PeerSpeaks(m, kind)
  PROVE  RockTypeOK'
<1>1. <<kind, m>> \in Frames
  BY DEF Frames
<1>2. inbox' \in Seq(Frames)
  BY <1>1, NewFrame DEF PeerSpeaks
<1> QED
  BY <1>2 DEF RockTypeOK, PeerSpeaks, Messages, Frames

LEMMA PeerClosesTypes == RockTypeOK /\ PeerCloses => RockTypeOK'
  BY DEF RockTypeOK, PeerCloses, Messages

LEMMA RockTypeStep == RockTypeOK /\ OrderInv /\ [RockNext]_rockVars => RockTypeOK'
<1> SUFFICES ASSUME RockTypeOK, OrderInv, [RockNext]_rockVars
             PROVE  RockTypeOK'
  OBVIOUS
<1>1. CASE UNCHANGED rockVars
  BY <1>1 DEF RockTypeOK, rockVars, Messages
<1>2. CASE RockNext
  BY <1>2, CallingTypes, WritingTypes, ReadingTypes, PeerReadsTypes,
     PeerSpeaksTypes, PeerClosesTypes DEF RockNext
<1> QED
  BY <1>1, <1>2

(***************************************************************************)
(* The order.  A swap moves the whole list to the empty batch, a send the  *)
(* front of the batch to the end of the wire, and a connection that is     *)
(* closed, on either end, is not opened again.                             *)
(***************************************************************************)
LEMMA OrderUntouched ==
  ASSUME OrderInv, UNCHANGED <<list, batch, sent, enqueued>>,
         connected' => connected, peer' => peer,
         writer' = "send" <=> writer = "send"
  PROVE  OrderInv'
  BY DEF OrderInv, SentInOrder

LEMMA OrderStep == RockTypeOK /\ OrderInv /\ [RockNext]_rockVars => OrderInv'
<1> SUFFICES ASSUME RockTypeOK, OrderInv, [RockNext]_rockVars
             PROVE  OrderInv'
  OBVIOUS
<1>0. /\ list \in Seq(Messages) /\ batch \in Seq(Messages)
      /\ sent \in Seq(Messages) /\ enqueued \in Seq(Messages)
      /\ connected \in BOOLEAN /\ peer \in BOOLEAN
  BY DEF RockTypeOK
<1>1. CASE UNCHANGED rockVars
  BY <1>1, OrderUntouched DEF rockVars
<1>2. ASSUME NEW m \in Messages, AddCtx(m) \/ Notify(m)
      PROVE  OrderInv'
  BY <1>2, OrderUntouched DEF AddCtx, Notify
<1>3. ASSUME NEW m \in Messages, Push(m)
      PROVE  OrderInv'
  <2>1. /\ list' = Append(list, m) /\ enqueued' = Append(enqueued, m)
        /\ UNCHANGED <<writer, batch, sent, connected, peer>>
    BY <1>3 DEF Push
  <2>2. /\ sent \o batch \in Seq(Messages)
        /\ sent \o batch \o list' = Append(sent \o batch \o list, m)
    BY <1>0, <2>1, AppendLast, ConcatProperties
  <2> QED
    BY <2>1, <2>2 DEF OrderInv, SentInOrder
<1>4. CASE WriteLoop \/ WriteWait
  BY <1>4, OrderUntouched DEF WriteLoop, WriteWait
<1>5. CASE Swap
  <2>1. /\ batch = <<>> /\ batch' = list /\ list' = <<>>
        /\ writer' = (IF list = <<>> THEN "loop" ELSE "send")
        /\ UNCHANGED <<sent, enqueued, connected, peer>>
    BY <1>5 DEF Swap, Swapped, OrderInv
  <2>2. sent \o <<>> = sent /\ sent \o list \in Seq(Messages)
    BY <1>0, ConcatEmptySeq, ConcatProperties
  <2>3. sent \o list \o <<>> = sent \o <<>> \o list
    BY <2>2, ConcatEmptySeq
  <2> QED
    BY <2>1, <2>3 DEF OrderInv, SentInOrder
<1>6. CASE Send
  <2>1. /\ batch # <<>> /\ batch' = Tail(batch)
        /\ writer' = (IF Len(batch) = 1 THEN "loop" ELSE "send")
        /\ connected /\ peer => sent' = Append(sent, Head(batch))
        /\ UNCHANGED <<list, enqueued, connected, peer>>
    BY <1>6, SendFacts DEF Send
  <2>2. writer' = "send" <=> batch' # <<>>
    <3>1. Len(Tail(batch)) = 0 <=> Tail(batch) = <<>>
      BY <1>6, SendFacts, EmptySeq
    <3>2. Len(Tail(batch)) = Len(batch) - 1 /\ Len(batch) \in Nat \ {0}
      BY <1>6, SendFacts
    <3> QED
      BY <2>1, <3>1, <3>2
  <2>3. Append(sent, Head(batch)) \o Tail(batch) \o list = sent \o batch \o list
    <3>1. sent \in Seq(Messages) /\ batch \in Seq(Messages) /\ list \in Seq(Messages)
      BY <1>0
    <3>2. batch # <<>>
      BY <2>1
    <3> QED
      BY <3>1, <3>2, MoveFront
  <2> QED
    BY <2>1, <2>2, <2>3 DEF OrderInv, SentInOrder
<1>7. CASE Reading
  BY <1>0, <1>7, OrderUntouched
     DEF Reading, ReadLoop, RecvError, RecvRequest, RecvResponse, RecvNotify
<1>8. CASE PeerReads
  BY <1>0, <1>8, OrderUntouched DEF PeerReads
<1>9. ASSUME NEW m \in Asks, NEW kind \in {"request", "notify"}, PeerSpeaks(m, kind)
      PROVE  OrderInv'
  BY <1>9, OrderUntouched DEF PeerSpeaks
<1>10. CASE PeerCloses
  BY <1>10, OrderUntouched DEF PeerCloses
<1> QED
  BY <1>1, <1>2, <1>3, <1>4, <1>5, <1>6, <1>7, <1>8, <1>9, <1>10
     DEF RockNext, Calling, Writing

(***************************************************************************)
(* The places.                                                             *)
(***************************************************************************)
LEMMA PlacesUntouched ==
  ASSUME PlaceInv, UNCHANGED <<list, batch, sent>>,
         \A m \in Messages : caller[m] \notin {"new", "added"} =>
                                caller'[m] \notin {"new", "added"},
         RockTypeOK
  PROVE  PlaceInv'
<1>1. Range(list) \cup Range(batch) \cup Range(sent) \subseteq Messages
  BY RangeOfSeq DEF RockTypeOK
<1> QED
  BY <1>1 DEF PlaceInv

LEMMA PlaceStep == RockTypeOK /\ OrderInv /\ PlaceInv /\ [RockNext]_rockVars => PlaceInv'
<1> SUFFICES ASSUME RockTypeOK, OrderInv, PlaceInv, [RockNext]_rockVars
             PROVE  PlaceInv'
  OBVIOUS
<1>0. /\ list \in Seq(Messages) /\ batch \in Seq(Messages)
      /\ sent \in Seq(Messages)
      /\ caller \in [Messages -> {"new", "added", "pushed", "held", "done"}]
  BY DEF RockTypeOK
<1>1. CASE UNCHANGED rockVars
  BY <1>1, PlacesUntouched DEF rockVars
<1>2. ASSUME NEW m \in Messages, AddCtx(m) \/ Notify(m)
      PROVE  PlaceInv'
  BY <1>0, <1>2, PlacesUntouched DEF AddCtx, Notify
<1>3. ASSUME NEW m \in Messages, Push(m)
      PROVE  PlaceInv'
  <2>1. /\ list' = Append(list, m) /\ UNCHANGED <<batch, sent>>
        /\ caller[m] \in {"new", "added"}
        /\ caller' = [caller EXCEPT ![m] = "pushed"]
    BY <1>3 DEF Push, Ready
  <2>2. m \notin Range(list) \cup Range(batch) \cup Range(sent)
    BY <2>1 DEF PlaceInv
  <2>3. /\ Range(list') = Range(list) \cup {m}
        /\ Distinct(list')
    BY <1>0, <2>1, <2>2, AppendRange DEF PlaceInv
  <2>4. \A k \in Messages : caller'[k] = IF k = m THEN "pushed" ELSE caller[k]
    BY <1>0, <2>1
  <2>5. Range(list) \cup Range(batch) \cup Range(sent) \subseteq Messages
    BY <1>0, RangeOfSeq
  <2> HIDE DEF Distinct
  <2> QED
    BY <2>1, <2>2, <2>3, <2>4, <2>5 DEF PlaceInv
<1>4. CASE WriteLoop \/ WriteWait
  BY <1>4, PlacesUntouched DEF WriteLoop, WriteWait
<1>5. CASE Swap
  <2>1. batch = <<>> /\ batch' = list /\ list' = <<>> /\ UNCHANGED <<sent, caller>>
    BY <1>5 DEF Swap, Swapped, OrderInv
  <2> QED
    BY <2>1, EmptyFacts DEF PlaceInv
<1>6. CASE Send
  <2>1. /\ Head(batch) \in Range(batch) /\ Head(batch) \in Messages
        /\ Range(Tail(batch)) \subseteq Range(batch)
        /\ Distinct(Tail(batch)) /\ Head(batch) \notin Range(Tail(batch))
    BY <1>0, <1>6, SendFacts, TailRange DEF PlaceInv
  <2>2. /\ Range(Append(sent, Head(batch))) = Range(sent) \cup {Head(batch)}
        /\ Distinct(Append(sent, Head(batch)))
    BY <1>0, <2>1, AppendRange DEF PlaceInv
  <2>3. /\ batch' = Tail(batch) /\ UNCHANGED <<list, caller>>
        /\ sent' = sent \/ sent' = Append(sent, Head(batch))
    BY <1>6 DEF Send
  <2>4. /\ Range(sent') \subseteq Range(sent) \cup {Head(batch)}
        /\ Distinct(sent')
    BY <2>2, <2>3 DEF PlaceInv
  <2> QED
    BY <2>1, <2>3, <2>4 DEF PlaceInv
<1>7. CASE Reading
  BY <1>7, PlacesUntouched
     DEF Reading, ReadLoop, RecvError, RecvRequest, RecvResponse, RecvNotify
<1>8. CASE PeerReads
  BY <1>8, PlacesUntouched DEF PeerReads
<1>9. ASSUME NEW m \in Asks, NEW kind \in {"request", "notify"}, PeerSpeaks(m, kind)
      PROVE  PlaceInv'
  BY <1>9, PlacesUntouched DEF PeerSpeaks
<1>10. CASE PeerCloses
  BY <1>10, PlacesUntouched DEF PeerCloses
<1> QED
  BY <1>1, <1>2, <1>3, <1>4, <1>5, <1>6, <1>7, <1>8, <1>9, <1>10
     DEF RockNext, Calling, Writing

(***************************************************************************)
(* The contexts.                                                           *)
(***************************************************************************)
LEMMA PendingUntouched ==
  ASSUME PendingInv, UNCHANGED <<pending, caller, list, batch, sent, taken>>
  PROVE  PendingInv'
  BY DEF PendingInv

(* The response at the front of the inbox is for a request that the peer   *)
(* has read: no caller is about to push it, and it is nowhere else.        *)
LEMMA AnsweredIsGone ==
  ASSUME RockTypeOK, PlaceInv, InboxInv, inbox # <<>>, Head(inbox)[1] = "response"
  PROVE  /\ Head(inbox)[2] \in Requests
         /\ caller[Head(inbox)[2]] # "added"
         /\ Head(inbox)[2] \notin Range(list) \cup Range(batch)
         /\ \A i \in (taken + 1)..Len(sent) : sent[i] # Head(inbox)[2]
<1>1. /\ Head(inbox)[2] \in Requests /\ Head(inbox) = inbox[1]
      /\ 1 \in DOMAIN inbox
  BY FrontFrame, FrameFacts
<1>2. PICK k \in 1..taken : sent[k] = Head(inbox)[2]
  BY <1>1 DEF InboxInv
<1>3. /\ k \in 1..Len(sent) /\ Head(inbox)[2] \in Range(sent)
      /\ taken \in Nat /\ Len(sent) \in Nat /\ DOMAIN sent = 1..Len(sent)
  BY <1>2, SentFacts
<1>4. \A i \in (taken + 1)..Len(sent) : sent[i] # Head(inbox)[2]
  <2> SUFFICES ASSUME NEW i \in (taken + 1)..Len(sent), sent[i] = sent[k]
               PROVE  FALSE
    BY <1>2
  <2>1. i \in DOMAIN sent /\ k \in DOMAIN sent /\ i # k
    BY <1>3
  <2> QED
    BY <2>1 DEF PlaceInv, Distinct
<1> QED
  BY <1>1, <1>3, <1>4 DEF PlaceInv

LEMMA PendingStep ==
  RockTypeOK /\ OrderInv /\ PlaceInv /\ PendingInv /\ InboxInv /\ [RockNext]_rockVars
    => PendingInv'
<1> SUFFICES ASSUME RockTypeOK, OrderInv, PlaceInv, PendingInv, InboxInv,
                    [RockNext]_rockVars
             PROVE  PendingInv'
  OBVIOUS
<1>0. /\ list \in Seq(Messages) /\ batch \in Seq(Messages)
      /\ sent \in Seq(Messages)
      /\ caller \in [Messages -> {"new", "added", "pushed", "held", "done"}]
      /\ Requests \subseteq Messages
  BY DEF RockTypeOK, Messages
<1>1. CASE UNCHANGED rockVars
  BY <1>1, PendingUntouched DEF rockVars
<1>2. ASSUME NEW m \in Messages, AddCtx(m)
      PROVE  PendingInv'
  <2>1. /\ pending' = pending \cup {m} /\ UNCHANGED <<list, batch, sent, taken>>
        /\ \A k \in Messages : k # m => caller'[k] = caller[k]
    BY <1>0, <1>2 DEF AddCtx
  <2> QED
    BY <1>0, <2>1 DEF PendingInv
<1>3. ASSUME NEW m \in Messages, Push(m)
      PROVE  PendingInv'
  <2>1. /\ Ready(m) /\ UNCHANGED <<pending, batch, sent, taken>>
        /\ Range(list') = Range(list) \cup {m}
        /\ \A k \in Messages : caller'[k] = IF k = m THEN "pushed" ELSE caller[k]
    BY <1>0, <1>3, AppendRange DEF Push
  <2>2. m \in Requests => m \in pending
    BY <2>1, RockAssumption DEF Ready, PendingInv
  <2> QED
    BY <1>0, <2>1, <2>2 DEF PendingInv
<1>4. ASSUME NEW m \in Messages, Notify(m)
      PROVE  PendingInv'
  <2>1. /\ UNCHANGED <<pending, list, batch, sent, taken>>
        /\ \A k \in Messages : caller'[k] = caller[k] \/ caller'[k] \in {"held", "done"}
    BY <1>0, <1>4 DEF Notify
  <2> QED
    BY <1>0, <2>1 DEF PendingInv
<1>5. CASE WriteLoop \/ WriteWait
  BY <1>5, PendingUntouched DEF WriteLoop, WriteWait
<1>6. CASE Swap
  <2>1. /\ batch' = list /\ list' = <<>>
        /\ UNCHANGED <<pending, caller, sent, taken>>
    BY <1>6 DEF Swap, Swapped
  <2> QED
    BY <2>1, EmptyFacts DEF PendingInv
<1>7. CASE Send
  <2>1. /\ Head(batch) \in Range(batch) /\ Range(Tail(batch)) \subseteq Range(batch)
    BY <1>0, <1>7, SendFacts, TailRange
  <2>2. /\ batch' = Tail(batch) /\ UNCHANGED <<pending, list, caller, taken>>
        /\ sent' = sent \/ sent' = Append(sent, Head(batch))
    BY <1>7 DEF Send
  <2>3. \A i \in (taken + 1)..Len(sent') : sent'[i] \in Requests => sent'[i] \in pending
    <3>1. CASE sent' = sent
      BY <3>1 DEF PendingInv
    <3>2. CASE sent' = Append(sent, Head(batch))
      <4>1. /\ Len(sent') = Len(sent) + 1 /\ sent'[Len(sent) + 1] = Head(batch)
            /\ \A i \in 1..Len(sent) : sent'[i] = sent[i]
        BY <1>0, <1>7, <3>2, SendFacts, AppendOne
      <4>2. Head(batch) \in Requests => Head(batch) \in pending
        BY <2>1 DEF PendingInv
      <4> QED
        BY <4>1, <4>2, SentFacts DEF PendingInv
    <3> QED
      BY <2>2, <3>1, <3>2
  <2> QED
    BY <2>1, <2>2, <2>3 DEF PendingInv
<1>8. CASE ReadLoop \/ RecvError \/ RecvRequest \/ RecvNotify
  BY <1>8, PendingUntouched DEF ReadLoop, RecvError, RecvRequest, RecvNotify
<1>9. CASE RecvResponse
  <2>1. /\ inbox # <<>> /\ Head(inbox)[1] = "response"
        /\ pending' = pending \ {Head(inbox)[2]}
        /\ UNCHANGED <<caller, list, batch, sent, taken>>
    BY <1>9 DEF RecvResponse, Received
  <2> QED
    BY <2>1, AnsweredIsGone DEF PendingInv
<1>10. CASE PeerReads
  <2>1. taken' = taken + 1 /\ UNCHANGED <<pending, caller, list, batch, sent>>
    BY <1>10 DEF PeerReads
  <2> QED
    BY <2>1, SentFacts DEF PendingInv
<1>11. ASSUME NEW m \in Asks, NEW kind \in {"request", "notify"}, PeerSpeaks(m, kind)
      PROVE  PendingInv'
  BY <1>11, PendingUntouched DEF PeerSpeaks
<1>12. CASE PeerCloses
  BY <1>12, PendingUntouched DEF PeerCloses
<1> QED
  BY <1>1, <1>2, <1>3, <1>4, <1>5, <1>6, <1>7, <1>8, <1>9, <1>10, <1>11, <1>12
     DEF RockNext, Calling, Writing, Reading

(***************************************************************************)
(* The responses on the way.                                               *)
(***************************************************************************)
LEMMA InboxUntouched ==
  ASSUME RockTypeOK, InboxInv, UNCHANGED <<inbox, taken>>,
         pending \subseteq pending', \A i \in 1..Len(sent) : sent'[i] = sent[i]
  PROVE  InboxInv'
<1>1. \A k \in 1..taken : sent'[k] = sent[k]
  BY SentFacts
<1>2. /\ inbox' = inbox /\ taken' = taken
  OBVIOUS
<1>3. RepliesFindRequest'
  BY <1>2 DEF InboxInv, RepliesFindRequest
<1> QED
  BY <1>1, <1>2, <1>3 DEF InboxInv

(* A frame is read; only the context it answers leaves the map.            *)
LEMMA InboxRead ==
  ASSUME RockTypeOK, InboxInv, inbox # <<>>, inbox' = Tail(inbox),
         UNCHANGED <<taken, sent>>,
         \A m \in pending : \/ m \in pending'
                            \/ Head(inbox)[1] = "response" /\ m = Head(inbox)[2]
  PROVE  InboxInv'
<1>1. /\ Head(inbox) = inbox[1] /\ Len(inbox) \in Nat \ {0}
      /\ DOMAIN inbox = 1..Len(inbox) /\ DOMAIN inbox' = 1..(Len(inbox) - 1)
      /\ \A i \in 1..(Len(inbox) - 1) : inbox'[i] = inbox[i + 1]
      /\ Len(inbox') = Len(inbox) - 1
  <2>1. inbox \in Seq(Frames)
    BY DEF RockTypeOK, Frames
  <2>2. Len(Tail(inbox)) = Len(inbox) - 1
    BY <2>1, TailFacts
  <2> QED
    BY <2>2, FrontFrame
<1>2. \A i \in DOMAIN inbox' : inbox'[i][1] = "response" =>
         \E k \in 1..taken' : sent'[k] = inbox'[i][2]
  BY <1>1 DEF InboxInv
<1>3. \A i, j \in DOMAIN inbox' :
         /\ inbox'[i][1] = "response" /\ inbox'[j][1] = "response"
         /\ inbox'[i][2] = inbox'[j][2]
         => i = j
  <2> SUFFICES ASSUME NEW i \in 1..(Len(inbox) - 1), NEW j \in 1..(Len(inbox) - 1),
                      inbox[i + 1][1] = "response", inbox[j + 1][1] = "response",
                      inbox[i + 1][2] = inbox[j + 1][2]
               PROVE  i = j
    BY <1>1
  <2>1. i + 1 \in DOMAIN inbox /\ j + 1 \in DOMAIN inbox
    BY <1>1
  <2>2. i + 1 = j + 1
    BY <2>1 DEF InboxInv
  <2> QED
    BY <1>1, <2>2
<1>4. RepliesFindRequest'
  <2> SUFFICES ASSUME NEW i \in 1..(Len(inbox) - 1), inbox[i + 1][1] = "response"
               PROVE  inbox[i + 1][2] \in pending'
    BY <1>1 DEF RepliesFindRequest
  <2>1. i + 1 \in 1..Len(inbox) /\ 1 \in DOMAIN inbox /\ i + 1 # 1
    BY <1>1
  <2>2. inbox[i + 1][2] \in pending
    BY <2>1 DEF InboxInv, RepliesFindRequest
  <2>3. ~(inbox[1][1] = "response" /\ inbox[i + 1][2] = inbox[1][2])
    BY <1>1, <2>1 DEF InboxInv
  <2> QED
    BY <1>1, <2>2, <2>3
<1> QED
  BY <1>2, <1>3, <1>4 DEF InboxInv

(* The peer writes a frame: one of its own, or the response to the request *)
(* it has just read.                                                       *)
LEMMA InboxWritten ==
  ASSUME RockTypeOK, InboxInv, NEW e \in Frames, inbox' = Append(inbox, e),
         UNCHANGED <<pending, sent>>, taken' \in {taken, taken + 1},
         e[1] = "response" =>
            /\ taken' = taken + 1 /\ sent[taken + 1] = e[2] /\ e[2] \in pending
            /\ \A k \in 1..taken : sent[k] # e[2]
  PROVE  InboxInv'
<1>1. /\ Len(inbox) \in Nat /\ DOMAIN inbox = 1..Len(inbox)
      /\ DOMAIN inbox' = 1..(Len(inbox) + 1)
      /\ \A i \in 1..Len(inbox) : inbox'[i] = inbox[i]
      /\ inbox'[Len(inbox) + 1] = e
      /\ Len(inbox') = Len(inbox) + 1
  <2>1. inbox \in Seq(Frames)
    BY DEF RockTypeOK, Frames
  <2>2. Len(Append(inbox, e)) = Len(inbox) + 1
    BY <2>1, AppendOne
  <2> QED
    BY <2>2, NewFrame
<1>2. taken \in Nat /\ sent' = sent /\ pending' = pending
  BY SentFacts
<1>3. \A i \in DOMAIN inbox' : inbox'[i][1] = "response" =>
         \E k \in 1..taken' : sent'[k] = inbox'[i][2]
  <2> SUFFICES ASSUME NEW i \in 1..(Len(inbox) + 1), inbox'[i][1] = "response"
               PROVE  \E k \in 1..taken' : sent[k] = inbox'[i][2]
    BY <1>1, <1>2
  <2>1. CASE i \in 1..Len(inbox)
    <3>1. PICK k \in 1..taken : sent[k] = inbox[i][2]
      BY <1>1, <2>1 DEF InboxInv
    <3>2. k \in 1..taken'
      BY <1>2
    <3> QED
      BY <1>1, <2>1, <3>1, <3>2
  <2>2. CASE i = Len(inbox) + 1
    <3>1. taken + 1 \in 1..taken' /\ sent[taken + 1] = inbox'[i][2]
      BY <1>1, <1>2, <2>2
    <3> QED
      BY <3>1
  <2> QED
    BY <1>1, <2>1, <2>2
<1>4. \A i \in DOMAIN inbox : inbox[i][1] = "response" /\ e[1] = "response" =>
                                inbox[i][2] # e[2]
  BY DEF InboxInv
<1>5. \A i, j \in DOMAIN inbox' :
         /\ inbox'[i][1] = "response" /\ inbox'[j][1] = "response"
         /\ inbox'[i][2] = inbox'[j][2]
         => i = j
  <2> SUFFICES ASSUME NEW i \in 1..(Len(inbox) + 1), NEW j \in 1..(Len(inbox) + 1),
                      inbox'[i][1] = "response", inbox'[j][1] = "response",
                      inbox'[i][2] = inbox'[j][2]
               PROVE  i = j
    BY <1>1
  <2>1. CASE i \in 1..Len(inbox) /\ j \in 1..Len(inbox)
    BY <1>1, <2>1 DEF InboxInv
  <2>2. CASE i \in 1..Len(inbox) /\ j = Len(inbox) + 1
    BY <1>1, <1>4, <2>2
  <2>3. CASE j \in 1..Len(inbox) /\ i = Len(inbox) + 1
    BY <1>1, <1>4, <2>3
  <2> QED
    BY <1>1, <2>1, <2>2, <2>3
<1>6. RepliesFindRequest'
  <2> SUFFICES ASSUME NEW i \in 1..(Len(inbox) + 1), inbox'[i][1] = "response"
               PROVE  inbox'[i][2] \in pending
    BY <1>1, <1>2 DEF RepliesFindRequest
  <2>1. CASE i \in 1..Len(inbox)
    BY <1>1, <2>1 DEF InboxInv, RepliesFindRequest
  <2>2. CASE i = Len(inbox) + 1
    BY <1>1, <2>2
  <2> QED
    BY <1>1, <2>1, <2>2
<1> QED
  BY <1>3, <1>5, <1>6 DEF InboxInv

LEMMA InboxStep ==
  RockTypeOK /\ OrderInv /\ PlaceInv /\ PendingInv /\ InboxInv /\ [RockNext]_rockVars
    => InboxInv'
<1> SUFFICES ASSUME RockTypeOK, OrderInv, PlaceInv, PendingInv, InboxInv,
                    [RockNext]_rockVars
             PROVE  InboxInv'
  OBVIOUS
<1>1. CASE UNCHANGED rockVars
  BY <1>1, InboxUntouched DEF rockVars
<1>2. ASSUME NEW m \in Messages, Calling(m)
      PROVE  InboxInv'
  BY <1>2, InboxUntouched DEF Calling, AddCtx, Push, Notify
<1>3. CASE WriteLoop \/ WriteWait \/ Swap
  BY <1>3, InboxUntouched DEF WriteLoop, WriteWait, Swap
<1>4. CASE Send
  <2>1. \A i \in 1..Len(sent) : sent'[i] = sent[i]
    BY <1>4, SendFacts, AppendOne
  <2> QED
    BY <1>4, <2>1, InboxUntouched DEF Send
<1>5. CASE ReadLoop \/ RecvError
  BY <1>5, InboxUntouched DEF ReadLoop, RecvError
<1>6. CASE RecvRequest \/ RecvResponse \/ RecvNotify
  <2>1. /\ inbox # <<>> /\ inbox' = Tail(inbox) /\ UNCHANGED <<taken, sent>>
        /\ \/ pending' = pending
           \/ pending' = pending \ {Head(inbox)[2]} /\ Head(inbox)[1] = "response"
    BY <1>6 DEF RecvRequest, RecvResponse, RecvNotify, Received
  <2> QED
    BY <2>1, InboxRead
<1>7. CASE PeerReads
  <2>1. /\ taken < Len(sent) /\ taken' = taken + 1
        /\ UNCHANGED <<pending, sent>>
        /\ inbox' = IF NextRead \in Requests /\ Parsed(NextRead)
                    THEN Append(inbox, <<"response", NextRead>>) ELSE inbox
    BY <1>7 DEF PeerReads
  <2>2. /\ taken + 1 \in DOMAIN sent /\ taken \in Nat /\ Len(sent) \in Nat
        /\ \A k \in 1..taken : k \in DOMAIN sent /\ k # taken + 1
    BY <2>1, SentFacts
  <2>3. \A k \in 1..taken : sent[k] # sent[taken + 1]
    BY <2>2 DEF PlaceInv, Distinct
  <2>4. CASE inbox' = inbox
    <3>1. RepliesFindRequest'
      BY <2>1, <2>4 DEF InboxInv, RepliesFindRequest
    <3>2. \A k \in 1..taken : k \in 1..taken'
      BY <2>1, <2>2
    <3> QED
      BY <2>1, <2>4, <3>1, <3>2 DEF InboxInv
  <2>5. CASE NextRead \in Requests /\ inbox' = Append(inbox, <<"response", NextRead>>)
    <3>1. sent[taken + 1] \in pending
      BY <2>2, <2>5, SentFacts DEF PendingInv, NextRead
    <3>2. <<"response", NextRead>> \in Frames
      BY <2>5 DEF Frames
    <3> QED
      BY <2>1, <2>3, <2>5, <3>1, <3>2, InboxWritten DEF NextRead
  <2> QED
    BY <2>1, <2>4, <2>5
<1>8. ASSUME NEW m \in Asks, NEW kind \in {"request", "notify"}, PeerSpeaks(m, kind)
      PROVE  InboxInv'
  <2>1. <<kind, m>> \in Frames /\ <<kind, m>>[1] # "response"
    BY DEF Frames
  <2> QED
    BY <1>8, <2>1, InboxWritten DEF PeerSpeaks
<1>9. CASE PeerCloses
  BY <1>9, InboxUntouched DEF PeerCloses
<1> QED
  BY <1>1, <1>2, <1>3, <1>4, <1>5, <1>6, <1>7, <1>8, <1>9
     DEF RockNext, Writing, Reading

(***************************************************************************)
(* The theorems.                                                           *)
(***************************************************************************)
(* The invariant is inductive.                                             *)
THEOREM RockInvariant == RockSpec => []RockInv
<1>1. RockInit => RockInv
  BY RockInitial
<1>2. RockInv /\ [RockNext]_rockVars => RockInv'
  BY RockTypeStep, OrderStep, PlaceStep, PendingStep, InboxStep DEF RockInv
<1> QED
  BY <1>1, <1>2, PTL DEF RockSpec

(* Every variable keeps its type.                                          *)
THEOREM RockTypes == RockSpec => []RockTypeOK
<1>1. RockInv => RockTypeOK
  BY DEF RockInv
<1> QED
  BY <1>1, RockInvariant, PTL

(* While both ends are open, what enqueue put on m_list_ctxs is on the     *)
(* wire, with runWrite or on the list, in this order, whatever producers   *)
(* push while the batch is sent (async_socket_stream.cpp:42-73).           *)
THEOREM MessagesKeepTheirOrder == RockSpec => []SentInOrder
<1>1. RockInv => SentInOrder
  BY DEF RockInv, OrderInv
<1> QED
  BY <1>1, RockInvariant, PTL

(* getAndDelCtx finds the context of every response that comes, for any    *)
(* number of requests under way (async_socket_stream.cpp:75-94).           *)
THEOREM ResponsesFindTheirContext == RockSpec => []RepliesFindRequest
<1>1. RockInv => RepliesFindRequest
  BY DEF RockInv, InboxInv
<1> QED
  BY <1>1, RockInvariant, PTL

-----------------------------------------------------------------------------
(* WorkerGroup.                                                            *)
GroupTypeOK ==
    /\ room \in Nat
    /\ job \in [Jobs -> {"new", "waiting", "scheduled", "running", "done", "thrown"}]
    /\ finish \in BOOLEAN
    /\ collected \in [Waiting -> Nat]
    /\ drain \in [Waiting -> {"new", "tested", "taking", "returned"}]

(***************************************************************************)
(* Each permit is somewhere: in the semaphore, with a callback or with a   *)
(* caller of waitAll.                                                      *)
(***************************************************************************)
Permits == 1..BatchSize
InSem == <<"semaphore", 0>>
Holders == {InSem} \cup ({"job"} \X Jobs) \cup ({"caller"} \X Waiting)
Held(own, h) == {p \in Permits : own[p] = h}

Shares(own) ==
    /\ own \in [Permits -> Holders]
    /\ Cardinality(Held(own, InSem)) = room
    /\ \A f \in Waiting : Cardinality(Held(own, <<"caller", f>>)) = collected[f]
    /\ \A j \in Active : \E p \in Permits : own[p] = <<"job", j>>

PermitsInv == \E own : Shares(own)

(* A caller of waitAll has taken nothing before it set m_finish, and       *)
(* returns with all or, if m_finish was set, with nothing.                 *)
DrainInv ==
    \A f \in Waiting :
        /\ drain[f] \in {"new", "tested"} => collected[f] = 0
        /\ drain[f] = "returned" => collected[f] \in {0, BatchSize}

GroupInv == GroupTypeOK /\ PermitsInv /\ DrainInv

(* A permit goes from one holder to another.                               *)
Moved(own, own2, p, from, to) ==
    /\ own2 \in [Permits -> Holders] /\ own2[p] = to
    /\ \A q \in Permits \ {p} : own2[q] = own[q]
    /\ Cardinality(Held(own2, to)) = Cardinality(Held(own, to)) + 1
    /\ Cardinality(Held(own2, from)) = Cardinality(Held(own, from)) - 1
    /\ \A h : h # to /\ h # from => Cardinality(Held(own2, h)) = Cardinality(Held(own, h))

LEMMA PermitMoves ==
  ASSUME NEW own \in [Permits -> Holders], NEW p \in Permits, NEW from, own[p] = from,
         NEW to \in Holders, from # to
  PROVE  \E own2 : Moved(own, own2, p, from, to)
<1>0. PICK own2 : own2 = [own EXCEPT ![p] = to]
  OBVIOUS
<1>1. own2 \in [Permits -> Holders] /\ own2[p] = to /\ \A q \in Permits \ {p} : own2[q] = own[q]
  BY <1>0
<1>2. \A h : IsFiniteSet(Held(own, h))
  <2>1. IsFiniteSet(Permits)
    BY GroupAssumption, FS_Interval DEF Permits
  <2> QED
    BY <2>1, FS_Subset DEF Held
<1>3. Held(own2, to) = Held(own, to) \cup {p} /\ p \notin Held(own, to)
  BY <1>1 DEF Held
<1>4. Held(own2, from) = Held(own, from) \ {p} /\ p \in Held(own, from)
  BY <1>1 DEF Held
<1>5. \A h : h # to /\ h # from => Held(own2, h) = Held(own, h)
  BY <1>1 DEF Held
<1>7. Cardinality(Held(own2, to)) = Cardinality(Held(own, to)) + 1
  BY <1>2, <1>3, FS_AddElement
<1>8. Cardinality(Held(own2, from)) = Cardinality(Held(own, from)) - 1
  BY <1>2, <1>4, FS_RemoveElement
<1> QED
  BY <1>1, <1>5, <1>7, <1>8 DEF Moved

(* Where there is one, a permit can be picked.                             *)
LEMMA OneOf ==
  ASSUME NEW own, NEW h, Cardinality(Held(own, h)) > 0
  PROVE  \E p \in Permits : own[p] = h
<1>1. Held(own, h) # {}
  BY FS_EmptySet
<1> QED
  BY <1>1 DEF Held

LEMMA GroupInvInit == GroupInit => GroupInv
<1> SUFFICES ASSUME GroupInit PROVE GroupInv
  OBVIOUS
<1>1. GroupTypeOK /\ DrainInv
  BY GroupAssumption DEF GroupInit, GroupTypeOK, DrainInv
<1>2. PICK own : own = [p \in Permits |-> InSem]
  OBVIOUS
<1>3. own \in [Permits -> Holders]
  BY <1>2 DEF Holders
<1>4. Cardinality(Held(own, InSem)) = room
  <2>1. Held(own, InSem) = 1..BatchSize
    BY <1>2 DEF Held, Permits
  <2> QED
    BY <2>1, GroupAssumption, FS_Interval DEF GroupInit
<1>5. \A f \in Waiting : Cardinality(Held(own, <<"caller", f>>)) = collected[f]
  <2>1. \A f \in Waiting : Held(own, <<"caller", f>>) = {}
    BY <1>2 DEF Held, InSem
  <2> QED
    BY <2>1, FS_EmptySet DEF GroupInit
<1>6. Active = {}
  BY DEF GroupInit, Active
<1> QED
  BY <1>1, <1>3, <1>4, <1>5, <1>6 DEF GroupInv, PermitsInv, Shares

(* Types. *)
LEMMA GroupTypeStep == GroupTypeOK /\ [GroupNext]_groupVars => GroupTypeOK'
<1> SUFFICES ASSUME GroupTypeOK, [GroupNext]_groupVars PROVE GroupTypeOK'
  OBVIOUS
<1> USE DEF GroupTypeOK
<1>1. ASSUME NEW j \in Jobs, Submit(j) \/ Admit(j) \/ DoWork(j) \/ Finish(j) \/ Throw(j)
      PROVE  GroupTypeOK'
  BY <1>1 DEF Submit, Admit, DoWork, Finish, Throw, Becomes, GivenBack
<1>2. ASSUME NEW f \in Waiting, TestFinish(f) \/ SetFinish(f) PROVE GroupTypeOK'
  BY <1>2 DEF TestFinish, SetFinish
<1>4. ASSUME NEW f \in Waiting, TakeOne(f) PROVE GroupTypeOK'
  <2>1. CASE collected[f] = Enough
    BY <1>4, <2>1 DEF TakeOne
  <2>2. CASE collected[f] # Enough
    BY <1>4, <2>2 DEF TakeOne
  <2> QED
    BY <2>1, <2>2
<1>3. CASE UNCHANGED groupVars
  BY <1>3 DEF groupVars
<1> QED
  BY <1>1, <1>2, <1>3, <1>4 DEF GroupNext

LEMMA DrainStep == GroupTypeOK /\ DrainInv /\ [GroupNext]_groupVars => DrainInv'
<1> SUFFICES ASSUME GroupTypeOK, DrainInv, [GroupNext]_groupVars PROVE DrainInv'
  OBVIOUS
<1> USE DEF GroupTypeOK, DrainInv
<1>1. CASE UNCHANGED <<drain, collected>>
  BY <1>1
<1>2. ASSUME NEW f \in Waiting, TestFinish(f) \/ SetFinish(f) \/ TakeOne(f) PROVE DrainInv'
  BY <1>2 DEF TestFinish, SetFinish, TakeOne, Enough
<1>3. ASSUME NEW j \in Jobs, Submit(j) \/ Admit(j) \/ DoWork(j) \/ Finish(j) \/ Throw(j)
      PROVE  UNCHANGED <<drain, collected>>
  BY <1>3 DEF Submit, Admit, DoWork, Finish, Throw
<1> QED
  BY <1>1, <1>2, <1>3 DEF GroupNext, groupVars

(* Every permit is accounted for, whoever takes it or gives it back.       *)
LEMMA PermitsStep == GroupTypeOK /\ PermitsInv /\ [GroupNext]_groupVars => PermitsInv'
<1> SUFFICES ASSUME GroupTypeOK, PermitsInv, [GroupNext]_groupVars PROVE PermitsInv'
  OBVIOUS
<1>1. PICK own : Shares(own)
  BY DEF PermitsInv
<1>2. /\ own \in [Permits -> Holders]
      /\ Cardinality(Held(own, InSem)) = room
      /\ \A f \in Waiting : Cardinality(Held(own, <<"caller", f>>)) = collected[f]
      /\ \A j \in Active : \E p \in Permits : own[p] = <<"job", j>>
  BY <1>1 DEF Shares
<1>3. CASE UNCHANGED <<room, collected>> /\ Active' \subseteq Active
  <2>1. Shares(own)'
    BY <1>2, <1>3 DEF Shares
  <2> QED
    BY <2>1 DEF PermitsInv
<1>4. ASSUME NEW j \in Jobs, Submit(j) \/ DoWork(j) \/ Throw(j)
      PROVE  UNCHANGED <<room, collected>> /\ Active' \subseteq Active
  BY <1>4 DEF Submit, DoWork, Throw, Becomes, Active, GroupTypeOK
<1>5. ASSUME NEW j \in Jobs, Admit(j) PROVE PermitsInv'
  <2>1. room > 0 /\ room' = room - 1 /\ collected' = collected /\ Active' = Active \cup {j} /\ j \notin Active
    BY <1>5 DEF Admit, Becomes, Active, GroupTypeOK
  <2>2. PICK p \in Permits : own[p] = InSem
    BY <1>2, <2>1, OneOf
  <2>3. <<"job", j>> \in Holders /\ InSem # <<"job", j>>
    BY DEF Holders, InSem
  <2>5. PICK own2 : Moved(own, own2, p, InSem, <<"job", j>>)
    BY <1>2, <2>2, <2>3, PermitMoves
  <2>6. \A f \in Waiting : Cardinality(Held(own2, <<"caller", f>>)) = collected[f]
    BY <1>2, <2>5 DEF InSem, Moved
  <2>7. \A i \in Active' : \E q \in Permits : own2[q] = <<"job", i>>
    <3>1. ASSUME NEW i \in Active PROVE \E q \in Permits : own2[q] = <<"job", i>>
      <4>1. PICK q \in Permits : own[q] = <<"job", i>>
        BY <1>2
      <4>2. q # p
        BY <2>2, <4>1 DEF InSem
      <4> QED
        BY <2>5, <4>1, <4>2 DEF Moved
    <3> QED
      BY <2>1, <2>5, <3>1 DEF Moved
  <2>8. Shares(own2)'
    BY <1>2, <2>1, <2>5, <2>6, <2>7 DEF Shares, Moved
  <2> QED
    BY <2>8 DEF PermitsInv
<1>6. ASSUME NEW j \in Jobs, Finish(j) PROVE PermitsInv'
  <2>1. room' = room + 1 /\ collected' = collected /\ Active' = Active \ {j} /\ j \in Active
    BY <1>6 DEF Finish, GivenBack, Becomes, Active, GroupTypeOK
  <2>2. PICK p \in Permits : own[p] = <<"job", j>>
    BY <1>2, <2>1
  <2>3. InSem \in Holders /\ <<"job", j>> # InSem
    BY DEF Holders, InSem
  <2>5. PICK own2 : Moved(own, own2, p, <<"job", j>>, InSem)
    BY <1>2, <2>2, <2>3, PermitMoves
  <2>6. \A f \in Waiting : Cardinality(Held(own2, <<"caller", f>>)) = collected[f]
    BY <1>2, <2>5 DEF InSem, Moved
  <2>7. \A i \in Active' : \E q \in Permits : own2[q] = <<"job", i>>
    <3>1. ASSUME NEW i \in Active \ {j} PROVE \E q \in Permits : own2[q] = <<"job", i>>
      <4>1. PICK q \in Permits : own[q] = <<"job", i>>
        BY <1>2
      <4>2. q # p
        BY <2>2, <4>1
      <4> QED
        BY <2>5, <4>1, <4>2 DEF Moved
    <3> QED
      BY <2>1, <3>1
  <2>8. Shares(own2)'
    BY <1>2, <2>1, <2>5, <2>6, <2>7 DEF Shares, Moved
  <2> QED
    BY <2>8 DEF PermitsInv
<1>7. ASSUME NEW f \in Waiting, TestFinish(f) \/ SetFinish(f)
      PROVE  UNCHANGED <<room, collected>> /\ Active' \subseteq Active
  BY <1>7 DEF TestFinish, SetFinish, Active
<1>8. ASSUME NEW f \in Waiting, TakeOne(f) PROVE PermitsInv'
  <2>1. CASE collected[f] = Enough
    BY <1>3, <1>8, <2>1 DEF TakeOne, Active
  <2>2. CASE collected[f] # Enough
    <3>1. room > 0 /\ room' = room - 1 /\ collected' = [collected EXCEPT ![f] = @ + 1] /\ Active' = Active
      BY <1>8, <2>2 DEF TakeOne, Active
    <3>2. PICK p \in Permits : own[p] = InSem
      BY <1>2, <3>1, OneOf
    <3>3. <<"caller", f>> \in Holders /\ InSem # <<"caller", f>>
      BY DEF Holders, InSem
    <3>5. PICK own2 : Moved(own, own2, p, InSem, <<"caller", f>>)
      BY <1>2, <3>2, <3>3, PermitMoves
    <3>6. ASSUME NEW g \in Waiting PROVE Cardinality(Held(own2, <<"caller", g>>)) = collected'[g]
      <4>1. CASE g = f
        BY <1>2, <3>1, <3>5, <4>1 DEF GroupTypeOK, Moved
      <4>2. CASE g # f
        <5>1. collected'[g] = collected[g]
          BY <3>1, <4>2 DEF GroupTypeOK
        <5>2. <<"caller", g>> # <<"caller", f>> /\ <<"caller", g>> # InSem
          BY <4>2 DEF InSem
        <5> QED
          BY <1>2, <3>5, <5>1, <5>2 DEF Moved
      <4> QED
        BY <4>1, <4>2
    <3>7. \A i \in Active' : \E q \in Permits : own2[q] = <<"job", i>>
      <4>1. ASSUME NEW i \in Active PROVE \E q \in Permits : own2[q] = <<"job", i>>
        <5>1. PICK q \in Permits : own[q] = <<"job", i>>
          BY <1>2
        <5>2. q # p
          BY <3>2, <5>1 DEF InSem
        <5> QED
          BY <3>5, <5>1, <5>2 DEF Moved
      <4> QED
        BY <3>1, <4>1
    <3>8. Shares(own2)'
      BY <1>2, <3>1, <3>5, <3>6, <3>7 DEF Shares, Moved
    <3> QED
      BY <3>8 DEF PermitsInv
  <2> QED
    BY <2>1, <2>2
<1>9. CASE UNCHANGED groupVars
  BY <1>3, <1>9 DEF groupVars, Active
<1> QED
  BY <1>3, <1>4, <1>5, <1>6, <1>7, <1>8, <1>9 DEF GroupNext

(***************************************************************************)
(* The permits of a group are with its callbacks, its callers of waitAll   *)
(* or its semaphore, whatever throws and whoever waits.                    *)
(***************************************************************************)
THEOREM GroupInvariant == GroupSpec => []GroupInv
<1>1. GroupInv /\ [GroupNext]_groupVars => GroupInv'
  BY GroupTypeStep, DrainStep, PermitsStep DEF GroupInv
<1> QED
  BY <1>1, GroupInvInit, PTL DEF GroupSpec

(***************************************************************************)
(* waitAll does not return early: a caller that collected permits returns  *)
(* only when no callback of the group is scheduled or runs, and none       *)
(* starts afterwards, for any number of permits, callbacks and callers     *)
(* (worker.cpp:26-47).                                                     *)
(***************************************************************************)
THEOREM WaitAllWaitsForAll == GroupSpec => []WaitAllWaits
<1>1. GroupInv => WaitAllWaits
  <2> SUFFICES ASSUME GroupInv, NEW f \in Waiting, drain[f] = "returned", collected[f] > 0,
                      NEW j \in Active
               PROVE  FALSE
    BY DEF WaitAllWaits
  <2>1. PICK own : Shares(own)
    BY DEF GroupInv, PermitsInv
  <2>2. Cardinality(Held(own, <<"caller", f>>)) = BatchSize
    <3>1. collected[f] = BatchSize
      BY DEF GroupInv, DrainInv
    <3> QED
      BY <2>1, <3>1 DEF Shares
  <2>3. Held(own, <<"caller", f>>) = Permits
    <3>1. IsFiniteSet(Permits) /\ Cardinality(Permits) = BatchSize
      BY GroupAssumption, FS_Interval DEF Permits
    <3>2. Held(own, <<"caller", f>>) \subseteq Permits
      BY DEF Held
    <3> QED
      BY <2>2, <3>1, <3>2, FS_Subset
  <2>4. PICK p \in Permits : own[p] = <<"job", j>>
    BY <2>1 DEF Shares
  <2>5. own[p] = <<"caller", f>>
    BY <2>3 DEF Held
  <2> QED
    BY <2>4, <2>5
<1> QED
  BY <1>1, GroupInvariant, PTL

-----------------------------------------------------------------------------
(* TcpServer.                                                              *)
LoopStatements ==
    {"new", "scheduled", "test", "accept", "try", "bare", "again", "waiting", "resumed",
     "ended"}

TcpTypeOK ==
    /\ alone \in BOOLEAN /\ stopped \in BOOLEAN /\ hasty \in BOOLEAN /\ broken \in BOOLEAN
    /\ sockets \subseteq Socks /\ listening \subseteq Socks /\ backlog \subseteq Socks
    /\ accepting \in [Socks -> Loops \cup {NoLoop}]
    /\ loop \in [Loops -> LoopStatements]
    /\ starts \in 0..Starts /\ closures \in Nat
    /\ left = NoLoop \/ left \in SUBSET Socks
    /\ closing = NoLoop \/ closing \in Rest
    /\ stranded \subseteq Loops

(***************************************************************************)
(* What listens is what the server has, or what the closure that runs has  *)
(* still to close; a close() is of one of these.                           *)
(***************************************************************************)
ListeningInv ==
    /\ left = NoLoop => closing = NoLoop /\ listening = sockets
    /\ left # NoLoop => closures > 0 /\ listening = left
    /\ closing # NoLoop => closing[2] \in left
    /\ backlog \subseteq listening

(***************************************************************************)
(* Only the first start finds sockets: the closures of a stop before the   *)
(* next one leave none, so no socket has two loops.                        *)
(***************************************************************************)
LoopInv ==
    ~hasty =>
        /\ starts = 0 => \A a \in Loops : loop[a] = "new"
        /\ starts > 0 /\ stopped /\ closures = 0 => sockets = {}
        /\ \A a \in Loops : loop[a] # "new" => a[2] = 1
        /\ \A a \in Loops, s \in Socks : accepting[s] = a => loop[a] # "new"
        /\ \A a \in Loops :
              loop[a] = "waiting" =>
                  accepting[a[1]] = a /\ (a[1] \in listening \/ a \in stranded)

(***************************************************************************)
(* With one thread a closure runs from its begin to its end while no loop  *)
(* runs: what close() cancels stays cancelled until close_f.               *)
(***************************************************************************)
AloneInv ==
    alone =>
        /\ ~broken
        /\ stranded = {}
        /\ left # NoLoop => \A a \in Loops : ~Running(a)
        /\ \A a \in Loops : loop[a] = "again" => a[1] \in listening
        /\ \A s \in Socks : closing \in {<<"del", s>>, <<"close_f", s>>} => accepting[s] = NoLoop

TcpInv == TcpTypeOK /\ ListeningInv /\ LoopInv /\ AloneInv

LEMMA TcpInvInit == TcpInit => TcpInv
<1> SUFFICES ASSUME TcpInit PROVE TcpInv
  OBVIOUS
<1>1. TcpTypeOK
  <2>1. 0 \in 0..Starts /\ 0 \in Nat
    BY TcpAssumption
  <2>2. accepting \in [Socks -> Loops \cup {NoLoop}]
    BY DEF TcpInit
  <2>3. loop \in [Loops -> LoopStatements]
    BY DEF TcpInit, LoopStatements
  <2> QED
    BY <2>1, <2>2, <2>3 DEF TcpInit, TcpTypeOK
<1>2. ListeningInv
  BY DEF TcpInit, ListeningInv
<1>3. LoopInv
  BY TcpAssumption DEF TcpInit, LoopInv
<1>4. AloneInv
  BY DEF TcpInit, AloneInv
<1> QED
  BY <1>1, <1>2, <1>3, <1>4 DEF TcpInv

(* A loop is a pair of its socket and the start that made it.              *)
LEMMA LoopIsPair ==
  /\ \A a \in Loops : a[1] \in Socks /\ a[2] \in 1..Starts
  /\ \A a, b \in Loops : a[1] = b[1] /\ a[2] = b[2] => a = b
BY DEF Loops

(* The steps of close() of one socket and of another are not the same.     *)
LEMMA RestIsPair ==
  ASSUME NEW s \in Socks, NEW c \in {"cancelAllEvent", "del", "close_f"}
  PROVE  <<c, s>> \in Rest /\ <<c, s>> # NoLoop /\ <<c, s>>[2] = s
BY TcpAssumption DEF Rest

(* The loop a socket resumes was waiting, and the others still wait.       *)
LEMMA TriggerFacts ==
  ASSUME TcpTypeOK, NEW s \in Socks, Triggers(s)
  PROVE  /\ loop' \in [Loops -> LoopStatements]
         /\ accepting' \in [Socks -> Loops \cup {NoLoop}]
         /\ accepting'[s] = NoLoop
         /\ \A x \in Socks : x # s => accepting'[x] = accepting[x]
         /\ \A a \in Loops : accepting[s] = a => loop'[a] = "resumed"
         /\ \A a \in Loops : accepting[s] # a => loop'[a] = loop[a]
<1>1. \A a \in Loops : loop'[a] = IF accepting[s] = a THEN "resumed" ELSE loop[a]
  BY DEF Triggers
<1>2. loop' \in [Loops -> LoopStatements]
  BY DEF Triggers, TcpTypeOK, LoopStatements
<1>3. accepting' = [accepting EXCEPT ![s] = NoLoop]
  BY DEF Triggers
<1> QED
  BY <1>1, <1>2, <1>3 DEF TcpTypeOK

(* Types. *)
LEMMA TcpTypeStep == TcpTypeOK /\ ListeningInv /\ [TcpNext]_tcpVars => TcpTypeOK'
<1> SUFFICES ASSUME TcpTypeOK, ListeningInv, [TcpNext]_tcpVars PROVE TcpTypeOK'
  OBVIOUS
<1> USE DEF TcpTypeOK, closureVars
<1>0. ASSUME NEW a \in Loops, NEW v \in LoopStatements, loop' = [loop EXCEPT ![a] = v]
      PROVE  loop' \in [Loops -> LoopStatements]
  BY <1>0
<1>1. ASSUME NEW fails \in SUBSET Socks, Bind(fails) PROVE TcpTypeOK'
  BY <1>1 DEF Bind
<1>2. CASE StartServer
  <2>1. starts' \in 0..Starts
    BY <1>2, TcpAssumption DEF StartServer
  <2>2. loop' \in [Loops -> LoopStatements]
    BY <1>2 DEF StartServer, LoopStatements
  <2>3. hasty' \in BOOLEAN /\ stopped' \in BOOLEAN
    BY <1>2 DEF StartServer
  <2> QED
    BY <1>2, <2>1, <2>2, <2>3 DEF StartServer
<1>3. CASE StopServer
  BY <1>3 DEF StopServer
<1>4. ASSUME NEW a \in Loops, TakeLoop(a) \/ TestStop(a) \/ LookUp(a) PROVE TcpTypeOK'
  <2>1. loop' \in [Loops -> LoopStatements]
    BY <1>4, <1>0 DEF TakeLoop, TestStop, LookUp, Goes, LoopStatements
  <2> QED
    BY <1>4, <2>1 DEF TakeLoop, TestStop, LookUp
<1>5. ASSUME NEW a \in Loops, Accept(a) PROVE TcpTypeOK'
  <2>1. loop' \in [Loops -> LoopStatements]
    BY <1>5, <1>0 DEF Accept, Goes, LoopStatements
  <2>2. backlog' \subseteq Socks
    BY <1>5 DEF Accept
  <2> QED
    BY <1>5, <2>1, <2>2 DEF Accept
<1>6. ASSUME NEW a \in Loops, Suspend(a) PROVE TcpTypeOK'
  <2>1. loop' \in [Loops -> LoopStatements]
    BY <1>6, <1>0 DEF Suspend, Goes, LoopStatements
  <2>2. accepting' \in [Socks -> Loops \cup {NoLoop}] /\ broken' \in BOOLEAN
    BY <1>6, LoopIsPair DEF Suspend
  <2> QED
    BY <1>6, <2>1, <2>2 DEF Suspend
<1>7. ASSUME NEW s \in Socks, ConnectionComes(s) PROVE TcpTypeOK'
  BY <1>7 DEF ConnectionComes
<1>8. ASSUME NEW s \in Socks, WakeLoop(s) PROVE TcpTypeOK'
  <2>1. Triggers(s)
    BY <1>8 DEF WakeLoop
  <2> QED
    BY <1>8, <2>1, TriggerFacts DEF WakeLoop
<1>9. CASE BeginClosing
  BY <1>9 DEF BeginClosing
<1>10. ASSUME NEW s \in Socks, CancelSocket(s) \/ CancelAgain(s) PROVE TcpTypeOK'
  <2>1. Triggers(s)
    BY <1>10 DEF CancelSocket, CancelAgain
  <2>2. closing' \in Rest
    BY <1>10, RestIsPair DEF CancelSocket, CancelAgain
  <2> QED
    BY <1>10, <2>1, <2>2, TriggerFacts DEF CancelSocket, CancelAgain
<1>11. ASSUME NEW s \in Socks, ForgetSocket(s) PROVE TcpTypeOK'
  BY <1>11, RestIsPair DEF ForgetSocket
<1>12. ASSUME NEW s \in Socks, CloseSocket(s) PROVE TcpTypeOK'
  <2>1. closing # NoLoop
    BY <1>12, RestIsPair DEF CloseSocket
  <2>2. left \in SUBSET Socks
    BY <2>1 DEF ListeningInv
  <2>3. left' \in SUBSET Socks /\ stranded' \subseteq Loops
    BY <1>12, <2>2 DEF CloseSocket
  <2> QED
    BY <1>12, <2>3 DEF CloseSocket
<1>13. CASE EndClosing
  <2>1. left # NoLoop
    BY <1>13, TcpAssumption DEF EndClosing
  <2>2. closures - 1 \in Nat
    BY <2>1 DEF ListeningInv
  <2> QED
    BY <1>13, <2>2 DEF EndClosing
<1>14. CASE UNCHANGED tcpVars
  BY <1>14 DEF tcpVars
<1> QED
  BY <1>1, <1>2, <1>3, <1>4, <1>5, <1>6, <1>7, <1>8, <1>9, <1>10, <1>11, <1>12, <1>13, <1>14
     DEF TcpNext, Accepting, ClosingAll

(* Nothing listens that nobody will close.                                 *)
LEMMA ListeningStep ==
  TcpTypeOK /\ ListeningInv /\ [TcpNext]_tcpVars => ListeningInv'
<1> SUFFICES ASSUME TcpTypeOK, ListeningInv, [TcpNext]_tcpVars PROVE ListeningInv'
  OBVIOUS
<1> USE DEF ListeningInv, closureVars
<1>1. ASSUME NEW fails \in SUBSET Socks, Bind(fails) PROVE ListeningInv'
  <2>1. left = NoLoop
    BY <1>1 DEF Bind
  <2> QED
    BY <1>1, <2>1 DEF Bind
<1>2. CASE StartServer
  BY <1>2 DEF StartServer
<1>3. CASE StopServer
  BY <1>3 DEF StopServer, TcpTypeOK
<1>4. ASSUME NEW a \in Loops, TakeLoop(a) \/ Accepting(a) PROVE ListeningInv'
  <2>1. UNCHANGED <<left, closing, listening, sockets, closures>> /\ backlog' \subseteq backlog
    BY <1>4 DEF TakeLoop, Accepting, TestStop, LookUp, Accept, Suspend
  <2> QED
    BY <2>1
<1>5. ASSUME NEW s \in Socks, ConnectionComes(s) PROVE ListeningInv'
  BY <1>5 DEF ConnectionComes
<1>6. ASSUME NEW s \in Socks, WakeLoop(s) PROVE ListeningInv'
  BY <1>6 DEF WakeLoop
<1>7. CASE BeginClosing
  <2>1. CASE left = NoLoop
    <3>1. left' # NoLoop
      BY <1>7, <2>1, TcpAssumption DEF BeginClosing, TcpTypeOK
    <3> QED
      BY <1>7, <2>1, <3>1 DEF BeginClosing
  <2>2. CASE left # NoLoop
    BY <1>7, <2>2 DEF BeginClosing
  <2> QED
    BY <2>1, <2>2
<1>8. ASSUME NEW s \in Socks, CancelSocket(s) PROVE ListeningInv'
  BY <1>8, RestIsPair DEF CancelSocket
<1>9. ASSUME NEW s \in Socks, CancelAgain(s) \/ ForgetSocket(s) PROVE ListeningInv'
  <2>1. closing # NoLoop /\ closing[2] = s
    BY <1>9, RestIsPair DEF CancelAgain, ForgetSocket
  <2>2. closing'[2] = s
    BY <1>9, RestIsPair DEF CancelAgain, ForgetSocket
  <2> QED
    BY <1>9, <2>1, <2>2 DEF CancelAgain, ForgetSocket
<1>10. ASSUME NEW s \in Socks, CloseSocket(s) PROVE ListeningInv'
  <2>1. closing # NoLoop
    BY <1>10, RestIsPair DEF CloseSocket
  <2>2. left # NoLoop /\ left \in SUBSET Socks
    BY <2>1 DEF TcpTypeOK
  <2>3. left' # NoLoop
    BY <1>10, <2>2, TcpAssumption DEF CloseSocket
  <2> QED
    BY <1>10, <2>2, <2>3 DEF CloseSocket
<1>11. CASE EndClosing
  <2>1. left # NoLoop
    BY <1>11, TcpAssumption DEF EndClosing
  <2> QED
    BY <1>11, <2>1 DEF EndClosing
<1>12. CASE UNCHANGED tcpVars
  BY <1>12 DEF tcpVars
<1> QED
  BY <1>1, <1>2, <1>3, <1>4, <1>5, <1>6, <1>7, <1>8, <1>9, <1>10, <1>11, <1>12
     DEF TcpNext, ClosingAll

(* What a socket resumes no longer waits, and the others still do.         *)
LEMMA TriggersKeepsLoops ==
  ASSUME TcpTypeOK, LoopInv, NEW s \in Socks, Triggers(s),
         UNCHANGED <<hasty, starts, stopped, closures, sockets, listening, stranded>>
  PROVE  LoopInv'
<1> SUFFICES ASSUME ~hasty PROVE LoopInv'
  BY DEF LoopInv
<1>1. ASSUME NEW a \in Loops, loop'[a] = "waiting"
      PROVE  accepting'[a[1]] = a /\ (a[1] \in listening' \/ a \in stranded')
  <2>1. loop[a] = "waiting" /\ accepting[s] # a
    BY <1>1, TriggerFacts
  <2>2. accepting[a[1]] = a /\ (a[1] \in listening \/ a \in stranded)
    BY <2>1 DEF LoopInv
  <2>3. a[1] # s
    BY <2>1, <2>2
  <2> QED
    BY <2>2, <2>3, LoopIsPair, TriggerFacts
<1>2. ASSUME NEW a \in Loops PROVE loop'[a] = "new" <=> loop[a] = "new"
  <2>1. loop[a] = "new" => accepting[s] # a
    BY DEF LoopInv
  <2> QED
    BY <2>1, TriggerFacts
<1>3. \A a \in Loops : loop'[a] # "new" => a[2] = 1
  BY <1>2 DEF LoopInv
<1>4. ASSUME NEW a \in Loops, NEW x \in Socks, accepting'[x] = a PROVE loop'[a] # "new"
  <2>1. accepting[x] = a
    BY <1>4, TcpAssumption, TriggerFacts
  <2> QED
    BY <1>2, <2>1 DEF LoopInv
<1>5. starts' = 0 => \A a \in Loops : loop'[a] = "new"
  BY <1>2 DEF LoopInv
<1>6. starts' > 0 /\ stopped' /\ closures' = 0 => sockets' = {}
  BY DEF LoopInv
<1> QED
  BY <1>1, <1>3, <1>4, <1>5, <1>6 DEF LoopInv

(* A socket has one loop, and resumes it.                                  *)
LEMMA LoopStep ==
  TcpTypeOK /\ ListeningInv /\ LoopInv /\ [TcpNext]_tcpVars => LoopInv'
<1> SUFFICES ASSUME TcpTypeOK, ListeningInv, LoopInv, [TcpNext]_tcpVars, ~hasty' PROVE LoopInv'
  BY DEF LoopInv
<1> USE DEF closureVars
<1>0. ~hasty
  BY DEF TcpNext, Bind, StartServer, StopServer, TakeLoop, Accepting, TestStop, LookUp, Accept,
         Suspend, ConnectionComes, WakeLoop, ClosingAll, BeginClosing, CancelSocket,
         CancelAgain, ForgetSocket, CloseSocket, EndClosing, tcpVars
<1>1. ASSUME NEW fails \in SUBSET Socks, Bind(fails) PROVE LoopInv'
  <2>1. listening = {} /\ UNCHANGED <<loop, accepting, starts, stopped, closures, stranded>>
    BY <1>1 DEF Bind, ListeningInv
  <2>2. starts = 0
    BY <1>1 DEF Bind
  <2> QED
    BY <1>0, <2>1, <2>2 DEF LoopInv
<1>2. CASE StartServer
  <2>1. /\ stopped /\ closures = 0 /\ starts' = starts + 1 /\ ~stopped'
        /\ loop' = [a \in Loops |->
                      IF a[1] \in sockets /\ a[2] = starts' THEN "scheduled" ELSE loop[a]]
        /\ UNCHANGED <<accepting, listening, sockets, closures, stranded>>
    <3>1. ~(closures > 0)
      BY <1>2 DEF StartServer
    <3>2. closures = 0
      BY <3>1 DEF TcpTypeOK
    <3> QED
      BY <1>2, <3>2 DEF StartServer
  <2>2. starts \in Nat /\ (starts > 0 => sockets = {})
    BY <1>0, <2>1 DEF LoopInv, TcpTypeOK
  <2>3. \A a \in Loops : loop'[a] # loop[a] => loop'[a] = "scheduled" /\ a[2] = 1
    BY <2>1, <2>2
  <2>4. \A a \in Loops : loop'[a] # "new" => a[2] = 1
    BY <1>0, <2>3 DEF LoopInv
  <2>5. \A a \in Loops, s \in Socks : accepting'[s] = a => loop'[a] # "new"
    BY <1>0, <2>1, <2>3 DEF LoopInv
  <2>6. \A a \in Loops : loop'[a] = "waiting" =>
           accepting'[a[1]] = a /\ (a[1] \in listening' \/ a \in stranded')
    BY <1>0, <2>1, <2>3 DEF LoopInv
  <2> QED
    BY <2>1, <2>2, <2>4, <2>5, <2>6 DEF LoopInv
<1>3. CASE StopServer
  BY <1>0, <1>3 DEF StopServer, LoopInv, TcpTypeOK
<1>4. ASSUME NEW a \in Loops, TakeLoop(a) \/ TestStop(a) \/ LookUp(a) \/ Accept(a) PROVE LoopInv'
  <2>1. /\ loop[a] # "new" /\ loop'[a] \notin {"new", "waiting"}
        /\ \A b \in Loops : b # a => loop'[b] = loop[b]
    BY <1>4 DEF TakeLoop, TestStop, LookUp, Accept, Goes, TcpTypeOK
  <2>2. UNCHANGED <<accepting, listening, sockets, closures, starts, stopped, stranded>>
    BY <1>4 DEF TakeLoop, TestStop, LookUp, Accept
  <2> QED
    BY <1>0, <2>1, <2>2 DEF LoopInv
<1>5. ASSUME NEW a \in Loops, Suspend(a) PROVE LoopInv'
  <2>1. CASE a[1] \in listening
    <3>1. /\ loop[a] # "new" /\ loop'[a] = "waiting"
          /\ \A b \in Loops : b # a => loop'[b] = loop[b]
          /\ accepting' = [accepting EXCEPT ![a[1]] = a]
          /\ UNCHANGED <<listening, sockets, closures, starts, stopped, stranded>>
      BY <1>5, <2>1 DEF Suspend, Goes, TcpTypeOK
    <3>2. ASSUME NEW b \in Loops, loop'[b] = "waiting"
          PROVE  accepting'[b[1]] = b /\ (b[1] \in listening' \/ b \in stranded')
      <4>1. CASE b = a
        BY <2>1, <3>1, <4>1, LoopIsPair DEF TcpTypeOK
      <4>2. CASE b # a
        <5>1. /\ loop[b] = "waiting"
              /\ accepting[b[1]] = b /\ (b[1] \in listening \/ b \in stranded)
          BY <1>0, <3>1, <3>2, <4>2 DEF LoopInv
        <5>2. b[2] = 1 /\ a[2] = 1
          BY <1>0, <3>1, <5>1 DEF LoopInv
        <5>3. b[1] # a[1]
          BY <4>2, <5>2, LoopIsPair
        <5> QED
          BY <3>1, <5>1, <5>3, LoopIsPair DEF TcpTypeOK
      <4> QED
        BY <4>1, <4>2
    <3>3. ASSUME NEW b \in Loops, NEW s \in Socks, accepting'[s] = b PROVE loop'[b] # "new"
      <4>1. CASE b = a
        BY <3>1, <4>1
      <4>2. CASE b # a
        <5>1. accepting[s] = b
          BY <3>1, <3>3, <4>2 DEF TcpTypeOK
        <5> QED
          BY <1>0, <3>1, <4>2, <5>1 DEF LoopInv
      <4> QED
        BY <4>1, <4>2
    <3>4. /\ starts' = 0 => \A b \in Loops : loop'[b] = "new"
          /\ starts' > 0 /\ stopped' /\ closures' = 0 => sockets' = {}
          /\ \A b \in Loops : loop'[b] # "new" => b[2] = 1
      BY <1>0, <3>1 DEF LoopInv
    <3> QED
      BY <3>2, <3>3, <3>4 DEF LoopInv
  <2>2. CASE a[1] \notin listening
    BY <1>0, <1>5, <2>2 DEF Suspend, LoopInv
  <2> QED
    BY <2>1, <2>2
<1>6. ASSUME NEW s \in Socks, ConnectionComes(s) PROVE LoopInv'
  BY <1>0, <1>6 DEF ConnectionComes, LoopInv
<1>7. ASSUME NEW s \in Socks, WakeLoop(s) PROVE LoopInv'
  BY <1>7, TriggersKeepsLoops DEF WakeLoop
<1>8. CASE BeginClosing
  BY <1>0, <1>8 DEF BeginClosing, LoopInv
<1>9. ASSUME NEW s \in Socks, CancelSocket(s) \/ CancelAgain(s) PROVE LoopInv'
  BY <1>9, TriggersKeepsLoops DEF CancelSocket, CancelAgain
<1>10. ASSUME NEW s \in Socks, ForgetSocket(s) PROVE LoopInv'
  BY <1>0, <1>10 DEF ForgetSocket, LoopInv
<1>11. ASSUME NEW s \in Socks, CloseSocket(s) PROVE LoopInv'
  <2>1. /\ listening' = listening \ {s}
        /\ stranded' = stranded \cup {a \in Loops : accepting[s] = a}
        /\ UNCHANGED <<sockets, accepting, loop, starts, stopped, closures>>
    BY <1>11 DEF CloseSocket
  <2>2. ASSUME NEW a \in Loops, loop[a] = "waiting"
        PROVE  accepting[a[1]] = a /\ (a[1] \in listening' \/ a \in stranded')
    <3>1. accepting[a[1]] = a /\ (a[1] \in listening \/ a \in stranded)
      BY <1>0, <2>2 DEF LoopInv
    <3> QED
      BY <2>1, <3>1
  <2> QED
    BY <1>0, <2>1, <2>2 DEF LoopInv
<1>12. CASE EndClosing
  BY <1>0, <1>12 DEF EndClosing, LoopInv
<1>13. CASE UNCHANGED tcpVars
  BY <1>0, <1>13 DEF tcpVars, LoopInv
<1> QED
  BY <1>1, <1>2, <1>3, <1>4, <1>5, <1>6, <1>7, <1>8, <1>9, <1>10, <1>11, <1>12, <1>13
     DEF TcpNext, Accepting, ClosingAll

(* With one thread, nothing comes between the steps of a close().          *)
LEMMA AloneStep ==
  TcpTypeOK /\ ListeningInv /\ AloneInv /\ [TcpNext]_tcpVars => AloneInv'
<1> SUFFICES ASSUME TcpTypeOK, ListeningInv, AloneInv, [TcpNext]_tcpVars, alone' PROVE AloneInv'
  BY DEF AloneInv
<1> USE DEF closureVars
<1>0. alone
  BY DEF TcpNext, Bind, StartServer, StopServer, TakeLoop, Accepting, TestStop, LookUp, Accept,
         Suspend, ConnectionComes, WakeLoop, ClosingAll, BeginClosing, CancelSocket,
         CancelAgain, ForgetSocket, CloseSocket, EndClosing, tcpVars
<1>a. /\ ~broken /\ stranded = {}
      /\ left # NoLoop => \A a \in Loops : ~Running(a)
      /\ \A a \in Loops : loop[a] = "again" => a[1] \in listening
      /\ \A s \in Socks : closing \in {<<"del", s>>, <<"close_f", s>>} => accepting[s] = NoLoop
  BY <1>0 DEF AloneInv
<1>1. ASSUME NEW fails \in SUBSET Socks, Bind(fails) PROVE AloneInv'
  <2>1. left = NoLoop /\ listening = {}
    BY <1>1 DEF Bind, ListeningInv
  <2> QED
    BY <1>a, <1>1, <2>1 DEF Bind, AloneInv, Running
<1>2. CASE StartServer
  <2>1. \A a \in Loops : loop'[a] = loop[a] \/ loop'[a] = "scheduled"
    BY <1>2 DEF StartServer
  <2>2. \A a \in Loops : Running(a)' => Running(a)
    BY <2>1 DEF Running
  <2> QED
    BY <1>a, <1>2, <2>1, <2>2 DEF StartServer, AloneInv
<1>3. CASE StopServer
  BY <1>a, <1>3 DEF StopServer, AloneInv, Running
<1>4. ASSUME NEW a \in Loops, TakeLoop(a) \/ TestStop(a) \/ LookUp(a) \/ Accept(a) PROVE AloneInv'
  <2>1. left = NoLoop /\ closing = NoLoop
    <3>1. left = NoLoop
      BY <1>a, <1>0, <1>4 DEF TakeLoop, TestStop, LookUp, Accept, Room, Running
    <3> QED
      BY <3>1 DEF ListeningInv
  <2>2. UNCHANGED <<left, closing, accepting, listening, broken, stranded>>
    BY <1>4 DEF TakeLoop, TestStop, LookUp, Accept
  <2>3. /\ loop'[a] = "again" => a[1] \in listening
        /\ \A b \in Loops : b # a => loop'[b] = loop[b]
    BY <1>4 DEF TakeLoop, TestStop, LookUp, Accept, Goes, TcpTypeOK
  <2>4. \A s \in Socks : closing' \notin {<<"del", s>>, <<"close_f", s>>}
    BY <2>1, <2>2, RestIsPair
  <2> QED
    BY <1>a, <2>1, <2>2, <2>3, <2>4 DEF AloneInv
<1>5. ASSUME NEW a \in Loops, Suspend(a) PROVE AloneInv'
  <2>1. left = NoLoop /\ closing = NoLoop /\ a[1] \in listening
    <3>1. Running(a) /\ loop[a] = "again"
      BY <1>5 DEF Suspend, Running
    <3>2. left = NoLoop
      BY <1>a, <3>1
    <3> QED
      BY <1>a, <3>1, <3>2 DEF ListeningInv
  <2>2. UNCHANGED <<left, closing, listening, broken, stranded>>
    BY <1>5, <2>1 DEF Suspend
  <2>3. /\ loop'[a] = "waiting"
        /\ \A b \in Loops : b # a => loop'[b] = loop[b]
    BY <1>5, <2>1 DEF Suspend, Goes, TcpTypeOK
  <2>4. \A s \in Socks : closing' \notin {<<"del", s>>, <<"close_f", s>>}
    BY <2>1, <2>2, RestIsPair
  <2> QED
    BY <1>a, <2>1, <2>2, <2>3, <2>4 DEF AloneInv
<1>6. ASSUME NEW s \in Socks, ConnectionComes(s) PROVE AloneInv'
  BY <1>a, <1>6 DEF ConnectionComes, AloneInv, Running
<1>7. ASSUME NEW s \in Socks, Triggers(s),
             UNCHANGED <<left, listening, broken, stranded>>,
             \A x \in Socks : closing' \in {<<"del", x>>, <<"close_f", x>>} =>
                                 x = s \/ closing' = closing
      PROVE  AloneInv'
  <2>1. \A a \in Loops : loop'[a] = loop[a] \/ loop'[a] = "resumed"
    BY <1>7, TriggerFacts
  <2>2. \A a \in Loops : Running(a)' => Running(a)
    BY <2>1 DEF Running
  <2>3. \A x \in Socks : closing' \in {<<"del", x>>, <<"close_f", x>>} => accepting'[x] = NoLoop
    BY <1>a, <1>7, TriggerFacts
  <2> QED
    BY <1>a, <1>7, <2>1, <2>2, <2>3 DEF AloneInv
<1>8. ASSUME NEW s \in Socks, WakeLoop(s) PROVE AloneInv'
  BY <1>7, <1>8 DEF WakeLoop
<1>9. CASE BeginClosing
  <2>1. left = NoLoop /\ \A a \in Loops : ~Running(a)
    BY <1>0, <1>9 DEF BeginClosing, Room
  <2>2. UNCHANGED <<loop, listening, accepting, closing, broken, stranded>>
    BY <1>9, <2>1 DEF BeginClosing
  <2>3. \A a \in Loops : ~Running(a)'
    BY <2>1, <2>2 DEF Running
  <2> QED
    BY <1>a, <2>2, <2>3 DEF AloneInv
<1>10. ASSUME NEW s \in Socks, CancelSocket(s) PROVE AloneInv'
  <2>1. \A x \in Socks : closing' \notin {<<"del", x>>, <<"close_f", x>>}
    BY <1>10 DEF CancelSocket
  <2> QED
    BY <1>7, <1>10, <2>1 DEF CancelSocket
<1>11. ASSUME NEW s \in Socks, CancelAgain(s) PROVE AloneInv'
  <2>1. \A x \in Socks : closing' \in {<<"del", x>>, <<"close_f", x>>} => x = s
    BY <1>11 DEF CancelAgain
  <2> QED
    BY <1>7, <1>11, <2>1 DEF CancelAgain
<1>12. ASSUME NEW s \in Socks, ForgetSocket(s) PROVE AloneInv'
  <2>1. accepting[s] = NoLoop
    BY <1>a, <1>12 DEF ForgetSocket
  <2>2. \A x \in Socks : closing' \in {<<"del", x>>, <<"close_f", x>>} => x = s
    BY <1>12 DEF ForgetSocket
  <2>3. UNCHANGED <<left, loop, listening, accepting, broken, stranded>>
    BY <1>12 DEF ForgetSocket
  <2>4. \A a \in Loops : Running(a)' => Running(a)
    BY <2>3 DEF Running
  <2> QED
    BY <1>a, <2>1, <2>2, <2>3, <2>4 DEF AloneInv
<1>13. ASSUME NEW s \in Socks, CloseSocket(s) PROVE AloneInv'
  <2>1. accepting[s] = NoLoop
    BY <1>a, <1>13 DEF CloseSocket
  <2>2. stranded' = {}
    BY <1>a, <1>13, <2>1, TcpAssumption DEF CloseSocket
  <2>3. left # NoLoop
    BY <1>13, RestIsPair DEF CloseSocket, ListeningInv
  <2>4. \A a \in Loops : ~Running(a)
    BY <1>a, <2>3
  <2>5. \A a \in Loops : ~Running(a)' /\ loop'[a] # "again"
    BY <1>13, <2>4 DEF CloseSocket, Running
  <2>6. \A x \in Socks : closing' \notin {<<"del", x>>, <<"close_f", x>>}
    BY <1>13, RestIsPair DEF CloseSocket
  <2>7. ~broken'
    BY <1>a, <1>13 DEF CloseSocket
  <2> QED
    BY <2>2, <2>5, <2>6, <2>7 DEF AloneInv
<1>14. CASE EndClosing
  BY <1>a, <1>14 DEF EndClosing, AloneInv, Running
<1>15. CASE UNCHANGED tcpVars
  BY <1>a, <1>15 DEF tcpVars, AloneInv, Running
<1> QED
  BY <1>1, <1>2, <1>3, <1>4, <1>5, <1>6, <1>8, <1>9, <1>10, <1>11, <1>12, <1>13, <1>14, <1>15
     DEF TcpNext, Accepting, ClosingAll

(***************************************************************************)
(* Whoever calls start and stop, and however the closures and the loops    *)
(* take turns, the invariant holds (tcpserver.cpp:60-95).                  *)
(***************************************************************************)
THEOREM TcpInvariant == TcpSpec => []TcpInv
<1>1. TcpInv /\ [TcpNext]_tcpVars => TcpInv'
  BY TcpTypeStep, ListeningStep, LoopStep, AloneStep DEF TcpInv
<1> QED
  BY <1>1, TcpInvInit, PTL DEF TcpSpec

(***************************************************************************)
(* A server that was stopped accepts nothing any more once the closures    *)
(* have ended.  With one thread no assertion fails and each suspended loop *)
(* is the one its open socket resumes; with several the only other ones    *)
(* are those that registered between cancelAllEvent and close_f            *)
(* (hook.cpp:326-338).  For any sockets, if the server was not started     *)
(* again before the closures had ended (tcpserver.cpp:60-95).              *)
(***************************************************************************)
THEOREM StoppedServerIsClosed == TcpSpec => []StopCloses
<1>1. TcpInv => StopCloses
  <2> SUFFICES ASSUME TcpInv PROVE StopCloses
    OBVIOUS
  <2>1. alone => ~broken /\ stranded = {}
    BY DEF TcpInv, AloneInv
  <2>2. ASSUME ~hasty, NEW a \in Loops, loop[a] = "waiting"
        PROVE  accepting[a[1]] = a /\ (a[1] \in listening \/ a \in stranded)
    BY <2>2 DEF TcpInv, LoopInv
  <2>3. ASSUME ~hasty, stopped, starts > 0, closures = 0 PROVE listening = {} /\ backlog = {}
    <3>1. sockets = {}
      BY <2>3 DEF TcpInv, LoopInv
    <3>2. left = NoLoop
      BY <2>3 DEF TcpInv, ListeningInv
    <3> QED
      BY <3>1, <3>2 DEF TcpInv, ListeningInv
  <2> QED
    BY <2>1, <2>2, <2>3 DEF StopCloses
<1> QED
  BY <1>1, TcpInvariant, PTL
===============================================================================
