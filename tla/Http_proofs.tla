------------------------------ MODULE Http_proofs ------------------------------
(***************************************************************************)
(* Proofs about the two ends of an HTTP connection and of a WebSocket, for *)
(* any number of connections, clients, messages and frames.                *)
(***************************************************************************)
EXTENDS HttpPool, WebSocket, SequenceTheorems, WellFoundedInduction, TLAPS

(* HttpPool.                                                               *)
(* Nothing is on the way that could be taken for a response.               *)
OnlyRests(c) == \A i \in DOMAIN replies[c] : replies[c][i][2] = "rest"
Clean(c)     == asked[c] = <<>> /\ OnlyRests(c)

(* One response at most is on the way, and it is for f.                    *)
Expects(f, c) ==
    \/ asked[c] = <<f>> /\ OnlyRests(c)
    \/ /\ asked[c] = <<>>
       /\ \A i, j \in DOMAIN replies[c] :
             /\ replies[c][i][2] = "head" => replies[c][i][1] = f
             /\ replies[c][i][2] = "head" /\ replies[c][j][2] = "head" => i = j

Owned(c) == \E f \in Clients : conn[f] = c

(***************************************************************************)
(* A connection belongs to one client, or it is idle, in one place, or     *)
(* neither.                                                                *)
(***************************************************************************)
OwnersInv ==
    /\ \A f \in Clients :
          (conn[f] # NoConn) <=> (stage[f] \in {"send", "receive", "release"})
    /\ \A f, g \in Clients : conn[f] = conn[g] /\ conn[f] # NoConn => f = g
    /\ \A i, j \in DOMAIN idle : idle[i] = idle[j] => i = j
    /\ \A i \in DOMAIN idle : ~Owned(idle[i]) /\ uses[idle[i]] > 0

(***************************************************************************)
(* What is on the way on each connection: nothing before the first use;    *)
(* nothing that could be taken for a response while it is idle and         *)
(* connected, about to be written to, or about to be given back connected; *)
(* and while its client waits only the response to this client's request.  *)
(***************************************************************************)
WireInv ==
    /\ \A c \in Conns : uses[c] = 0 /\ ~Owned(c) => asked[c] = <<>> /\ replies[c] = <<>>
    /\ \A i \in DOMAIN idle : idle[i] \in linked => Clean(idle[i])
    /\ \A f \in Clients :
          /\ stage[f] = "send" => Clean(conn[f])
          /\ stage[f] = "receive" => Expects(f, conn[f])
          /\ stage[f] = "release" /\ conn[f] \in linked => Clean(conn[f])

PoolInv == PoolTypeOK /\ OwnersInv /\ WireInv /\ AnswersMatch

-----------------------------------------------------------------------------
(* Dropping the front of a sequence, as the buffers and m_conns do.        *)
LEMMA DropFront ==
  ASSUME NEW S, NEW s \in Seq(S), NEW n \in Nat, n <= Len(s)
  PROVE  /\ SubSeq(s, n + 1, Len(s)) \in Seq(S)
         /\ DOMAIN SubSeq(s, n + 1, Len(s)) = 1..(Len(s) - n)
         /\ \A i \in 1..(Len(s) - n) : SubSeq(s, n + 1, Len(s))[i] = s[n + i]
         /\ DOMAIN s = 1..Len(s) /\ Len(s) \in Nat
  OBVIOUS

(* push_back.                                                              *)
LEMMA AppendOne ==
  ASSUME NEW S, NEW s \in Seq(S), NEW e \in S
  PROVE  /\ Append(s, e) \in Seq(S)
         /\ DOMAIN Append(s, e) = 1..(Len(s) + 1)
         /\ \A i \in 1..Len(s) : Append(s, e)[i] = s[i]
         /\ Append(s, e)[Len(s) + 1] = e
  OBVIOUS

(* The parts of a response: a head and then, of a chunked one, the rest.   *)
LEMMA AnswerParts ==
  ASSUME NEW f \in Clients
  PROVE  /\ Answer(f) \in Seq(Clients \X {"head", "rest"})
         /\ DOMAIN Answer(f) = 1..Len(Answer(f)) /\ Len(Answer(f)) \in Nat
         /\ \A i \in DOMAIN Answer(f) :
               Answer(f)[i][1] = f /\ (Answer(f)[i][2] = "head" => i = 1)
<1> DEFINE P == Clients \X {"head", "rest"}
           h == <<f, "head">>
           r == <<f, "rest">>
<1>0. h \in P /\ r \in P /\ h[1] = f /\ r[1] = f /\ h[2] = "head" /\ r[2] = "rest"
  OBVIOUS
<1>1. Answer(f) = <<h>> \o (IF f \in Chunked THEN <<r>> ELSE <<>>)
  BY DEF Answer
<1> HIDE DEF P, h, r
<1>2. CASE f \in Chunked
  <2>1. /\ <<h>> \in Seq(P) /\ Len(<<h>>) = 1 /\ <<h>>[1] = h
        /\ <<r>> \in Seq(P) /\ Len(<<r>>) = 1 /\ <<r>>[1] = r
    BY <1>0
  <2>2. /\ Answer(f) \in Seq(P) /\ Len(Answer(f)) = 2
        /\ Answer(f)[1] = h /\ Answer(f)[2] = r
    BY <1>1, <1>2, <2>1, ConcatProperties
  <2>3. DOMAIN Answer(f) = 1..2 /\ \A i \in 1..2 : i = 1 \/ i = 2
    BY <2>2
  <2> QED
    BY <1>0, <2>1, <2>2, <2>3 DEF P
<1>3. CASE f \notin Chunked
  <2>1. Answer(f) = <<h>>
    BY <1>0, <1>1, <1>3
  <2>2. /\ <<h>> \in Seq(P) /\ Len(<<h>>) = 1 /\ DOMAIN <<h>> = 1..1
        /\ <<h>>[1] = h
    BY <1>0
  <2>3. \A i \in 1..1 : i = 1
    OBVIOUS
  <2> QED
    BY <1>0, <2>1, <2>2, <2>3 DEF P
<1> QED
  BY <1>2, <1>3

(* getConnection takes a connection that is there and connected.           *)
LEMMA FirstUsableFact ==
  ASSUME PoolTypeOK, Usable # {}
  PROVE  /\ FirstUsable \in 1..Len(idle)
         /\ idle[FirstUsable] \in linked /\ idle[FirstUsable] \in Conns
<1>1. Usable \subseteq Nat /\ Len(idle) \in Nat
  BY DEF Usable, PoolTypeOK
<1>2. \E i \in Usable : \A j \in Usable : i <= j
  <2>1. PICK i \in Usable : \A j \in Usable : <<j, i>> \notin OpToRel(<, Nat)
    BY <1>1, NatLessThanWellFounded, WFMin
  <2>2. \A j \in Usable : ~(j < i)
    BY <1>1, <2>1 DEF OpToRel
  <2> QED
    BY <1>1, <2>2
<1>3. FirstUsable \in Usable
  BY <1>2 DEF FirstUsable
<1> QED
  BY <1>3 DEF Usable, PoolTypeOK
-----------------------------------------------------------------------------
LEMMA PoolInitial == PoolInit => PoolInv
<1> SUFFICES ASSUME PoolInit PROVE PoolInv
  OBVIOUS
<1>1. PoolTypeOK
  BY DEF PoolInit, PoolTypeOK
<1>2. OwnersInv /\ WireInv /\ AnswersMatch
  BY <1>1, PoolAssumption
  DEF PoolInit, PoolTypeOK, OwnersInv, WireInv, AnswersMatch, Owned, OnlyRests, Clean
<1> QED
  BY <1>1, <1>2 DEF PoolInv

LEMMA InvFacts ==
  ASSUME PoolInv
  PROVE  /\ PoolTypeOK /\ OwnersInv /\ WireInv /\ AnswersMatch
         /\ DOMAIN idle = 1..Len(idle) /\ Len(idle) \in Nat /\ NoConn \notin Conns
<1>1. PoolTypeOK
  BY DEF PoolInv
<1>2. DOMAIN idle = 1..Len(idle) /\ Len(idle) \in Nat
  BY <1>1 DEF PoolTypeOK
<1> QED
  BY <1>1, <1>2, PoolAssumption DEF PoolInv

(***************************************************************************)
(* The steps of a client.                                                  *)
(***************************************************************************)
LEMMA TakeIdleStep ==
  ASSUME PoolInv, NEW f \in Clients, TakeIdle(f)
  PROVE  PoolInv'
<1> DEFINE k == FirstUsable
           c == idle[k]
<1>0. /\ PoolTypeOK /\ OwnersInv /\ WireInv /\ AnswersMatch /\ Usable # {}
      /\ DOMAIN idle = 1..Len(idle) /\ Len(idle) \in Nat /\ NoConn \notin Conns
  BY InvFacts DEF TakeIdle
<1>1. k \in 1..Len(idle) /\ c \in linked /\ c \in Conns
  BY <1>0, FirstUsableFact
<1>3. /\ conn' = [conn EXCEPT ![f] = c] /\ stage' = [stage EXCEPT ![f] = "send"]
      /\ idle' = SubSeq(idle, k + 1, Len(idle))
      /\ total' = total - (k - 1) /\ stage[f] = "get"
      /\ UNCHANGED <<linked, uses, got, asked, replies, serving>>
  BY DEF TakeIdle, Enters
<1>c. c = idle[k]
  OBVIOUS
<1>k. k \in Nat
  BY <1>0, <1>1
<1> HIDE DEF c, k
<1>2. /\ idle' \in Seq(Conns)
      /\ DOMAIN idle' = 1..(Len(idle) - k)
      /\ \A i \in DOMAIN idle' : idle'[i] = idle[k + i] /\ k + i \in DOMAIN idle
  <2>1. idle \in Seq(Conns) /\ k <= Len(idle)
    BY <1>0, <1>1 DEF PoolTypeOK
  <2> QED
    BY <1>0, <1>1, <1>3, <1>k, <2>1, DropFront
<1>4. PoolTypeOK'
  BY <1>0, <1>1, <1>2, <1>3, <1>k, SMTT(30) DEF PoolTypeOK
<1>5. ~Owned(c) /\ uses[c] > 0 /\ Clean(c)
  BY <1>0, <1>1, <1>c DEF OwnersInv, WireInv
<1>6. \A i \in DOMAIN idle' : idle'[i] # c
  BY <1>0, <1>1, <1>2, <1>c, <1>k DEF OwnersInv
<1>7. conn[f] = NoConn /\ conn \in [Clients -> Conns \cup {NoConn}]
  BY <1>0, <1>3 DEF OwnersInv, PoolTypeOK
<1>8. \A d \in Conns : Owned(d)' <=> Owned(d) \/ d = c
  BY <1>0, <1>3, <1>7 DEF Owned
<1>9. OwnersInv'
  <2>1. \A g \in Clients :
          (conn'[g] # NoConn) <=> (stage'[g] \in {"send", "receive", "release"})
    BY <1>0, <1>1, <1>3, <1>7 DEF OwnersInv, PoolTypeOK
  <2>2. \A g, h \in Clients : conn'[g] = conn'[h] /\ conn'[g] # NoConn => g = h
    BY <1>0, <1>1, <1>3, <1>5, <1>7 DEF OwnersInv, Owned
  <2>3. \A i, j \in DOMAIN idle' : idle'[i] = idle'[j] => i = j
    BY <1>0, <1>2, <1>k DEF OwnersInv
  <2>4. \A i \in DOMAIN idle' : ~Owned(idle[i])' /\ uses'[idle'[i]] > 0
    <3> SUFFICES ASSUME NEW i \in DOMAIN idle'
                 PROVE  ~Owned(idle[i])' /\ uses'[idle'[i]] > 0
      OBVIOUS
    <3>1. idle'[i] \in Conns /\ idle'[i] # c /\ ~Owned(idle[k + i]) /\ uses[idle[k + i]] > 0
      BY <1>0, <1>2, <1>6 DEF OwnersInv, PoolTypeOK
    <3> QED
      BY <1>2, <1>3, <1>8, <3>1, ZenonT(60) DEF Owned
  <2> QED
    BY <2>1, <2>2, <2>3, <2>4 DEF OwnersInv
<1>10. \A d : Clean(d)' <=> Clean(d)
  BY <1>3 DEF Clean, OnlyRests
<1>11. \A d, g : Expects(g, d)' <=> Expects(g, d)
  BY <1>3 DEF Expects, OnlyRests
<1>12. WireInv'
  BY <1>0, <1>1, <1>2, <1>3, <1>5, <1>7, <1>8, <1>10, <1>11 DEF WireInv, PoolTypeOK
<1> QED
  BY <1>0, <1>3, <1>4, <1>9, <1>12 DEF PoolInv, AnswersMatch

(* Steps that leave the connections and the wire as they are.              *)
LEMMA SameWire ==
  ASSUME UNCHANGED <<asked, replies>>
  PROVE  /\ \A d : Clean(d)' <=> Clean(d)
         /\ \A d, g : Expects(g, d)' <=> Expects(g, d)
  BY DEF Clean, Expects, OnlyRests

LEMMA NoneIdleStep ==
  ASSUME PoolInv, NEW f \in Clients, NoneIdle(f)
  PROVE  PoolInv'
<1>0. /\ PoolTypeOK /\ OwnersInv /\ WireInv /\ AnswersMatch
      /\ Len(idle) \in Nat
  BY InvFacts
<1> USE DEF NoneIdle, Enters
<1>1. PoolTypeOK'
  BY <1>0 DEF PoolTypeOK
<1>2. OwnersInv'
  BY <1>0 DEF OwnersInv, PoolTypeOK, Owned
<1>3. WireInv'
  BY <1>0, SameWire DEF WireInv, PoolTypeOK, Owned
<1> QED
  BY <1>0, <1>1, <1>2, <1>3 DEF PoolInv, AnswersMatch

LEMMA ConnectStep ==
  ASSUME PoolInv, NEW f \in Clients, NEW c \in Conns, Connect(f, c)
  PROVE  PoolInv'
<1>0. /\ PoolTypeOK /\ OwnersInv /\ WireInv /\ AnswersMatch
      /\ Len(idle) \in Nat /\ NoConn \notin Conns
      /\ \A i \in DOMAIN idle : idle[i] \in Conns
  BY InvFacts DEF PoolTypeOK
<1> USE DEF Connect, Enters
<1>1. PoolTypeOK'
  BY <1>0 DEF PoolTypeOK
<1>2. conn[f] = NoConn /\ ~Owned(c) /\ \A i \in DOMAIN idle : idle[i] # c
  BY <1>0 DEF OwnersInv, Owned
<1>3. OwnersInv'
  <2>1. \A g \in Clients :
          (conn'[g] # NoConn) <=> (stage'[g] \in {"send", "receive", "release"})
    BY <1>0 DEF OwnersInv, PoolTypeOK
  <2>2. \A g, h \in Clients : conn'[g] = conn'[h] /\ conn'[g] # NoConn => g = h
    BY <1>0, <1>2 DEF OwnersInv, PoolTypeOK
  <2>3. \A i \in DOMAIN idle' : ~Owned(idle[i])' /\ uses'[idle'[i]] > 0
    BY <1>0, <1>2 DEF OwnersInv, PoolTypeOK, Owned
  <2> QED
    BY <1>0, <2>1, <2>2, <2>3 DEF OwnersInv
<1>4. Clean(c)
  BY <1>0, <1>2 DEF WireInv, Clean, OnlyRests
<1>5. WireInv'
  BY <1>0, <1>2, <1>4, SameWire DEF WireInv, PoolTypeOK, Owned
<1> QED
  BY <1>0, <1>1, <1>3, <1>5 DEF PoolInv, AnswersMatch

LEMMA ConnectFailsStep ==
  ASSUME PoolInv, NEW f \in Clients, ConnectFails(f)
  PROVE  PoolInv'
<1>0. PoolTypeOK /\ OwnersInv /\ WireInv /\ AnswersMatch
  BY InvFacts
<1> USE DEF ConnectFails, Enters
<1>1. PoolTypeOK'
  BY <1>0 DEF PoolTypeOK
<1>2. OwnersInv'
  BY <1>0 DEF OwnersInv, PoolTypeOK, Owned
<1>3. WireInv'
  BY <1>0, SameWire DEF WireInv, PoolTypeOK, Owned
<1>4. AnswersMatch'
  BY <1>0 DEF AnswersMatch, PoolTypeOK
<1> QED
  BY <1>1, <1>2, <1>3, <1>4 DEF PoolInv

LEMMA SendRequestStep ==
  ASSUME PoolInv, NEW f \in Clients, SendRequest(f)
  PROVE  PoolInv'
<1> DEFINE c == conn[f]
<1>0. /\ PoolTypeOK /\ OwnersInv /\ WireInv /\ AnswersMatch
      /\ NoConn \notin Conns
  BY InvFacts
<1> USE DEF SendRequest, Enters
<1>1. c \in Conns /\ Clean(c) /\ (\A g \in Clients : g # f => conn[g] # c)
  BY <1>0 DEF OwnersInv, WireInv, PoolTypeOK
<1>2. PoolTypeOK'
  BY <1>0, <1>1 DEF PoolTypeOK
<1>3. OwnersInv'
  BY <1>0 DEF OwnersInv, PoolTypeOK, Owned
<1>4. /\ \A d \in Conns : d # c => asked'[d] = asked[d]
      /\ asked'[c] = <<>> \/ asked'[c] = <<f>>
  BY <1>0, <1>1 DEF PoolTypeOK, Clean
<1>5. Expects(f, c)'
  BY <1>1, <1>4 DEF Expects, Clean, OnlyRests
<1>6. WireInv'
  <2>1. \A d \in Conns : uses'[d] = 0 /\ ~Owned(d)' => asked'[d] = <<>> /\ replies'[d] = <<>>
    BY <1>0, <1>1, <1>4 DEF WireInv, Owned
  <2>2. \A i \in DOMAIN idle' : idle'[i] \in linked' => Clean(idle[i])'
    BY <1>0, <1>1, <1>4, SMTT(30) DEF WireInv, OwnersInv, Owned, Clean, OnlyRests, PoolTypeOK
  <2>3. ASSUME NEW g \in Clients
        PROVE  /\ stage'[g] = "send" => Clean(conn[g])'
               /\ stage'[g] = "receive" => Expects(g, conn[g])'
               /\ stage'[g] = "release" /\ conn'[g] \in linked' => Clean(conn[g])'
    <3>1. CASE g = f
      BY <1>0, <1>5, <3>1 DEF PoolTypeOK, Expects, OnlyRests
    <3>2. CASE g # f
      BY <1>0, <1>1, <1>4, <3>2
      DEF WireInv, OwnersInv, PoolTypeOK, Clean, Expects, OnlyRests
    <3> QED
      BY <3>1, <3>2
  <2> QED
    BY <2>1, <2>2, <2>3 DEF WireInv
<1> QED
  BY <1>0, <1>2, <1>3, <1>6 DEF PoolInv, AnswersMatch

LEMMA SendFailsStep ==
  ASSUME PoolInv, NEW f \in Clients, SendFails(f)
  PROVE  PoolInv'
<1>0. PoolTypeOK /\ OwnersInv /\ WireInv /\ AnswersMatch
  BY InvFacts
<1> USE DEF SendFails, Enters
<1>1. PoolTypeOK'
  BY <1>0 DEF PoolTypeOK
<1>2. OwnersInv'
  BY <1>0 DEF OwnersInv, PoolTypeOK, Owned
<1>3. WireInv'
  BY <1>0, SameWire DEF WireInv, PoolTypeOK, Owned
<1>4. AnswersMatch'
  BY <1>0 DEF AnswersMatch, PoolTypeOK
<1> QED
  BY <1>1, <1>2, <1>3, <1>4 DEF PoolInv

(* The head it reads is the only one, and what it leaves unread has none.  *)
LEMMA ReceiveResponseStep ==
  ASSUME PoolInv, NEW f \in Clients, ReceiveResponse(f)
  PROVE  PoolInv'
<1> DEFINE c == conn[f]
           P == Clients \X {"head", "rest"}
<1>0. /\ PoolTypeOK /\ OwnersInv /\ WireInv /\ AnswersMatch
      /\ NoConn \notin Conns
  BY InvFacts
<1>1. /\ stage[f] = "receive" /\ replies[c] # <<>> /\ Head(replies[c])[2] = "head"
      /\ got' = [got EXCEPT ![f] = Head(replies[c])[1]]
      /\ stage' = [stage EXCEPT ![f] = "release"]
      /\ UNCHANGED <<idle, total, linked, uses, conn, asked, serving>>
  BY DEF ReceiveResponse, Enters
<1>2. c \in Conns /\ Expects(f, c) /\ \A g \in Clients : g # f => conn[g] # c
  BY <1>0, <1>1 DEF OwnersInv, WireInv, PoolTypeOK
<1>3. /\ replies[c] \in Seq(P) /\ DOMAIN replies[c] = 1..Len(replies[c])
      /\ Len(replies[c]) \in Nat /\ 1 \in DOMAIN replies[c]
      /\ Head(replies[c]) = replies[c][1]
  BY <1>0, <1>1, <1>2 DEF PoolTypeOK
<1>4. PICK n \in 1..Len(replies[c]) :
        replies' = [replies EXCEPT ![c] = SubSeq(@, n + 1, Len(@))]
  BY DEF ReceiveResponse
<1> DEFINE left == SubSeq(replies[c], n + 1, Len(replies[c]))
<1>5. /\ left \in Seq(P) /\ DOMAIN left = 1..(Len(replies[c]) - n)
      /\ \A i \in DOMAIN left : left[i] = replies[c][n + i]
  BY <1>3, DropFront
<1> HIDE DEF left
<1>6. replies' = [replies EXCEPT ![c] = left]
  BY <1>4 DEF left
<1>7. /\ asked[c] = <<>> /\ replies[c][1][1] = f
      /\ \A i \in DOMAIN replies[c] : replies[c][i][2] = "head" => i = 1
  BY <1>1, <1>2, <1>3 DEF Expects, OnlyRests
<1>8. \A i \in DOMAIN left : left[i][2] = "rest"
  <2> SUFFICES ASSUME NEW i \in DOMAIN left PROVE left[i][2] = "rest"
    OBVIOUS
  <2>1. n + i \in DOMAIN replies[c] /\ n + i # 1
    BY <1>3, <1>5
  <2>2. replies[c][n + i] \in P /\ replies[c][n + i][2] # "head"
    BY <1>3, <1>7, <2>1
  <2> QED
    BY <1>5, <2>2
<1>9. PoolTypeOK'
  BY <1>0, <1>1, <1>2, <1>3, <1>5, <1>6, <1>7 DEF PoolTypeOK
<1>10. OwnersInv'
  BY <1>0, <1>1 DEF OwnersInv, PoolTypeOK, Owned
<1>11. replies'[c] = left /\ \A d \in Conns : d # c => replies'[d] = replies[d]
  BY <1>0, <1>2, <1>6 DEF PoolTypeOK
<1>12. WireInv'
  <2>1. \A d \in Conns : uses'[d] = 0 /\ ~Owned(d)' => asked'[d] = <<>> /\ replies'[d] = <<>>
    BY <1>0, <1>1, <1>2, <1>11 DEF WireInv, Owned
  <2>2. ASSUME NEW i \in DOMAIN idle', idle'[i] \in linked' PROVE Clean(idle[i])'
    <3>1. idle[i] \in Conns /\ idle[i] # c /\ Clean(idle[i])
      BY <1>0, <1>1, <1>2, <2>2 DEF WireInv, OwnersInv, Owned, PoolTypeOK
    <3> QED
      BY <1>1, <1>11, <3>1 DEF Clean, OnlyRests
  <2>3. ASSUME NEW g \in Clients
        PROVE  /\ stage'[g] = "send" => Clean(conn[g])'
               /\ stage'[g] = "receive" => Expects(g, conn[g])'
               /\ stage'[g] = "release" /\ conn'[g] \in linked' => Clean(conn[g])'
    <3>1. CASE g = f
      BY <1>0, <1>1, <1>7, <1>8, <1>11, <3>1 DEF PoolTypeOK, Clean, OnlyRests
    <3>2. CASE g # f
      BY <1>0, <1>1, <1>2, <1>11, <3>2, SMTT(30)
      DEF WireInv, OwnersInv, PoolTypeOK, Clean, Expects, OnlyRests
    <3> QED
      BY <3>1, <3>2
  <2> QED
    BY <2>1, <2>2, <2>3 DEF WireInv
<1>13. AnswersMatch'
  BY <1>0, <1>1, <1>3, <1>7 DEF AnswersMatch, PoolTypeOK
<1> QED
  BY <1>9, <1>10, <1>12, <1>13 DEF PoolInv

(* The connection is closed, so that nobody uses it again.                 *)
LEMMA ReceiveFailsStep ==
  ASSUME PoolInv, NEW f \in Clients, ReceiveFails(f)
  PROVE  PoolInv'
<1>0. PoolTypeOK /\ OwnersInv /\ WireInv /\ AnswersMatch /\ NoConn \notin Conns
  BY InvFacts
<1> USE DEF ReceiveFails, Enters
<1>1. PoolTypeOK'
  BY <1>0 DEF PoolTypeOK
<1>2. OwnersInv'
  BY <1>0 DEF OwnersInv, PoolTypeOK, Owned
<1>3. WireInv'
  BY <1>0, SameWire DEF WireInv, PoolTypeOK, Owned
<1>4. AnswersMatch'
  BY <1>0 DEF AnswersMatch, PoolTypeOK
<1> QED
  BY <1>1, <1>2, <1>3, <1>4 DEF PoolInv

LEMMA ReleaseStep ==
  ASSUME PoolInv, NEW f \in Clients, Release(f)
  PROVE  PoolInv'
<1> DEFINE c == conn[f]
<1>0. /\ PoolTypeOK /\ OwnersInv /\ WireInv /\ AnswersMatch
      /\ NoConn \notin Conns /\ DOMAIN idle = 1..Len(idle) /\ Len(idle) \in Nat
  BY InvFacts
<1>1. /\ stage[f] = "release" /\ uses' = [uses EXCEPT ![c] = @ + 1]
      /\ conn' = [conn EXCEPT ![f] = NoConn] /\ stage' = [stage EXCEPT ![f] = "done"]
      /\ UNCHANGED <<got, asked, replies, serving>>
      /\ \/ c \in linked /\ idle' = Append(idle, c) /\ UNCHANGED <<linked, total>>
         \/ linked' = linked \ {c} /\ total' = total - 1 /\ UNCHANGED idle
  BY DEF Release, Enters, Kept
<1>2. /\ c \in Conns /\ \A g \in Clients : g # f => conn[g] # c
      /\ \A i \in DOMAIN idle : idle[i] # c
      /\ c \in linked => Clean(c)
  BY <1>0, <1>1 DEF OwnersInv, WireInv, PoolTypeOK, Owned
<1> HIDE DEF c
<1>3. /\ uses'[c] > 0 /\ \A d \in Conns : d # c => uses'[d] = uses[d]
      /\ ~(\E g \in Clients : conn'[g] = c)
      /\ \A d \in Conns : d # c => (Owned(d)' <=> Owned(d))
  BY <1>0, <1>1, <1>2 DEF PoolTypeOK, Owned, c
<1>4. idle \in Seq(Conns)
  BY <1>0 DEF PoolTypeOK
<1>5. /\ idle' \in Seq(Conns)
      /\ \/ idle' = idle
         \/ /\ DOMAIN idle' = 1..(Len(idle) + 1) /\ c \in linked
            /\ \A i \in 1..Len(idle) : idle'[i] = idle[i]
            /\ idle'[Len(idle) + 1] = c
  <2>1. CASE UNCHANGED idle
    BY <1>4, <2>1
  <2>2. CASE c \in linked /\ idle' = Append(idle, c)
    <3>1. /\ Append(idle, c) \in Seq(Conns)
          /\ DOMAIN Append(idle, c) = 1..(Len(idle) + 1)
          /\ \A i \in 1..Len(idle) : Append(idle, c)[i] = idle[i]
          /\ Append(idle, c)[Len(idle) + 1] = c
      BY <1>2, <1>4, AppendOne
    <3> QED
      BY <2>2, <3>1
  <2> QED
    BY <1>1, <2>1, <2>2
<1>6. PoolTypeOK'
  <2>1. uses' \in [Conns -> Nat]
    BY <1>0, <1>1, <1>2 DEF PoolTypeOK
  <2>2. linked' \subseteq Conns /\ total' \in Int
    BY <1>0, <1>1 DEF PoolTypeOK
  <2>3. /\ conn' \in [Clients -> Conns \cup {NoConn}]
        /\ stage' \in [Clients -> {"get", "connect", "send", "receive", "release", "done"}]
    BY <1>0, <1>1 DEF PoolTypeOK
  <2> QED
    BY <1>0, <1>1, <1>5, <2>1, <2>2, <2>3 DEF PoolTypeOK
<1>7. OwnersInv'
  <2>1. \A g \in Clients :
          (conn'[g] # NoConn) <=> (stage'[g] \in {"send", "receive", "release"})
    BY <1>0, <1>1 DEF OwnersInv, PoolTypeOK
  <2>2. \A g, h \in Clients : conn'[g] = conn'[h] /\ conn'[g] # NoConn => g = h
    BY <1>0, <1>1 DEF OwnersInv, PoolTypeOK
  <2>3. \A i, j \in DOMAIN idle' : idle'[i] = idle'[j] => i = j
    BY <1>0, <1>2, <1>5 DEF OwnersInv
  <2>4. \A i \in DOMAIN idle' : ~Owned(idle[i])' /\ uses'[idle'[i]] > 0
    <3>1. \A i \in DOMAIN idle :
            idle[i] \in Conns /\ idle[i] # c /\ ~Owned(idle[i]) /\ uses[idle[i]] > 0
      BY <1>0, <1>2, <1>4 DEF OwnersInv
    <3>2. ASSUME NEW i \in DOMAIN idle'
          PROVE  idle'[i] = c \/ (i \in DOMAIN idle /\ idle'[i] = idle[i])
      <4>1. CASE idle' = idle
        BY <4>1
      <4>2. CASE /\ DOMAIN idle' = 1..(Len(idle) + 1)
                 /\ \A j \in 1..Len(idle) : idle'[j] = idle[j]
                 /\ idle'[Len(idle) + 1] = c
        <5>1. i \in 1..Len(idle) \/ i = Len(idle) + 1
          BY <1>0, <4>2
        <5> QED
          BY <1>0, <4>2, <5>1
      <4> QED
        BY <1>5, <4>1, <4>2
    <3> QED
      BY <1>3, <3>1, <3>2 DEF Owned
  <2> QED
    BY <2>1, <2>2, <2>3, <2>4 DEF OwnersInv
<1>8. WireInv'
  <2>1. \A d \in Conns : uses'[d] = 0 /\ ~Owned(d)' => asked'[d] = <<>> /\ replies'[d] = <<>>
    BY <1>0, <1>1, <1>3 DEF WireInv
  <2>2. \A i \in DOMAIN idle' : idle'[i] \in linked' => Clean(idle[i])'
    BY <1>0, <1>1, <1>2, <1>5, SameWire DEF WireInv
  <2>3. \A g \in Clients :
          /\ stage'[g] = "send" => Clean(conn[g])'
          /\ stage'[g] = "receive" => Expects(g, conn[g])'
          /\ stage'[g] = "release" /\ conn'[g] \in linked' => Clean(conn[g])'
    BY <1>0, <1>1, SameWire DEF WireInv, PoolTypeOK
  <2> QED
    BY <2>1, <2>2, <2>3 DEF WireInv
<1> QED
  BY <1>0, <1>1, <1>6, <1>7, <1>8 DEF PoolInv, AnswersMatch

(***************************************************************************)
(* The server answers on a connection whose request was given up, or of    *)
(* the client that waits.                                                  *)
(***************************************************************************)
LEMMA HandleClientStep ==
  ASSUME PoolInv, NEW c \in Conns, HandleClient(c)
  PROVE  PoolInv'
<1> DEFINE P == Clients \X {"head", "rest"}
           f == Head(asked[c])
<1>0. PoolTypeOK /\ OwnersInv /\ WireInv /\ AnswersMatch /\ NoConn \notin Conns
  BY InvFacts
<1>1. /\ asked[c] # <<>> /\ UNCHANGED <<idle, total, linked, uses, stage, conn, got, serving>>
      /\ replies' = [replies EXCEPT ![c] = @ \o Answer(f)]
  BY DEF HandleClient
<1>2. /\ asked[c] \in Seq(Clients) /\ Len(asked[c]) \in Nat /\ Len(asked[c]) # 0
      /\ f \in Clients /\ f = asked[c][1]
      /\ replies[c] \in Seq(P)
  BY <1>0, <1>1 DEF PoolTypeOK
<1>3. PICK n \in 1..Len(asked[c]) :
        asked' = [asked EXCEPT ![c] = SubSeq(@, n + 1, Len(@))]
  BY DEF HandleClient
<1> DEFINE left == SubSeq(asked[c], n + 1, Len(asked[c]))
           more == replies[c] \o Answer(f)
<1>4. left \in Seq(Clients) /\ DOMAIN left = 1..(Len(asked[c]) - n)
  BY <1>2, DropFront
<1>5. /\ more \in Seq(P) /\ Len(more) = Len(replies[c]) + Len(Answer(f))
      /\ DOMAIN more = 1..Len(more) /\ Len(more) \in Nat
      /\ \A i \in 1..Len(more) :
            more[i] = IF i <= Len(replies[c]) THEN replies[c][i]
                      ELSE Answer(f)[i - Len(replies[c])]
  <2>1. Answer(f) \in Seq(P)
    BY <1>2, AnswerParts
  <2> HIDE DEF P
  <2>2. replies[c] \in Seq(P)
    BY <1>2
  <2>3. more \in Seq(P)
    BY <2>1, <2>2, ConcatProperties
  <2>4. DOMAIN more = 1..Len(more) /\ Len(more) \in Nat
    BY <2>3, LenProperties
  <2> QED
    BY <2>1, <2>2, <2>3, <2>4, ConcatProperties, ZenonT(60)
<1>6. asked' = [asked EXCEPT ![c] = left] /\ replies' = [replies EXCEPT ![c] = more]
  BY <1>1, <1>3
<1> HIDE DEF left, more
<1>7. /\ asked'[c] = left /\ replies'[c] = more
      /\ \A d \in Conns : d # c => asked'[d] = asked[d] /\ replies'[d] = replies[d]
  BY <1>0, <1>6 DEF PoolTypeOK
<1>8. PoolTypeOK'
  BY <1>0, <1>1, <1>4, <1>5, <1>6 DEF PoolTypeOK
<1>9. OwnersInv'
  BY <1>0, <1>1 DEF OwnersInv, Owned
<1>10. ~Clean(c) /\ ~(uses[c] = 0 /\ ~Owned(c))
  BY <1>0, <1>1 DEF Clean, WireInv
<1>11. ASSUME NEW g \in Clients, Expects(g, c)
       PROVE  Expects(g, c)'
  <2>1. asked[c] = <<g>> /\ OnlyRests(c) /\ f = g
    BY <1>1, <1>2, <1>11 DEF Expects
  <2>2. Len(asked[c]) = 1
    BY <2>1
  <2>3. asked'[c] = <<>>
    BY <1>4, <1>7, <2>2
  <2>4. ASSUME NEW i \in DOMAIN more, more[i][2] = "head"
        PROVE  more[i][1] = g /\ i = Len(replies[c]) + 1
    <3>1. /\ i \in 1..Len(more) /\ Len(replies[c]) \in Nat
          /\ DOMAIN replies[c] = 1..Len(replies[c])
          /\ DOMAIN Answer(f) = 1..Len(Answer(f)) /\ Len(Answer(f)) \in Nat
      <4>1. /\ DOMAIN Answer(f) = 1..Len(Answer(f)) /\ Len(Answer(f)) \in Nat
        BY <1>2, AnswerParts
      <4>2. i \in 1..Len(more)
        BY <1>5, <2>4
      <4> QED
        BY <1>2, <4>1, <4>2
    <3>2. ~(i <= Len(replies[c]))
      BY <1>5, <2>1, <2>4, <3>1 DEF OnlyRests
    <3> DEFINE j == i - Len(replies[c])
    <3>3. j \in DOMAIN Answer(f) /\ more[i] = Answer(f)[j]
      <4> DEFINE a == Len(replies[c])
                 b == Len(Answer(f))
      <4>1. /\ Len(more) = a + b /\ a \in Nat /\ b \in Nat
            /\ i \in 1..Len(more) /\ ~(i <= a)
        BY <1>5, <3>1, <3>2
      <4>4. j = i - a
        OBVIOUS
      <4> HIDE DEF a, b, j
      <4>3. j \in 1..b
        BY <4>1, <4>4
      <4>2. j \in 1..Len(Answer(f))
        BY <4>3 DEF b
      <4> QED
        BY <1>5, <3>1, <3>2, <4>2 DEF j
    <3>4. Answer(f)[j][1] = f /\ j = 1
      BY <1>2, <2>4, <3>3, AnswerParts
    <3> QED
      BY <2>1, <3>1, <3>3, <3>4
  <2> QED
    BY <1>7, <2>3, <2>4 DEF Expects
<1>12. WireInv'
  <2>1. \A d \in Conns : uses'[d] = 0 /\ ~Owned(d)' => asked'[d] = <<>> /\ replies'[d] = <<>>
    BY <1>0, <1>1, <1>7, <1>10 DEF WireInv, Owned
  <2>2. \A d \in Conns : d # c => (Clean(d) => Clean(d)')
    BY <1>7 DEF Clean, OnlyRests
  <2>3. \A d \in Conns, g \in Clients : Expects(g, d) => Expects(g, d)'
    <3>1. \A d \in Conns, g \in Clients : d # c => (Expects(g, d) => Expects(g, d)')
      BY <1>7 DEF Expects, OnlyRests
    <3> QED
      BY <1>11, <3>1
  <2>4. \A i \in DOMAIN idle' : idle'[i] \in linked' => Clean(idle[i])'
    BY <1>0, <1>1, <1>10, <2>2 DEF WireInv, PoolTypeOK
  <2>5. ASSUME NEW g \in Clients
        PROVE  /\ stage'[g] = "send" => Clean(conn[g])'
               /\ stage'[g] = "receive" => Expects(g, conn[g])'
               /\ stage'[g] = "release" /\ conn'[g] \in linked' => Clean(conn[g])'
    BY <1>0, <1>1, <1>10, <2>2, <2>3 DEF WireInv, OwnersInv, PoolTypeOK
  <2> QED
    BY <2>1, <2>4, <2>5 DEF WireInv
<1> QED
  BY <1>0, <1>1, <1>8, <1>9, <1>12 DEF PoolInv, AnswersMatch

LEMMA CloseSessionStep ==
  ASSUME PoolInv, NEW c \in Conns, CloseSession(c)
  PROVE  PoolInv'
<1>0. PoolTypeOK /\ OwnersInv /\ WireInv /\ AnswersMatch
  BY InvFacts
<1> USE DEF CloseSession
<1>1. PoolTypeOK'
  BY <1>0 DEF PoolTypeOK
<1>2. OwnersInv' /\ WireInv' /\ AnswersMatch'
  BY <1>0, SameWire DEF OwnersInv, WireInv, AnswersMatch, Owned
<1> QED
  BY <1>1, <1>2 DEF PoolInv

-----------------------------------------------------------------------------
LEMMA PoolStep == PoolInv /\ [PoolNext]_poolVars => PoolInv'
<1> SUFFICES ASSUME PoolInv, [PoolNext]_poolVars PROVE PoolInv'
  OBVIOUS
<1>1. CASE UNCHANGED poolVars
  <2>1. PoolTypeOK /\ OwnersInv /\ WireInv /\ AnswersMatch
    BY InvFacts
  <2>2. PoolTypeOK' /\ OwnersInv'
    BY <1>1, <2>1 DEF poolVars, PoolTypeOK, OwnersInv, Owned
  <2>3. WireInv' /\ AnswersMatch'
    BY <1>1, <2>1, SameWire DEF poolVars, WireInv, AnswersMatch, Owned
  <2> QED
    BY <2>2, <2>3 DEF PoolInv
<1> QED
  BY <1>1, TakeIdleStep, NoneIdleStep, ConnectStep, ConnectFailsStep, SendRequestStep,
     SendFailsStep, ReceiveResponseStep, ReceiveFailsStep, ReleaseStep,
     HandleClientStep, CloseSessionStep
  DEF PoolNext

(* Every connection has one owner, and nothing on it can be mistaken.      *)
THEOREM PoolInvariant == PoolSpec => []PoolInv
<1> QED
  BY PoolInitial, PoolStep, PTL DEF PoolSpec

(* The variables have their types.                                         *)
THEOREM PoolTypes == PoolSpec => []PoolTypeOK
<1>1. PoolInv => PoolTypeOK
  BY DEF PoolInv
<1> QED
  BY <1>1, PoolInvariant, PTL

(* Two requests never have the same connection, and no connection that a   *)
(* request has is idle in m_conns as well (http/http_connection.cpp:297-342). *)
THEOREM OneOwnerPerConnection == PoolSpec => []OwnersInv
<1>1. PoolInv => OwnersInv
  BY DEF PoolInv
<1> QED
  BY <1>1, PoolInvariant, PTL

(* A response is given to the request it answers, although nothing but the *)
(* order on the connection ties the two together, connections are shared,  *)
(* requests give up, and parts of responses are left unread                *)
(* (http/http_connection.cpp:15-118, 297-342, 431-474).                    *)
THEOREM ResponsesMatchRequests == PoolSpec => []AnswersMatch
<1>1. PoolInv => AnswersMatch
  BY DEF PoolInv
<1> QED
  BY <1>1, PoolInvariant, PTL

-----------------------------------------------------------------------------
(* WebSocket.                                                              *)

(***************************************************************************)
(* What the receiver is about to read: a part of the j-th frame of message *)
(* m, masked with a key if it is data.                                     *)
(***************************************************************************)
Places == [due : {"head", "length", "mask", "data"}, m : Nat, j : Nat, key : Nat]

Place(due, m, j, key) == [due |-> due, m |-> m, j |-> j, key |-> key]

\* The frame of a place was sent, and it is the last one of its message.
WasSent(a) == a.m \in 1..Len(offered) /\ a.j \in 1..Len(offered[a.m])
IsLast(a) == a.m < Len(offered) /\ a.j = Len(offered[a.m])

Honest(h) == h.length \in {"short", "long"} /\ h.masked = client

(***************************************************************************)
(* The receiver at place a takes piece p for what it is, and is at b then. *)
(***************************************************************************)
Takes(a, p, b) ==
    /\ p.part = a.due
    /\ \/ /\ p \in DataHeads /\ Honest(p)
          /\ WasSent(a) /\ (p.fin <=> IsLast(a))
          /\ b = Place(AfterHead(p), a.m, a.j, 0)
       \/ p \in Pongs /\ b = a
       \/ p.part = "length" /\ b = Place(IF client THEN "mask" ELSE "data", a.m, a.j, 0)
       \/ p.part = "mask" /\ b = Place("data", a.m, a.j, p.key)
       \/ /\ p.part = "data"
          /\ WasSent(a) /\ p.of = offered[a.m][a.j]
          /\ excuse = {} => p.masks = IF client THEN {a.key} ELSE {}
          /\ b = IF IsLast(a) THEN Place("head", a.m + 1, 1, 0)
                 ELSE Place("head", a.m, a.j + 1, 0)

Readings == {t \in Places \X Pieces \X Places : Takes(t[1], t[2], t[3])}

(***************************************************************************)
(* Reading the pieces of w leads from place a to place b.                  *)
(***************************************************************************)
Route(T, w, a, b) ==
    \E s \in [1..(Len(w) + 1) -> Places] :
        /\ s[1] = a /\ s[Len(w) + 1] = b
        /\ \A i \in 1..Len(w) : <<s[i], w[i], s[i + 1]>> \in T

(***************************************************************************)
(* Where the receiver is, by what it parses and has joined, and where the  *)
(* sender is once the frame it is writing is written.                      *)
(***************************************************************************)
AtReceiver(a) ==
    /\ a.due = (IF parsing = NoHead THEN "head" ELSE parsing.part)
    /\ a.m = Len(delivered) + 1 /\ a.j = Len(joined) + 1
    /\ parsing # NoHead =>
          /\ Honest(parsing.head)
          /\ WasSent(a) /\ (parsing.head.fin <=> IsLast(a))
          /\ parsing.part = "data" /\ client => a.key = parsing.key

AtSender(b) ==
    b.due = "head" /\ b.m = Len(offered) /\ b.j = Len(offered[Len(offered)]) + 1

OnItsWay ==
    \E a, b \in Places : AtReceiver(a) /\ AtSender(b) /\ Route(Readings, stream \o task, a, b)

(***************************************************************************)
(* What has arrived is what was sent.                                      *)
(***************************************************************************)
Arrived(msg, was, bare) ==
    \A j \in 1..Len(msg) : msg[j][1] = was[j] /\ (bare => msg[j][2] = {})

ArrivedSoFar ==
    /\ Len(delivered) < Len(offered) /\ Len(joined) <= Len(offered[Len(delivered) + 1])
    /\ \A m \in 1..Len(delivered) :
          Len(delivered[m]) = Len(offered[m]) /\ Arrived(delivered[m], offered[m], excuse = {})
    /\ Arrived(joined, offered[Len(delivered) + 1], excuse = {})

Unexcused == excuse \subseteq {"masked twice"}

WsInv ==
    /\ WsTypeOK
    /\ ~client => \A x \in Texts : masksOn[x] = {}
    /\ Unexcused => open /\ OnItsWay /\ ArrivedSoFar

-----------------------------------------------------------------------------
(* Types.                                                                  *)
LEMMA XorType ==
  ASSUME NEW A \in Masks, NEW k \in Nat
  PROVE  Xor(A, k) \in Masks
  BY DEF Xor, Masks

LEMMA FrameType ==
  ASSUME WsTypeOK, NEW x \in Texts, NEW f \in BOOLEAN, NEW k \in Nat
  PROVE  Frame(x, k, f) \in Seq(Pieces)
<1> DEFINE h == [part |-> "head", op |-> "data", fin |-> f, length |-> LengthOf[x], masked |-> client]
           l == [part |-> "length"]
           m == [part |-> "mask", key |-> k]
           d == [part |-> "data", of |-> x,
                 masks |-> IF client THEN Xor(masksOn[x], k) ELSE masksOn[x]]
<1>1. h \in Pieces
  BY WsAssumption DEF WsTypeOK, Pieces, DataHeads, Sizes
<1>2. l \in Pieces /\ m \in Pieces
  BY DEF Pieces
<1>3. d \in Pieces
  BY XorType DEF WsTypeOK, Pieces
<1>4. Frame(x, k, f) =
        <<h>> \o (IF LengthOf[x] \in {"long", "huge"} THEN <<l>> ELSE <<>>)
        \o (IF client THEN <<m>> ELSE <<>>)
        \o (IF LengthOf[x] = "empty" THEN <<>> ELSE <<d>>)
  BY DEF Frame
<1> HIDE DEF h, l, m, d
<1>5. /\ <<h>> \in Seq(Pieces) /\ <<l>> \in Seq(Pieces) /\ <<m>> \in Seq(Pieces)
      /\ <<d>> \in Seq(Pieces) /\ <<>> \in Seq(Pieces)
  BY <1>1, <1>2, <1>3
<1>6. \A u, v \in Seq(Pieces) : u \o v \in Seq(Pieces)
  OBVIOUS
<1> QED
  BY <1>4, <1>5, <1>6

LEMMA WsTypeInit == WsInit => WsTypeOK
  BY DEF WsInit, WsTypeOK, Masks

(* What stands at the front of the stream.                                 *)
LEMMA PieceFacts ==
  ASSUME NEW p \in Pieces
  PROVE  /\ p.part \in {"head", "length", "mask", "data"}
         /\ p.part = "head" => p \in DataHeads \/ p \in Pongs
         /\ p.part = "mask" => p.key \in Nat
         /\ p.part = "data" => p.of \in Texts /\ p.masks \in Masks
  BY DEF Pieces, DataHeads, Pongs

LEMMA HeadFacts ==
  ASSUME NEW h
  PROVE  /\ h \in DataHeads => /\ h.part = "head" /\ h.op = "data" /\ h.fin \in BOOLEAN
                              /\ h.length \in Sizes /\ h.masked \in BOOLEAN
                              /\ AfterHead(h) \in {"length", "mask", "data"}
         /\ h \in Pongs => h.part = "head" /\ h.op = "pong"
  BY DEF DataHeads, Pongs, AfterHead

LEMMA BegunFacts ==
  ASSUME NEW p \in Begun, NEW q \in {"length", "mask", "data"}, NEW k \in Nat
  PROVE  /\ p.part \in {"length", "mask", "data"} /\ p.head \in DataHeads /\ p.key \in Nat
         /\ p # NoHead
         /\ [p EXCEPT !.part = q] = [part |-> q, head |-> p.head, key |-> p.key]
         /\ [p EXCEPT !.part = q, !.key = k] = [part |-> q, head |-> p.head, key |-> k]
<1>1. p.part # "none"
  BY DEF Begun
<1>2. NoHead.part = "none"
  BY DEF NoHead
<1>3. p # NoHead
  BY <1>1, <1>2, Zenon
<1>4. /\ p.part \in {"length", "mask", "data"} /\ p.head \in DataHeads /\ p.key \in Nat
      /\ [p EXCEPT !.part = q] = [part |-> q, head |-> p.head, key |-> p.key]
  BY DEF Begun
<1>5. [p EXCEPT !.part = q, !.key = k] = [part |-> q, head |-> p.head, key |-> k]
  <2> DEFINE r == [part |-> q, head |-> p.head, key |-> p.key]
  <2>1. [r EXCEPT !.key = k] = [part |-> q, head |-> p.head, key |-> k]
    OBVIOUS
  <2> QED
    BY <1>4, <2>1, Zenon
<1> QED
  BY <1>3, <1>4, <1>5

LEMMA BeginReading ==
  ASSUME NEW q \in {"length", "mask", "data"}, NEW h \in DataHeads, NEW k \in Nat
  PROVE  /\ [part |-> q, head |-> h, key |-> k] \in Begun
         /\ [part |-> q, head |-> h, key |-> k] # NoHead
<1>1. [part |-> q, head |-> h, key |-> k] \in Begun
  BY DEF Begun
<1> QED
  BY <1>1, BegunFacts

(* The parts that sending and receiving change.                            *)
LEMMA OfferedStep ==
  ASSUME offered \in Seq(Seq(Texts)), Len(offered) > 0,
         NEW x \in Texts, NEW f \in BOOLEAN, BeginSend(x, f)
  PROVE  /\ offered' \in Seq(Seq(Texts))
         /\ Len(offered') = IF f THEN Len(offered) + 1 ELSE Len(offered)
         /\ \A i \in 1..(Len(offered) - 1) : offered'[i] = offered[i]
         /\ offered'[Len(offered)] = Append(offered[Len(offered)], x)
         /\ f => offered'[Len(offered) + 1] = <<>>
<1> DEFINE n == Len(offered)
           more == [offered EXCEPT ![n] = Append(@, x)]
<1>1. n \in 1..Len(offered) /\ offered[n] \in Seq(Texts)
  OBVIOUS
<1>2. Append(offered[n], x) \in Seq(Texts)
  BY <1>1
<1>3. /\ more \in Seq(Seq(Texts)) /\ Len(more) = n
      /\ \A i \in 1..n : more[i] = IF i = n THEN Append(offered[n], x) ELSE offered[i]
  BY <1>1, <1>2
<1>4. (f => offered' = Append(more, <<>>)) /\ (~f => offered' = more)
  BY DEF BeginSend
<1> HIDE DEF more
<1>5. /\ Append(more, <<>>) \in Seq(Seq(Texts)) /\ Len(Append(more, <<>>)) = n + 1
      /\ \A i \in 1..n : Append(more, <<>>)[i] = more[i]
      /\ Append(more, <<>>)[n + 1] = <<>>
  <2>1. <<>> \in Seq(Texts)
    OBVIOUS
  <2> QED
    BY <1>1, <1>3, <2>1
<1>6. CASE f
  <2>1. offered' = Append(more, <<>>)
    BY <1>4, <1>6
  <2>2. \A i \in 1..(n - 1) : i \in 1..n /\ i # n
    BY <1>1
  <2> QED
    BY <1>1, <1>3, <1>5, <1>6, <2>1, <2>2
<1>7. CASE ~f
  <2>1. offered' = more
    BY <1>4, <1>7
  <2>2. \A i \in 1..(n - 1) : i \in 1..n /\ i # n
    BY <1>1
  <2> QED
    BY <1>1, <1>3, <1>7, <2>1, <2>2
<1> QED
  BY <1>6, <1>7

LEMMA SentTypes ==
  ASSUME WsTypeOK, NEW x \in Texts, NEW f \in BOOLEAN, BeginSend(x, f)
  PROVE  /\ task' \in Seq(Pieces) /\ sends' \in Nat
         /\ masksOn' \in [Texts -> Masks]
         /\ excuse' \subseteq {"empty", "huge", "masked twice", "torn"}
<1>0. /\ sends \in Nat /\ masksOn \in [Texts -> Masks]
      /\ excuse \subseteq {"empty", "huge", "masked twice", "torn"}
  BY DEF WsTypeOK
<1>1. task' = Frame(x, sends, f) /\ sends' = sends + 1
  BY DEF BeginSend
<1>2. masksOn' = IF client THEN [masksOn EXCEPT ![x] = Xor(@, sends)] ELSE masksOn
  BY DEF BeginSend
<1>3. Xor(masksOn[x], sends) \in Masks
  BY <1>0, XorType
<1>4. masksOn' \in [Texts -> Masks]
  BY <1>0, <1>2, <1>3
<1>5. excuse' \subseteq {"empty", "huge", "masked twice", "torn"}
  <2>1. \A e \in excuse' : e \in excuse \/ e \in {LengthOf[x]} \cap {"empty", "huge"}
                           \/ e = "masked twice"
    BY DEF BeginSend
  <2> QED
    BY <1>0, <2>1
<1>6. Frame(x, sends, f) \in Seq(Pieces) /\ sends + 1 \in Nat
  <2>1. Frame(x, sends, f) \in Seq(Pieces)
    BY <1>0, FrameType, Zenon
  <2>2. sends \in Nat
    BY <1>0, Zenon
  <2>3. sends + 1 \in Nat
    BY <2>2
  <2> QED
    BY <2>1, <2>3, Zenon
<1> QED
  BY <1>1, <1>4, <1>5, <1>6, Zenon

LEMMA ReadsFront ==
  ASSUME stream \in Seq(Pieces), NEW part, Reads(part)
  PROVE  /\ open /\ stream # <<>>
         /\ Head(stream) \in Pieces /\ Head(stream).part = part
         /\ stream' = Tail(stream) /\ stream' \in Seq(Pieces)
<1>1. open /\ stream # <<>> /\ Head(stream).part = part /\ stream' = Tail(stream)
  BY DEF Reads
<1>2. \A s \in Seq(Pieces) : s # <<>> => Head(s) \in Pieces /\ Tail(s) \in Seq(Pieces)
  OBVIOUS
<1> QED
  BY <1>1, <1>2

LEMMA ParsingStep ==
  ASSUME stream \in Seq(Pieces), parsing \in {NoHead} \cup Begun
  PROVE  /\ RecvHead => IF Head(stream).op = "pong" THEN parsing' = NoHead
                        ELSE /\ Head(stream) \in DataHeads
                             /\ parsing' = [part |-> AfterHead(Head(stream)),
                                            head |-> Head(stream), key |-> 0]
         /\ RecvLength => /\ parsing \in Begun
                          /\ parsing' = [part |-> IF parsing.head.masked THEN "mask" ELSE "data",
                                         head |-> parsing.head, key |-> parsing.key]
         /\ RecvMask => /\ parsing \in Begun /\ Head(stream).key \in Nat
                        /\ parsing' = [part |-> "data", head |-> parsing.head,
                                       key |-> Head(stream).key]
         /\ RecvData => parsing \in Begun /\ parsing' = NoHead
<1>1. ASSUME RecvHead
      PROVE  IF Head(stream).op = "pong" THEN parsing' = NoHead
             ELSE /\ Head(stream) \in DataHeads
                  /\ parsing' = [part |-> AfterHead(Head(stream)), head |-> Head(stream), key |-> 0]
  <2>1. Reads("head") /\ parsing = NoHead
    BY <1>1 DEF RecvHead
  <2>2. Head(stream) \in DataHeads \/ Head(stream) \in Pongs
    BY <2>1, ReadsFront, PieceFacts
  <2>3. IF Head(stream).op = "pong" THEN UNCHANGED parsing
        ELSE parsing' = [part |-> AfterHead(Head(stream)), head |-> Head(stream), key |-> 0]
    BY <1>1 DEF RecvHead
  <2> QED
    BY <2>1, <2>2, <2>3, HeadFacts
<1>2. NoHead.part = "none"
  BY DEF NoHead
<1>3. ASSUME RecvLength
      PROVE  /\ parsing \in Begun
             /\ parsing' = [part |-> IF parsing.head.masked THEN "mask" ELSE "data",
                            head |-> parsing.head, key |-> parsing.key]
  <2>1. parsing.part = "length"
    BY <1>3 DEF RecvLength
  <2>2. parsing \in Begun
    BY <1>2, <2>1
  <2>3. parsing' = [parsing EXCEPT !.part = IF parsing.head.masked THEN "mask" ELSE "data"]
    BY <1>3, Zenon DEF RecvLength
  <2> DEFINE q == IF parsing.head.masked THEN "mask" ELSE "data"
  <2>4. q \in {"length", "mask", "data"}
    OBVIOUS
  <2> HIDE DEF q
  <2>5. [parsing EXCEPT !.part = q] = [part |-> q, head |-> parsing.head, key |-> parsing.key]
    BY <2>2, <2>4, BegunFacts, 0 \in Nat
  <2> QED
    BY <2>2, <2>3, <2>5, Zenon DEF q
<1>4. ASSUME RecvMask
      PROVE  /\ parsing \in Begun /\ Head(stream).key \in Nat
             /\ parsing' = [part |-> "data", head |-> parsing.head, key |-> Head(stream).key]
  <2>1. parsing.part = "mask" /\ Reads("mask")
    BY <1>4 DEF RecvMask
  <2>2. parsing \in Begun
    BY <1>2, <2>1
  <2>3. Head(stream).key \in Nat
    BY <2>1, ReadsFront, PieceFacts
  <2>4. parsing' = [parsing EXCEPT !.part = "data", !.key = Head(stream).key]
    BY <1>4, Zenon DEF RecvMask
  <2> DEFINE k == Head(stream).key
  <2> HIDE DEF k
  <2>5. [parsing EXCEPT !.part = "data", !.key = k]
          = [part |-> "data", head |-> parsing.head, key |-> k]
    <3>1. k \in Nat
      BY <2>3 DEF k
    <3> QED
      BY <2>2, <3>1, BegunFacts
  <2> QED
    BY <2>2, <2>3, <2>4, <2>5, Zenon DEF k
<1>5. ASSUME RecvData
      PROVE  parsing \in Begun /\ parsing' = NoHead
  <2>1. parsing.part = "data" /\ parsing' = NoHead
    BY <1>5 DEF RecvData
  <2> QED
    BY <1>2, <2>1
<1> QED
  BY <1>1, <1>3, <1>4, <1>5

LEMMA WsTypeStep == WsTypeOK /\ [WsNext]_wsVars => WsTypeOK'
<1> SUFFICES ASSUME WsTypeOK, [WsNext]_wsVars PROVE WsTypeOK'
  OBVIOUS
<1>0. stream \in Seq(Pieces) /\ parsing \in {NoHead} \cup Begun /\ task \in Seq(Pieces)
  BY DEF WsTypeOK
<1>1. ASSUME NEW x \in Texts, NEW f \in BOOLEAN, BeginSend(x, f)
      PROVE  WsTypeOK'
  <2>1. offered' \in Seq(Seq(Texts)) /\ Len(offered') > 0
    <3>1. offered \in Seq(Seq(Texts)) /\ Len(offered) > 0
      BY Zenon DEF WsTypeOK
    <3>2. Len(offered) \in Nat
      BY <3>1
    <3> QED
      BY <1>1, <3>1, <3>2, OfferedStep
  <2>2. UNCHANGED <<client, stream, pongs, parsing, joined, delivered, open>>
    BY <1>1 DEF BeginSend
  <2>3. /\ task' \in Seq(Pieces) /\ sends' \in Nat
        /\ masksOn' \in [Texts -> Masks]
        /\ excuse' \subseteq {"empty", "huge", "masked twice", "torn"}
    BY <1>1, SentTypes
  <2> QED
    BY <2>1, <2>2, <2>3 DEF WsTypeOK
<1>2. CASE WritePiece
  <2>1. Append(stream, Head(task)) \in Seq(Pieces) /\ Tail(task) \in Seq(Pieces)
    <3>1. task # <<>>
      BY <1>2 DEF WritePiece
    <3> QED
      BY <1>0, <3>1
  <2>2. stream' \in Seq(Pieces) /\ task' \in Seq(Pieces)
    <3>1. <<>> \in Seq(Pieces)
      OBVIOUS
    <3> QED
      BY <1>0, <1>2, <2>1, <3>1 DEF WritePiece
  <2>3. UNCHANGED <<client, masksOn, sends, pongs, offered, parsing, joined, delivered, open, excuse>>
    BY <1>2 DEF WritePiece
  <2> QED
    BY <2>2, <2>3 DEF WsTypeOK
<1>3. CASE SendPong
  <2> DEFINE pong == [part |-> "head", op |-> "pong", masked |-> FALSE]
  <2>1. pong \in Pieces
    BY DEF Pieces, Pongs
  <2>2. stream' = Append(stream, pong)
    BY <1>3 DEF SendPong
  <2> HIDE DEF pong
  <2>3. stream' \in Seq(Pieces)
    BY <1>0, <2>1, <2>2
  <2>4. UNCHANGED <<client, masksOn, sends, task, offered, parsing, joined, delivered, open>>
    BY <1>3 DEF SendPong
  <2>5. pongs' = pongs + 1 /\ excuse' \subseteq excuse \cup {"torn"}
    BY <1>3 DEF SendPong
  <2>6. pongs' \in Nat /\ excuse' \subseteq {"empty", "huge", "masked twice", "torn"}
    <3>1. pongs \in Nat /\ excuse \subseteq {"empty", "huge", "masked twice", "torn"}
      BY Zenon DEF WsTypeOK
    <3>2. excuse' \subseteq {"empty", "huge", "masked twice", "torn"}
      BY <2>5, <3>1, Zenon
    <3>3. pongs \in Nat /\ pongs' = pongs + 1
      BY <2>5, <3>1, Zenon
    <3>4. pongs' \in Nat
      BY <3>3
    <3> QED
      BY <3>2, <3>4, Zenon
  <2> QED
    BY <2>3, <2>4, <2>6, Zenon DEF WsTypeOK
<1>4. CASE RecvHead \/ RecvLength \/ RecvMask
  <2>1. /\ stream' \in Seq(Pieces)
        /\ UNCHANGED <<client, masksOn, sends, task, pongs, offered, joined, delivered, open, excuse>>
    BY <1>0, <1>4, ReadsFront DEF RecvHead, RecvLength, RecvMask
  <2>2. parsing' \in {NoHead} \cup Begun
    <3>1. CASE RecvHead
      BY <1>0, <3>1, ParsingStep, HeadFacts, BeginReading, 0 \in Nat
    <3>2. CASE RecvLength
      <4>1. parsing \in Begun
        BY <1>0, <3>2, ParsingStep
      <4>2. parsing.head \in DataHeads /\ parsing.key \in Nat
        BY <4>1, BegunFacts, 0 \in Nat
      <4>3. \/ parsing' = [part |-> "mask", head |-> parsing.head, key |-> parsing.key]
            \/ parsing' = [part |-> "data", head |-> parsing.head, key |-> parsing.key]
        BY <1>0, <3>2, ParsingStep
      <4> QED
        BY <4>2, <4>3, BeginReading
    <3>3. CASE RecvMask
      <4>1. parsing \in Begun /\ Head(stream).key \in Nat
        BY <1>0, <3>3, ParsingStep
      <4>2. parsing.head \in DataHeads
        BY <4>1, BegunFacts
      <4>3. parsing' = [part |-> "data", head |-> parsing.head, key |-> Head(stream).key]
        BY <1>0, <3>3, ParsingStep
      <4> QED
        BY <4>1, <4>2, <4>3, BeginReading
    <3> QED
      BY <1>4, <3>1, <3>2, <3>3
  <2> QED
    BY <2>1, <2>2 DEF WsTypeOK
<1>5. CASE RecvData
  <2> DEFINE u == Unmasked(Head(stream))
             more == Append(joined, <<Head(stream).of, u>>)
  <2>1. /\ stream' \in Seq(Pieces) /\ parsing' = NoHead /\ parsing \in Begun
        /\ UNCHANGED <<client, masksOn, sends, task, pongs, offered, open, excuse>>
    BY <1>0, <1>5, ReadsFront, ParsingStep DEF RecvData
  <2>2. Head(stream).of \in Texts /\ Head(stream).masks \in Masks
    BY <1>0, <1>5, ReadsFront, PieceFacts DEF RecvData
  <2>3. u \in Masks
    BY <2>1, <2>2, XorType, BegunFacts, 0 \in Nat DEF Unmasked
  <2>4. IF parsing.head.fin
        THEN delivered' = Append(delivered, more) /\ joined' = <<>>
        ELSE joined' = more /\ UNCHANGED delivered
    BY <1>5 DEF RecvData
  <2> HIDE DEF u
  <2>5. more \in Seq(Texts \X Masks)
    <3>1. joined \in Seq(Texts \X Masks)
      BY Zenon DEF WsTypeOK
    <3> QED
      BY <2>2, <2>3, <3>1
  <2> HIDE DEF more
  <2>6. joined' \in Seq(Texts \X Masks) /\ delivered' \in Seq(Seq(Texts \X Masks))
    <3>0. <<>> \in Seq(Texts \X Masks)
      OBVIOUS
    <3>1. delivered \in Seq(Seq(Texts \X Masks)) /\ <<>> \in Seq(Texts \X Masks)
      BY <3>0, Zenon DEF WsTypeOK
    <3>2. Append(delivered, more) \in Seq(Seq(Texts \X Masks))
      BY <2>5, <3>1
    <3> QED
      BY <2>4, <2>5, <3>1, <3>2
  <2> QED
    BY <2>1, <2>6 DEF WsTypeOK
<1>6. CASE RecvFails
  BY <1>6 DEF RecvFails, Shut, WsTypeOK
<1>7. CASE UNCHANGED wsVars
  BY <1>7 DEF wsVars, WsTypeOK
<1> QED
  BY <1>1, <1>2, <1>3, <1>4, <1>5, <1>6, <1>7 DEF WsNext

-----------------------------------------------------------------------------
(* Routes.                                                                 *)
LEMMA RouteAppend ==
  ASSUME NEW w \in Seq(Pieces), NEW p \in Pieces, NEW T, NEW a, NEW b, NEW c \in Places,
         Route(T, w, a, b), <<b, p, c>> \in T
  PROVE  Route(T, Append(w, p), a, c)
<1>1. PICK s \in [1..(Len(w) + 1) -> Places] :
         /\ s[1] = a /\ s[Len(w) + 1] = b
         /\ \A i \in 1..Len(w) : <<s[i], w[i], s[i + 1]>> \in T
  BY DEF Route
<1> DEFINE v == Append(w, p)
           t == [i \in 1..(Len(v) + 1) |-> IF i = Len(v) + 1 THEN c ELSE s[i]]
<1>2. /\ Len(w) \in Nat /\ Len(v) = Len(w) + 1
      /\ \A i \in 1..Len(w) : v[i] = w[i]
      /\ v[Len(w) + 1] = p
  OBVIOUS
<1> HIDE DEF v
<1>3. t \in [1..(Len(v) + 1) -> Places] /\ t[1] = a /\ t[Len(v) + 1] = c
  BY <1>1, <1>2
<1>4. ASSUME NEW i \in 1..Len(v) PROVE <<t[i], v[i], t[i + 1]>> \in T
  <2>1. CASE i = Len(w) + 1
    <3>1. t[i] = b /\ v[i] = p /\ t[i + 1] = c
      BY <1>1, <1>2, <2>1
    <3> QED
      BY <3>1
  <2>2. CASE i # Len(w) + 1
    <3>1. i \in 1..Len(w) /\ t[i] = s[i] /\ v[i] = w[i] /\ t[i + 1] = s[i + 1]
      BY <1>2, <2>2
    <3> QED
      BY <1>1, <3>1
  <2> QED
    BY <2>1, <2>2
<1> QED
  BY <1>3, <1>4 DEF Route, v

LEMMA RouteFirst ==
  ASSUME NEW w \in Seq(Pieces), w # <<>>, NEW T, NEW a, NEW b, Route(T, w, a, b)
  PROVE  \E c \in Places : <<a, Head(w), c>> \in T /\ Route(T, Tail(w), c, b)
<1>1. PICK s \in [1..(Len(w) + 1) -> Places] :
         /\ s[1] = a /\ s[Len(w) + 1] = b
         /\ \A i \in 1..Len(w) : <<s[i], w[i], s[i + 1]>> \in T
  BY DEF Route
<1> DEFINE v == Tail(w)
           t == [i \in 1..(Len(v) + 1) |-> s[i + 1]]
<1>2. /\ Len(w) \in Nat \ {0} /\ Len(v) = Len(w) - 1 /\ Head(w) = w[1]
      /\ \A i \in 1..Len(v) : v[i] = w[i + 1]
  OBVIOUS
<1> HIDE DEF v
<1>3. t \in [1..(Len(v) + 1) -> Places] /\ t[1] = s[2] /\ t[Len(v) + 1] = b
  BY <1>1, <1>2
<1>4. ASSUME NEW i \in 1..Len(v) PROVE <<t[i], v[i], t[i + 1]>> \in T
  <2>1. i + 1 \in 1..Len(w) /\ t[i] = s[i + 1] /\ v[i] = w[i + 1] /\ t[i + 1] = s[(i + 1) + 1]
    BY <1>2
  <2> QED
    BY <1>1, <2>1
<1>5. s[2] \in Places /\ <<a, Head(w), s[2]>> \in T
  <2>1. 1 \in 1..Len(w) /\ 2 \in 1..(Len(w) + 1) /\ 1 + 1 = 2
    BY <1>2
  <2> QED
    BY <1>1, <1>2, <2>1
<1>6. Route(T, v, s[2], b)
  BY <1>3, <1>4 DEF Route
<1> QED
  BY <1>5, <1>6 DEF v

LEMMA RoutePong ==
  ASSUME NEW u \in Seq(Pieces), NEW v \in Seq(Pieces), NEW p \in Pieces,
         NEW T, NEW a, NEW b, Route(T, u \o v, a, b),
         \A x, z \in Places : \A y : <<x, y, z>> \in T => y.part = x.due,
         IF v = <<>> THEN b.due = "head" ELSE Head(v).part = "head",
         \A x \in Places : x.due = "head" => <<x, p, x>> \in T
  PROVE  Route(T, Append(u, p) \o v, a, b)
<1> DEFINE w == u \o v
           k == Len(u) + 1
           n == Append(u, p) \o v
<1>1. PICK s \in [1..(Len(w) + 1) -> Places] :
         /\ s[1] = a /\ s[Len(w) + 1] = b
         /\ \A i \in 1..Len(w) : <<s[i], w[i], s[i + 1]>> \in T
  BY DEF Route
<1>2. /\ Len(u) \in Nat /\ Len(v) \in Nat /\ Len(w) = Len(u) + Len(v) /\ k \in 1..(Len(w) + 1)
      /\ v = <<>> <=> Len(v) = 0
      /\ v # <<>> => k \in 1..Len(w) /\ w[k] = Head(v)
  OBVIOUS
<1>3. Append(u, p) \in Seq(Pieces) /\ Len(Append(u, p)) = k
  OBVIOUS
<1>4. /\ Len(n) = Len(w) + 1
      /\ \A i \in 1..Len(u) : n[i] = w[i]
      /\ n[k] = p
      /\ \A i \in (k + 1)..Len(n) : n[i] = w[i - 1]
  <2>1. \A i \in 1..Len(n) : n[i] = IF i <= k THEN Append(u, p)[i] ELSE v[i - k]
    BY <1>3
  <2>2. \A i \in 1..Len(w) : w[i] = IF i <= Len(u) THEN u[i] ELSE v[i - Len(u)]
    OBVIOUS
  <2>3. Len(n) = Len(w) + 1
    BY <1>2, <1>3
  <2>4. \A i \in 1..Len(u) : Append(u, p)[i] = u[i]
    OBVIOUS
  <2>5. Append(u, p)[k] = p
    OBVIOUS
  <2> QED
    BY <1>2, <2>1, <2>2, <2>3, <2>4, <2>5
<1> HIDE DEF w, n, k
<1>5. s[k] \in Places /\ s[k].due = "head"
  <2>1. CASE v = <<>>
    <3>1. k = Len(w) + 1
      BY <1>2, <2>1 DEF k
    <3> QED
      BY <1>1, <1>2, <2>1, <3>1
  <2>2. CASE v # <<>>
    <3>1. <<s[k], w[k], s[k + 1]>> \in T /\ s[k] \in Places /\ s[k + 1] \in Places
      <4>1. k \in 1..Len(w) /\ k \in 1..(Len(w) + 1) /\ k + 1 \in 1..(Len(w) + 1)
        <5>1. Len(w) \in Nat
          BY <1>2
        <5> QED
          BY <1>2, <2>2, <5>1
      <4> QED
        BY <1>1, <4>1
    <3>2. w[k].part = "head"
      BY <1>2, <2>2
    <3> QED
      BY <3>1, <3>2
  <2> QED
    BY <2>1, <2>2
<1> DEFINE t == [i \in 1..(Len(n) + 1) |-> IF i <= k THEN s[i] ELSE s[i - 1]]
<1>6. t \in [1..(Len(n) + 1) -> Places] /\ t[1] = a /\ t[Len(n) + 1] = b
  BY <1>1, <1>2, <1>4
<1>7. ASSUME NEW i \in 1..Len(n) PROVE <<t[i], n[i], t[i + 1]>> \in T
  <2>1. CASE i < k
    <3>1. i \in 1..Len(w) /\ t[i] = s[i] /\ t[i + 1] = s[i + 1] /\ n[i] = w[i]
      BY <1>2, <1>4, <2>1 DEF k
    <3> QED
      BY <1>1, <3>1
  <2>2. CASE i = k
    <3>1. t[i] = s[k] /\ t[i + 1] = s[k] /\ n[i] = p
      BY <1>2, <1>4, <2>2
    <3> QED
      BY <1>5, <3>1
  <2>3. CASE i > k
    <3>1. i - 1 \in 1..Len(w) /\ t[i] = s[i - 1] /\ t[i + 1] = s[(i - 1) + 1] /\ n[i] = w[i - 1]
      <4>1. k \in Nat /\ Len(w) \in Nat /\ Len(n) = Len(w) + 1 /\ i \in 1..Len(n)
        BY <1>2, <1>4
      <4>2. i \in (k + 1)..Len(n) /\ i - 1 \in 1..Len(w) /\ i + 1 > k /\ (i + 1) - 1 = (i - 1) + 1
        BY <2>3, <4>1, <1>2
      <4>3. n[i] = w[i - 1]
        BY <1>4, <4>2
      <4>4. i \in 1..(Len(n) + 1) /\ i + 1 \in 1..(Len(n) + 1) /\ ~(i <= k) /\ ~(i + 1 <= k)
        BY <2>3, <4>1
      <4>5. t[i] = s[i - 1] /\ t[i + 1] = s[(i + 1) - 1]
        BY <4>4
      <4> QED
        BY <4>2, <4>3, <4>5
    <3> QED
      BY <1>1, <3>1
  <2> QED
    BY <1>2, <2>1, <2>2, <2>3
<1>8. Route(T, n, a, b)
  BY <1>6, <1>7 DEF Route
<1> QED
  BY <1>8 DEF n

LEMMA RouteWider ==
  ASSUME NEW T, NEW U, T \subseteq U, NEW w, NEW a, NEW b, Route(T, w, a, b)
  PROVE  Route(U, w, a, b)
  BY DEF Route

LEMMA RouteEnds ==
  ASSUME NEW w \in Seq(Pieces), NEW T, NEW a, NEW b, Route(T, w, a, b)
  PROVE  /\ a \in Places /\ b \in Places
         /\ w = <<>> => a = b
<1>1. PICK s \in [1..(Len(w) + 1) -> Places] : s[1] = a /\ s[Len(w) + 1] = b
  BY DEF Route
<1>2. Len(w) \in Nat /\ (w = <<>> => Len(w) + 1 = 1)
  OBVIOUS
<1> QED
  BY <1>1, <1>2

-----------------------------------------------------------------------------
(* What the receiver takes for what.                                       *)
LEMMA ReadingOf ==
  ASSUME NEW a, NEW b, NEW p, <<a, p, b>> \in Readings
  PROVE  /\ a \in Places /\ b \in Places /\ p \in Pieces /\ p.part = a.due
         /\ p \in Pongs => b = a
         /\ p \in DataHeads =>
               /\ Honest(p) /\ WasSent(a) /\ (p.fin <=> IsLast(a))
               /\ b = Place(AfterHead(p), a.m, a.j, 0)
         /\ p.part = "length" => b = Place(IF client THEN "mask" ELSE "data", a.m, a.j, 0)
         /\ p.part = "data" =>
               /\ WasSent(a) /\ p.of = offered[a.m][a.j]
               /\ excuse = {} => p.masks = IF client THEN {a.key} ELSE {}
               /\ b = IF IsLast(a) THEN Place("head", a.m + 1, 1, 0)
                      ELSE Place("head", a.m, a.j + 1, 0)
<1>1. a \in Places /\ b \in Places /\ p \in Pieces /\ Takes(a, p, b)
  BY DEF Readings
<1>2. p.part = a.due
  BY <1>1 DEF Takes
<1>3. p \in DataHeads => p.part = "head" /\ p.op = "data"
  BY HeadFacts
<1>4. p \in Pongs => p.part = "head" /\ p.op = "pong"
  BY HeadFacts
<1>5. ASSUME p \in Pongs PROVE b = a
  BY <1>1, <1>3, <1>4, <1>5, Zenon DEF Takes
<1>6. ASSUME p \in DataHeads
      PROVE  /\ Honest(p) /\ WasSent(a) /\ (p.fin <=> IsLast(a))
             /\ b = Place(AfterHead(p), a.m, a.j, 0)
  <2>1. p \notin Pongs /\ p.part # "length" /\ p.part # "mask" /\ p.part # "data"
    BY <1>3, <1>4, <1>6
  <2> QED
    BY <1>1, <1>6, <2>1, Zenon DEF Takes
<1>7. ASSUME p.part # "head" PROVE p \notin DataHeads /\ p \notin Pongs
  BY <1>3, <1>4, <1>7
<1>8. ASSUME p.part = "length"
      PROVE  b = Place(IF client THEN "mask" ELSE "data", a.m, a.j, 0)
  BY <1>1, <1>7, <1>8, Zenon DEF Takes
<1>9. ASSUME p.part = "data"
      PROVE  /\ WasSent(a) /\ p.of = offered[a.m][a.j]
             /\ excuse = {} => p.masks = IF client THEN {a.key} ELSE {}
             /\ b = IF IsLast(a) THEN Place("head", a.m + 1, 1, 0)
                    ELSE Place("head", a.m, a.j + 1, 0)
  BY <1>1, <1>7, <1>9, Zenon DEF Takes
<1> QED
  BY <1>1, <1>2, <1>5, <1>6, <1>8, <1>9, Zenon

LEMMA MaskReading ==
  ASSUME NEW a, NEW b, NEW p, <<a, p, b>> \in Readings, p.part = "mask"
  PROVE  b = Place("data", a.m, a.j, p.key)
<1>1. Takes(a, p, b)
  BY DEF Readings
<1>2. p \notin DataHeads /\ p \notin Pongs
  BY HeadFacts
<1> QED
  BY <1>1, <1>2, Zenon DEF Takes

LEMMA PlaceFacts ==
  ASSUME NEW q, NEW m, NEW j, NEW k
  PROVE  /\ Place(q, m, j, k).due = q /\ Place(q, m, j, k).m = m
         /\ Place(q, m, j, k).j = j /\ Place(q, m, j, k).key = k
         /\ (q \in {"head", "length", "mask", "data"} /\ m \in Nat /\ j \in Nat /\ k \in Nat)
              => Place(q, m, j, k) \in Places
  BY DEF Place, Places

LEMMA ReadingsStay ==
  ASSUME UNCHANGED <<offered, client>>, excuse \subseteq excuse'
  PROVE  Readings \subseteq Readings'
<1> SUFFICES ASSUME NEW a \in Places, NEW p \in Pieces, NEW b \in Places, Takes(a, p, b)
             PROVE  Takes(a, p, b)'
  BY DEF Readings
<1>1. excuse' = {} => excuse = {}
  OBVIOUS
<1>2. /\ WasSent(a)' <=> WasSent(a)
      /\ IsLast(a)' <=> IsLast(a)
      /\ Honest(p)' <=> Honest(p)
  BY DEF WasSent, IsLast, Honest
<1> QED
  BY <1>1, <1>2, Zenon DEF Takes

(* The next piece, if any, is the one the receiver needs.                  *)
LEMMA NextPiece ==
  ASSUME WsTypeOK, stream # <<>>, NEW a, NEW b, Route(Readings, stream \o task, a, b)
  PROVE  \E c \in Places : /\ <<a, Head(stream), c>> \in Readings
                           /\ Route(Readings, Tail(stream) \o task, c, b)
<1>1. stream \in Seq(Pieces) /\ task \in Seq(Pieces)
  BY Zenon DEF WsTypeOK
<1>2. /\ stream \o task \in Seq(Pieces) /\ stream \o task # <<>>
      /\ Head(stream \o task) = Head(stream) /\ Tail(stream \o task) = Tail(stream) \o task
  <2>1. ASSUME NEW u \in Seq(Pieces), NEW v \in Seq(Pieces), u # <<>>
        PROVE  /\ u \o v \in Seq(Pieces) /\ u \o v # <<>>
               /\ Head(u \o v) = Head(u) /\ Tail(u \o v) = Tail(u) \o v
    BY <2>1
  <2> QED
    BY <1>1, <2>1
<1> QED
  BY <1>2, RouteFirst

(* Sending.                                                                *)
LEMMA OfferedFacts ==
  ASSUME WsTypeOK
  PROVE  /\ offered \in Seq(Seq(Texts)) /\ Len(offered) \in Nat /\ Len(offered) > 0
         /\ \A i \in 1..Len(offered) : offered[i] \in Seq(Texts) /\ Len(offered[i]) \in Nat
<1>1. offered \in Seq(Seq(Texts)) /\ Len(offered) > 0
  BY Zenon DEF WsTypeOK
<1> QED
  BY <1>1

LEMMA SentMore ==
  ASSUME WsTypeOK, NEW x \in Texts, NEW f \in BOOLEAN, BeginSend(x, f)
  PROVE  /\ Len(offered') = IF f THEN Len(offered) + 1 ELSE Len(offered)
         /\ \A i \in 1..Len(offered) :
               /\ Len(offered'[i]) = IF i = Len(offered) THEN Len(offered[i]) + 1
                                     ELSE Len(offered[i])
               /\ \A j \in 1..Len(offered[i]) : offered'[i][j] = offered[i][j]
         /\ offered'[Len(offered)][Len(offered[Len(offered)]) + 1] = x
         /\ f => Len(offered'[Len(offered) + 1]) = 0
<1> DEFINE n == Len(offered)
<1>1. /\ offered \in Seq(Seq(Texts)) /\ n \in Nat /\ n > 0
      /\ \A i \in 1..n : offered[i] \in Seq(Texts) /\ Len(offered[i]) \in Nat
  BY OfferedFacts
<1>2. /\ Len(offered') = IF f THEN n + 1 ELSE n
      /\ \A i \in 1..(n - 1) : offered'[i] = offered[i]
      /\ offered'[n] = Append(offered[n], x)
      /\ f => offered'[n + 1] = <<>>
  BY <1>1, OfferedStep
<1> HIDE DEF n
<1>3. n \in 1..n /\ offered[n] \in Seq(Texts)
  BY <1>1
<1>4. /\ Len(offered'[n]) = Len(offered[n]) + 1
      /\ \A j \in 1..Len(offered[n]) : offered'[n][j] = offered[n][j]
      /\ offered'[n][Len(offered[n]) + 1] = x
  <2>1. ASSUME NEW u \in Seq(Texts)
        PROVE  /\ Len(Append(u, x)) = Len(u) + 1
               /\ \A j \in 1..Len(u) : Append(u, x)[j] = u[j]
               /\ Append(u, x)[Len(u) + 1] = x
    OBVIOUS
  <2> QED
    BY <1>2, <1>3, <2>1
<1>5. \A i \in 1..n : i # n => i \in 1..(n - 1)
  BY <1>1
<1>6. f => Len(offered'[n + 1]) = 0
  <2>1. Len(<<>>) = 0
    OBVIOUS
  <2> QED
    BY <1>2, <2>1, Zenon
<1>7. \A i \in 1..n :
         /\ Len(offered'[i]) = IF i = n THEN Len(offered[i]) + 1 ELSE Len(offered[i])
         /\ \A j \in 1..Len(offered[i]) : offered'[i][j] = offered[i][j]
  BY <1>2, <1>4, <1>5
<1> QED
  BY <1>2, <1>4, <1>6, <1>7, Zenon DEF n

LEMMA PlacesStay ==
  ASSUME WsTypeOK, NEW x \in Texts, NEW f \in BOOLEAN, BeginSend(x, f), NEW a, WasSent(a)
  PROVE  /\ WasSent(a)' /\ (IsLast(a)' <=> IsLast(a))
         /\ offered'[a.m][a.j] = offered[a.m][a.j]
<1>1. /\ Len(offered) \in Nat /\ a.m \in 1..Len(offered) /\ a.j \in 1..Len(offered[a.m])
      /\ Len(offered[a.m]) \in Nat
  BY OfferedFacts DEF WasSent
<1>2. /\ Len(offered') \in {Len(offered), Len(offered) + 1}
      /\ Len(offered'[a.m]) = IF a.m = Len(offered) THEN Len(offered[a.m]) + 1 ELSE Len(offered[a.m])
      /\ offered'[a.m][a.j] = offered[a.m][a.j]
  BY <1>1, SentMore
<1> QED
  BY <1>1, <1>2 DEF WasSent, IsLast

LEMMA ReadingsGrow ==
  ASSUME WsTypeOK, NEW x \in Texts, NEW f \in BOOLEAN, BeginSend(x, f)
  PROVE  Readings \subseteq Readings'
<1> SUFFICES ASSUME NEW a \in Places, NEW p \in Pieces, NEW b \in Places, Takes(a, p, b)
             PROVE  Takes(a, p, b)'
  BY DEF Readings
<1>1. excuse' = {} => excuse = {}
  BY DEF BeginSend
<1>2. client' = client
  BY DEF BeginSend
<1>3. Honest(p)' <=> Honest(p)
  BY <1>2 DEF Honest
<1>4. WasSent(a) => /\ WasSent(a)' /\ (IsLast(a)' <=> IsLast(a))
                    /\ offered'[a.m][a.j] = offered[a.m][a.j]
  BY PlacesStay
<1> QED
  BY <1>1, <1>2, <1>3, <1>4, Zenon DEF Takes

(* The frame that is begun leads from where the sender was to where he is. *)
LEMMA FrameReadings ==
  ASSUME WsTypeOK, ~client => \A x \in Texts : masksOn[x] = {},
         NEW x \in Texts, NEW f \in BOOLEAN, BeginSend(x, f),
         LengthOf[x] \in {"short", "long"}, NEW b \in Places, AtSender(b),
         NEW T, NEW w \in Seq(Pieces), NEW a, Readings' \subseteq T, Route(T, w, a, b)
  PROVE  \E c \in Places : AtSender(c)' /\ Route(T, w \o task', a, c)
<1>0. PICK k, h, l, m, ms, d, c1, c2, c3, c0, e :
         /\ k = sends
         /\ h = [part |-> "head", op |-> "data", fin |-> f, length |-> LengthOf[x], masked |-> client]
         /\ l = [part |-> "length"]
         /\ m = [part |-> "mask", key |-> k]
         /\ ms = (IF client THEN Xor(masksOn[x], k) ELSE masksOn[x])
         /\ d = [part |-> "data", of |-> x, masks |-> ms]
         /\ c1 = Place(AfterHead(h), b.m, b.j, 0)
         /\ c2 = Place(IF client THEN "mask" ELSE "data", b.m, b.j, 0)
         /\ c3 = Place("data", b.m, b.j, IF client THEN k ELSE 0)
         /\ c0 = (IF LengthOf[x] = "long" THEN c2 ELSE c1)
         /\ e = (IF f THEN Place("head", b.m + 1, 1, 0) ELSE Place("head", b.m, b.j + 1, 0))
  OBVIOUS
<1>1. client \in BOOLEAN /\ k \in Nat /\ masksOn \in [Texts -> Masks]
  BY <1>0, Zenon DEF WsTypeOK
<1>2. /\ b.due = "head" /\ b.m = Len(offered) /\ b.j = Len(offered[Len(offered)]) + 1
      /\ b.m \in Nat /\ b.j \in Nat /\ b.m > 0
  BY OfferedFacts DEF AtSender, Places
<1>3. WasSent(b)' /\ (IsLast(b)' <=> f) /\ offered'[b.m][b.j] = x
  BY <1>2, SentMore, OfferedFacts DEF WasSent, IsLast
<1>4. /\ client' = client
      /\ excuse' = {} => masksOn[x] = {}
  BY DEF BeginSend
<1>5. h \in DataHeads /\ h \in Pieces
  BY <1>0, <1>1, WsAssumption DEF DataHeads, Pieces, Sizes
<1>6. h.part = "head" /\ h.fin = f /\ h.length = LengthOf[x] /\ h.masked = client
  BY <1>0
<1>7. l \in Pieces /\ m \in Pieces
  BY <1>0, <1>1 DEF Pieces
<1>8. ms \in Masks /\ d \in Pieces
  <2>1. ms \in Masks
    BY <1>0, <1>1, XorType
  <2>2. d = [part |-> "data", of |-> x, masks |-> ms]
    BY <1>0, Zenon
  <2> QED
    BY <2>1, <2>2 DEF Pieces
<1>9. AfterHead(h) = IF LengthOf[x] = "long" THEN "length" ELSE IF client THEN "mask" ELSE "data"
  BY <1>6 DEF AfterHead
<1>9a. /\ c1.due = AfterHead(h) /\ c1.m = b.m /\ c1.j = b.j /\ c1.key = 0
       /\ c2.due = (IF client THEN "mask" ELSE "data") /\ c2.m = b.m /\ c2.j = b.j /\ c2.key = 0
       /\ c3.due = "data" /\ c3.m = b.m /\ c3.j = b.j /\ c3.key = (IF client THEN k ELSE 0)
       /\ f => e.due = "head" /\ e.m = b.m + 1 /\ e.j = 1
       /\ ~f => e.due = "head" /\ e.m = b.m /\ e.j = b.j + 1
  <2>1. /\ c1 = Place(AfterHead(h), b.m, b.j, 0)
        /\ c2 = Place(IF client THEN "mask" ELSE "data", b.m, b.j, 0)
        /\ c3 = Place("data", b.m, b.j, IF client THEN k ELSE 0)
        /\ f => e = Place("head", b.m + 1, 1, 0)
        /\ ~f => e = Place("head", b.m, b.j + 1, 0)
    BY <1>0, Zenon
  <2> QED
    BY <2>1 DEF Place
<1>10. c1 \in Places /\ c2 \in Places /\ c3 \in Places /\ e \in Places
  <2>1. AfterHead(h) \in {"head", "length", "mask", "data"}
    BY <1>9
  <2>2. b.m + 1 \in Nat /\ b.j + 1 \in Nat /\ 0 \in Nat /\ 1 \in Nat
    BY <1>2
  <2>3. /\ (IF client THEN "mask" ELSE "data") \in {"head", "length", "mask", "data"}
        /\ "head" \in {"head", "length", "mask", "data"}
        /\ "data" \in {"head", "length", "mask", "data"}
        /\ (IF client THEN k ELSE 0) \in Nat
    BY <1>1
  <2> QED
    BY <1>0, <1>1, <1>2, <2>1, <2>2, <2>3, PlaceFacts, Zenon
<1>11. <<b, h, c1>> \in T
  <2>1. Honest(h)'
    BY <1>4, <1>6 DEF Honest
  <2>2. h.part = b.due
    BY <1>2, <1>6
  <2>3. h.fin <=> IsLast(b)'
    BY <1>3, <1>6, Zenon
  <2>4. c1 = Place(AfterHead(h), b.m, b.j, 0)
    BY <1>0, Zenon
  <2>5. Takes(b, h, c1)'
    BY <1>3, <1>5, <2>1, <2>2, <2>3, <2>4, Zenon DEF Takes
  <2> QED
    BY <1>5, <1>10, <2>5 DEF Readings
<1>12. ASSUME LengthOf[x] = "long" PROVE <<c1, l, c2>> \in T
  <2>1. c1.due = "length" /\ c1.m = b.m /\ c1.j = b.j
    BY <1>9, <1>12, <1>9a
  <2>2. l.part = "length"
    BY <1>0
  <2>3. c2 = Place(IF client' THEN "mask" ELSE "data", c1.m, c1.j, 0)
    BY <1>0, <1>4, <2>1, Zenon
  <2>4. Takes(c1, l, c2)'
    BY <2>1, <2>2, <2>3, Zenon DEF Takes
  <2> QED
    BY <1>7, <1>10, <2>4 DEF Readings
<1>13. /\ c0.due = (IF client THEN "mask" ELSE "data") /\ c0.m = b.m /\ c0.j = b.j /\ c0.key = 0
       /\ c0 \in Places
  BY <1>0, <1>9, <1>10, <1>9a
<1>14. ASSUME client PROVE <<c0, m, c3>> \in T
  <2>1. m.part = "mask" /\ m.key = k
    BY <1>0
  <2>2. c3 = Place("data", c0.m, c0.j, m.key)
    BY <1>0, <1>13, <1>14, <2>1, Zenon
  <2>3. m.part = c0.due
    BY <1>13, <1>14, <2>1
  <2>4. Takes(c0, m, c3)'
    BY <2>1, <2>2, <2>3, Zenon DEF Takes
  <2> QED
    BY <1>7, <1>10, <1>13, <2>4 DEF Readings
<1>15. ASSUME ~client PROVE c0 = c3
  BY <1>0, <1>9, <1>15
<1>16. c3.due = "data" /\ c3.m = b.m /\ c3.j = b.j /\ (client => c3.key = k)
  BY <1>9a
<1>17. <<c3, d, e>> \in T
  <2>1. d.part = "data" /\ d.of = x /\ d.masks = ms
    BY <1>0
  <2>2. excuse' = {} => ms = IF client' THEN {c3.key} ELSE {}
    <3>1. Xor({}, k) = {k}
      BY DEF Xor
    <3>2. ms = IF client THEN Xor(masksOn[x], k) ELSE masksOn[x]
      BY <1>0, Zenon
    <3>3. CASE client
      BY <1>4, <1>16, <3>1, <3>2, <3>3
    <3>4. CASE ~client
      BY <1>4, <3>2, <3>4
    <3> QED
      BY <3>3, <3>4
  <2>3. WasSent(c3)' /\ (IsLast(c3)' <=> f)
    BY <1>3, <1>16 DEF WasSent, IsLast
  <2>4. e = IF IsLast(c3)' THEN Place("head", c3.m + 1, 1, 0) ELSE Place("head", c3.m, c3.j + 1, 0)
    <3>1. e = IF f THEN Place("head", b.m + 1, 1, 0) ELSE Place("head", b.m, b.j + 1, 0)
      BY <1>0, Zenon
    <3> QED
      BY <1>16, <2>3, <3>1
  <2>5. d.of = offered'[c3.m][c3.j]
    BY <1>3, <1>16, <2>1
  <2>6. d.part = c3.due
    BY <1>16, <2>1
  <2>7. Takes(c3, d, e)'
    BY <2>1, <2>2, <2>3, <2>4, <2>5, <2>6, Zenon DEF Takes
  <2> QED
    BY <1>8, <1>10, <2>7 DEF Readings
<1>18. AtSender(e)'
  <2>1. Len(offered') = IF f THEN b.m + 1 ELSE b.m
    BY <1>2, SentMore
  <2>2. Len(offered'[b.m]) = b.j
    BY <1>2, SentMore, OfferedFacts
  <2>3. f => Len(offered'[b.m + 1]) = 0
    BY <1>2, SentMore
  <2>4. e.due = "head" /\ e.m = (IF f THEN b.m + 1 ELSE b.m) /\ e.j = (IF f THEN 1 ELSE b.j + 1)
    BY <1>9a
  <2> QED
    BY <2>1, <2>2, <2>3, <2>4 DEF AtSender
<1>19. task' = <<h>> \o (IF LengthOf[x] = "long" THEN <<l>> ELSE <<>>)
               \o (IF client THEN <<m>> ELSE <<>>) \o <<d>>
  <2>1. task' = Frame(x, k, f)
    BY <1>0, Zenon DEF BeginSend
  <2>2. (LengthOf[x] \in {"long", "huge"} <=> LengthOf[x] = "long") /\ LengthOf[x] # "empty"
    OBVIOUS
  <2>3. Frame(x, k, f) =
          <<h>> \o (IF LengthOf[x] \in {"long", "huge"} THEN <<l>> ELSE <<>>)
          \o (IF client THEN <<m>> ELSE <<>>)
          \o (IF LengthOf[x] = "empty" THEN <<>> ELSE <<d>>)
    BY <1>0, Zenon DEF Frame
  <2> QED
    BY <2>1, <2>2, <2>3
<1>20. ASSUME NEW u \in Seq(Pieces), NEW v \in Seq(Pieces), NEW p \in Pieces
       PROVE  u \o (v \o <<p>>) = Append(u \o v, p) /\ u \o <<p>> = Append(u, p)
  OBVIOUS
<1>21. ASSUME NEW u \in Seq(Pieces), NEW p \in Pieces
       PROVE  u \o <<>> = u /\ Append(u, p) \in Seq(Pieces) /\ <<p>> \in Seq(Pieces)
              /\ u \o <<p>> \in Seq(Pieces)
  OBVIOUS
<1>22. PICK w1, w2, w3 :
         /\ w1 = Append(w, h)
         /\ w2 = (IF LengthOf[x] = "long" THEN Append(w1, l) ELSE w1)
         /\ w3 = (IF client THEN Append(w2, m) ELSE w2)
  OBVIOUS
<1>23. Route(T, w1, a, c1) /\ w1 \in Seq(Pieces)
  BY <1>5, <1>10, <1>11, <1>21, <1>22, RouteAppend
<1>24. Route(T, w2, a, c0) /\ w2 \in Seq(Pieces)
  <2>1. CASE LengthOf[x] = "long"
    BY <1>0, <1>7, <1>10, <1>12, <1>21, <1>22, <1>23, <2>1, RouteAppend
  <2>2. CASE LengthOf[x] # "long"
    BY <1>0, <1>22, <1>23, <2>2
  <2> QED
    BY <2>1, <2>2
<1>25. Route(T, w3, a, c3) /\ w3 \in Seq(Pieces)
  <2>1. CASE client
    BY <1>7, <1>10, <1>14, <1>21, <1>22, <1>24, <2>1, RouteAppend
  <2>2. CASE ~client
    BY <1>15, <1>22, <1>24, <2>2
  <2> QED
    BY <2>1, <2>2
<1>26. Route(T, Append(w3, d), a, e)
  BY <1>8, <1>10, <1>17, <1>25, RouteAppend
<1>27. w \o task' = Append(w3, d)
  <2>1. PICK t1, t2, t3 :
          /\ t1 = <<h>>
          /\ t2 = t1 \o (IF LengthOf[x] = "long" THEN <<l>> ELSE <<>>)
          /\ t3 = t2 \o (IF client THEN <<m>> ELSE <<>>)
    OBVIOUS
  <2>2. task' = t3 \o <<d>>
    BY <1>19, <2>1, Zenon
  <2>3. t1 \in Seq(Pieces) /\ w \o t1 = w1
    BY <1>5, <1>20, <1>21, <1>22, <2>1, Zenon
  <2>4. t2 \in Seq(Pieces) /\ w \o t2 = w2
    <3>1. CASE LengthOf[x] = "long"
      <4>1. t2 = t1 \o <<l>> /\ w2 = Append(w1, l)
        BY <1>22, <2>1, <3>1, Zenon
      <4>2. w \o (t1 \o <<l>>) = Append(w \o t1, l)
        BY <1>7, <1>20, <2>3, Zenon
      <4>3. t1 \o <<l>> \in Seq(Pieces)
        BY <1>7, <1>21, <2>3, Zenon
      <4> QED
        BY <4>1, <4>2, <4>3, <2>3, Zenon
    <3>2. CASE LengthOf[x] # "long"
      BY <1>7, <1>21, <1>22, <2>1, <2>3, <3>2, Zenon
    <3> QED
      BY <3>1, <3>2
  <2>5. t3 \in Seq(Pieces) /\ w \o t3 = w3
    <3>1. CASE client
      <4>1. t3 = t2 \o <<m>> /\ w3 = Append(w2, m)
        BY <1>22, <2>1, <3>1, Zenon
      <4>2. w \o (t2 \o <<m>>) = Append(w \o t2, m)
        BY <1>7, <1>20, <2>4, Zenon
      <4>3. t2 \o <<m>> \in Seq(Pieces)
        BY <1>7, <1>21, <2>4, Zenon
      <4> QED
        BY <4>1, <4>2, <4>3, <2>4, Zenon
    <3>2. CASE ~client
      BY <1>7, <1>21, <1>22, <2>1, <2>4, <3>2, Zenon
    <3> QED
      BY <3>1, <3>2
  <2> QED
    BY <1>8, <1>20, <2>2, <2>5, Zenon
<1> QED
  BY <1>10, <1>18, <1>26, <1>27

-----------------------------------------------------------------------------
(* The invariant.                                                          *)
LEMMA WsInvInit == WsInit => WsInv
<1> SUFFICES ASSUME WsInit PROVE WsInv
  OBVIOUS
<1>1. WsTypeOK
  BY WsTypeInit
<1>2. /\ masksOn = [x \in Texts |-> {}] /\ open /\ task = <<>> /\ stream = <<>>
      /\ offered = << <<>> >> /\ parsing = NoHead /\ joined = <<>> /\ delivered = <<>>
  BY DEF WsInit
<1>3. PICK a : a = Place("head", 1, 1, 0)
  OBVIOUS
<1>4. a \in Places /\ a.due = "head" /\ a.m = 1 /\ a.j = 1
  BY <1>3 DEF Place, Places
<1>5. Len(offered) = 1 /\ Len(offered[1]) = 0 /\ Len(joined) = 0 /\ Len(delivered) = 0
  BY <1>2
<1>6. AtReceiver(a) /\ AtSender(a)
  BY <1>2, <1>4, <1>5 DEF AtReceiver, AtSender
<1>7. Route(Readings, stream \o task, a, a)
  <2>1. stream \o task = <<>> /\ Len(<<>>) = 0
    BY <1>2
  <2>2. PICK s : s = [i \in 1..1 |-> a]
    OBVIOUS
  <2>3. s \in [1..(Len(<<>>) + 1) -> Places] /\ s[1] = a /\ s[Len(<<>>) + 1] = a
    BY <1>4, <2>1, <2>2
  <2>4. \A i \in 1..Len(<<>>) : FALSE
    BY <2>1
  <2> QED
    BY <2>1, <2>3, <2>4 DEF Route
<1>8. ArrivedSoFar
  BY <1>5 DEF ArrivedSoFar, Arrived
<1> QED
  BY <1>1, <1>2, <1>4, <1>6, <1>7, <1>8 DEF WsInv, OnItsWay

LEMMA ArrivedStays ==
  ASSUME ArrivedSoFar, UNCHANGED <<offered, delivered, joined>>, excuse \subseteq excuse'
  PROVE  ArrivedSoFar'
<1>1. excuse' = {} => excuse = {}
  OBVIOUS
<1> QED
  BY <1>1 DEF ArrivedSoFar, Arrived

(* The invariant of a step by which nothing arrives.                       *)
LEMMA BeginSendKeeps ==
  ASSUME WsInv, NEW x \in Texts, NEW f \in BOOLEAN, BeginSend(x, f), Unexcused'
  PROVE  open' /\ OnItsWay' /\ ArrivedSoFar'
<1>1. /\ excuse \subseteq excuse' /\ LengthOf[x] \notin {"empty", "huge"}
      /\ task = <<>>
      /\ UNCHANGED <<client, stream, pongs, parsing, joined, delivered, open>>
  BY DEF BeginSend, Unexcused
<1>2. WsTypeOK /\ open /\ OnItsWay /\ ArrivedSoFar /\ (~client => \A y \in Texts : masksOn[y] = {})
  BY <1>1 DEF WsInv, Unexcused
<1>3. LengthOf[x] \in {"short", "long"}
  BY <1>1, WsAssumption
<1>4. stream \in Seq(Pieces)
  BY <1>2, Zenon DEF WsTypeOK
<1>5. PICK a \in Places, b \in Places :
         AtReceiver(a) /\ AtSender(b) /\ Route(Readings, stream \o task, a, b)
  BY <1>2 DEF OnItsWay
<1>6. PICK T : T = Readings'
  OBVIOUS
<1>7. Route(T, stream, a, b)
  <2>1. stream \o task = stream
    BY <1>1, <1>4
  <2>2. Readings \subseteq T
    BY <1>2, <1>6, ReadingsGrow
  <2> QED
    BY <1>5, <2>1, <2>2, RouteWider
<1>8. PICK c \in Places : AtSender(c)' /\ Route(T, stream \o task', a, c)
  BY <1>2, <1>3, <1>4, <1>5, <1>6, <1>7, FrameReadings
<1>9. AtReceiver(a)'
  <2>1. WasSent(a) => WasSent(a)' /\ (IsLast(a)' <=> IsLast(a))
    BY <1>2, PlacesStay
  <2> QED
    BY <1>1, <1>5, <2>1 DEF AtReceiver, Honest
<1>10. OnItsWay'
  BY <1>1, <1>6, <1>8, <1>9 DEF OnItsWay
<1>11. ArrivedSoFar'
  <2>1. /\ Len(offered) \in Nat /\ Len(offered) > 0 /\ Len(delivered) \in Nat /\ Len(joined) \in Nat
        /\ \A i \in 1..Len(offered) : Len(offered[i]) \in Nat
    <3>1. delivered \in Seq(Seq(Texts \X Masks)) /\ joined \in Seq(Texts \X Masks)
      BY <1>2, Zenon DEF WsTypeOK
    <3> QED
      BY <1>2, <3>1, OfferedFacts
  <2>2. /\ Len(offered') = IF f THEN Len(offered) + 1 ELSE Len(offered)
        /\ \A i \in 1..Len(offered) :
              /\ Len(offered'[i]) = IF i = Len(offered) THEN Len(offered[i]) + 1 ELSE Len(offered[i])
              /\ \A j \in 1..Len(offered[i]) : offered'[i][j] = offered[i][j]
    BY <1>2, SentMore
  <2>3. excuse' = {} => excuse = {}
    BY <1>1
  <2>4. ASSUME NEW msg, NEW i \in 1..Len(offered), Arrived(msg, offered[i], excuse = {}),
               Len(msg) \in Nat, Len(msg) <= Len(offered[i])
        PROVE  Arrived(msg, offered'[i], excuse' = {}) /\ Len(msg) <= Len(offered'[i])
    <3>1. Len(offered[i]) \in Nat /\ Len(offered'[i]) \in Nat /\ Len(offered[i]) <= Len(offered'[i])
      BY <2>1, <2>2
    <3>2. \A j \in 1..Len(msg) : j \in 1..Len(offered[i])
      BY <2>4, <3>1
    <3>3. \A j \in 1..Len(msg) : offered'[i][j] = offered[i][j]
      BY <2>2, <3>2
    <3>4. Arrived(msg, offered'[i], excuse' = {})
      BY <2>3, <2>4, <3>3, Zenon DEF Arrived
    <3> QED
      BY <2>4, <3>1, <3>4
  <2>5. /\ Len(delivered) < Len(offered) /\ Len(joined) <= Len(offered[Len(delivered) + 1])
        /\ Arrived(joined, offered[Len(delivered) + 1], excuse = {})
        /\ \A m \in 1..Len(delivered) :
              Len(delivered[m]) = Len(offered[m]) /\ Arrived(delivered[m], offered[m], excuse = {})
    BY <1>2 DEF ArrivedSoFar
  <2>6. Len(delivered) < Len(offered')
    BY <2>1, <2>2, <2>5
  <2>7. /\ Len(joined) <= Len(offered'[Len(delivered) + 1])
        /\ Arrived(joined, offered'[Len(delivered) + 1], excuse' = {})
    <3>1. Len(delivered) + 1 \in 1..Len(offered)
      BY <2>1, <2>5
    <3> QED
      BY <2>1, <2>4, <2>5, <3>1
  <2>8. ASSUME NEW m \in 1..Len(delivered)
        PROVE  /\ Len(delivered[m]) = Len(offered'[m])
               /\ Arrived(delivered[m], offered'[m], excuse' = {})
    <3>1. m \in 1..Len(offered) /\ m # Len(offered)
      BY <2>1, <2>5
    <3>2. Len(delivered[m]) = Len(offered[m]) /\ Len(offered[m]) \in Nat
      BY <2>1, <2>5, <3>1
    <3> QED
      BY <2>2, <2>4, <2>5, <3>1, <3>2
  <2> QED
    BY <1>1, <2>6, <2>7, <2>8 DEF ArrivedSoFar
<1> QED
  BY <1>1, <1>2, <1>10, <1>11

LEMMA WritePieceKeeps ==
  ASSUME WsInv, WritePiece, Unexcused'
  PROVE  open' /\ OnItsWay' /\ ArrivedSoFar'
<1>1. /\ task # <<>>
      /\ UNCHANGED <<client, masksOn, sends, pongs, offered, parsing, joined, delivered, open, excuse>>
  BY DEF WritePiece
<1>2. WsTypeOK /\ open /\ OnItsWay /\ ArrivedSoFar
  BY <1>1 DEF WsInv, Unexcused
<1>3. stream' = Append(stream, Head(task)) /\ task' = Tail(task)
  BY <1>2 DEF WritePiece
<1>4. stream' \o task' = stream \o task
  <2>1. stream \in Seq(Pieces) /\ task \in Seq(Pieces)
    BY <1>2, Zenon DEF WsTypeOK
  <2>2. ASSUME NEW u \in Seq(Pieces), NEW v \in Seq(Pieces), v # <<>>
        PROVE  Append(u, Head(v)) \o Tail(v) = u \o v
    BY <2>2
  <2> QED
    BY <1>1, <1>3, <2>1, <2>2
<1>5. PICK a \in Places, b \in Places :
         AtReceiver(a) /\ AtSender(b) /\ Route(Readings, stream \o task, a, b)
  BY <1>2 DEF OnItsWay
<1>6. AtReceiver(a)' /\ AtSender(b)'
  BY <1>1, <1>5 DEF AtReceiver, AtSender, Honest, WasSent, IsLast
<1>7. Readings \subseteq Readings'
  BY <1>1, ReadingsStay
<1>8. Route(Readings', stream' \o task', a, b)
  BY <1>4, <1>5, <1>7, RouteWider
<1>9. ArrivedSoFar'
  BY <1>1, <1>2, ArrivedStays
<1> QED
  BY <1>1, <1>2, <1>6, <1>8, <1>9 DEF OnItsWay

LEMMA SendPongKeeps ==
  ASSUME WsInv, SendPong, Unexcused'
  PROVE  open' /\ OnItsWay' /\ ArrivedSoFar'
<1>1. /\ excuse \subseteq excuse'
      /\ task # <<>> => Head(task).part = "head"
      /\ UNCHANGED <<client, masksOn, sends, task, offered, parsing, joined, delivered, open>>
  BY DEF SendPong, Unexcused
<1>2. WsTypeOK /\ open /\ OnItsWay /\ ArrivedSoFar
  BY <1>1 DEF WsInv, Unexcused
<1>3. PICK p : p = [part |-> "head", op |-> "pong", masked |-> FALSE]
  OBVIOUS
<1>4. p \in Pongs /\ p \in Pieces /\ p.part = "head"
  BY <1>3 DEF Pieces, Pongs
<1>5. stream' = Append(stream, p)
  BY <1>3 DEF SendPong
<1>6. PICK a \in Places, b \in Places :
         AtReceiver(a) /\ AtSender(b) /\ Route(Readings, stream \o task, a, b)
  BY <1>2 DEF OnItsWay
<1>7. AtReceiver(a)' /\ AtSender(b)'
  BY <1>1, <1>6 DEF AtReceiver, AtSender, Honest, WasSent, IsLast
<1>8. Route(Readings, Append(stream, p) \o task, a, b)
  <2>1. stream \in Seq(Pieces) /\ task \in Seq(Pieces)
    BY <1>2, Zenon DEF WsTypeOK
  <2>2. \A x, z \in Places : \A y : <<x, y, z>> \in Readings => y.part = x.due
    BY ReadingOf
  <2>3. IF task = <<>> THEN b.due = "head" ELSE Head(task).part = "head"
    BY <1>1, <1>6 DEF AtSender
  <2>4. \A x \in Places : x.due = "head" => <<x, p, x>> \in Readings
    BY <1>4 DEF Readings, Takes
  <2> QED
    BY <1>4, <1>6, <2>1, <2>2, <2>3, <2>4, RoutePong
<1>9. Readings \subseteq Readings'
  BY <1>1, ReadingsStay
<1>10. Route(Readings', stream' \o task', a, b)
  BY <1>1, <1>5, <1>8, <1>9, RouteWider
<1>11. ArrivedSoFar'
  BY <1>1, <1>2, ArrivedStays
<1> QED
  BY <1>1, <1>2, <1>7, <1>10, <1>11 DEF OnItsWay

(* A read of what the receiver needs takes it one place further.           *)
LEMMA ReadOnItsWay ==
  ASSUME WsInv, Unexcused, NEW part, Reads(part)
  PROVE  \E a, c \in Places :
            /\ AtReceiver(a) /\ <<a, Head(stream), c>> \in Readings
            /\ (UNCHANGED <<client, task, offered, excuse>> /\ AtReceiver(c)' => OnItsWay')
<1>1. WsTypeOK /\ OnItsWay
  BY DEF WsInv
<1>2. stream # <<>> /\ stream' = Tail(stream)
  BY DEF Reads
<1>3. PICK a \in Places, b \in Places :
         AtReceiver(a) /\ AtSender(b) /\ Route(Readings, stream \o task, a, b)
  BY <1>1 DEF OnItsWay
<1>4. PICK c \in Places : /\ <<a, Head(stream), c>> \in Readings
                          /\ Route(Readings, Tail(stream) \o task, c, b)
  BY <1>1, <1>2, <1>3, NextPiece
<1>5. ASSUME UNCHANGED <<client, task, offered, excuse>>, AtReceiver(c)'
      PROVE  OnItsWay'
  <2>1. Readings \subseteq Readings'
    BY <1>5, ReadingsStay
  <2>2. AtSender(b)'
    BY <1>3, <1>5 DEF AtSender
  <2>3. Route(Readings', stream' \o task', c, b)
    BY <1>2, <1>4, <1>5, <2>1, RouteWider
  <2> QED
    BY <1>5, <2>2, <2>3 DEF OnItsWay
<1> QED
  BY <1>3, <1>4, <1>5

LEMMA RecvHeadKeeps ==
  ASSUME WsInv, RecvHead, Unexcused'
  PROVE  open' /\ OnItsWay' /\ ArrivedSoFar'
<1>1. /\ parsing = NoHead /\ Reads("head")
      /\ UNCHANGED <<client, masksOn, sends, task, pongs, offered, joined, delivered, open, excuse>>
  BY DEF RecvHead
<1>2. WsTypeOK /\ open /\ ArrivedSoFar /\ Unexcused
  BY <1>1 DEF WsInv, Unexcused
<1>3. ArrivedSoFar'
  BY <1>1, <1>2, ArrivedStays
<1>4. PICK a \in Places, c \in Places :
         /\ AtReceiver(a) /\ <<a, Head(stream), c>> \in Readings
         /\ (UNCHANGED <<client, task, offered, excuse>> /\ AtReceiver(c)' => OnItsWay')
  BY <1>1, <1>2, ReadOnItsWay
<1>5. PICK h : h = Head(stream)
  OBVIOUS
<1>6. stream \in Seq(Pieces) /\ parsing \in {NoHead} \cup Begun
  BY <1>2, Zenon DEF WsTypeOK
<1>7. h \in DataHeads \/ h \in Pongs
  BY <1>1, <1>5, <1>6, ReadsFront, PieceFacts
<1>8. AtReceiver(c)'
  <2>1. CASE h \in Pongs
    <3>1. h.op = "pong" /\ c = a
      BY <1>4, <1>5, <2>1, HeadFacts, ReadingOf, ZenonT(60)
    <3>2. parsing' = parsing
      BY <1>1, <1>5, <1>6, <3>1, ParsingStep
    <3> QED
      BY <1>1, <1>4, <3>1, <3>2 DEF AtReceiver
  <2>2. CASE h \in DataHeads
    <3>1. h.op = "data" /\ AfterHead(h) \in {"length", "mask", "data"}
      BY <2>2, HeadFacts
    <3>2. parsing' = [part |-> AfterHead(h), head |-> h, key |-> 0]
      BY <1>5, <1>6, <3>1, ParsingStep
    <3>3. Honest(h) /\ WasSent(a) /\ (h.fin <=> IsLast(a)) /\ c = Place(AfterHead(h), a.m, a.j, 0)
      BY <1>4, <1>5, <2>2, ReadingOf, ZenonT(60)
    <3>4. c.due = AfterHead(h) /\ c.m = a.m /\ c.j = a.j /\ c.key = 0
      BY <3>3, PlaceFacts
    <3>5. parsing' # NoHead /\ parsing'.part = AfterHead(h) /\ parsing'.head = h /\ parsing'.key = 0
      BY <2>2, <3>1, <3>2, BeginReading
    <3>6. Honest(h)' /\ WasSent(c)' /\ (h.fin <=> IsLast(c)')
      BY <1>1, <3>3, <3>4 DEF Honest, WasSent, IsLast
    <3>7. Honest(parsing.head)' /\ (parsing'.head.fin <=> IsLast(c)')
      BY <3>5, <3>6 DEF Honest
    <3>8. a.m = Len(delivered) + 1 /\ a.j = Len(joined) + 1
      BY <1>4 DEF AtReceiver
    <3> QED
      BY <1>1, <3>4, <3>5, <3>6, <3>7, <3>8, Zenon DEF AtReceiver
  <2> QED
    BY <1>7, <2>1, <2>2
<1> QED
  BY <1>1, <1>2, <1>3, <1>4, <1>8

(* Where a receiver is that has read a head.                               *)
LEMMA Begins ==
  ASSUME parsing \in {NoHead} \cup Begun, parsing.part \in {"length", "mask", "data"},
         NEW a, AtReceiver(a)
  PROVE  /\ parsing \in Begun /\ parsing # NoHead /\ a.due = parsing.part
         /\ parsing.head \in DataHeads /\ Honest(parsing.head)
         /\ WasSent(a) /\ (parsing.head.fin <=> IsLast(a))
         /\ parsing.part = "data" /\ client => a.key = parsing.key
<1>1. NoHead.part = "none"
  BY DEF NoHead
<1>2. parsing \in Begun /\ parsing # NoHead
  BY <1>1
<1>3. parsing.head \in DataHeads
  BY <1>2, BegunFacts, 0 \in Nat
<1> QED
  BY <1>2, <1>3 DEF AtReceiver

(* And where he is, once he has read the length or the mask.               *)
LEMMA Reaches ==
  ASSUME NEW q \in {"mask", "data"}, NEW h \in DataHeads, NEW k \in Nat,
         parsing' = [part |-> q, head |-> h, key |-> k],
         Honest(h), UNCHANGED <<client, offered, delivered, joined>>,
         NEW a, AtReceiver(a), WasSent(a), h.fin <=> IsLast(a),
         NEW c, c.due = q, c.m = a.m, c.j = a.j, q = "data" /\ client => c.key = k
  PROVE  AtReceiver(c)'
<1>1. parsing' # NoHead /\ parsing'.part = q /\ parsing'.head = h /\ parsing'.key = k
  <2>1. q \in {"length", "mask", "data"}
    OBVIOUS
  <2> QED
    BY <2>1, BeginReading
<1>2. Honest(h)' /\ WasSent(c)' /\ (h.fin <=> IsLast(c)')
  BY DEF Honest, WasSent, IsLast
<1>3. Honest(parsing.head)' /\ (parsing'.head.fin <=> IsLast(c)')
  BY <1>1, <1>2 DEF Honest
<1>4. a.m = Len(delivered) + 1 /\ a.j = Len(joined) + 1
  BY DEF AtReceiver
<1> QED
  BY <1>1, <1>2, <1>3, <1>4, Zenon DEF AtReceiver

LEMMA RecvLengthKeeps ==
  ASSUME WsInv, RecvLength, Unexcused'
  PROVE  open' /\ OnItsWay' /\ ArrivedSoFar'
<1>1. /\ parsing.part = "length" /\ Reads("length")
      /\ UNCHANGED <<client, masksOn, sends, task, pongs, offered, joined, delivered, open, excuse>>
  BY DEF RecvLength
<1>2. WsTypeOK /\ open /\ ArrivedSoFar /\ Unexcused
  BY <1>1 DEF WsInv, Unexcused
<1>3. ArrivedSoFar'
  BY <1>1, <1>2, ArrivedStays
<1>4. PICK a \in Places, c \in Places :
         /\ AtReceiver(a) /\ <<a, Head(stream), c>> \in Readings
         /\ (UNCHANGED <<client, task, offered, excuse>> /\ AtReceiver(c)' => OnItsWay')
  BY <1>1, <1>2, ReadOnItsWay
<1>5. stream \in Seq(Pieces) /\ parsing \in {NoHead} \cup Begun /\ client \in BOOLEAN
  BY <1>2, Zenon DEF WsTypeOK
<1>6. Head(stream).part = "length"
  BY <1>1, <1>5, ReadsFront
<1>7. PICK q : q = (IF client THEN "mask" ELSE "data")
  OBVIOUS
<1>8. c = Place(q, a.m, a.j, 0)
  BY <1>4, <1>6, <1>7, ReadingOf, ZenonT(60)
<1>9. /\ parsing.head \in DataHeads /\ Honest(parsing.head) /\ parsing.key \in Nat
      /\ WasSent(a) /\ (parsing.head.fin <=> IsLast(a))
  BY <1>1, <1>4, <1>5, Begins, BegunFacts, 0 \in Nat
<1>10. parsing' = [part |-> q, head |-> parsing.head, key |-> parsing.key]
  <2>1. parsing.head.masked = client
    BY <1>9 DEF Honest
  <2> QED
    BY <1>1, <1>5, <1>7, <2>1, ParsingStep
<1>11. c.due = q /\ c.m = a.m /\ c.j = a.j
  BY <1>8, PlaceFacts
<1>12. q \in {"mask", "data"} /\ (q = "data" => ~client)
  BY <1>7
<1>13. AtReceiver(c)'
  <2>1. PICK h, k : h = parsing.head /\ k = parsing.key
    OBVIOUS
  <2> QED
    BY <1>1, <1>4, <1>9, <1>10, <1>11, <1>12, <2>1, Reaches
<1> QED
  BY <1>1, <1>2, <1>3, <1>4, <1>13

LEMMA RecvMaskKeeps ==
  ASSUME WsInv, RecvMask, Unexcused'
  PROVE  open' /\ OnItsWay' /\ ArrivedSoFar'
<1>1. /\ parsing.part = "mask" /\ Reads("mask")
      /\ UNCHANGED <<client, masksOn, sends, task, pongs, offered, joined, delivered, open, excuse>>
  BY DEF RecvMask
<1>2. WsTypeOK /\ open /\ ArrivedSoFar /\ Unexcused
  BY <1>1 DEF WsInv, Unexcused
<1>3. ArrivedSoFar'
  BY <1>1, <1>2, ArrivedStays
<1>4. PICK a \in Places, c \in Places :
         /\ AtReceiver(a) /\ <<a, Head(stream), c>> \in Readings
         /\ (UNCHANGED <<client, task, offered, excuse>> /\ AtReceiver(c)' => OnItsWay')
  BY <1>1, <1>2, ReadOnItsWay
<1>5. stream \in Seq(Pieces) /\ parsing \in {NoHead} \cup Begun
  BY <1>2, Zenon DEF WsTypeOK
<1>6. PICK h, k : h = parsing.head /\ k = Head(stream).key
  OBVIOUS
<1>7. Head(stream).part = "mask"
  BY <1>1, <1>5, ReadsFront
<1>8. c = Place("data", a.m, a.j, k)
  <2>1. PICK p : p = Head(stream)
    OBVIOUS
  <2>2. <<a, p, c>> \in Readings /\ p.part = "mask" /\ k = p.key
    BY <1>4, <1>6, <1>7, <2>1, Zenon
  <2>3. c = Place("data", a.m, a.j, p.key)
    BY <2>2, MaskReading
  <2> QED
    BY <2>2, <2>3
<1>9. h \in DataHeads /\ Honest(h) /\ WasSent(a) /\ (h.fin <=> IsLast(a))
  BY <1>1, <1>4, <1>5, <1>6, Begins
<1>10. parsing' = [part |-> "data", head |-> h, key |-> k] /\ k \in Nat
  BY <1>5, <1>6, ParsingStep
<1>11. c.due = "data" /\ c.m = a.m /\ c.j = a.j /\ c.key = k
  BY <1>8, PlaceFacts
<1>12. AtReceiver(c)'
  BY <1>1, <1>4, <1>9, <1>10, <1>11, Reaches
<1> QED
  BY <1>1, <1>2, <1>3, <1>4, <1>12

LEMMA RecvDataKeeps ==
  ASSUME WsInv, RecvData, Unexcused'
  PROVE  open' /\ OnItsWay' /\ ArrivedSoFar'
<1>1. /\ parsing.part = "data" /\ Reads("data") /\ parsing' = NoHead
      /\ UNCHANGED <<client, masksOn, sends, task, pongs, offered, open, excuse>>
  BY DEF RecvData
<1>2. WsTypeOK /\ open /\ ArrivedSoFar /\ Unexcused
  BY <1>1 DEF WsInv, Unexcused
<1>3. PICK a \in Places, c \in Places :
         /\ AtReceiver(a) /\ <<a, Head(stream), c>> \in Readings
         /\ (UNCHANGED <<client, task, offered, excuse>> /\ AtReceiver(c)' => OnItsWay')
  BY <1>1, <1>2, ReadOnItsWay
<1>4. /\ stream \in Seq(Pieces) /\ parsing \in {NoHead} \cup Begun
      /\ joined \in Seq(Texts \X Masks) /\ delivered \in Seq(Seq(Texts \X Masks))
      /\ client \in BOOLEAN
  BY <1>2, Zenon DEF WsTypeOK
<1>5. PICK p, u, more : /\ p = Head(stream) /\ u = Unmasked(p)
                        /\ more = Append(joined, <<p.of, u>>)
  OBVIOUS
<1>6. p.part = "data" /\ p \in Pieces
  BY <1>1, <1>4, <1>5, ReadsFront
<1>7. /\ WasSent(a) /\ p.of = offered[a.m][a.j]
      /\ excuse = {} => p.masks = IF client THEN {a.key} ELSE {}
      /\ c = IF IsLast(a) THEN Place("head", a.m + 1, 1, 0) ELSE Place("head", a.m, a.j + 1, 0)
  BY <1>3, <1>5, <1>6, ReadingOf, ZenonT(60)
<1>8. /\ Honest(parsing.head) /\ (parsing.head.fin <=> IsLast(a))
      /\ (client => a.key = parsing.key)
      /\ parsing.head \in DataHeads /\ parsing \in Begun
  BY <1>1, <1>3, <1>4, Begins
<1>9. excuse = {} => u = {}
  <2>1. parsing.head.masked = client
    BY <1>8 DEF Honest
  <2>2. u = IF client THEN Xor(p.masks, parsing.key) ELSE p.masks
    BY <1>5, <2>1 DEF Unmasked
  <2>3. \A z : Xor({z}, z) = {}
    BY DEF Xor
  <2> QED
    BY <1>7, <1>8, <2>2, <2>3
<1>10. IF IsLast(a) THEN delivered' = Append(delivered, more) /\ joined' = <<>>
       ELSE joined' = more /\ delivered' = delivered
  <2>1. IF parsing.head.fin THEN delivered' = Append(delivered, more) /\ joined' = <<>>
        ELSE joined' = more /\ UNCHANGED delivered
    BY <1>5 DEF RecvData
  <2> QED
    BY <1>8, <2>1
<1>11. /\ p.of \in Texts /\ u \in Masks
  <2>1. p.of \in Texts /\ p.masks \in Masks
    BY <1>6, PieceFacts
  <2>2. parsing.key \in Nat
    BY <1>8, BegunFacts, 0 \in Nat
  <2> QED
    BY <1>5, <2>1, <2>2, XorType DEF Unmasked
<1>12. /\ more \in Seq(Texts \X Masks) /\ Len(more) = Len(joined) + 1
       /\ \A j \in 1..Len(joined) : more[j] = joined[j]
       /\ more[Len(joined) + 1] = <<p.of, u>>
  <2>1. <<p.of, u>> \in Texts \X Masks
    BY <1>11
  <2>2. ASSUME NEW z \in Texts \X Masks
        PROVE  /\ Append(joined, z) \in Seq(Texts \X Masks) /\ Len(Append(joined, z)) = Len(joined) + 1
               /\ \A j \in 1..Len(joined) : Append(joined, z)[j] = joined[j]
               /\ Append(joined, z)[Len(joined) + 1] = z
    BY <1>4
  <2> QED
    BY <1>5, <2>1, <2>2
<1>13. /\ a.m = Len(delivered) + 1 /\ a.j = Len(joined) + 1 /\ Len(delivered) \in Nat
       /\ Len(joined) \in Nat /\ Len(offered) \in Nat
       /\ \A i \in 1..Len(offered) : Len(offered[i]) \in Nat
  BY <1>2, <1>3, <1>4, OfferedFacts DEF AtReceiver
<1>14. /\ Len(delivered) < Len(offered) /\ Arrived(joined, offered[a.m], excuse = {})
       /\ \A m \in 1..Len(delivered) :
             Len(delivered[m]) = Len(offered[m]) /\ Arrived(delivered[m], offered[m], excuse = {})
  BY <1>2, <1>13 DEF ArrivedSoFar
<1>15. Arrived(more, offered[a.m], excuse = {})
  <2>1. ASSUME NEW j \in 1..Len(more)
        PROVE  more[j][1] = offered[a.m][j] /\ (excuse = {} => more[j][2] = {})
    <3>1. CASE j \in 1..Len(joined)
      <4>1. more[j] = joined[j]
        BY <1>12, <3>1
      <4> QED
        BY <1>14, <3>1, <4>1, Zenon DEF Arrived
    <3>2. CASE j = Len(joined) + 1
      <4>1. more[j] = <<p.of, u>> /\ j = a.j
        BY <1>12, <1>13, <3>2
      <4> QED
        BY <1>7, <1>9, <4>1
    <3>3. j \in 1..Len(joined) \/ j = Len(joined) + 1
      BY <1>12, <1>13
    <3> QED
      BY <3>1, <3>2, <3>3
  <2> QED
    BY <2>1, Zenon DEF Arrived
<1>16. CASE IsLast(a)
  <2>1. delivered' = Append(delivered, more) /\ joined' = <<>>
    BY <1>10, <1>16
  <2>2. /\ Len(delivered') = Len(delivered) + 1
        /\ \A m \in 1..Len(delivered) : delivered'[m] = delivered[m]
        /\ delivered'[Len(delivered) + 1] = more
    <3>1. ASSUME NEW d \in Seq(Seq(Texts \X Masks)), NEW z \in Seq(Texts \X Masks)
          PROVE  /\ Len(Append(d, z)) = Len(d) + 1
                 /\ \A j \in 1..Len(d) : Append(d, z)[j] = d[j]
                 /\ Append(d, z)[Len(d) + 1] = z
      OBVIOUS
    <3> QED
      BY <1>4, <1>12, <2>1, <3>1
  <2>3. Len(joined') = 0
    BY <2>1
  <2>4. a.m < Len(offered) /\ a.j = Len(offered[a.m])
    BY <1>16 DEF IsLast
  <2>5. c.due = "head" /\ c.m = a.m + 1 /\ c.j = 1
    BY <1>7, <1>16, PlaceFacts
  <2>6. AtReceiver(c)'
    BY <1>1, <1>13, <2>2, <2>3, <2>5 DEF AtReceiver
  <2>7. ASSUME NEW m \in 1..Len(delivered')
        PROVE  /\ Len(delivered'[m]) = Len(offered[m])
               /\ Arrived(delivered'[m], offered[m], excuse = {})
    <3>1. CASE m = a.m
      BY <1>12, <1>13, <1>15, <2>2, <2>4, <3>1
    <3>2. CASE m # a.m
      <4>1. m \in 1..Len(delivered)
        BY <1>13, <2>2, <3>2
      <4> QED
        BY <1>14, <2>2, <4>1
    <3> QED
      BY <3>1, <3>2
  <2>8. /\ Len(delivered') < Len(offered)
        /\ Len(joined') <= Len(offered[Len(delivered') + 1])
        /\ Arrived(joined', offered[Len(delivered') + 1], excuse = {})
    <3>1. Len(delivered') < Len(offered) /\ Len(delivered') + 1 \in 1..Len(offered)
      BY <1>13, <2>2, <2>4
    <3>2. 0 <= Len(offered[Len(delivered') + 1])
      BY <1>13, <3>1
    <3>3. Arrived(joined', offered[Len(delivered') + 1], excuse = {})
      BY <2>3 DEF Arrived
    <3> QED
      BY <2>3, <3>1, <3>2, <3>3
  <2>9. ArrivedSoFar'
    BY <1>1, <2>7, <2>8 DEF ArrivedSoFar
  <2> QED
    BY <1>1, <1>2, <1>3, <2>6, <2>9
<1>17. CASE ~IsLast(a)
  <2>1. joined' = more /\ delivered' = delivered
    BY <1>10, <1>17
  <2>2. c.due = "head" /\ c.m = a.m /\ c.j = a.j + 1
    BY <1>7, <1>17, PlaceFacts
  <2>3. AtReceiver(c)'
    BY <1>1, <1>12, <1>13, <2>1, <2>2 DEF AtReceiver
  <2>4. Len(more) <= Len(offered[a.m])
    BY <1>7, <1>12, <1>13 DEF WasSent
  <2>5. ArrivedSoFar'
    BY <1>1, <1>13, <1>14, <1>15, <2>1, <2>4 DEF ArrivedSoFar
  <2> QED
    BY <1>1, <1>2, <1>3, <2>3, <2>5
<1> QED
  BY <1>16, <1>17

(* It does not give up over what is on its way to it.                      *)
LEMMA NothingFails == WsInv /\ Unexcused => ~RecvFails
<1> SUFFICES ASSUME WsInv, Unexcused, RecvFails PROVE FALSE
  OBVIOUS
<1>1. WsTypeOK /\ OnItsWay
  BY DEF WsInv
<1>2. PICK a \in Places, b \in Places :
         AtReceiver(a) /\ AtSender(b) /\ Route(Readings, stream \o task, a, b)
  BY <1>1 DEF OnItsWay
<1>3. parsing \in {NoHead} \cup Begun
  BY <1>1, Zenon DEF WsTypeOK
<1>4. ASSUME parsing.part \in {"length", "mask", "data"}
      PROVE  parsing.head.length \in {"short", "long"}
  BY <1>2, <1>3, <1>4, Begins DEF Honest
<1>5. ASSUME stream # <<>>
      PROVE  Head(stream).part = (IF parsing = NoHead THEN "head" ELSE parsing.part)
  <2>1. PICK c \in Places : <<a, Head(stream), c>> \in Readings
    BY <1>1, <1>2, <1>5, NextPiece
  <2>2. Head(stream).part = a.due
    BY <2>1, ReadingOf
  <2> QED
    BY <1>2, <2>2 DEF AtReceiver
<1> QED
  BY <1>4, <1>5 DEF RecvFails

LEMMA WsInvStep == WsInv /\ [WsNext]_wsVars => WsInv'
<1> SUFFICES ASSUME WsInv, [WsNext]_wsVars PROVE WsInv'
  OBVIOUS
<1>1. WsTypeOK'
  BY WsTypeStep DEF WsInv
<1>2. ~client' => \A x \in Texts : masksOn'[x] = {}
  <2>1. (client' = client) /\ (~client => masksOn' = masksOn)
    BY DEF WsNext, BeginSend, WritePiece, SendPong, RecvHead, RecvLength, RecvMask, RecvData,
           RecvFails, Shut, wsVars
  <2> QED
    BY <2>1 DEF WsInv
<1>3. ASSUME Unexcused' PROVE open' /\ OnItsWay' /\ ArrivedSoFar'
  <2>1. ASSUME NEW x \in Texts, NEW f \in BOOLEAN, BeginSend(x, f)
        PROVE  open' /\ OnItsWay' /\ ArrivedSoFar'
    BY <1>3, <2>1, BeginSendKeeps
  <2>2. CASE RecvFails
    <3>1. Unexcused
      BY <1>3, <2>2 DEF RecvFails, Shut, Unexcused
    <3> QED
      BY <2>2, <3>1, NothingFails
  <2>3. CASE UNCHANGED wsVars
    <3>1. UNCHANGED <<client, task, stream, offered, parsing, joined, delivered, open, excuse>>
      BY <2>3 DEF wsVars
    <3>2. open /\ OnItsWay /\ ArrivedSoFar
      BY <1>3, <3>1 DEF WsInv, Unexcused
    <3>3. PICK a \in Places, b \in Places :
             AtReceiver(a) /\ AtSender(b) /\ Route(Readings, stream \o task, a, b)
      BY <3>2 DEF OnItsWay
    <3>4. AtReceiver(a)' /\ AtSender(b)'
      BY <3>1, <3>3 DEF AtReceiver, AtSender, Honest, WasSent, IsLast
    <3>5. Route(Readings', stream' \o task', a, b)
      <4>1. Readings \subseteq Readings'
        BY <3>1, ReadingsStay
      <4> QED
        BY <3>1, <3>3, <4>1, RouteWider
    <3> QED
      BY <3>1, <3>2, <3>4, <3>5, ArrivedStays DEF OnItsWay
  <2> QED
    BY <1>3, <2>1, <2>2, <2>3, WritePieceKeeps, SendPongKeeps, RecvHeadKeeps, RecvLengthKeeps,
       RecvMaskKeeps, RecvDataKeeps DEF WsNext
<1> QED
  BY <1>1, <1>2, <1>3 DEF WsInv

(***************************************************************************)
(* As long as no frame was empty, too large or torn, what is written and   *)
(* not yet read, with what is left to write, leads the receiver from where *)
(* it is to where the sender will be (WSSendMessage, WSRecvMessage).       *)
(***************************************************************************)
THEOREM WsInvariant == WsSpec => []WsInv
  BY WsInvInit, WsInvStep, PTL DEF WsSpec

(***************************************************************************)
(* recvMessage returns the messages that were sent, in order, with their   *)
(* frames joined and the masks taken off (ws_session.cpp:88-266).          *)
(***************************************************************************)
THEOREM MessagesDeliveredAsSent == WsSpec => []DeliveredAsSent
<1>1. WsInv => DeliveredAsSent
  <2> SUFFICES ASSUME WsInv, excuse = {}, NEW i \in 1..Len(delivered)
               PROVE  delivered[i] = [j \in 1..Len(offered[i]) |-> <<offered[i][j], {}>>]
    BY DEF DeliveredAsSent
  <2>1. ArrivedSoFar
    BY DEF WsInv, Unexcused
  <2>2. delivered \in Seq(Seq(Texts \X Masks))
    BY Zenon DEF WsInv, WsTypeOK
  <2>3. delivered[i] \in Seq(Texts \X Masks)
    BY <2>2
  <2>4. Len(delivered[i]) = Len(offered[i]) /\ Arrived(delivered[i], offered[i], excuse = {})
    BY <2>1 DEF ArrivedSoFar
  <2>5. ASSUME NEW j \in 1..Len(offered[i]) PROVE delivered[i][j] = <<offered[i][j], {}>>
    <3>1. delivered[i][j] \in Texts \X Masks
      BY <2>3, <2>4
    <3>2. delivered[i][j][1] = offered[i][j] /\ delivered[i][j][2] = {}
      BY <2>4 DEF Arrived
    <3> QED
      BY <3>1, <3>2
  <2>6. delivered[i] = [j \in 1..Len(delivered[i]) |-> delivered[i][j]]
    BY <2>3
  <2>7. delivered[i] = [j \in 1..Len(offered[i]) |-> delivered[i][j]]
    BY <2>4, <2>6, Zenon
  <2> QED
    BY <2>5, <2>7, Zenon
<1> QED
  BY <1>1, WsInvariant, PTL

(***************************************************************************)
(* The receiver gives up only after a frame that was empty, too large or   *)
(* torn by a ping or a pong (ws_session.cpp:88-266).                       *)
(***************************************************************************)
THEOREM SessionsSurvive == WsSpec => []SessionSurvives
<1>1. WsInv => SessionSurvives
  BY DEF WsInv, Unexcused, SessionSurvives
<1> QED
  BY <1>1, WsInvariant, PTL
===============================================================================
