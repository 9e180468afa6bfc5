----------------------------- MODULE TsaProofs -----------------------------
(***************************************************************************)
(* For every set of nodes, priorities and messages and every number of     *)
(* retries, records and queue entries: what the transport, session and     *)
(* authentication layers keep true.                                        *)
(***************************************************************************)
EXTENDS Tsa, SequenceTheorems, TLAPS

-----------------------------------------------------------------------------
(* Queues.                                                                 *)

LEMMA PutProperties ==
  ASSUME NEW S, NEW q \in Seq(S), NEW e \in S, NEW cnt \in Nat \ {0}
  PROVE  /\ Put(q, e, cnt) \in Seq(S)
         /\ Len(q) < cnt => Len(Put(q, e, cnt)) < cnt
         /\ Len(q) <= Len(Put(q, e, cnt)) /\ Len(Put(q, e, cnt)) <= Len(q) + 1
         /\ \A k \in 1 .. Len(Put(q, e, cnt)) :
               Put(q, e, cnt)[k] = IF k <= Len(q) THEN q[k] ELSE e
         /\ Range(Put(q, e, cnt)) \subseteq Range(q) \cup {e}
         /\ q # <<>> => Put(q, e, cnt) # <<>> /\ Head(Put(q, e, cnt)) = Head(q)
<1>1. Len(q) \in Nat /\ DOMAIN q = 1 .. Len(q)
  BY LenProperties
<1>2. CASE Len(q) < cnt - 1
  <2>1. Put(q, e, cnt) = Append(q, e)
    BY <1>2 DEF Put
  <2>2. /\ Append(q, e) \in Seq(S) /\ Len(Append(q, e)) = Len(q) + 1
        /\ \A k \in 1 .. Len(q) : Append(q, e)[k] = q[k]
        /\ Append(q, e)[Len(q) + 1] = e
    OBVIOUS
  <2>3. \A k \in 1 .. Len(q) + 1 : Append(q, e)[k] = IF k <= Len(q) THEN q[k] ELSE e
    BY <1>1, <2>2
  <2>4. Range(Append(q, e)) \subseteq Range(q) \cup {e}
    BY <1>1, <2>2, <2>3 DEF Range
  <2>5. q # <<>> => Append(q, e) # <<>> /\ Head(Append(q, e)) = Head(q)
    BY <1>1
  <2> QED
    BY <1>1, <1>2, <2>1, <2>2, <2>3, <2>4, <2>5
<1>3. CASE ~(Len(q) < cnt - 1)
  BY <1>1, <1>3 DEF Put
<1> QED
  BY <1>2, <1>3

LEMMA TailProperties ==
  ASSUME NEW S, NEW q \in Seq(S), q # <<>>
  PROVE  /\ Head(q) \in S /\ Head(q) = q[1] /\ Tail(q) \in Seq(S)
         /\ Len(q) \in Nat \ {0} /\ Len(Tail(q)) = Len(q) - 1
         /\ \A k \in 1 .. Len(q) - 1 : Tail(q)[k] = q[k + 1]
         /\ Head(q) \in Range(q) /\ Range(Tail(q)) \subseteq Range(q)
<1>1. /\ Head(q) \in S /\ Tail(q) \in Seq(S) /\ Len(Tail(q)) = Len(q) - 1
      /\ \A k \in 1 .. Len(Tail(q)) : Tail(q)[k] = q[k + 1]
  BY HeadTailProperties
<1>2. Len(q) \in Nat \ {0} /\ DOMAIN q = 1 .. Len(q) /\ DOMAIN Tail(q) = 1 .. Len(q) - 1
  BY <1>1, EmptySeq, LenProperties
<1>3. Head(q) = q[1]
  OBVIOUS
<1> QED
  BY <1>1, <1>2, <1>3 DEF Range

LEMMA RangeType ==
  ASSUME NEW S, NEW q \in Seq(S)
  PROVE  Range(q) \subseteq S /\ Range(<<>>) = {}
         /\ \A k \in 1 .. Len(q) : q[k] \in S /\ q[k] \in Range(q)
BY LenProperties DEF Range

-----------------------------------------------------------------------------
(* Frames and records.                                                     *)

\* What a frame carries is told by its kind.
LEMMA FrameKinds ==
  ASSUME NEW f \in Frame
  PROVE  /\ f.src \in Node /\ f.dst \in Node /\ f.priority \in Priority
         /\ f.transNum \in 0 .. MaxTid
         /\ f.kind \in Service \cup {"ack", "response", "challenge", "reply"}
         /\ f.kind \in Service =>
               f.body \in Message /\ f.body.service = f.kind /\ f.body.src = f.src
               /\ f.body.dst = f.dst /\ f.body.priority = f.priority
               /\ f = MessageFrame(f.body, f.transNum)
         /\ f.kind = "response" => f.body \in Message
         /\ f.kind = "challenge" => f.body \in Nonce
         /\ f.kind = "reply" => f.body.key = Key[f.src]
<1>1. CASE \E m \in Message, t \in 0 .. MaxTid : f = MessageFrame(m, t)
  BY <1>1, TsaAssumption DEF MessageFrame, Service
<1>2. CASE f \in Answer("ack", {NoMsg}) \cup Answer("response", Message)
                \cup Answer("challenge", Nonce)
  BY <1>2 DEF Answer, Service
<1>3. CASE \E B : f \in Answer("reply", B) /\ f.body.key = Key[f.src]
  BY <1>3 DEF Answer, Service
<1> QED
  BY <1>1, <1>2, <1>3 DEF Frame

LEMMA FrameOfMessage ==
  ASSUME NEW m \in Message, NEW t \in 0 .. MaxTid
  PROVE  /\ MessageFrame(m, t) \in FramesOf(m.src, m.priority)
         /\ MessageFrame(m, t).src = m.src /\ MessageFrame(m, t).dst = m.dst
         /\ MessageFrame(m, t).priority = m.priority
         /\ MessageFrame(m, t).kind = m.service /\ MessageFrame(m, t).body = m
         /\ MessageFrame(m, t).transNum = t
BY DEF MessageFrame, Frame, FramesOf

LEMMA FrameOfAnswer ==
  ASSUME NEW n \in Node, NEW d \in Node, NEW p \in Priority, NEW t \in 0 .. MaxTid,
         NEW kind, NEW body,
         \/ kind = "ack" /\ body = NoMsg
         \/ kind = "response" /\ body \in Message
         \/ kind = "challenge" /\ body \in Nonce
         \/ kind = "reply" /\ \E r \in Nonce, m \in Message : body = Crypto(r, m.apdu, Key[n])
  PROVE  LET f == [kind |-> kind, src |-> n, dst |-> d, priority |-> p,
                   transNum |-> t, body |-> body]
         IN  f \in FramesOf(n, p)
<1> DEFINE f == [kind |-> kind, src |-> n, dst |-> d, priority |-> p,
                 transNum |-> t, body |-> body]
<1>1. f.src = n /\ f.priority = p
  OBVIOUS
<1>2. CASE kind = "ack" /\ body = NoMsg
  BY <1>1, <1>2 DEF FramesOf, Frame, Answer
<1>3. CASE kind = "response" /\ body \in Message
  BY <1>1, <1>3 DEF FramesOf, Frame, Answer
<1>4. CASE kind = "challenge" /\ body \in Nonce
  BY <1>1, <1>4 DEF FramesOf, Frame, Answer
<1>5. CASE kind = "reply" /\ \E r \in Nonce, m \in Message : body = Crypto(r, m.apdu, Key[n])
  <2>1. f \in Answer("reply", {Crypto(r, m.apdu, Key[o]) :
                               r \in Nonce, m \in Message, o \in Node})
    BY <1>5 DEF Answer
  <2>2. f.body.key = Key[f.src]
    BY <1>5 DEF Crypto
  <2> QED
    BY <1>1, <2>1, <2>2 DEF FramesOf, Frame
<1> QED
  BY <1>2, <1>3, <1>4, <1>5

LEMMA RecordFields ==
  ASSUME NEW n \in Node, NEW rr \in RecordsOf(n)
  PROVE  /\ rr \in Record
         /\ rr.src = NoNode => rr = BlankRecord
         /\ rr.src # NoNode =>
               /\ rr.src \in Node /\ rr.priority \in Priority
               /\ rr.msg \in Message /\ rr.msg.src = rr.src /\ rr.msg.dst = n
               /\ rr.msg.priority = rr.priority
         /\ rr.status # "unused" => rr.src # NoNode /\ rr.status = Layer(rr.msg)
         /\ rr.transNum \in 0 .. MaxTid /\ rr.reqId \in 0 .. MaxReqId
         /\ rr.transState \in Handled \cup {"authenticating"}
         /\ rr.needAuth \in BOOLEAN /\ rr.auth \in BOOLEAN
         /\ rr.transState = "responded" => rr.src # NoNode /\ rr.response \in Message
         /\ rr.transState = "authenticating" => rr.src # NoNode /\ rr.rand \in Nonce
<1>1. CASE rr = BlankRecord
  BY <1>1, TsaAssumption DEF BlankRecord, RecordsOf, Handled
<1>2. CASE rr # BlankRecord
  <2>1. rr.src \in Node /\ rr.src # NoNode
    BY <1>2, TsaAssumption DEF RecordsOf, Record
  <2> QED
    BY <1>2, <2>1 DEF RecordsOf, Record
<1> QED
  BY <1>1, <1>2

\* Records of node n during a step.
WideRecords(n) ==
    {rr \in [status : {"unused", "transport", "session"}, src : Node,
             priority : Priority, transNum : 0 .. MaxTid,
             transState : Handled \cup {"just_received", "authenticating", "authenticated"},
             msg : Message, reqId : 0 .. MaxReqId, needAuth : BOOLEAN,
             auth : BOOLEAN, rand : Nonce \cup {NoNonce},
             response : Message \cup {NoMsg}] :
        /\ rr.msg.src = rr.src /\ rr.msg.priority = rr.priority /\ rr.msg.dst = n
        /\ rr.status \in {"unused", Layer(rr.msg)}
        /\ rr.transState = "responded" => rr.response \in Message
        /\ rr.transState = "authenticating" => rr.rand \in Nonce}

LEMMA WideRecordsAreWide ==
  ASSUME NEW n \in Node
  PROVE  /\ \A rr \in RecordsOf(n) : rr.src # NoNode => rr \in WideRecords(n)
         /\ \A rr \in WideRecords(n) :
               rr.transState \in Handled \cup {"authenticating"} => rr \in RecordsOf(n)
<1>1. ASSUME NEW rr \in RecordsOf(n), rr.src # NoNode
      PROVE  rr \in WideRecords(n)
  BY <1>1 DEF RecordsOf, Record, WideRecords, BlankRecord
<1>2. ASSUME NEW rr \in WideRecords(n), rr.transState \in Handled \cup {"authenticating"}
      PROVE  rr \in RecordsOf(n)
  BY <1>2 DEF RecordsOf, Record, WideRecords
<1> QED
  BY <1>1, <1>2

LEMMA NeedAuthUpdated ==
  ASSUME NEW n \in Node, NEW rr \in WideRecords(n), NEW auth \in BOOLEAN
  PROVE  [rr EXCEPT !.needAuth = auth] \in WideRecords(n)
BY DEF WideRecords

\* Deliver changes only the state of a record.
LEMMA DeliveredRecordIs ==
  ASSUME NEW n \in Node, NEW rr \in WideRecords(n), NEW d, d = DeliveredRecord(rr)
  PROVE  /\ d \in RecordsOf(n)
         /\ d.src = rr.src /\ d.priority = rr.priority /\ d.status = rr.status
         /\ d.transNum = rr.transNum /\ d.msg = rr.msg /\ d.reqId = rr.reqId
         /\ d.auth = rr.auth /\ d.response = rr.response
         /\ d.transState \in Handled
         /\ d.transState = "responded" => rr.transState = "responded"
         /\ d.transState = "delivered" =>
               \/ rr.transState = "delivered"
               \/ rr.transState \notin Handled /\ DeliveredRecord(rr).transState = "delivered"
         /\ rr.transState \notin Handled /\ (rr.needAuth => rr.transState = "authenticated")
               => d.transState = "delivered"
<1>1. CASE rr.transState \in Handled
  BY <1>1, WideRecordsAreWide DEF DeliveredRecord, Handled
<1>2. CASE rr.transState \notin Handled
  <2> DEFINE s == IF rr.needAuth /\ rr.transState # "authenticated" THEN "done" ELSE "delivered"
  <2>1. d = [rr EXCEPT !.transState = s] /\ s \in {"done", "delivered"}
    BY <1>2 DEF DeliveredRecord
  <2>2. rr.needAuth => (s = "delivered" <=> rr.transState = "authenticated")
    OBVIOUS
  <2>3. ~rr.needAuth => s = "delivered"
    OBVIOUS
  <2> HIDE DEF s
  <2>4. /\ d.src = rr.src /\ d.priority = rr.priority /\ d.status = rr.status
        /\ d.transNum = rr.transNum /\ d.msg = rr.msg /\ d.reqId = rr.reqId
        /\ d.auth = rr.auth /\ d.response = rr.response
        /\ d.transState = s
    BY <2>1 DEF WideRecords
  <2>5. d \in WideRecords(n)
    BY <2>1 DEF WideRecords, Handled
  <2> QED
    BY <1>2, <2>1, <2>2, <2>3, <2>4, <2>5, WideRecordsAreWide DEF Handled
<1> QED
  BY <1>1, <1>2

\* The record of the last message from a source.
LEMMA RetrieveRRFinds ==
  ASSUME NEW n \in Node, NEW f, NEW i \in RetrieveRR(n, f)
  PROVE  i \in RR /\ recvRec[n][i].src = f.src /\ recvRec[n][i].priority = f.priority
BY DEF RetrieveRR, First

LEMMA RecordForFinds ==
  ASSUME NEW n \in Node, NEW f, NEW i \in RecordFor(n, f)
  PROVE  /\ i \in RR
         /\ \/ i \in RetrieveRR(n, f)
            \/ RetrieveRR(n, f) = {} /\ recvRec[n][i].status = "unused"
BY RetrieveRRFinds DEF RecordFor, AllocateRR, First

\* Records are found when there is one, because there is no other.
LEMMA RetrieveRRFindsAll ==
  ASSUME TypeOK, RecordsAreUnambiguous, NEW n \in Node, NEW f, NEW j \in RR, f.src # NoNode,
         recvRec[n][j].src = f.src, recvRec[n][j].priority = f.priority
  PROVE  RetrieveRR(n, f) = {j}
<1> DEFINE S == {i \in RR : recvRec[n][i].src = f.src /\ recvRec[n][i].priority = f.priority}
<1>1. S = {j}
  BY DEF RecordsAreUnambiguous
<1>2. j \in Int
  BY DEF RR
<1> QED
  BY <1>1, <1>2 DEF RetrieveRR, First

\* The record of a frame that carries a message, before the message is acted upon.
LEMMA RecordWithIs ==
  ASSUME TypeOK, NEW n \in Node, NEW layer \in {"transport", "session"},
         NEW f \in FramesTo(n), f.kind \in MessageKinds(layer), NEW i \in RecordFor(n, f),
         NEW rr, rr = RecordWith(n, i, f, layer)
  PROVE  /\ rr \in WideRecords(n)
         /\ f.body \in Message /\ layer = Layer(f.body)
         /\ rr.src = f.src /\ rr.priority = f.priority /\ rr.status = layer
         /\ rr.transNum = f.transNum /\ rr.needAuth = f.body.auth
         /\ Known(n, i, f, layer) =>
               /\ recvRec[n][i].src # NoNode /\ recvRec[n][i].status = layer
               /\ rr.src = recvRec[n][i].src /\ rr.priority = recvRec[n][i].priority
               /\ rr.transNum = recvRec[n][i].transNum /\ rr.msg = recvRec[n][i].msg
               /\ rr.transState = recvRec[n][i].transState
               /\ rr.reqId = recvRec[n][i].reqId /\ rr.auth = recvRec[n][i].auth
               /\ rr.rand = recvRec[n][i].rand /\ rr.response = recvRec[n][i].response
         /\ ~Known(n, i, f, layer) =>
               /\ rr.msg = f.body /\ rr.transState = "just_received" /\ ~rr.auth
               /\ rr.reqId = IF layer = "session" THEN ThisReqId(n) ELSE 0
<1>1. /\ f \in Frame /\ f.dst = n /\ i \in RR
  BY RecordForFinds DEF FramesTo
<1>2. /\ f.body \in Message /\ f.body.src = f.src /\ f.body.dst = n
      /\ f.body.priority = f.priority /\ layer = Layer(f.body) /\ f.body.auth \in BOOLEAN
      /\ f.src \in Node /\ f.priority \in Priority /\ f.transNum \in 0 .. MaxTid
  <2>1. f.kind \in Service
    BY DEF MessageKinds, Service
  <2>2. /\ f.body \in Message /\ f.body.src = f.src /\ f.body.dst = n
        /\ f.body.priority = f.priority /\ f.body.service = f.kind
        /\ f.src \in Node /\ f.priority \in Priority /\ f.transNum \in 0 .. MaxTid
    BY <1>1, <2>1, FrameKinds
  <2>3. layer = Layer(f.body)
    BY <2>2 DEF MessageKinds, Layer
  <2>4. f.body.auth \in BOOLEAN
    BY <2>2, TsaAssumption
  <2> QED
    BY <2>2, <2>3, <2>4
<1> DEFINE base == IF Known(n, i, f, layer) THEN recvRec[n][i] ELSE NewRecord(n, f, layer)
<1>3. rr = [base EXCEPT !.needAuth = f.body.auth]
  BY DEF RecordWith
<1>4. CASE Known(n, i, f, layer)
  <2>1. /\ recvRec[n][i] \in RecordsOf(n) /\ recvRec[n][i].src = f.src
        /\ recvRec[n][i].priority = f.priority /\ recvRec[n][i].src # NoNode
        /\ recvRec[n][i].transNum = f.transNum /\ recvRec[n][i].status = layer
    <3>1. recvRec[n][i] \in RecordsOf(n)
      BY <1>1 DEF TypeOK
    <3>2. i \in RetrieveRR(n, f) /\ Repeats(recvRec[n][i], f, layer)
      BY <1>4 DEF Known
    <3>3. NoNode \notin Node
      BY TsaAssumption
    <3> QED
      BY <1>2, <3>1, <3>2, <3>3, RetrieveRRFinds DEF Repeats
  <2>2. base = recvRec[n][i] /\ base \in WideRecords(n)
    BY <1>4, <2>1, WideRecordsAreWide
  <2> HIDE DEF base
  <2>3. rr.needAuth = f.body.auth
    BY <1>3, <2>2 DEF WideRecords
  <2>4. /\ rr.src = base.src /\ rr.priority = base.priority /\ rr.status = base.status
        /\ rr.transNum = base.transNum /\ rr.msg = base.msg
        /\ rr.transState = base.transState
        /\ rr.reqId = base.reqId /\ rr.auth = base.auth
        /\ rr.rand = base.rand /\ rr.response = base.response
    BY <1>3, <2>2 DEF WideRecords
  <2>5. rr \in WideRecords(n)
    BY <1>2, <1>3, <2>2, NeedAuthUpdated
  <2> QED
    BY <1>2, <1>4, <2>1, <2>2, <2>3, <2>4, <2>5
<1>5. CASE ~Known(n, i, f, layer)
  <2> DEFINE q == IF layer = "session" THEN ThisReqId(n) ELSE 0
  <2>1. q \in 0 .. MaxReqId
    BY TsaAssumption DEF ThisReqId, TypeOK
  <2>2. base = [status |-> layer, src |-> f.src, priority |-> f.priority,
                transNum |-> f.transNum, transState |-> "just_received", msg |-> f.body,
                reqId |-> q, needAuth |-> FALSE, auth |-> FALSE, rand |-> NoNonce,
                response |-> NoMsg]
    BY <1>5 DEF NewRecord, BlankRecord
  <2>3. q = IF layer = "session" THEN ThisReqId(n) ELSE 0
    OBVIOUS
  <2> HIDE DEF q
  <2>4. base \in WideRecords(n)
    <3> DEFINE b(m, src, priority, transNum, r) ==
            [status |-> layer, src |-> src, priority |-> priority,
             transNum |-> transNum, transState |-> "just_received", msg |-> m,
             reqId |-> r, needAuth |-> FALSE, auth |-> FALSE, rand |-> NoNonce,
             response |-> NoMsg]
    <3>1. ASSUME NEW m \in Message, NEW src \in Node, NEW priority \in Priority,
                 NEW transNum \in 0 .. MaxTid, NEW r \in 0 .. MaxReqId,
                 m.src = src, m.dst = n, m.priority = priority, layer = Layer(m)
          PROVE  b(m, src, priority, transNum, r) \in WideRecords(n)
      BY <3>1 DEF WideRecords, Handled
    <3>2. base = b(f.body, f.src, f.priority, f.transNum, q)
      BY <2>2
    <3> HIDE DEF b, base
    <3> QED
      BY <1>2, <2>1, <3>1, <3>2
  <2>5. /\ base.src = f.src /\ base.priority = f.priority /\ base.status = layer
        /\ base.transNum = f.transNum /\ base.msg = f.body
        /\ base.transState = "just_received" /\ ~base.auth /\ base.reqId = q
    BY <2>2
  <2> HIDE DEF base
  <2>6. rr \in WideRecords(n)
    BY <1>2, <1>3, <2>4, NeedAuthUpdated
  <2>7. /\ rr.src = base.src /\ rr.priority = base.priority /\ rr.status = base.status
        /\ rr.transNum = base.transNum /\ rr.msg = base.msg
        /\ rr.transState = base.transState /\ rr.reqId = base.reqId
        /\ rr.auth = base.auth /\ rr.needAuth = f.body.auth
    BY <1>3, <2>4 DEF WideRecords
  <2> QED
    BY <1>2, <1>5, <2>3, <2>5, <2>6, <2>7
<1> QED
  BY <1>4, <1>5

-----------------------------------------------------------------------------
(* Types.                                                                  *)

\* TypeOK, variable by variable.
OutTyped ==
    /\ tsaOutQ \in [Node -> [Priority -> Seq(Message)]]
    /\ \A n \in Node : \A p \in Priority :
          tsaOutQ[n][p] \in Seq(MessagesOf(n, p)) /\ Len(tsaOutQ[n][p]) < Cnt.tsaOut
XmitTyped ==
    xmitRec \in [Node -> [Priority ->
        [status : {"unused", "transport", "session"}, transNum : 0 .. MaxTid,
         retriesLeft : 0 .. Retries, ackCount : {0, 1}]]]
NumbersTyped ==
    /\ transID \in [Node -> [Priority -> 0 .. MaxTid]]
    /\ lastTid \in [Node -> [Priority -> [Node -> NoTid .. MaxTid]]]
RecordsTyped ==
    /\ recvRec \in [Node -> [RR -> Record]]
    /\ \A n \in Node : \A i \in RR : recvRec[n][i] \in RecordsOf(n)
NwTyped ==
    /\ nwOutQ \in [Node -> [Priority -> Seq(Frame)]]
    /\ \A n \in Node : \A p \in Priority :
          nwOutQ[n][p] \in Seq(FramesOf(n, p)) /\ Len(nwOutQ[n][p]) < Cnt.nwOut
InTyped ==
    /\ tsaInQ \in [Node -> Seq(Frame)]
    /\ \A n \in Node : tsaInQ[n] \in Seq(FramesTo(n)) /\ Len(tsaInQ[n]) < Cnt.tsaIn
RespTyped ==
    /\ tsaRespQ \in [Node -> Seq(Answered)]
    /\ \A n \in Node : tsaRespQ[n] \in Seq(AnsweredBy(n)) /\ Len(tsaRespQ[n]) < Cnt.tsaResp
AppTyped ==
    /\ appInQ \in [Node -> Seq(Delivery)]
    /\ \A n \in Node : appInQ[n] \in Seq(DeliveriesTo(n)) /\ Len(appInQ[n]) < Cnt.appIn
EventTyped ==
    /\ appCeRspInQ \in [Node -> Seq(Event)]
    /\ \A n \in Node : appCeRspInQ[n] \in Seq(EventsOf(n)) /\ Len(appCeRspInQ[n]) < Cnt.appCeRsp
RestartTyped == restart \in [Node -> {"over", "reset", "powerup"}]
ReqIdTyped == reqId \in [Node -> 0 .. MaxReqId]
ResetsTyped == resets \in 0 .. MaxResets
SubmittedTyped == submitted \subseteq Message
DeliveredTyped == delivered \in [Message -> Nat]
ToldTyped == outcome \in [Message -> Seq(BOOLEAN)] /\ answers \in [Message -> SUBSET Message]

LEMMA TypeParts ==
  TypeOK <=> /\ OutTyped /\ XmitTyped /\ NumbersTyped /\ RestartTyped
             /\ RecordsTyped /\ ReqIdTyped /\ NwTyped /\ InTyped /\ RespTyped
             /\ AppTyped /\ EventTyped /\ ResetsTyped /\ SubmittedTyped
             /\ DeliveredTyped /\ ToldTyped
BY DEF TypeOK, OutTyped, XmitTyped, NumbersTyped, RestartTyped, RecordsTyped, ReqIdTyped,
   NwTyped, InTyped, RespTyped, AppTyped, EventTyped, ResetsTyped, SubmittedTyped,
   DeliveredTyped, ToldTyped

\* RecordsAreUnambiguous, part by part.
InProgress ==
    \A n \in Node : \A p \in Priority :
        xmitRec[n][p].status # "unused" =>
            /\ tsaOutQ[n][p] # <<>>
            /\ Layer(Head(tsaOutQ[n][p])) = xmitRec[n][p].status
Unambiguous ==
    \A n \in Node : \A i, j \in RR :
        /\ recvRec[n][i].src # NoNode
        /\ recvRec[n][i].src = recvRec[n][j].src
        /\ recvRec[n][i].priority = recvRec[n][j].priority
        => i = j

LEMMA UnambiguousParts ==
  RecordsAreUnambiguous <=> InProgress /\ Unambiguous
BY DEF RecordsAreUnambiguous, InProgress, Unambiguous

LEMMA Counts ==
  /\ \A q \in {"nwOut", "tsaIn", "tsaOut", "tsaResp", "appIn", "appCeRsp"} :
        Cnt[q] \in Nat \ {0}
  /\ NoNode \notin Node
BY TsaAssumption

\* A frame that is sent is in the queue of its node and priority, and there only.
LEMMA SendTyped ==
  ASSUME NwTyped, NEW n \in Node, NEW p \in Priority, NEW f \in FramesOf(n, p), Send(n, f)
  PROVE  /\ NwTyped'
         /\ \A o \in Node, q \in Priority :
               Range(nwOutQ'[o][q]) \subseteq Range(nwOutQ[o][q]) \cup {f}
         /\ \A o \in Node, q \in Priority : <<o, q>> # <<n, p>> => nwOutQ'[o][q] = nwOutQ[o][q]
         /\ nwOutQ'[n][p] = Put(nwOutQ[n][p], f, Cnt.nwOut)
<1> DEFINE q == Put(nwOutQ[n][p], f, Cnt.nwOut)
<1>1. f.priority = p /\ f \in Frame
  BY DEF FramesOf
<1>2. nwOutQ' = [nwOutQ EXCEPT ![n][p] = q]
  BY <1>1 DEF Send
<1>3. /\ nwOutQ[n][p] \in Seq(FramesOf(n, p)) /\ nwOutQ[n][p] \in Seq(Frame)
      /\ Len(nwOutQ[n][p]) < Cnt.nwOut
  BY DEF NwTyped
<1>4. Cnt.nwOut \in Nat \ {0}
  BY Counts
<1>5. /\ q \in Seq(FramesOf(n, p)) /\ Len(q) < Cnt.nwOut
      /\ Range(q) \subseteq Range(nwOutQ[n][p]) \cup {f}
  BY <1>3, <1>4, PutProperties
<1>6. q \in Seq(Frame)
  BY <1>1, <1>3, <1>4, PutProperties
<1>7. q = Put(nwOutQ[n][p], f, Cnt.nwOut)
  OBVIOUS
<1> HIDE DEF q
<1>8. /\ \A o \in Node, r \in Priority : <<o, r>> # <<n, p>> => nwOutQ'[o][r] = nwOutQ[o][r]
      /\ nwOutQ'[n][p] = q
      /\ nwOutQ' \in [Node -> [Priority -> Seq(Frame)]]
  BY <1>2, <1>6 DEF NwTyped
<1>9. ASSUME NEW o \in Node, NEW r \in Priority
      PROVE  /\ nwOutQ'[o][r] \in Seq(FramesOf(o, r)) /\ Len(nwOutQ'[o][r]) < Cnt.nwOut
             /\ Range(nwOutQ'[o][r]) \subseteq Range(nwOutQ[o][r]) \cup {f}
  <2>1. CASE o = n /\ r = p
    BY <1>5, <1>8, <2>1
  <2>2. CASE ~(o = n /\ r = p)
    BY <1>8, <2>2 DEF NwTyped
  <2> QED
    BY <2>1, <2>2
<1> QED
  BY <1>7, <1>8, <1>9 DEF NwTyped

\* A frame that leaves nwOutQ, or tsaInQ.
LEMMA LeaveTyped ==
  ASSUME NwTyped, NEW n \in Node, NEW p \in Priority, nwOutQ[n][p] # <<>>,
         nwOutQ' = [nwOutQ EXCEPT ![n][p] = Tail(@)]
  PROVE  /\ NwTyped'
         /\ \A o \in Node, q \in Priority : Range(nwOutQ'[o][q]) \subseteq Range(nwOutQ[o][q])
         /\ \A o \in Node, q \in Priority : <<o, q>> # <<n, p>> => nwOutQ'[o][q] = nwOutQ[o][q]
         /\ nwOutQ'[n][p] = Tail(nwOutQ[n][p])
<1> DEFINE q == Tail(nwOutQ[n][p])
<1>1. q \in Seq(FramesOf(n, p)) /\ Len(q) < Cnt.nwOut /\ Range(q) \subseteq Range(nwOutQ[n][p])
  <2>1. nwOutQ[n][p] \in Seq(FramesOf(n, p)) /\ Len(nwOutQ[n][p]) < Cnt.nwOut
        /\ Cnt.nwOut \in Nat
    BY Counts DEF NwTyped
  <2> QED
    BY <2>1, TailProperties
<1>2. q \in Seq(Frame)
  BY TailProperties DEF NwTyped
<1>3. q = Tail(nwOutQ[n][p])
  OBVIOUS
<1> HIDE DEF q
<1>4. /\ \A o \in Node, r \in Priority : <<o, r>> # <<n, p>> => nwOutQ'[o][r] = nwOutQ[o][r]
      /\ nwOutQ'[n][p] = q
      /\ nwOutQ' \in [Node -> [Priority -> Seq(Frame)]]
  BY <1>2, <1>3 DEF NwTyped
<1>5. ASSUME NEW o \in Node, NEW r \in Priority
      PROVE  /\ nwOutQ'[o][r] \in Seq(FramesOf(o, r)) /\ Len(nwOutQ'[o][r]) < Cnt.nwOut
             /\ Range(nwOutQ'[o][r]) \subseteq Range(nwOutQ[o][r])
  <2>1. CASE o = n /\ r = p
    BY <1>1, <1>4, <2>1
  <2>2. CASE ~(o = n /\ r = p)
    BY <1>4, <2>2 DEF NwTyped
  <2> QED
    BY <2>1, <2>2
<1> QED
  BY <1>3, <1>4, <1>5 DEF NwTyped

LEMMA DropTyped ==
  ASSUME InTyped, NEW n \in Node, tsaInQ[n] # <<>>, DropReceived(n)
  PROVE  /\ InTyped'
         /\ Head(tsaInQ[n]) \in FramesTo(n) /\ Head(tsaInQ[n]) \in Frame
         /\ Head(tsaInQ[n]) \in Range(tsaInQ[n])
         /\ \A o \in Node : Range(tsaInQ'[o]) \subseteq Range(tsaInQ[o])
         /\ \A o \in Node : o # n => tsaInQ'[o] = tsaInQ[o]
         /\ tsaInQ'[n] = Tail(tsaInQ[n])
<1>1. /\ tsaInQ[n] \in Seq(FramesTo(n)) /\ Len(tsaInQ[n]) < Cnt.tsaIn /\ Cnt.tsaIn \in Nat
      /\ tsaInQ[n] \in Seq(Frame)
  BY Counts DEF InTyped
<1>2. /\ Head(tsaInQ[n]) \in FramesTo(n) /\ Head(tsaInQ[n]) \in Range(tsaInQ[n])
      /\ Tail(tsaInQ[n]) \in Seq(FramesTo(n)) /\ Len(Tail(tsaInQ[n])) < Cnt.tsaIn
      /\ Range(Tail(tsaInQ[n])) \subseteq Range(tsaInQ[n])
  BY <1>1, TailProperties
<1>3. Tail(tsaInQ[n]) \in Seq(Frame)
  BY <1>1, TailProperties
<1>4. /\ tsaInQ' \in [Node -> Seq(Frame)]
      /\ \A o \in Node : o # n => tsaInQ'[o] = tsaInQ[o]
      /\ tsaInQ'[n] = Tail(tsaInQ[n])
  BY <1>3 DEF DropReceived, InTyped
<1> QED
  BY <1>2, <1>4 DEF InTyped, FramesTo

LEMMA ArriveTyped ==
  ASSUME InTyped, NEW f \in Frame, tsaInQ' = [tsaInQ EXCEPT ![f.dst] = Put(@, f, Cnt.tsaIn)]
  PROVE  /\ InTyped'
         /\ \A o \in Node : Range(tsaInQ'[o]) \subseteq Range(tsaInQ[o]) \cup {f}
         /\ \A o \in Node : o # f.dst => tsaInQ'[o] = tsaInQ[o]
         /\ tsaInQ'[f.dst] = Put(tsaInQ[f.dst], f, Cnt.tsaIn)
<1> DEFINE q == Put(tsaInQ[f.dst], f, Cnt.tsaIn)
<1>1. f \in FramesTo(f.dst) /\ f.dst \in Node
  BY FrameKinds DEF FramesTo
<1>2. /\ tsaInQ[f.dst] \in Seq(FramesTo(f.dst)) /\ tsaInQ[f.dst] \in Seq(Frame)
      /\ Len(tsaInQ[f.dst]) < Cnt.tsaIn
  BY <1>1 DEF InTyped
<1>3. Cnt.tsaIn \in Nat \ {0}
  BY Counts
<1>4. /\ q \in Seq(FramesTo(f.dst)) /\ Len(q) < Cnt.tsaIn
      /\ Range(q) \subseteq Range(tsaInQ[f.dst]) \cup {f}
  BY <1>1, <1>2, <1>3, PutProperties
<1>5. q \in Seq(Frame)
  BY <1>2, <1>3, PutProperties
<1>6. /\ tsaInQ' \in [Node -> Seq(Frame)]
      /\ \A o \in Node : o # f.dst => tsaInQ'[o] = tsaInQ[o]
      /\ tsaInQ'[f.dst] = q
  BY <1>1, <1>5 DEF InTyped
<1> QED
  BY <1>4, <1>6 DEF InTyped

\* A record that is written.
LEMMA RecordTyped ==
  ASSUME RecordsTyped, NEW n \in Node, NEW i \in RR, NEW rr \in RecordsOf(n),
         recvRec' = [recvRec EXCEPT ![n][i] = rr]
  PROVE  /\ RecordsTyped'
         /\ recvRec'[n][i] = rr
         /\ \A o \in Node, j \in RR : <<o, j>> # <<n, i>> => recvRec'[o][j] = recvRec[o][j]
<1>1. rr \in Record
  BY DEF RecordsOf
<1>2. /\ recvRec' \in [Node -> [RR -> Record]] /\ recvRec'[n][i] = rr
      /\ \A o \in Node, j \in RR : <<o, j>> # <<n, i>> => recvRec'[o][j] = recvRec[o][j]
  BY <1>1 DEF RecordsTyped
<1>3. ASSUME NEW o \in Node, NEW j \in RR
      PROVE  recvRec'[o][j] \in RecordsOf(o)
  <2>1. CASE o = n /\ j = i
    BY <1>2, <2>1
  <2>2. CASE ~(o = n /\ j = i)
    BY <1>2, <2>2 DEF RecordsTyped
  <2> QED
    BY <2>1, <2>2
<1> QED
  BY <1>2, <1>3 DEF RecordsTyped

\* A record that keeps its source and priority, or takes over ones that no record has.
LEMMA RecordUnambiguous ==
  ASSUME Unambiguous, RecordsTyped, NEW n \in Node, NEW i \in RR, NEW rr \in RecordsOf(n),
         recvRec' = [recvRec EXCEPT ![n][i] = rr],
         \A j \in RR \ {i} : ~(recvRec[n][j].src = rr.src /\ recvRec[n][j].priority = rr.priority)
  PROVE  Unambiguous'
<1>1. /\ recvRec'[n][i] = rr
      /\ \A o \in Node, j \in RR : <<o, j>> # <<n, i>> => recvRec'[o][j] = recvRec[o][j]
  BY RecordTyped
<1>2. ASSUME NEW o \in Node, NEW j \in RR, NEW k \in RR, recvRec'[o][j].src # NoNode,
             recvRec'[o][j].src = recvRec'[o][k].src,
             recvRec'[o][j].priority = recvRec'[o][k].priority
      PROVE  j = k
  <2>1. CASE o # n \/ (j # i /\ k # i)
    BY <1>1, <1>2, <2>1 DEF Unambiguous
  <2>2. CASE o = n /\ j = i /\ k # i
    BY <1>1, <1>2, <2>2
  <2>3. CASE o = n /\ j # i /\ k = i
    BY <1>1, <1>2, <2>3
  <2> QED
    BY <2>1, <2>2, <2>3
<1> QED
  BY <1>2 DEF Unambiguous

LEMMA RecordKept ==
  ASSUME Unambiguous, RecordsTyped, NEW n \in Node, NEW i \in RR, NEW rr \in RecordsOf(n),
         recvRec[n][i].src # NoNode,
         rr.src = recvRec[n][i].src, rr.priority = recvRec[n][i].priority,
         recvRec' = [recvRec EXCEPT ![n][i] = rr]
  PROVE  RecordsTyped' /\ Unambiguous'
<1>1. \A j \in RR \ {i} : ~(recvRec[n][j].src = rr.src /\ recvRec[n][j].priority = rr.priority)
  BY DEF Unambiguous
<1>2. RecordsTyped'
  BY RecordTyped
<1>3. Unambiguous'
  BY <1>1, RecordUnambiguous
<1> QED
  BY <1>2, <1>3

\* Deliver.
LEMMA DeliverTyped ==
  ASSUME AppTyped, DeliveredTyped, NEW n \in Node, NEW rr \in WideRecords(n), Deliver(n, rr)
  PROVE  /\ AppTyped' /\ DeliveredTyped'
         /\ \/ /\ rr.transState \notin Handled /\ DeliveredRecord(rr).transState = "delivered"
               /\ Len(appInQ[n]) < Cnt.appIn - 1
               /\ delivered' = [delivered EXCEPT ![rr.msg] = @ + 1]
            \/ /\ \/ rr.transState \in Handled \/ DeliveredRecord(rr).transState # "delivered"
                  \/ ~(Len(appInQ[n]) < Cnt.appIn - 1)
               /\ UNCHANGED <<appInQ, delivered>>
         /\ \A o \in Node : Range(appInQ'[o]) \subseteq
               Range(appInQ[o]) \cup
               (IF o = n THEN {[msg |-> rr.msg, reqId |-> rr.reqId, auth |-> rr.auth]} ELSE {})
<1> DEFINE cond == /\ rr.transState \notin Handled
                   /\ DeliveredRecord(rr).transState = "delivered"
                   /\ Len(appInQ[n]) < Cnt.appIn - 1
           e == [msg |-> rr.msg, reqId |-> rr.reqId, auth |-> rr.auth]
           q == Append(appInQ[n], e)
<1>1. CASE cond
  <2>1. /\ appInQ' = [appInQ EXCEPT ![n] = q]
        /\ delivered' = [delivered EXCEPT ![rr.msg] = @ + 1]
    BY <1>1 DEF Deliver
  <2>2. e \in Delivery /\ e \in DeliveriesTo(n) /\ rr.msg \in Message
    BY DEF WideRecords, DeliveriesTo, Delivery
  <2>3. /\ appInQ[n] \in Seq(DeliveriesTo(n)) /\ appInQ[n] \in Seq(Delivery)
        /\ Cnt.appIn \in Nat \ {0} /\ Len(appInQ[n]) < Cnt.appIn
    BY Counts DEF AppTyped
  <2>4. q = Put(appInQ[n], e, Cnt.appIn)
    BY <1>1 DEF Put
  <2>7. e = [msg |-> rr.msg, reqId |-> rr.reqId, auth |-> rr.auth]
    OBVIOUS
  <2> HIDE DEF q, e
  <2>5. /\ q \in Seq(DeliveriesTo(n)) /\ Len(q) < Cnt.appIn
        /\ Range(q) \subseteq Range(appInQ[n]) \cup {e}
    BY <2>2, <2>3, <2>4, PutProperties
  <2>6. q \in Seq(Delivery)
    BY <2>2, <2>3, <2>4, PutProperties
  <2>8. /\ appInQ' \in [Node -> Seq(Delivery)] /\ appInQ'[n] = q
        /\ \A o \in Node : o # n => appInQ'[o] = appInQ[o]
    BY <2>1, <2>6 DEF AppTyped
  <2>9. AppTyped'
    BY <2>5, <2>8 DEF AppTyped
  <2>10. DeliveredTyped'
    BY <2>1, <2>2 DEF DeliveredTyped
  <2>11. \A o \in Node : Range(appInQ'[o]) \subseteq
              Range(appInQ[o]) \cup (IF o = n THEN {e} ELSE {})
    BY <2>5, <2>8
  <2> QED
    BY <1>1, <2>1, <2>7, <2>9, <2>10, <2>11
<1>2. CASE ~cond
  <2>1. UNCHANGED <<appInQ, delivered>>
    BY <1>2 DEF Deliver
  <2> QED
    BY <1>2, <2>1 DEF AppTyped, DeliveredTyped
<1> QED
  BY <1>1, <1>2

\* SendAnswer sends an acknowledgement, or a response, or nothing.
LEMMA SendAnswerTyped ==
  ASSUME NwTyped, NEW n \in Node, NEW rr \in RecordsOf(n), SendAnswer(n, rr)
  PROVE  /\ NwTyped'
         /\ \/ UNCHANGED nwOutQ
            \/ /\ rr.status = "transport" /\ rr.msg.service = "ackd"
               /\ rr.transState = "delivered"
               /\ Send(n, FrameBack(n, rr, "ack", NoMsg))
               /\ FrameBack(n, rr, "ack", NoMsg) \in FramesOf(n, rr.priority)
               /\ rr.priority \in Priority
            \/ /\ rr.status = "session" /\ rr.transState = "responded"
               /\ Send(n, FrameBack(n, rr, "response", rr.response))
               /\ FrameBack(n, rr, "response", rr.response) \in FramesOf(n, rr.priority)
               /\ rr.priority \in Priority
<1>1. rr.status # "unused" => rr.src \in Node /\ rr.priority \in Priority
  BY RecordFields
<1>2. rr.transNum \in 0 .. MaxTid
  BY RecordFields
<1>3. CASE rr.status = "transport" /\ rr.msg.service = "ackd" /\ rr.transState = "delivered"
  <2>1. Send(n, FrameBack(n, rr, "ack", NoMsg))
    BY <1>3 DEF SendAnswer
  <2>2. FrameBack(n, rr, "ack", NoMsg) \in FramesOf(n, rr.priority)
    BY <1>1, <1>2, <1>3, FrameOfAnswer DEF FrameBack
  <2> QED
    BY <1>1, <1>3, <2>1, <2>2, SendTyped
<1>4. CASE rr.status = "session" /\ rr.transState = "responded"
  <2>1. Send(n, FrameBack(n, rr, "response", rr.response))
    BY <1>4 DEF SendAnswer
  <2>2. FrameBack(n, rr, "response", rr.response) \in FramesOf(n, rr.priority)
    BY <1>1, <1>2, <1>4, FrameOfAnswer, RecordFields DEF FrameBack
  <2> QED
    BY <1>1, <1>4, <2>1, <2>2, SendTyped
<1>5. CASE /\ ~(rr.status = "transport" /\ rr.msg.service = "ackd" /\ rr.transState = "delivered")
           /\ ~(rr.status = "session" /\ rr.transState = "responded")
  BY <1>5 DEF SendAnswer, NwTyped
<1> QED
  BY <1>3, <1>4, <1>5

\* SendCompletion: an entry for the application, and one message less to send.
LEMMA CompletionTyped ==
  ASSUME OutTyped, EventTyped, NEW n \in Node, NEW p \in Priority, tsaOutQ[n][p] # <<>>,
         NEW q \in Seq(EventsOf(n)), Len(q) < Cnt.appCeRsp, NEW success \in BOOLEAN,
         SendCompletion(n, p, q, success)
  PROVE  /\ OutTyped' /\ EventTyped'
         /\ tsaOutQ'[n][p] = Tail(tsaOutQ[n][p])
         /\ \A o \in Node, r \in Priority : <<o, r>> # <<n, p>> => tsaOutQ'[o][r] = tsaOutQ[o][r]
         /\ appCeRspInQ'[n] = Put(q, Completion(Head(tsaOutQ[n][p]), success), Cnt.appCeRsp)
         /\ \A o \in Node : o # n => appCeRspInQ'[o] = appCeRspInQ[o]
         /\ Completion(Head(tsaOutQ[n][p]), success) \in EventsOf(n)
<1> DEFINE m == Head(tsaOutQ[n][p])
           e == Completion(m, success)
           t == Tail(tsaOutQ[n][p])
           z == Put(q, e, Cnt.appCeRsp)
<1>1. /\ tsaOutQ[n][p] \in Seq(MessagesOf(n, p)) /\ Len(tsaOutQ[n][p]) < Cnt.tsaOut
      /\ tsaOutQ[n][p] \in Seq(Message)
      /\ Cnt.tsaOut \in Nat \ {0} /\ Cnt.appCeRsp \in Nat \ {0}
  BY Counts DEF OutTyped
<1>2. m \in MessagesOf(n, p) /\ t \in Seq(MessagesOf(n, p)) /\ Len(t) < Cnt.tsaOut
  BY <1>1, TailProperties
<1>3. t \in Seq(Message)
  BY <1>1, TailProperties
<1>4. e \in Event /\ e \in EventsOf(n)
  BY <1>2 DEF MessagesOf, Event, EventsOf, Completion
<1>5. z \in Seq(EventsOf(n)) /\ Len(z) < Cnt.appCeRsp
  BY <1>1, <1>4, PutProperties
<1>6. z \in Seq(Event)
  BY <1>5, SeqMonotonic DEF EventsOf
<1>7. tsaOutQ' = [tsaOutQ EXCEPT ![n][p] = t] /\ appCeRspInQ' = [appCeRspInQ EXCEPT ![n] = z]
  BY DEF SendCompletion
<1>8. e = Completion(Head(tsaOutQ[n][p]), success) /\ t = Tail(tsaOutQ[n][p])
      /\ z = Put(q, e, Cnt.appCeRsp)
  OBVIOUS
<1> HIDE DEF m, e, t, z
<1>9. /\ tsaOutQ' \in [Node -> [Priority -> Seq(Message)]]
      /\ tsaOutQ'[n][p] = t
      /\ \A o \in Node, r \in Priority : <<o, r>> # <<n, p>> => tsaOutQ'[o][r] = tsaOutQ[o][r]
  BY <1>3, <1>7 DEF OutTyped
<1>10. /\ appCeRspInQ' \in [Node -> Seq(Event)] /\ appCeRspInQ'[n] = z
       /\ \A o \in Node : o # n => appCeRspInQ'[o] = appCeRspInQ[o]
  BY <1>6, <1>7 DEF EventTyped
<1>11. ASSUME NEW o \in Node, NEW r \in Priority
       PROVE  tsaOutQ'[o][r] \in Seq(MessagesOf(o, r)) /\ Len(tsaOutQ'[o][r]) < Cnt.tsaOut
  <2>1. CASE o = n /\ r = p
    BY <1>2, <1>9, <2>1
  <2>2. CASE ~(o = n /\ r = p)
    BY <1>9, <2>2 DEF OutTyped
  <2> QED
    BY <2>1, <2>2
<1>12. OutTyped'
  BY <1>9, <1>11 DEF OutTyped
<1>13. EventTyped'
  BY <1>5, <1>10 DEF EventTyped
<1> QED
  BY <1>4, <1>8, <1>9, <1>10, <1>12, <1>13

-----------------------------------------------------------------------------
(* What the actions that handle records do.                                *)

\* The same record, but for its state, the random value and the need of authentication.
SameRecord(d, rr) ==
    /\ d.src = rr.src /\ d.priority = rr.priority /\ d.status = rr.status
    /\ d.transNum = rr.transNum /\ d.msg = rr.msg /\ d.reqId = rr.reqId
    /\ d.auth = rr.auth /\ d.response = rr.response

\* Record rr of node n, in place i, becomes d as it is delivered.
DeliveredAs(n, rr, d) ==
    /\ d = DeliveredRecord(rr) /\ SameRecord(d, rr) /\ d.transState \in Handled
    /\ d.transState = "responded" => rr.transState = "responded"
    /\ d.transState = "delivered" =>
          \/ rr.transState = "delivered"
          \/ rr.transState \notin Handled /\ DeliveredRecord(rr).transState = "delivered"
    /\ Deliver(n, rr) /\ SendAnswer(n, d)

\* Frame f, which carries a message, is received by node n in record i, which holds rr
\* before it is acted upon, and d afterwards.
HeardAs(n, layer, f, i, rr, d) ==
    /\ tsaInQ[n] # <<>> /\ f = Head(tsaInQ[n]) /\ f \in FramesTo(n) /\ f \in Range(tsaInQ[n])
    /\ f.kind \in MessageKinds(layer) /\ f.body \in Message /\ layer = Layer(f.body)
    /\ f = MessageFrame(f.body, f.transNum) /\ f.transNum \in 0 .. MaxTid
    /\ f.src \in Node /\ f.src = f.body.src /\ f.priority = f.body.priority /\ f.body.dst = n
    /\ i \in RR
    /\ \/ i \in RetrieveRR(n, f)
       \/ RetrieveRR(n, f) = {} /\ recvRec[n][i].status = "unused"
    /\ rr \in WideRecords(n)
    /\ rr.src = f.src /\ rr.priority = f.priority /\ rr.status = layer
    /\ rr.transNum = f.transNum /\ rr.needAuth = f.body.auth
    /\ Known(n, i, f, layer) =>
          /\ recvRec[n][i].src # NoNode /\ SameRecord(rr, recvRec[n][i])
          /\ rr.transState = recvRec[n][i].transState
    /\ ~Known(n, i, f, layer) =>
          /\ rr.msg = f.body /\ rr.transState = "just_received" /\ ~rr.auth
          /\ rr.reqId = IF layer = "session" THEN ThisReqId(n) ELSE 0
    /\ d \in RecordsOf(n)
    /\ recvRec' = [recvRec EXCEPT ![n][i] = d]
    /\ reqId' = IF layer = "transport" \/ Known(n, i, f, layer) THEN reqId
                ELSE [reqId EXCEPT ![n] = (ThisReqId(n) + 1) % (MaxReqId + 1)]
    /\ \/ /\ NeedsChallenge(rr)
          /\ SameRecord(d, rr) /\ d.transState = "authenticating"
          /\ \E r \in Nonce : /\ Send(n, FrameBack(n, rr, "challenge", r))
                              /\ FrameBack(n, rr, "challenge", r) \in FramesOf(n, rr.priority)
          /\ UNCHANGED <<appInQ, delivered>>
       \/ /\ ~NeedsChallenge(rr)
          /\ DeliveredAs(n, rr, d)
    /\ DropReceived(n)
    /\ UNCHANGED <<sendVars, tsaRespQ, appCeRspInQ, resets, submitted, told>>

LEMMA Hears ==
  ASSUME TypeOK, NEW n \in Node, NEW layer \in {"transport", "session"},
         ReceiveNewMsg(n, layer)
  PROVE  \E f, i, rr, d : HeardAs(n, layer, f, i, rr, d)
<1> DEFINE f == Head(tsaInQ[n])
<1>1. tsaInQ[n] # <<>> /\ f.kind \in MessageKinds(layer) /\ DropReceived(n)
  BY DEF ReceiveNewMsg, FrameOf
<1>2. f \in FramesTo(n) /\ f \in Range(tsaInQ[n]) /\ f \in Frame
  BY <1>1, DropTyped, TypeParts
<1> DEFINE R(i) == RecordWith(n, i, f, layer)
<1>3. PICK i \in RecordFor(n, f) :
         /\ reqId' = IF layer = "transport" \/ Known(n, i, f, layer) THEN reqId
                     ELSE [reqId EXCEPT ![n] = (ThisReqId(n) + 1) % (MaxReqId + 1)]
         /\ \/ /\ NeedsChallenge(R(i))
               /\ InitiateChallenge(n, i, R(i))
               /\ UNCHANGED <<appInQ, delivered>>
            \/ /\ ~NeedsChallenge(R(i))
               /\ recvRec' = [recvRec EXCEPT ![n][i] = DeliveredRecord(R(i))]
               /\ Deliver(n, R(i))
               /\ SendAnswer(n, DeliveredRecord(R(i)))
  BY DEF ReceiveNewMsg
<1>4. UNCHANGED <<sendVars, tsaRespQ, appCeRspInQ, resets, submitted, told>>
  BY DEF ReceiveNewMsg
<1>5. PICK rr : rr = R(i)
  OBVIOUS
<1>6. f.kind \in Service
  BY <1>1 DEF MessageKinds, Service
<1>7. /\ f.body \in Message /\ f = MessageFrame(f.body, f.transNum)
      /\ f.transNum \in 0 .. MaxTid /\ f.src \in Node
      /\ f.src = f.body.src /\ f.priority = f.body.priority /\ f.body.dst = n
      /\ f.priority \in Priority
  BY <1>2, <1>6, FrameKinds DEF FramesTo
<1> HIDE DEF f
<1>8. /\ i \in RR
      /\ \/ i \in RetrieveRR(n, f)
         \/ RetrieveRR(n, f) = {} /\ recvRec[n][i].status = "unused"
  BY <1>3, RecordForFinds
<1>9. /\ rr \in WideRecords(n) /\ layer = Layer(f.body)
      /\ rr.src = f.src /\ rr.priority = f.priority /\ rr.status = layer
      /\ rr.transNum = f.transNum /\ rr.needAuth = f.body.auth
      /\ Known(n, i, f, layer) =>
            /\ recvRec[n][i].src # NoNode /\ SameRecord(rr, recvRec[n][i])
            /\ rr.transState = recvRec[n][i].transState
            /\ rr.rand = recvRec[n][i].rand
      /\ ~Known(n, i, f, layer) =>
            /\ rr.msg = f.body /\ rr.transState = "just_received" /\ ~rr.auth
            /\ rr.reqId = IF layer = "session" THEN ThisReqId(n) ELSE 0
  BY <1>1, <1>2, <1>3, <1>5, RecordWithIs DEF SameRecord
<1> HIDE DEF R
<1>10. CASE NeedsChallenge(rr)
  <2>1. InitiateChallenge(n, i, rr) /\ UNCHANGED <<appInQ, delivered>>
    BY <1>3, <1>5, <1>10
  <2>2. PICK r \in IF rr.transState = "authenticating" THEN {rr.rand} ELSE Nonce :
           /\ recvRec' = [recvRec EXCEPT ![n][i] =
                  [rr EXCEPT !.transState = "authenticating", !.rand = r]]
           /\ Send(n, FrameBack(n, rr, "challenge", r))
    BY <2>1 DEF InitiateChallenge
  <2>3. r \in Nonce
    BY <1>9, <2>2 DEF WideRecords
  <2>4. PICK d : d = [rr EXCEPT !.transState = "authenticating", !.rand = r]
    OBVIOUS
  <2>5. SameRecord(d, rr) /\ d.transState = "authenticating"
    BY <1>9, <2>4 DEF WideRecords, SameRecord
  <2>6. d \in WideRecords(n)
    BY <1>9, <2>3, <2>4 DEF WideRecords
  <2>7. d \in RecordsOf(n)
    BY <2>5, <2>6, WideRecordsAreWide
  <2>8. FrameBack(n, rr, "challenge", r) \in FramesOf(n, rr.priority)
    BY <1>7, <1>9, <2>3, FrameOfAnswer DEF FrameBack
  <2>9. recvRec' = [recvRec EXCEPT ![n][i] = d]
    BY <2>2, <2>4
  <2>10. HeardAs(n, layer, f, i, rr, d)
    BY <1>1, <1>2, <1>3, <1>4, <1>7, <1>8, <1>9, <1>10, <2>1, <2>2, <2>3, <2>5, <2>7, <2>8, <2>9
       DEF HeardAs, f
  <2> QED
    BY <2>10
<1>11. CASE ~NeedsChallenge(rr)
  <2>1. PICK d : d = DeliveredRecord(rr)
    OBVIOUS
  <2>2. recvRec' = [recvRec EXCEPT ![n][i] = d] /\ Deliver(n, rr) /\ SendAnswer(n, d)
    BY <1>3, <1>5, <1>11, <2>1
  <2>3. d \in RecordsOf(n) /\ DeliveredAs(n, rr, d)
    BY <1>9, <2>1, <2>2, DeliveredRecordIs DEF DeliveredAs, SameRecord
  <2>4. HeardAs(n, layer, f, i, rr, d)
    BY <1>1, <1>2, <1>3, <1>4, <1>7, <1>8, <1>9, <1>11, <2>2, <2>3 DEF HeardAs, f
  <2> QED
    BY <2>4
<1> QED
  BY <1>10, <1>11

\* Reply f settles the challenge in record i of node n, which holds rr before it is
\* delivered, and d afterwards.
RepliedAs(n, f, i, rr, d) ==
    /\ tsaInQ[n] # <<>> /\ f = Head(tsaInQ[n]) /\ f \in FramesTo(n) /\ f \in Frame
    /\ f.kind = "reply"
    /\ i \in RR /\ recvRec[n][i].src = f.src /\ recvRec[n][i].src # NoNode
    /\ recvRec[n][i].transState = "authenticating"
    /\ rr \in WideRecords(n) /\ rr.transState = "authenticated"
    /\ rr.src = recvRec[n][i].src /\ rr.priority = recvRec[n][i].priority
    /\ rr.status = recvRec[n][i].status /\ rr.transNum = recvRec[n][i].transNum
    /\ rr.msg = recvRec[n][i].msg /\ rr.reqId = recvRec[n][i].reqId
    /\ rr.response = recvRec[n][i].response
    /\ rr.auth => Key[f.src] = Key[n]
    /\ d \in RecordsOf(n)
    /\ recvRec' = [recvRec EXCEPT ![n][i] = d]
    /\ DeliveredAs(n, rr, d)
    /\ DropReceived(n)
    /\ UNCHANGED <<sendVars, reqId, tsaRespQ, appCeRspInQ, resets, submitted, told>>

LEMMA Replies ==
  ASSUME TypeOK, NEW n \in Node, ProcessReply(n)
  PROVE  \E f, i, rr, d : RepliedAs(n, f, i, rr, d)
<1> DEFINE f == Head(tsaInQ[n])
<1>1. tsaInQ[n] # <<>> /\ f.kind = "reply" /\ DropReceived(n)
  BY DEF ProcessReply, FrameOf
<1>2. f \in FramesTo(n) /\ f \in Frame
  BY <1>1, DropTyped, TypeParts
<1> DEFINE A(i) == f.body = Crypto(recvRec[n][i].rand, recvRec[n][i].msg.apdu, Key[n])
           R(i) == [recvRec[n][i] EXCEPT !.transState = "authenticated", !.auth = A(i)]
<1>3. PICK i \in Challenged(n, f) :
         /\ recvRec' = [recvRec EXCEPT ![n][i] = DeliveredRecord(R(i))]
         /\ Deliver(n, R(i))
         /\ SendAnswer(n, DeliveredRecord(R(i)))
  BY DEF ProcessReply
<1>4. UNCHANGED <<sendVars, reqId, tsaRespQ, appCeRspInQ, resets, submitted, told>>
  BY DEF ProcessReply
<1>5. PICK a \in BOOLEAN : a = A(i)
  OBVIOUS
<1>6. a => Key[f.src] = Key[n]
  <2>1. f.body.key = Key[f.src]
    BY <1>1, <1>2, FrameKinds
  <2>2. A(i) => f.body.key = Key[n]
    BY DEF Crypto
  <2> HIDE DEF A
  <2>3. a => A(i)
    BY <1>5, Zenon
  <2> QED
    BY <2>1, <2>2, <2>3
<1> HIDE DEF f, A
<1>7. /\ i \in RR /\ recvRec[n][i].src = f.src
      /\ recvRec[n][i].transState = "authenticating"
  BY <1>3, RetrieveRRFinds DEF Challenged
<1>8. recvRec[n][i] \in RecordsOf(n)
  BY <1>7 DEF TypeOK
<1>9. recvRec[n][i].src # NoNode /\ recvRec[n][i] \in WideRecords(n)
  BY <1>7, <1>8, RecordFields, WideRecordsAreWide
<1>10. PICK old : old = recvRec[n][i]
  OBVIOUS
<1>11. PICK rr : rr = [old EXCEPT !.transState = "authenticated", !.auth = a]
  OBVIOUS
<1>12. rr = R(i)
  BY <1>5, <1>10, <1>11
<1>13. rr \in WideRecords(n) /\ rr.transState = "authenticated" /\ rr.auth = a
  <2>1. old \in WideRecords(n)
    BY <1>9, <1>10
  <2>2. rr \in WideRecords(n)
    BY <2>1, <1>5, <1>11 DEF WideRecords
  <2>3. rr.transState = "authenticated" /\ rr.auth = a
    BY <2>1, <1>5, <1>11 DEF WideRecords
  <2> QED
    BY <2>2, <2>3
<1>14. /\ rr.src = old.src /\ rr.priority = old.priority
       /\ rr.status = old.status /\ rr.transNum = old.transNum
       /\ rr.msg = old.msg /\ rr.reqId = old.reqId /\ rr.response = old.response
  BY <1>9, <1>10, <1>11 DEF WideRecords
<1> HIDE DEF R
<1>15. PICK d : d = DeliveredRecord(rr)
  OBVIOUS
<1>16. recvRec' = [recvRec EXCEPT ![n][i] = d] /\ Deliver(n, rr) /\ SendAnswer(n, d)
  BY <1>3, <1>12, <1>15
<1>17. d \in RecordsOf(n) /\ DeliveredAs(n, rr, d)
  BY <1>13, <1>15, <1>16, DeliveredRecordIs DEF DeliveredAs, SameRecord
<1>18. RepliedAs(n, f, i, rr, d)
  BY <1>1, <1>2, <1>4, <1>6, <1>7, <1>9, <1>10, <1>13, <1>14, <1>16, <1>17 DEF RepliedAs, f
<1> QED
  BY <1>18

\* Response r is saved in record i of node n, which becomes d, and sent, unless it is null.
RespondedAs(n, r, i, d) ==
    /\ r \in AnsweredBy(n) /\ i \in RR
    /\ recvRec[n][i].status = "session" /\ recvRec[n][i].reqId = r.reqId
    /\ recvRec[n][i].transState = "delivered" /\ recvRec[n][i].src # NoNode
    /\ d \in RecordsOf(n)
    /\ d.src = recvRec[n][i].src /\ d.priority = recvRec[n][i].priority
    /\ d.status = recvRec[n][i].status /\ d.transNum = recvRec[n][i].transNum
    /\ d.msg = recvRec[n][i].msg /\ d.reqId = recvRec[n][i].reqId
    /\ d.auth = recvRec[n][i].auth /\ d.response = r.body
    /\ d.transState \in {"done", "responded"}
    /\ recvRec' = [recvRec EXCEPT ![n][i] = d]
    /\ SendAnswer(n, d)

LEMMA ResponseBody ==
  ASSUME NEW n \in Node, NEW r \in AnsweredBy(n)
  PROVE  r.body \in Message /\ r.body.dst = n
BY DEF AnsweredBy, Answered

LEMMA Responds ==
  ASSUME TypeOK, NEW n \in Node, SendResponse(n)
  PROVE  /\ tsaRespQ[n] # <<>> /\ tsaRespQ' = [tsaRespQ EXCEPT ![n] = Tail(@)]
         /\ Head(tsaRespQ[n]) \in AnsweredBy(n)
         /\ UNCHANGED <<sendVars, reqId, tsaInQ, appInQ, appCeRspInQ, resets, submitted,
                        delivered, told>>
         /\ \/ UNCHANGED <<recvRec, nwOutQ>>
            \/ \E i, d : RespondedAs(n, Head(tsaRespQ[n]), i, d)
<1> DEFINE r == Head(tsaRespQ[n])
           S(i) == [recvRec[n][i] EXCEPT !.response = r.body,
                       !.transState = IF r.null THEN "done" ELSE "responded"]
<1>1. /\ tsaRespQ[n] # <<>> /\ tsaRespQ' = [tsaRespQ EXCEPT ![n] = Tail(@)]
      /\ UNCHANGED <<sendVars, reqId, tsaInQ, appInQ, appCeRspInQ, resets, submitted,
                     delivered, told>>
  BY DEF SendResponse
<1>2. \/ UNCHANGED <<recvRec, nwOutQ>>
      \/ \E i \in FindRR(n, r.reqId) :
            /\ recvRec' = [recvRec EXCEPT ![n][i] = S(i)]
            /\ SendAnswer(n, S(i))
  BY DEF SendResponse
<1>3. r \in AnsweredBy(n)
  <2>1. tsaRespQ[n] \in Seq(AnsweredBy(n))
    BY DEF TypeOK
  <2> QED
    BY <1>1, <2>1, TailProperties
<1>4. ASSUME NEW i \in FindRR(n, r.reqId),
             recvRec' = [recvRec EXCEPT ![n][i] = S(i)], SendAnswer(n, S(i))
      PROVE  \E j, d : RespondedAs(n, r, j, d)
  <2>1. /\ i \in RR /\ recvRec[n][i].status = "session" /\ recvRec[n][i].reqId = r.reqId
        /\ recvRec[n][i].transState = "delivered"
    BY DEF FindRR, First
  <2>2. recvRec[n][i].src # NoNode /\ recvRec[n][i] \in WideRecords(n)
    <3>1. recvRec[n][i] \in RecordsOf(n)
      BY <2>1 DEF TypeOK
    <3> QED
      BY <2>1, <3>1, RecordFields, WideRecordsAreWide
  <2>3. PICK s : s = IF r.null THEN "done" ELSE "responded"
    OBVIOUS
  <2>4. PICK old : old = recvRec[n][i]
    OBVIOUS
  <2>5. PICK b : b = r.body
    OBVIOUS
  <2>6. s \in {"done", "responded"} /\ old \in WideRecords(n) /\ b \in Message
    BY <1>3, <2>2, <2>3, <2>4, <2>5, ResponseBody
  <2>7. PICK d : d = [old EXCEPT !.response = b, !.transState = s]
    OBVIOUS
  <2>8. d = S(i)
    BY <2>3, <2>4, <2>5, <2>7
  <2>9. d \in WideRecords(n)
    BY <2>6, <2>7 DEF WideRecords, Handled
  <2>10. /\ d.src = old.src /\ d.priority = old.priority
         /\ d.status = old.status /\ d.transNum = old.transNum
         /\ d.msg = old.msg /\ d.reqId = old.reqId /\ d.auth = old.auth
         /\ d.response = b /\ d.transState = s
    BY <2>6, <2>7 DEF WideRecords
  <2>11. d \in RecordsOf(n)
    BY <2>6, <2>9, <2>10, WideRecordsAreWide DEF Handled
  <2>12. recvRec' = [recvRec EXCEPT ![n][i] = d] /\ SendAnswer(n, d)
    BY <1>4, <2>8
  <2>13. RespondedAs(n, r, i, d)
    BY <1>3, <2>1, <2>2, <2>4, <2>5, <2>6, <2>10, <2>11, <2>12 DEF RespondedAs
  <2> QED
    BY <2>13
<1> QED
  BY <1>1, <1>2, <1>3, <1>4

-----------------------------------------------------------------------------
(* Every step keeps the types, and records unambiguous.                    *)

Typed == TypeOK /\ RecordsAreUnambiguous

LEMMA TypedParts ==
  /\ Typed <=> /\ OutTyped /\ XmitTyped /\ NumbersTyped /\ RestartTyped
               /\ RecordsTyped /\ ReqIdTyped /\ NwTyped /\ InTyped /\ RespTyped
               /\ AppTyped /\ EventTyped /\ ResetsTyped /\ SubmittedTyped
               /\ DeliveredTyped /\ ToldTyped /\ InProgress /\ Unambiguous
  /\ Typed' <=> /\ OutTyped' /\ XmitTyped' /\ NumbersTyped' /\ RestartTyped'
                /\ RecordsTyped' /\ ReqIdTyped' /\ NwTyped' /\ InTyped' /\ RespTyped'
                /\ AppTyped' /\ EventTyped' /\ ResetsTyped' /\ SubmittedTyped'
                /\ DeliveredTyped' /\ ToldTyped' /\ InProgress' /\ Unambiguous'
BY DEF Typed, RecordsAreUnambiguous, TypeOK, OutTyped, XmitTyped, NumbersTyped, RestartTyped,
   RecordsTyped, ReqIdTyped, NwTyped, InTyped, RespTyped, AppTyped, EventTyped, ResetsTyped,
   SubmittedTyped, DeliveredTyped, ToldTyped, InProgress, Unambiguous

LEMMA TypedNow ==
  ASSUME Typed
  PROVE  OutTyped /\ RecordsTyped /\ RespTyped /\ AppTyped /\ InProgress
BY TypedParts

LEMMA TypedNext ==
  ASSUME Typed'
  PROVE  RespTyped' /\ AppTyped'
BY TypedParts

LEMMA TypedUnchanged ==
  /\ OutTyped /\ UNCHANGED tsaOutQ => OutTyped'
  /\ XmitTyped /\ UNCHANGED xmitRec => XmitTyped'
  /\ NumbersTyped /\ UNCHANGED <<transID, lastTid>> => NumbersTyped'
  /\ RestartTyped /\ UNCHANGED restart => RestartTyped'
  /\ RecordsTyped /\ UNCHANGED recvRec => RecordsTyped'
  /\ ReqIdTyped /\ UNCHANGED reqId => ReqIdTyped'
  /\ NwTyped /\ UNCHANGED nwOutQ => NwTyped'
  /\ InTyped /\ UNCHANGED tsaInQ => InTyped'
  /\ RespTyped /\ UNCHANGED tsaRespQ => RespTyped'
  /\ AppTyped /\ UNCHANGED appInQ => AppTyped'
  /\ EventTyped /\ UNCHANGED appCeRspInQ => EventTyped'
  /\ ResetsTyped /\ UNCHANGED resets => ResetsTyped'
  /\ SubmittedTyped /\ UNCHANGED submitted => SubmittedTyped'
  /\ DeliveredTyped /\ UNCHANGED delivered => DeliveredTyped'
  /\ ToldTyped /\ UNCHANGED <<outcome, answers>> => ToldTyped'
  /\ InProgress /\ UNCHANGED <<tsaOutQ, xmitRec>> => InProgress'
  /\ Unambiguous /\ UNCHANGED recvRec => Unambiguous'
BY DEF OutTyped, XmitTyped, NumbersTyped, RestartTyped, RecordsTyped, ReqIdTyped, NwTyped,
   InTyped, RespTyped, AppTyped, EventTyped, ResetsTyped, SubmittedTyped, DeliveredTyped,
   ToldTyped, InProgress, Unambiguous

LEMMA TypedInit == Init => Typed
<1> SUFFICES ASSUME Init PROVE Typed
  OBVIOUS
<1> USE DEF Init
<1>1. \A c \in {"nwOut", "tsaIn", "tsaOut", "tsaResp", "appIn", "appCeRsp"} : 0 < Cnt[c]
  BY Counts
<1>2. \A S : <<>> \in Seq(S) /\ Len(<<>>) = 0
  BY EmptySeq
<1>3. OutTyped /\ NwTyped
  BY <1>1, <1>2 DEF OutTyped, NwTyped
<1>4. InTyped /\ RespTyped /\ AppTyped /\ EventTyped
  BY <1>1, <1>2 DEF InTyped, RespTyped, AppTyped, EventTyped
<1>5. XmitTyped /\ NumbersTyped /\ InProgress
  BY TsaAssumption DEF XmitTyped, NumbersTyped, InProgress, UnusedTx, NoTid
<1>6. BlankRecord \in Record /\ BlankRecord.src = NoNode
  BY DEF Record, BlankRecord
<1>7. RecordsTyped /\ Unambiguous
  BY <1>6 DEF RecordsTyped, Unambiguous, RecordsOf
<1>8. ReqIdTyped /\ RestartTyped /\ ResetsTyped /\ SubmittedTyped /\ DeliveredTyped
  BY TsaAssumption DEF ReqIdTyped, RestartTyped, ResetsTyped, SubmittedTyped, DeliveredTyped
<1>9. ToldTyped
  BY <1>2 DEF ToldTyped
<1> QED
  BY <1>3, <1>4, <1>5, <1>7, <1>8, <1>9, TypedParts

\* The message that a node is sending.
LEMMA HeadMessage ==
  ASSUME OutTyped, NEW n \in Node, NEW p \in Priority, tsaOutQ[n][p] # <<>>
  PROVE  /\ Head(tsaOutQ[n][p]) \in Message
         /\ Head(tsaOutQ[n][p]).src = n /\ Head(tsaOutQ[n][p]).priority = p
         /\ Head(tsaOutQ[n][p]).dst \in Node
         /\ Layer(Head(tsaOutQ[n][p])) \in {"transport", "session"}
<1>1. tsaOutQ[n][p] \in Seq(MessagesOf(n, p))
  BY DEF OutTyped
<1>2. Head(tsaOutQ[n][p]) \in MessagesOf(n, p)
  BY <1>1, TailProperties
<1> QED
  BY <1>2, TsaAssumption DEF MessagesOf, Layer

LEMMA SubmitTyped ==
  ASSUME Typed, NEW m \in Message, Submit(m)
  PROVE  /\ Typed'
         /\ tsaOutQ'[m.src][m.priority] = Put(tsaOutQ[m.src][m.priority], m, Cnt.tsaOut)
         /\ \A o \in Node, r \in Priority :
               <<o, r>> # <<m.src, m.priority>> => tsaOutQ'[o][r] = tsaOutQ[o][r]
<1> DEFINE n == m.src
           p == m.priority
           q == Put(tsaOutQ[n][p], m, Cnt.tsaOut)
<1> USE TypedParts
<1>1. n \in Node /\ p \in Priority /\ m \in MessagesOf(n, p)
  BY TsaAssumption DEF MessagesOf
<1>2. /\ tsaOutQ[n][p] \in Seq(MessagesOf(n, p)) /\ tsaOutQ[n][p] \in Seq(Message)
      /\ Len(tsaOutQ[n][p]) < Cnt.tsaOut
  BY <1>1 DEF OutTyped
<1>3. Cnt.tsaOut \in Nat \ {0}
  BY Counts
<1>4. /\ q \in Seq(MessagesOf(n, p)) /\ Len(q) < Cnt.tsaOut
      /\ tsaOutQ[n][p] # <<>> => q # <<>> /\ Head(q) = Head(tsaOutQ[n][p])
  BY <1>1, <1>2, <1>3, PutProperties
<1>5. q \in Seq(Message)
  BY <1>2, <1>3, PutProperties
<1>6. tsaOutQ' = [tsaOutQ EXCEPT ![n][p] = q]
  BY DEF Submit
<1>7. q = Put(tsaOutQ[n][p], m, Cnt.tsaOut)
  OBVIOUS
<1> HIDE DEF n, p, q
<1>8. /\ tsaOutQ' \in [Node -> [Priority -> Seq(Message)]]
      /\ tsaOutQ'[n][p] = q
      /\ \A o \in Node, r \in Priority : <<o, r>> # <<n, p>> => tsaOutQ'[o][r] = tsaOutQ[o][r]
  BY <1>1, <1>5, <1>6 DEF OutTyped
<1>9. ASSUME NEW o \in Node, NEW r \in Priority
      PROVE  /\ tsaOutQ'[o][r] \in Seq(MessagesOf(o, r)) /\ Len(tsaOutQ'[o][r]) < Cnt.tsaOut
             /\ tsaOutQ[o][r] # <<>> =>
                   tsaOutQ'[o][r] # <<>> /\ Head(tsaOutQ'[o][r]) = Head(tsaOutQ[o][r])
  <2>1. CASE o = n /\ r = p
    BY <1>4, <1>8, <2>1
  <2>2. CASE ~(o = n /\ r = p)
    BY <1>8, <2>2 DEF OutTyped
  <2> QED
    BY <2>1, <2>2
<1>10. OutTyped' /\ SubmittedTyped'
  BY <1>8, <1>9 DEF OutTyped, SubmittedTyped, Submit
<1>11. InProgress'
  BY <1>9 DEF InProgress, Submit
<1>12. UNCHANGED <<xmitRec, transID, lastTid, restart, recvRec, reqId, tsaInQ, nwOutQ,
                   tsaRespQ, appInQ, appCeRspInQ, resets, delivered, outcome, answers>>
  BY DEF Submit, recvVars, appVars, told
<1> QED
  BY <1>7, <1>8, <1>10, <1>11, <1>12, TypedUnchanged DEF n, p

LEMMA CompleteAtOnceTyped ==
  ASSUME Typed, NEW n \in Node, NEW p \in Priority, NEW layer, CompleteAtOnce(n, p, layer)
  PROVE  LET m == Head(tsaOutQ[n][p])
             success == m.check = "lastTag"
         IN  /\ Typed'
             /\ restart[n] = "over" /\ xmitRec[n][p].status = "unused"
             /\ tsaOutQ[n][p] # <<>> /\ m.check # "ok"
             /\ tsaOutQ'[n][p] = Tail(tsaOutQ[n][p])
             /\ \A o \in Node, r \in Priority :
                   <<o, r>> # <<n, p>> => tsaOutQ'[o][r] = tsaOutQ[o][r]
             /\ appCeRspInQ'[n] = Put(appCeRspInQ[n], Completion(m, success), Cnt.appCeRsp)
             /\ \A o \in Node : o # n => appCeRspInQ'[o] = appCeRspInQ[o]
             /\ Completion(m, success) \in EventsOf(n)
             /\ UNCHANGED <<xmitRec, transID, lastTid, restart, recvVars, tsaInQ, nwOutQ,
                            tsaRespQ, appInQ, resets, submitted, delivered, told>>
<1> USE TypedParts
<1>1. /\ tsaOutQ[n][p] # <<>> /\ xmitRec[n][p].status = "unused"
      /\ restart[n] = "over" /\ Head(tsaOutQ[n][p]).check # "ok"
      /\ SendCompletion(n, p, appCeRspInQ[n], Head(tsaOutQ[n][p]).check = "lastTag")
      /\ UNCHANGED <<xmitRec, transID, lastTid, restart, recvVars, tsaInQ, nwOutQ,
                     tsaRespQ, appInQ, resets, submitted, delivered, told>>
  BY DEF CompleteAtOnce, Waiting, Turn
<1>2. appCeRspInQ[n] \in Seq(EventsOf(n)) /\ Len(appCeRspInQ[n]) < Cnt.appCeRsp
  BY DEF EventTyped
<1> DEFINE success == Head(tsaOutQ[n][p]).check = "lastTag"
<1>3. success \in BOOLEAN /\ SendCompletion(n, p, appCeRspInQ[n], success)
  BY <1>1
<1> HIDE DEF success
<1>4. /\ OutTyped' /\ EventTyped'
      /\ tsaOutQ'[n][p] = Tail(tsaOutQ[n][p])
      /\ \A o \in Node, r \in Priority : <<o, r>> # <<n, p>> => tsaOutQ'[o][r] = tsaOutQ[o][r]
      /\ appCeRspInQ'[n] = Put(appCeRspInQ[n], Completion(Head(tsaOutQ[n][p]), success),
                               Cnt.appCeRsp)
      /\ \A o \in Node : o # n => appCeRspInQ'[o] = appCeRspInQ[o]
      /\ Completion(Head(tsaOutQ[n][p]), success) \in EventsOf(n)
  BY <1>1, <1>2, <1>3, CompletionTyped
<1>5. UNCHANGED <<xmitRec, transID, lastTid, restart, recvRec, reqId, tsaInQ, nwOutQ,
                  tsaRespQ, appInQ, resets, submitted, delivered, outcome, answers>>
  BY <1>1 DEF recvVars, told
<1>6. InProgress'
  BY <1>1, <1>4, <1>5 DEF InProgress
<1>7. Typed'
  BY <1>4, <1>5, <1>6, TypedUnchanged
<1> QED
  BY <1>1, <1>4, <1>7 DEF success

\* Numbers stay numbers.
LEMMA TidType ==
  ASSUME NumbersTyped, NEW n \in Node, NEW p \in Priority, NEW d \in Node
  PROVE  /\ Bump(transID[n][p]) \in 0 .. MaxTid
         /\ NewTid(n, p, d) \in 0 .. MaxTid
         /\ transID[n][p] < MaxTid => NewTid(n, p, d) >= transID[n][p]
         /\ transID[n][p] < MaxTid => Bump(transID[n][p]) = transID[n][p] + 1
<1>1. transID[n][p] \in 0 .. MaxTid /\ MaxTid \in Nat \ {0, 1}
  BY TsaAssumption DEF NumbersTyped
<1>2. /\ Bump(transID[n][p]) \in 0 .. MaxTid
      /\ transID[n][p] < MaxTid => Bump(transID[n][p]) = transID[n][p] + 1
  BY <1>1 DEF Bump
<1> QED
  BY <1>1, <1>2 DEF NewTid

\* The message at the head of a queue is sent for the first time, as frame f.
SentAs(n, p, layer, m, t) ==
    /\ restart[n] = "over" /\ xmitRec[n][p].status = "unused" /\ tsaOutQ[n][p] # <<>>
    /\ m = Head(tsaOutQ[n][p]) /\ m \in Message /\ m.src = n /\ m.priority = p
    /\ m.check = "ok"
    /\ t = NewTid(n, p, m.dst) /\ t \in 0 .. MaxTid
    /\ xmitRec' \in [Node -> [Priority ->
          [status : {"unused", "transport", "session"}, transNum : 0 .. MaxTid,
           retriesLeft : 0 .. Retries, ackCount : {0, 1}]]]
    /\ xmitRec'[n][p].status = Layer(m) /\ xmitRec'[n][p].transNum = t
    /\ xmitRec'[n][p].ackCount = 0
    /\ \A o \in Node, r \in Priority : <<o, r>> # <<n, p>> => xmitRec'[o][r] = xmitRec[o][r]
    /\ transID'[n][p] = t
    /\ \A o \in Node, r \in Priority : <<o, r>> # <<n, p>> => transID'[o][r] = transID[o][r]
    /\ Send(n, MessageFrame(m, t)) /\ MessageFrame(m, t) \in FramesOf(n, p)
    /\ UNCHANGED <<tsaOutQ, restart, recvVars, tsaInQ, appVars, resets, submitted,
                   delivered, told>>

LEMMA SendNewMsgTyped ==
  ASSUME Typed, NEW n \in Node, NEW p \in Priority, NEW layer \in {"transport", "session"},
         SendNewMsg(n, p, layer)
  PROVE  Typed' /\ \E m, t : SentAs(n, p, layer, m, t)
<1> USE TypedParts
<1>1. PICK m : m = Head(tsaOutQ[n][p])
  OBVIOUS
<1>2. PICK t : t = NewTid(n, p, m.dst)
  OBVIOUS
<1>3. PICK x : x = [status |-> layer, transNum |-> t, retriesLeft |-> Retries, ackCount |-> 0]
  OBVIOUS
<1>4. /\ restart[n] = "over" /\ xmitRec[n][p].status = "unused" /\ tsaOutQ[n][p] # <<>>
      /\ Layer(m) = layer /\ m.check = "ok"
      /\ transID' = [transID EXCEPT ![n][p] = t]
      /\ lastTid' = [lastTid EXCEPT ![n][p][m.dst] = t]
      /\ xmitRec' = [xmitRec EXCEPT ![n][p] = x]
      /\ Send(n, MessageFrame(m, t))
      /\ UNCHANGED <<tsaOutQ, restart, recvVars, tsaInQ, appVars, resets, submitted,
                     delivered, told>>
  BY <1>1, <1>2, <1>3 DEF SendNewMsg, Turn, Waiting
<1>5. m \in Message /\ m.src = n /\ m.priority = p /\ m.dst \in Node
  BY <1>1, <1>4, HeadMessage
<1>6. t \in 0 .. MaxTid
  BY <1>2, <1>5, TidType
<1>7. MessageFrame(m, t) \in FramesOf(n, p)
  BY <1>5, <1>6, FrameOfMessage
<1>8. /\ x \in [status : {"unused", "transport", "session"}, transNum : 0 .. MaxTid,
                retriesLeft : 0 .. Retries, ackCount : {0, 1}]
      /\ x.status = layer /\ x.transNum = t /\ x.ackCount = 0
  BY <1>3, <1>6, TsaAssumption
<1>9. /\ XmitTyped' /\ xmitRec'[n][p] = x
      /\ \A o \in Node, r \in Priority : <<o, r>> # <<n, p>> => xmitRec'[o][r] = xmitRec[o][r]
  BY <1>4, <1>8 DEF XmitTyped
<1>10. /\ transID' \in [Node -> [Priority -> 0 .. MaxTid]] /\ transID'[n][p] = t
       /\ \A o \in Node, r \in Priority : <<o, r>> # <<n, p>> => transID'[o][r] = transID[o][r]
  BY <1>4, <1>6 DEF NumbersTyped
<1>11. lastTid' \in [Node -> [Priority -> [Node -> NoTid .. MaxTid]]]
  BY <1>4, <1>5, <1>6 DEF NumbersTyped, NoTid
<1>12. NumbersTyped'
  BY <1>10, <1>11 DEF NumbersTyped
<1>13. NwTyped'
  BY <1>4, <1>7, SendTyped
<1>14. InProgress'
  BY <1>1, <1>4, <1>8, <1>9 DEF InProgress
<1>15. UNCHANGED <<tsaOutQ, restart, recvRec, reqId, tsaInQ, tsaRespQ, appInQ, appCeRspInQ,
                   resets, submitted, delivered, outcome, answers>>
  BY <1>4 DEF recvVars, appVars, told
<1>16. Typed'
  BY <1>9, <1>12, <1>13, <1>14, <1>15, TypedUnchanged
<1>17. SentAs(n, p, layer, m, t)
  BY <1>1, <1>2, <1>4, <1>5, <1>6, <1>7, <1>8, <1>9, <1>10 DEF SentAs, XmitTyped
<1> QED
  BY <1>16, <1>17

\* The transaction for the message at the head of a queue ends, and its outcome is queued
\* behind q.
EndedAs(n, p, q, success) ==
    /\ xmitRec[n][p].status # "unused" /\ tsaOutQ[n][p] # <<>>
    /\ q \in Seq(EventsOf(n)) /\ success \in BOOLEAN
    /\ tsaOutQ'[n][p] = Tail(tsaOutQ[n][p])
    /\ \A o \in Node, r \in Priority : <<o, r>> # <<n, p>> => tsaOutQ'[o][r] = tsaOutQ[o][r]
    /\ appCeRspInQ'[n] = Put(q, Completion(Head(tsaOutQ[n][p]), success), Cnt.appCeRsp)
    /\ \A o \in Node : o # n => appCeRspInQ'[o] = appCeRspInQ[o]
    /\ Completion(Head(tsaOutQ[n][p]), success) \in EventsOf(n)
    /\ xmitRec'[n][p].status = "unused"
    /\ \A o \in Node, r \in Priority : <<o, r>> # <<n, p>> => xmitRec'[o][r] = xmitRec[o][r]
    /\ transID'[n][p] = Bump(transID[n][p])
    /\ \A o \in Node, r \in Priority : <<o, r>> # <<n, p>> => transID'[o][r] = transID[o][r]

LEMMA TerminateTransTyped ==
  ASSUME Typed, NEW n \in Node, NEW p \in Priority, xmitRec[n][p].status # "unused",
         NEW q \in Seq(EventsOf(n)), Len(q) < Cnt.appCeRsp, NEW acks,
         TerminateTrans(n, p, q, acks), UNCHANGED lastTid
  PROVE  /\ OutTyped' /\ EventTyped' /\ XmitTyped' /\ NumbersTyped' /\ InProgress'
         /\ EndedAs(n, p, q, Head(tsaOutQ[n][p]).service = "unack_rpt" \/ acks = 1)
<1> USE TypedParts
<1>1. tsaOutQ[n][p] # <<>>
  BY DEF InProgress
<1>2. PICK success \in BOOLEAN :
         success = (Head(tsaOutQ[n][p]).service = "unack_rpt" \/ acks = 1)
  OBVIOUS
<1>3. /\ xmitRec' = [xmitRec EXCEPT ![n][p] = UnusedTx]
      /\ transID' = [transID EXCEPT ![n][p] = Bump(@)]
      /\ SendCompletion(n, p, q, success)
  BY <1>2 DEF TerminateTrans
<1>4. /\ OutTyped' /\ EventTyped'
      /\ tsaOutQ'[n][p] = Tail(tsaOutQ[n][p])
      /\ \A o \in Node, r \in Priority : <<o, r>> # <<n, p>> => tsaOutQ'[o][r] = tsaOutQ[o][r]
      /\ appCeRspInQ'[n] = Put(q, Completion(Head(tsaOutQ[n][p]), success), Cnt.appCeRsp)
      /\ \A o \in Node : o # n => appCeRspInQ'[o] = appCeRspInQ[o]
      /\ Completion(Head(tsaOutQ[n][p]), success) \in EventsOf(n)
  BY <1>1, <1>3, CompletionTyped
<1>5. /\ XmitTyped' /\ xmitRec'[n][p].status = "unused"
      /\ \A o \in Node, r \in Priority : <<o, r>> # <<n, p>> => xmitRec'[o][r] = xmitRec[o][r]
  <2>1. /\ UnusedTx \in [status : {"unused", "transport", "session"}, transNum : 0 .. MaxTid,
                         retriesLeft : 0 .. Retries, ackCount : {0, 1}]
        /\ UnusedTx.status = "unused"
    BY TsaAssumption DEF UnusedTx
  <2> QED
    BY <1>3, <2>1 DEF XmitTyped
<1>6. Bump(transID[n][p]) \in 0 .. MaxTid
  BY TidType
<1>7. /\ NumbersTyped' /\ transID'[n][p] = Bump(transID[n][p])
      /\ \A o \in Node, r \in Priority : <<o, r>> # <<n, p>> => transID'[o][r] = transID[o][r]
  BY <1>3, <1>6 DEF NumbersTyped
<1>8. InProgress'
  BY <1>4, <1>5 DEF InProgress
<1>9. EndedAs(n, p, q, success)
  BY <1>1, <1>4, <1>5, <1>7 DEF EndedAs
<1> QED
  BY <1>2, <1>4, <1>5, <1>7, <1>8, <1>9

LEMMA GiveUpTyped ==
  ASSUME Typed, NEW n \in Node, NEW p \in Priority, GiveUp(n, p)
  PROVE  /\ Typed' /\ restart[n] = "over"
         /\ EndedAs(n, p, appCeRspInQ[n],
               Head(tsaOutQ[n][p]).service = "unack_rpt" \/ xmitRec[n][p].ackCount = 1)
         /\ UNCHANGED <<lastTid, restart, recvVars, tsaInQ, nwOutQ, tsaRespQ, appInQ,
                        resets, submitted, delivered, told>>
<1> USE TypedParts
<1>1. /\ xmitRec[n][p].status # "unused" /\ restart[n] = "over"
      /\ TerminateTrans(n, p, appCeRspInQ[n], xmitRec[n][p].ackCount)
      /\ UNCHANGED <<lastTid, restart, recvVars, tsaInQ, nwOutQ, tsaRespQ, appInQ,
                     resets, submitted, delivered, told>>
  BY DEF GiveUp, Turn
<1>2. appCeRspInQ[n] \in Seq(EventsOf(n)) /\ Len(appCeRspInQ[n]) < Cnt.appCeRsp
  BY DEF EventTyped
<1>3. /\ OutTyped' /\ EventTyped' /\ XmitTyped' /\ NumbersTyped' /\ InProgress'
      /\ EndedAs(n, p, appCeRspInQ[n],
               Head(tsaOutQ[n][p]).service = "unack_rpt" \/ xmitRec[n][p].ackCount = 1)
  BY <1>1, <1>2, TerminateTransTyped
<1>4. UNCHANGED <<restart, recvRec, reqId, tsaInQ, nwOutQ, tsaRespQ, appInQ, resets,
                  submitted, delivered, outcome, answers>>
  BY <1>1 DEF recvVars, told
<1> QED
  BY <1>1, <1>3, <1>4, TypedUnchanged

LEMMA RetryTyped ==
  ASSUME Typed, NEW n \in Node, NEW p \in Priority, Retry(n, p)
  PROVE  /\ Typed'
         /\ xmitRec[n][p].status # "unused" /\ restart[n] = "over"
         /\ \A o \in Node, r \in Priority :
               /\ xmitRec'[o][r].status = xmitRec[o][r].status
               /\ xmitRec'[o][r].transNum = xmitRec[o][r].transNum
               /\ xmitRec'[o][r].ackCount = xmitRec[o][r].ackCount
         /\ Send(n, MessageFrame(Head(tsaOutQ[n][p]), xmitRec[n][p].transNum))
         /\ MessageFrame(Head(tsaOutQ[n][p]), xmitRec[n][p].transNum) \in FramesOf(n, p)
         /\ UNCHANGED <<tsaOutQ, transID, lastTid, restart, recvVars, tsaInQ, appVars,
                        resets, submitted, delivered, told>>
<1> USE TypedParts
<1> DEFINE m == Head(tsaOutQ[n][p])
           t == xmitRec[n][p].transNum
<1>1. /\ xmitRec[n][p].status # "unused" /\ restart[n] = "over"
      /\ xmitRec[n][p].retriesLeft # 0
      /\ xmitRec' = [xmitRec EXCEPT ![n][p].retriesLeft = @ - 1]
      /\ Send(n, MessageFrame(m, t))
      /\ UNCHANGED <<tsaOutQ, transID, lastTid, restart, recvVars, tsaInQ, appVars,
                     resets, submitted, delivered, told>>
  BY DEF Retry, Turn
<1>2. XmitTyped' /\ \A o \in Node, r \in Priority :
               /\ xmitRec'[o][r].status = xmitRec[o][r].status
               /\ xmitRec'[o][r].transNum = xmitRec[o][r].transNum
               /\ xmitRec'[o][r].ackCount = xmitRec[o][r].ackCount
  <2>1. PICK x : x = [xmitRec[n][p] EXCEPT !.retriesLeft = @ - 1]
    OBVIOUS
  <2>2. xmitRec[n][p] \in [status : {"unused", "transport", "session"},
            transNum : 0 .. MaxTid, retriesLeft : 0 .. Retries, ackCount : {0, 1}]
    BY DEF XmitTyped
  <2>3. /\ x \in [status : {"unused", "transport", "session"}, transNum : 0 .. MaxTid,
                  retriesLeft : 0 .. Retries, ackCount : {0, 1}]
        /\ x.status = xmitRec[n][p].status /\ x.transNum = xmitRec[n][p].transNum
        /\ x.ackCount = xmitRec[n][p].ackCount
    BY <1>1, <2>1, <2>2, TsaAssumption
  <2>4. xmitRec' = [xmitRec EXCEPT ![n][p] = x]
    BY <1>1, <2>1
  <2>5. /\ XmitTyped' /\ xmitRec'[n][p] = x
        /\ \A o \in Node, r \in Priority : <<o, r>> # <<n, p>> => xmitRec'[o][r] = xmitRec[o][r]
    BY <2>3, <2>4 DEF XmitTyped
  <2> QED
    BY <2>3, <2>5
<1>3. t \in 0 .. MaxTid
  BY DEF XmitTyped
<1>4. tsaOutQ[n][p] # <<>> /\ m \in Message /\ m.src = n /\ m.priority = p
  BY <1>1, HeadMessage DEF InProgress
<1>5. MessageFrame(m, t) \in FramesOf(n, p)
  BY <1>3, <1>4, FrameOfMessage
<1>6. NwTyped'
  BY <1>1, <1>5, SendTyped
<1>7. InProgress'
  BY <1>1, <1>2 DEF InProgress
<1>8. UNCHANGED <<tsaOutQ, transID, lastTid, restart, recvRec, reqId, tsaInQ, tsaRespQ, appInQ,
                  appCeRspInQ, resets, submitted, delivered, outcome, answers>>
  BY <1>1 DEF recvVars, appVars, told
<1>9. Typed'
  BY <1>2, <1>6, <1>7, <1>8, TypedUnchanged
<1> QED
  BY <1>1, <1>2, <1>5, <1>9

\* Frames that change nothing when they are received.
LEMMA IgnoredTyped ==
  ASSUME Typed, NEW n \in Node,
         \/ \E layer \in {"transport", "session"} : ReceiveRefused(n, layer)
         \/ IgnoreStale(n) \/ IgnoreReply(n)
  PROVE  /\ Typed' /\ tsaInQ[n] # <<>> /\ DropReceived(n)
         /\ UNCHANGED <<sendVars, recvVars, nwOutQ, appVars, resets, submitted, delivered, told>>
<1> USE TypedParts
<1>1. /\ tsaInQ[n] # <<>> /\ DropReceived(n)
      /\ UNCHANGED <<sendVars, recvVars, nwOutQ, appVars, resets, submitted, delivered, told>>
  BY DEF ReceiveRefused, IgnoreStale, IgnoreReply, FrameOf
<1>2. InTyped'
  BY <1>1, DropTyped
<1>3. UNCHANGED <<tsaOutQ, xmitRec, transID, lastTid, restart, recvRec, reqId, nwOutQ, tsaRespQ,
                  appInQ, appCeRspInQ, resets, submitted, delivered, outcome, answers>>
  BY <1>1 DEF sendVars, recvVars, appVars, told
<1> QED
  BY <1>1, <1>2, <1>3, TypedUnchanged

LEMMA TPReceiveAckTyped ==
  ASSUME Typed, NEW n \in Node, TPReceiveAck(n)
  PROVE  LET f == Head(tsaInQ[n])
             p == f.priority
         IN  /\ Typed' /\ tsaInQ[n] # <<>> /\ DropReceived(n)
             /\ f \in FramesTo(n) /\ f \in Frame /\ f \in Range(tsaInQ[n])
             /\ f.kind = "ack" /\ p \in Priority /\ Current(n, f, "transport")
             /\ \E success \in BOOLEAN : EndedAs(n, p, appCeRspInQ[n], success)
             /\ UNCHANGED <<lastTid, restart, recvVars, nwOutQ, tsaRespQ, appInQ,
                            resets, submitted, delivered, told>>
<1> USE TypedParts
<1> DEFINE f == Head(tsaInQ[n])
           p == f.priority
<1>1. /\ tsaInQ[n] # <<>> /\ f.kind = "ack" /\ DropReceived(n) /\ Current(n, f, "transport")
      /\ TerminateTrans(n, p, appCeRspInQ[n], xmitRec[n][p].ackCount + 1)
      /\ UNCHANGED <<lastTid, restart, recvVars, nwOutQ, tsaRespQ, appInQ,
                     resets, submitted, delivered, told>>
  BY DEF TPReceiveAck, FrameOf
<1>2. InTyped' /\ f \in FramesTo(n) /\ f \in Frame /\ f \in Range(tsaInQ[n])
  BY <1>1, DropTyped
<1>3. p \in Priority /\ xmitRec[n][p].status # "unused"
  BY <1>1, <1>2, FrameKinds DEF Current
<1>4. appCeRspInQ[n] \in Seq(EventsOf(n)) /\ Len(appCeRspInQ[n]) < Cnt.appCeRsp
  BY DEF EventTyped
<1>5. /\ OutTyped' /\ EventTyped' /\ XmitTyped' /\ NumbersTyped' /\ InProgress'
      /\ EndedAs(n, p, appCeRspInQ[n],
            Head(tsaOutQ[n][p]).service = "unack_rpt" \/ xmitRec[n][p].ackCount + 1 = 1)
  BY <1>1, <1>3, <1>4, TerminateTransTyped
<1>6. UNCHANGED <<restart, recvRec, reqId, nwOutQ, tsaRespQ, appInQ, resets,
                  submitted, delivered, outcome, answers>>
  BY <1>1 DEF recvVars, told
<1>7. Typed'
  BY <1>2, <1>5, <1>6, TypedUnchanged
<1> HIDE DEF f
<1>8. \E success \in BOOLEAN : EndedAs(n, p, appCeRspInQ[n], success)
  BY <1>5
<1> QED
  BY <1>1, <1>2, <1>3, <1>7, <1>8 DEF f

LEMMA SNReceiveResponseTyped ==
  ASSUME Typed, NEW n \in Node, SNReceiveResponse(n)
  PROVE  LET f == Head(tsaInQ[n])
             p == f.priority
             e == ResponseTo(Head(tsaOutQ[n][p]), f.body)
         IN  /\ Typed' /\ tsaInQ[n] # <<>> /\ DropReceived(n)
             /\ f \in FramesTo(n) /\ f \in Frame /\ f \in Range(tsaInQ[n])
             /\ f.kind = "response" /\ p \in Priority /\ Current(n, f, "session")
             /\ e \in EventsOf(n)
             /\ \E success \in BOOLEAN :
                   EndedAs(n, p, Put(appCeRspInQ[n], e, Cnt.appCeRsp), success)
             /\ UNCHANGED <<lastTid, restart, recvVars, nwOutQ, tsaRespQ, appInQ,
                            resets, submitted, delivered, told>>
<1> USE TypedParts
<1> DEFINE f == Head(tsaInQ[n])
           p == f.priority
           m == Head(tsaOutQ[n][p])
           e == ResponseTo(m, f.body)
           q == Put(appCeRspInQ[n], e, Cnt.appCeRsp)
<1>1. /\ tsaInQ[n] # <<>> /\ f.kind = "response" /\ DropReceived(n) /\ Current(n, f, "session")
      /\ TerminateTrans(n, p, q, xmitRec[n][p].ackCount + 1)
      /\ UNCHANGED <<lastTid, restart, recvVars, nwOutQ, tsaRespQ, appInQ,
                     resets, submitted, delivered, told>>
  BY DEF SNReceiveResponse, FrameOf
<1>2. InTyped' /\ f \in FramesTo(n) /\ f \in Frame /\ f \in Range(tsaInQ[n])
  BY <1>1, DropTyped
<1>3. p \in Priority /\ xmitRec[n][p].status # "unused" /\ f.body \in Message
  BY <1>1, <1>2, FrameKinds DEF Current
<1>4. tsaOutQ[n][p] # <<>>
  BY <1>3 DEF InProgress
<1>5. m \in Message /\ m.src = n
  BY <1>3, <1>4, HeadMessage
<1>6. e \in EventsOf(n)
  <2> HIDE DEF m, f
  <2> QED
    BY <1>3, <1>5 DEF EventsOf, Event, ResponseTo
<1>7. /\ appCeRspInQ[n] \in Seq(EventsOf(n)) /\ Len(appCeRspInQ[n]) < Cnt.appCeRsp
      /\ Cnt.appCeRsp \in Nat \ {0}
  BY Counts DEF EventTyped
<1>8. q \in Seq(EventsOf(n)) /\ Len(q) < Cnt.appCeRsp
  BY <1>6, <1>7, PutProperties
<1> HIDE DEF q
<1>9. /\ OutTyped' /\ EventTyped' /\ XmitTyped' /\ NumbersTyped' /\ InProgress'
      /\ EndedAs(n, p, q,
            Head(tsaOutQ[n][p]).service = "unack_rpt" \/ xmitRec[n][p].ackCount + 1 = 1)
  BY <1>1, <1>3, <1>8, TerminateTransTyped
<1>10. UNCHANGED <<restart, recvRec, reqId, nwOutQ, tsaRespQ, appInQ, resets,
                   submitted, delivered, outcome, answers>>
  BY <1>1 DEF recvVars, told
<1>11. Typed'
  BY <1>2, <1>9, <1>10, TypedUnchanged
<1> HIDE DEF f
<1>12. \E success \in BOOLEAN : EndedAs(n, p, q, success)
  BY <1>9
<1> QED
  BY <1>1, <1>2, <1>3, <1>6, <1>11, <1>12 DEF f, q

LEMMA SendReplyToChallengeTyped ==
  ASSUME Typed, NEW n \in Node, SendReplyToChallenge(n)
  PROVE  /\ Typed' /\ tsaInQ[n] # <<>> /\ DropReceived(n)
         /\ \/ UNCHANGED nwOutQ
            \/ \E g, p : p \in Priority /\ g \in FramesOf(n, p) /\ g.kind = "reply" /\ Send(n, g)
         /\ UNCHANGED <<sendVars, recvVars, appVars, resets, submitted, delivered, told>>
<1> USE TypedParts
<1> DEFINE f == Head(tsaInQ[n])
           p == f.priority
           x == xmitRec[n][p]
           m == Head(tsaOutQ[n][p])
           g == [kind |-> "reply", src |-> n, dst |-> f.src, priority |-> p,
                 transNum |-> x.transNum, body |-> Crypto(f.body, m.apdu, Key[n])]
<1>1. /\ tsaInQ[n] # <<>> /\ f.kind = "challenge" /\ DropReceived(n)
      /\ \/ x.status # "unused" /\ Send(n, g)
         \/ UNCHANGED nwOutQ
      /\ UNCHANGED <<sendVars, recvVars, appVars, resets, submitted, delivered, told>>
  BY DEF SendReplyToChallenge, FrameOf
<1>2. InTyped' /\ f \in FramesTo(n) /\ f \in Frame
  BY <1>1, DropTyped
<1>3. p \in Priority /\ f.src \in Node /\ f.body \in Nonce
  BY <1>1, <1>2, FrameKinds
<1>4. ASSUME x.status # "unused", Send(n, g)
      PROVE  g \in FramesOf(n, p) /\ NwTyped'
  <2>1. m \in Message
    <3>1. tsaOutQ[n][p] # <<>>
      BY <1>3, <1>4 DEF InProgress
    <3> QED
      BY <1>3, <3>1, HeadMessage
  <2>2. x.transNum \in 0 .. MaxTid
    BY <1>3 DEF XmitTyped
  <2> HIDE DEF x, m, f
  <2>3. g \in FramesOf(n, p)
    BY <1>3, <2>1, <2>2, FrameOfAnswer
  <2> HIDE DEF g
  <2> QED
    BY <1>3, <1>4, <2>3, SendTyped
<1>5. g.kind = "reply"
  OBVIOUS
<1> HIDE DEF g
<1>6. NwTyped' /\ \/ UNCHANGED nwOutQ
                  \/ \E h, r : r \in Priority /\ h \in FramesOf(n, r) /\ h.kind = "reply"
                               /\ Send(n, h)
  BY <1>1, <1>3, <1>4, <1>5, TypedUnchanged
<1>7. UNCHANGED <<tsaOutQ, xmitRec, transID, lastTid, restart, recvRec, reqId, tsaRespQ,
                  appInQ, appCeRspInQ, resets, submitted, delivered, outcome, answers>>
  BY <1>1 DEF sendVars, recvVars, appVars, told
<1>8. Typed'
  BY <1>2, <1>6, <1>7, TypedUnchanged
<1> QED
  BY <1>1, <1>6, <1>8

\* The other records of the node do not have the source and priority of a frame when the
\* record for the frame is found.
LEMMA RecordForOthers ==
  ASSUME Typed, NEW n \in Node, NEW f \in Frame, NEW i \in RR,
         \/ i \in RetrieveRR(n, f)
         \/ RetrieveRR(n, f) = {}
  PROVE  \A j \in RR \ {i} :
            ~(recvRec[n][j].src = f.src /\ recvRec[n][j].priority = f.priority)
<1>1. f.src # NoNode /\ TypeOK /\ RecordsAreUnambiguous
  BY FrameKinds, Counts DEF Typed
<1>2. ASSUME NEW j \in RR \ {i},
             recvRec[n][j].src = f.src, recvRec[n][j].priority = f.priority
      PROVE  FALSE
  <2>1. RetrieveRR(n, f) = {j}
    BY <1>1, <1>2, RetrieveRRFindsAll
  <2> QED
    BY <2>1
<1> QED
  BY <1>2

LEMMA HeardTyped ==
  ASSUME Typed, NEW n \in Node, NEW layer \in {"transport", "session"}, NEW f, NEW i, NEW rr,
         NEW d, HeardAs(n, layer, f, i, rr, d)
  PROVE  Typed'
<1> USE TypedParts
<1>1. /\ tsaInQ[n] # <<>> /\ DropReceived(n) /\ f \in FramesTo(n)
      /\ i \in RR /\ rr \in WideRecords(n) /\ rr.src = f.src /\ rr.priority = f.priority
      /\ \/ i \in RetrieveRR(n, f)
         \/ RetrieveRR(n, f) = {}
      /\ d \in RecordsOf(n) /\ SameRecord(d, rr)
      /\ recvRec' = [recvRec EXCEPT ![n][i] = d]
      /\ UNCHANGED <<sendVars, tsaRespQ, appCeRspInQ, resets, submitted, told>>
  BY DEF HeardAs, DeliveredAs
<1>2. f \in Frame /\ rr.priority \in Priority
  BY <1>1 DEF FramesTo, WideRecords
<1>3. InTyped'
  BY <1>1, DropTyped
<1>4. \A j \in RR \ {i} : ~(recvRec[n][j].src = f.src /\ recvRec[n][j].priority = f.priority)
  BY <1>1, <1>2, RecordForOthers
<1>5. RecordsTyped' /\ Unambiguous'
  <2>1. d.src = f.src /\ d.priority = f.priority
    BY <1>1 DEF SameRecord
  <2>2. \A j \in RR \ {i} : ~(recvRec[n][j].src = d.src /\ recvRec[n][j].priority = d.priority)
    BY <1>4, <2>1
  <2>3. RecordsTyped'
    BY <1>1, RecordTyped
  <2>4. Unambiguous'
    BY <1>1, <2>2, RecordUnambiguous
  <2> QED
    BY <2>3, <2>4
<1>6. ReqIdTyped'
  <2>1. (ThisReqId(n) + 1) % (MaxReqId + 1) \in 0 .. MaxReqId
    BY TsaAssumption DEF ThisReqId, ReqIdTyped
  <2>2. \/ reqId' = reqId
        \/ reqId' = [reqId EXCEPT ![n] = (ThisReqId(n) + 1) % (MaxReqId + 1)]
    BY DEF HeardAs
  <2> QED
    BY <2>1, <2>2 DEF ReqIdTyped
<1>7. NwTyped' /\ AppTyped' /\ DeliveredTyped'
  <2>1. CASE /\ UNCHANGED <<appInQ, delivered>>
             /\ \E r \in Nonce : /\ Send(n, FrameBack(n, rr, "challenge", r))
                                 /\ FrameBack(n, rr, "challenge", r) \in FramesOf(n, rr.priority)
    BY <1>2, <2>1, SendTyped, TypedUnchanged
  <2>2. CASE DeliveredAs(n, rr, d)
    BY <1>1, <2>2, SendAnswerTyped, DeliverTyped DEF DeliveredAs
  <2> QED
    BY <2>1, <2>2 DEF HeardAs
<1>8. UNCHANGED <<tsaOutQ, xmitRec, transID, lastTid, restart, tsaRespQ, appCeRspInQ, resets,
                  submitted, outcome, answers>>
  BY <1>1 DEF sendVars, told
<1> QED
  BY <1>3, <1>5, <1>6, <1>7, <1>8, TypedUnchanged

LEMMA RepliedTyped ==
  ASSUME Typed, NEW n \in Node, NEW f, NEW i, NEW rr, NEW d, RepliedAs(n, f, i, rr, d)
  PROVE  Typed'
<1> USE TypedParts
<1>1. /\ tsaInQ[n] # <<>> /\ DropReceived(n)
      /\ i \in RR /\ rr \in WideRecords(n) /\ recvRec[n][i].src # NoNode
      /\ rr.src = recvRec[n][i].src /\ rr.priority = recvRec[n][i].priority
      /\ d \in RecordsOf(n) /\ DeliveredAs(n, rr, d)
      /\ recvRec' = [recvRec EXCEPT ![n][i] = d]
      /\ UNCHANGED <<sendVars, reqId, tsaRespQ, appCeRspInQ, resets, submitted, told>>
  BY DEF RepliedAs
<1>2. InTyped'
  BY <1>1, DropTyped
<1>3. d.src = recvRec[n][i].src /\ d.priority = recvRec[n][i].priority
  BY <1>1 DEF SameRecord, DeliveredAs
<1>4. RecordsTyped' /\ Unambiguous'
  BY <1>1, <1>3, RecordKept
<1>5. NwTyped' /\ AppTyped' /\ DeliveredTyped'
  BY <1>1, SendAnswerTyped, DeliverTyped DEF DeliveredAs
<1>6. UNCHANGED <<tsaOutQ, xmitRec, transID, lastTid, restart, reqId, tsaRespQ, appCeRspInQ,
                  resets, submitted, outcome, answers>>
  BY <1>1 DEF sendVars, told
<1> QED
  BY <1>2, <1>4, <1>5, <1>6, TypedUnchanged

LEMMA SendResponseTyped ==
  ASSUME Typed, NEW n \in Node, SendResponse(n)
  PROVE  /\ Typed'
         /\ tsaRespQ'[n] = Tail(tsaRespQ[n])
         /\ \A o \in Node : Range(tsaRespQ'[o]) \subseteq Range(tsaRespQ[o])
         /\ Head(tsaRespQ[n]) \in Range(tsaRespQ[n])
<1> USE TypedParts
<1>1. /\ tsaRespQ[n] # <<>> /\ tsaRespQ' = [tsaRespQ EXCEPT ![n] = Tail(@)]
      /\ UNCHANGED <<sendVars, reqId, tsaInQ, appInQ, appCeRspInQ, resets, submitted,
                     delivered, told>>
      /\ \/ UNCHANGED <<recvRec, nwOutQ>>
         \/ \E i, d : RespondedAs(n, Head(tsaRespQ[n]), i, d)
  BY Responds DEF Typed
<1>2. /\ RespTyped' /\ tsaRespQ'[n] = Tail(tsaRespQ[n])
      /\ \A o \in Node : Range(tsaRespQ'[o]) \subseteq Range(tsaRespQ[o])
      /\ Head(tsaRespQ[n]) \in Range(tsaRespQ[n])
  <2>1. /\ tsaRespQ[n] \in Seq(AnsweredBy(n)) /\ tsaRespQ[n] \in Seq(Answered)
        /\ Len(tsaRespQ[n]) < Cnt.tsaResp /\ Cnt.tsaResp \in Nat
    BY Counts DEF RespTyped
  <2>2. /\ Tail(tsaRespQ[n]) \in Seq(AnsweredBy(n)) /\ Len(Tail(tsaRespQ[n])) < Cnt.tsaResp
        /\ Range(Tail(tsaRespQ[n])) \subseteq Range(tsaRespQ[n])
        /\ Head(tsaRespQ[n]) \in Range(tsaRespQ[n])
    BY <1>1, <2>1, TailProperties
  <2>3. Tail(tsaRespQ[n]) \in Seq(Answered)
    BY <1>1, <2>1, TailProperties
  <2>4. /\ tsaRespQ' \in [Node -> Seq(Answered)] /\ tsaRespQ'[n] = Tail(tsaRespQ[n])
        /\ \A o \in Node : o # n => tsaRespQ'[o] = tsaRespQ[o]
    BY <1>1, <2>3 DEF RespTyped
  <2> QED
    BY <2>2, <2>4 DEF RespTyped
<1>3. RecordsTyped' /\ Unambiguous' /\ NwTyped'
  <2>1. ASSUME NEW i, NEW d, RespondedAs(n, Head(tsaRespQ[n]), i, d)
        PROVE  RecordsTyped' /\ Unambiguous' /\ NwTyped'
    <3>1. /\ i \in RR /\ recvRec[n][i].src # NoNode /\ d \in RecordsOf(n)
          /\ d.src = recvRec[n][i].src /\ d.priority = recvRec[n][i].priority
          /\ recvRec' = [recvRec EXCEPT ![n][i] = d] /\ SendAnswer(n, d)
      BY <2>1 DEF RespondedAs
    <3>2. RecordsTyped' /\ Unambiguous'
      BY <3>1, RecordKept
    <3> QED
      BY <3>1, <3>2, SendAnswerTyped
  <2>2. CASE UNCHANGED <<recvRec, nwOutQ>>
    BY <2>2, TypedUnchanged
  <2> QED
    BY <1>1, <2>1, <2>2
<1>4. UNCHANGED <<tsaOutQ, xmitRec, transID, lastTid, restart, reqId, tsaInQ, appInQ,
                  appCeRspInQ, resets, submitted, delivered, outcome, answers>>
  BY <1>1 DEF sendVars, told
<1> QED
  BY <1>2, <1>3, <1>4, TypedUnchanged

\* A record is released.
LEMMA ReceiveTimerTyped ==
  ASSUME Typed, NEW n \in Node, NEW i \in RR, ReceiveTimerExpired(n, i)
  PROVE  /\ Typed'
         /\ recvRec[n][i].status # "unused" /\ ~StillRepeated(n, recvRec[n][i])
         /\ \E d : /\ d \in RecordsOf(n) /\ d.status = "unused"
                   /\ d.src = recvRec[n][i].src /\ d.priority = recvRec[n][i].priority
                   /\ d.msg = recvRec[n][i].msg /\ d.transState = recvRec[n][i].transState
                   /\ d.auth = recvRec[n][i].auth /\ d.response = recvRec[n][i].response
                   /\ d.transNum = recvRec[n][i].transNum /\ d.reqId = recvRec[n][i].reqId
                   /\ recvRec' = [recvRec EXCEPT ![n][i] = d]
         /\ UNCHANGED <<sendVars, reqId, tsaInQ, nwOutQ, appVars, resets, submitted,
                        delivered, told>>
<1> USE TypedParts
<1>1. /\ recvRec[n][i].status # "unused" /\ ~StillRepeated(n, recvRec[n][i])
      /\ recvRec' = [recvRec EXCEPT ![n][i].status = "unused"]
      /\ UNCHANGED <<sendVars, reqId, tsaInQ, nwOutQ, appVars, resets, submitted,
                     delivered, told>>
  BY DEF ReceiveTimerExpired
<1>2. PICK old : old = recvRec[n][i]
  OBVIOUS
<1>3. old \in RecordsOf(n) /\ old.src # NoNode /\ old \in WideRecords(n)
      /\ old.transState \in Handled \cup {"authenticating"}
  BY <1>1, <1>2, RecordFields, WideRecordsAreWide DEF RecordsTyped
<1>4. PICK d : d = [old EXCEPT !.status = "unused"]
  OBVIOUS
<1>5. /\ d \in WideRecords(n) /\ d.status = "unused" /\ d.src = old.src
      /\ d.priority = old.priority /\ d.msg = old.msg /\ d.transState = old.transState
      /\ d.auth = old.auth /\ d.response = old.response
      /\ d.transNum = old.transNum /\ d.reqId = old.reqId
  BY <1>3, <1>4 DEF WideRecords
<1>6. d \in RecordsOf(n)
  BY <1>3, <1>5, WideRecordsAreWide
<1>7. recvRec' = [recvRec EXCEPT ![n][i] = d]
  BY <1>1, <1>2, <1>4
<1>9. RecordsTyped' /\ Unambiguous'
  BY <1>2, <1>3, <1>5, <1>6, <1>7, RecordKept
<1>10. UNCHANGED <<tsaOutQ, xmitRec, transID, lastTid, restart, reqId, tsaInQ, nwOutQ, tsaRespQ,
                   appInQ, appCeRspInQ, resets, submitted, delivered, outcome, answers>>
  BY <1>1 DEF sendVars, appVars, told
<1>11. Typed'
  BY <1>9, <1>10, TypedUnchanged
<1> QED
  BY <1>1, <1>2, <1>5, <1>6, <1>7, <1>11

LEMMA AppMsgReceiveTyped ==
  ASSUME Typed, NEW n \in Node, AppMsgReceive(n)
  PROVE  /\ Typed' /\ Head(appInQ[n]) \in Range(appInQ[n])
         /\ \A o \in Node : Range(appInQ'[o]) \subseteq Range(appInQ[o])
         /\ \A o \in Node : \A a \in Range(tsaRespQ'[o]) :
               \/ a \in Range(tsaRespQ[o])
               \/ /\ o = n /\ Head(appInQ[n]).msg.service = "request"
                  /\ a.reqId = Head(appInQ[n]).reqId /\ a.body = Head(appInQ[n]).msg
         /\ UNCHANGED <<sendVars, recvVars, tsaInQ, nwOutQ, appCeRspInQ, resets, submitted,
                        delivered, told>>
<1> USE TypedParts
<1>1. PICK a : a = Head(appInQ[n])
  OBVIOUS
<1>2. /\ appInQ[n] # <<>> /\ appInQ' = [appInQ EXCEPT ![n] = Tail(@)]
      /\ \/ UNCHANGED tsaRespQ
         \/ /\ a.msg.service = "request"
            /\ \E null \in NullResponse :
                 tsaRespQ' = [tsaRespQ EXCEPT ![n] =
                     Put(@, [reqId |-> a.reqId, body |-> a.msg, null |-> null], Cnt.tsaResp)]
      /\ UNCHANGED <<sendVars, recvVars, tsaInQ, nwOutQ, appCeRspInQ, resets, submitted,
                     delivered, told>>
  BY <1>1 DEF AppMsgReceive
<1>3. /\ appInQ[n] \in Seq(DeliveriesTo(n)) /\ appInQ[n] \in Seq(Delivery)
      /\ Len(appInQ[n]) < Cnt.appIn /\ Cnt.appIn \in Nat
  BY Counts DEF AppTyped
<1>4. /\ Tail(appInQ[n]) \in Seq(DeliveriesTo(n)) /\ Len(Tail(appInQ[n])) < Cnt.appIn
      /\ Range(Tail(appInQ[n])) \subseteq Range(appInQ[n])
      /\ a \in Range(appInQ[n]) /\ a \in DeliveriesTo(n)
  BY <1>1, <1>2, <1>3, TailProperties
<1>5. Tail(appInQ[n]) \in Seq(Delivery)
  BY <1>2, <1>3, TailProperties
<1>6. /\ appInQ' \in [Node -> Seq(Delivery)] /\ appInQ'[n] = Tail(appInQ[n])
      /\ \A o \in Node : o # n => appInQ'[o] = appInQ[o]
  BY <1>2, <1>5 DEF AppTyped
<1>7. AppTyped' /\ \A o \in Node : Range(appInQ'[o]) \subseteq Range(appInQ[o])
  BY <1>4, <1>6 DEF AppTyped
<1>8. /\ RespTyped'
      /\ \A o \in Node : \A b \in Range(tsaRespQ'[o]) :
            \/ b \in Range(tsaRespQ[o])
            \/ o = n /\ a.msg.service = "request" /\ b.reqId = a.reqId /\ b.body = a.msg
  <2>1. CASE UNCHANGED tsaRespQ
    BY <2>1, TypedUnchanged
  <2>2. ASSUME a.msg.service = "request", NEW null \in NullResponse,
               tsaRespQ' = [tsaRespQ EXCEPT ![n] =
                   Put(@, [reqId |-> a.reqId, body |-> a.msg, null |-> null], Cnt.tsaResp)]
        PROVE  /\ RespTyped'
               /\ \A o \in Node : \A b \in Range(tsaRespQ'[o]) :
                     \/ b \in Range(tsaRespQ[o])
                     \/ o = n /\ a.msg.service = "request" /\ b.reqId = a.reqId /\ b.body = a.msg
    <3> DEFINE e == [reqId |-> a.reqId, body |-> a.msg, null |-> null]
               q == Put(tsaRespQ[n], e, Cnt.tsaResp)
    <3>1. e \in Answered /\ e \in AnsweredBy(n) /\ e.reqId = a.reqId /\ e.body = a.msg
      <4>1. null \in BOOLEAN
        BY TsaAssumption
      <4>2. a.msg \in Message /\ a.reqId \in 0 .. MaxReqId /\ a.msg.dst = n
        BY <1>4 DEF DeliveriesTo, Delivery
      <4> QED
        BY <4>1, <4>2 DEF Answered, AnsweredBy
    <3>2. /\ tsaRespQ[n] \in Seq(AnsweredBy(n)) /\ tsaRespQ[n] \in Seq(Answered)
          /\ Len(tsaRespQ[n]) < Cnt.tsaResp /\ Cnt.tsaResp \in Nat \ {0}
      BY Counts DEF RespTyped
    <3>3. tsaRespQ' = [tsaRespQ EXCEPT ![n] = q]
      BY <2>2
    <3> HIDE DEF e
    <3>4. /\ q \in Seq(AnsweredBy(n)) /\ Len(q) < Cnt.tsaResp
          /\ Range(q) \subseteq Range(tsaRespQ[n]) \cup {e}
      BY <3>1, <3>2, PutProperties
    <3>5. q \in Seq(Answered)
      BY <3>1, <3>2, PutProperties
    <3> HIDE DEF q
    <3>6. /\ tsaRespQ' \in [Node -> Seq(Answered)] /\ tsaRespQ'[n] = q
          /\ \A o \in Node : o # n => tsaRespQ'[o] = tsaRespQ[o]
      BY <3>3, <3>5 DEF RespTyped
    <3>7. RespTyped'
      BY <3>4, <3>6 DEF RespTyped
    <3> QED
      BY <2>2, <3>1, <3>4, <3>6, <3>7
  <2> QED
    BY <1>2, <2>1, <2>2
<1>9. UNCHANGED <<tsaOutQ, xmitRec, transID, lastTid, restart, recvRec, reqId, tsaInQ, nwOutQ,
                  appCeRspInQ, resets, submitted, delivered, outcome, answers>>
  BY <1>2 DEF sendVars, recvVars, told
<1>10. Typed'
  BY <1>7, <1>8, <1>9, TypedUnchanged
<1> QED
  BY <1>1, <1>2, <1>4, <1>7, <1>8, <1>10

LEMMA AppRspReceiveTyped ==
  ASSUME Typed, NEW n \in Node, AppRspReceive(n)
  PROVE  LET a == Head(appCeRspInQ[n])
         IN  /\ Typed' /\ appCeRspInQ[n] # <<>> /\ a \in EventsOf(n)
             /\ a \in Range(appCeRspInQ[n])
             /\ appCeRspInQ'[n] = Tail(appCeRspInQ[n])
             /\ \A o \in Node : o # n => appCeRspInQ'[o] = appCeRspInQ[o]
             /\ \A o \in Node : Range(appCeRspInQ'[o]) \subseteq Range(appCeRspInQ[o])
             /\ \/ /\ a.indication = "completion" /\ a.success \in BOOLEAN /\ UNCHANGED answers
                   /\ outcome' = [outcome EXCEPT ![a.msg] = Append(@, a.success)]
                \/ /\ a.indication = "message" /\ UNCHANGED outcome
                   /\ answers' = [answers EXCEPT ![a.msg] = @ \union {a.body}]
             /\ UNCHANGED <<sendVars, recvVars, tsaInQ, nwOutQ, tsaRespQ, appInQ, resets,
                            submitted, delivered>>
<1> USE TypedParts
<1> DEFINE a == Head(appCeRspInQ[n])
<1>1. /\ appCeRspInQ[n] # <<>> /\ appCeRspInQ' = [appCeRspInQ EXCEPT ![n] = Tail(@)]
      /\ \/ /\ a.indication = "completion" /\ UNCHANGED answers
            /\ outcome' = [outcome EXCEPT ![a.msg] = Append(@, a.success)]
         \/ /\ a.indication # "completion" /\ UNCHANGED outcome
            /\ answers' = [answers EXCEPT ![a.msg] = @ \union {a.body}]
      /\ UNCHANGED <<sendVars, recvVars, tsaInQ, nwOutQ, tsaRespQ, appInQ, resets,
                     submitted, delivered>>
  BY DEF AppRspReceive
<1>2. /\ appCeRspInQ[n] \in Seq(EventsOf(n)) /\ appCeRspInQ[n] \in Seq(Event)
      /\ Len(appCeRspInQ[n]) < Cnt.appCeRsp /\ Cnt.appCeRsp \in Nat
  BY Counts DEF EventTyped
<1>3. /\ Tail(appCeRspInQ[n]) \in Seq(EventsOf(n)) /\ Len(Tail(appCeRspInQ[n])) < Cnt.appCeRsp
      /\ Range(Tail(appCeRspInQ[n])) \subseteq Range(appCeRspInQ[n])
      /\ a \in Range(appCeRspInQ[n]) /\ a \in EventsOf(n)
  BY <1>1, <1>2, TailProperties
<1>4. Tail(appCeRspInQ[n]) \in Seq(Event)
  BY <1>1, <1>2, TailProperties
<1>5. /\ appCeRspInQ' \in [Node -> Seq(Event)] /\ appCeRspInQ'[n] = Tail(appCeRspInQ[n])
      /\ \A o \in Node : o # n => appCeRspInQ'[o] = appCeRspInQ[o]
  BY <1>1, <1>4 DEF EventTyped
<1>6. /\ EventTyped'
      /\ \A o \in Node : Range(appCeRspInQ'[o]) \subseteq Range(appCeRspInQ[o])
  BY <1>3, <1>5 DEF EventTyped
<1> HIDE DEF a
<1>7. /\ a.indication \in {"completion", "message"} /\ a.msg \in Message
      /\ a.indication = "completion" => a.success \in BOOLEAN
      /\ a.indication = "message" => a.body \in Message
  BY <1>3 DEF EventsOf, Event
<1>8. ToldTyped'
  <2>1. CASE a.indication = "completion"
    <3>1. Append(outcome[a.msg], a.success) \in Seq(BOOLEAN)
      BY <1>7, <2>1 DEF ToldTyped
    <3> QED
      BY <1>1, <1>7, <2>1, <3>1 DEF ToldTyped
  <2>2. CASE a.indication = "message"
    <3>1. answers[a.msg] \union {a.body} \in SUBSET Message
      BY <1>7, <2>2 DEF ToldTyped
    <3>2. answers' = [answers EXCEPT ![a.msg] = answers[a.msg] \union {a.body}]
      BY <1>1, <2>2
    <3>3. answers' \in [Message -> SUBSET Message]
      BY <3>1, <3>2 DEF ToldTyped
    <3> QED
      BY <1>1, <2>2, <3>3 DEF ToldTyped
  <2> QED
    BY <1>7, <2>1, <2>2
<1>9. UNCHANGED <<tsaOutQ, xmitRec, transID, lastTid, restart, recvRec, reqId, tsaInQ, nwOutQ,
                  tsaRespQ, appInQ, resets, submitted, delivered>>
  BY <1>1 DEF sendVars, recvVars
<1>10. Typed'
  BY <1>6, <1>8, <1>9, TypedUnchanged
<1> QED
  BY <1>1, <1>3, <1>5, <1>6, <1>7, <1>10 DEF a

\* The first frame of a queue arrives, or is lost.
LEMMA ChannelTyped ==
  ASSUME Typed, NEW n \in Node, NEW p \in Priority,
         Lose(n, p) \/ \E again \in BOOLEAN : Arrive(n, p, again)
  PROVE  /\ Typed' /\ nwOutQ[n][p] # <<>>
         /\ Head(nwOutQ[n][p]) \in FramesOf(n, p) /\ Head(nwOutQ[n][p]) \in Frame
         /\ Head(nwOutQ[n][p]) \in Range(nwOutQ[n][p])
         /\ \/ UNCHANGED tsaInQ
            \/ tsaInQ' = [tsaInQ EXCEPT ![Head(nwOutQ[n][p]).dst] =
                             Put(@, Head(nwOutQ[n][p]), Cnt.tsaIn)]
         /\ \/ UNCHANGED nwOutQ
            \/ nwOutQ' = [nwOutQ EXCEPT ![n][p] = Tail(@)]
         /\ UNCHANGED <<sendVars, recvVars, appVars, resets, submitted, delivered, told>>
<1> USE TypedParts
<1> DEFINE f == Head(nwOutQ[n][p])
<1>1. /\ nwOutQ[n][p] # <<>>
      /\ \/ UNCHANGED tsaInQ
         \/ tsaInQ' = [tsaInQ EXCEPT ![f.dst] = Put(@, f, Cnt.tsaIn)]
      /\ \/ UNCHANGED nwOutQ
         \/ nwOutQ' = [nwOutQ EXCEPT ![n][p] = Tail(@)]
      /\ UNCHANGED <<sendVars, recvVars, appVars, resets, submitted, delivered, told>>
  BY DEF Lose, Arrive, NextOut
<1>2. nwOutQ[n][p] \in Seq(FramesOf(n, p))
  BY DEF NwTyped
<1>3. f \in FramesOf(n, p) /\ f \in Frame /\ f \in Range(nwOutQ[n][p])
  BY <1>1, <1>2, TailProperties DEF FramesOf
<1> HIDE DEF f
<1>4. InTyped' /\ NwTyped'
  BY <1>1, <1>3, ArriveTyped, LeaveTyped, TypedUnchanged
<1>5. UNCHANGED <<tsaOutQ, xmitRec, transID, lastTid, restart, recvRec, reqId, tsaRespQ, appInQ,
                  appCeRspInQ, resets, submitted, delivered, outcome, answers>>
  BY <1>1 DEF sendVars, recvVars, appVars, told
<1>6. Typed'
  BY <1>4, <1>5, TypedUnchanged
<1> QED
  BY <1>1, <1>3, <1>6 DEF f

\* After a reset, the node has nothing, but for the numbers it keeps.
ResetAs(n, kind) ==
    /\ restart'[n] = kind /\ \A o \in Node : o # n => restart'[o] = restart[o]
    /\ \A p \in Priority : /\ tsaOutQ'[n][p] = <<>> /\ nwOutQ'[n][p] = <<>>
                           /\ xmitRec'[n][p].status = "unused"
    /\ \A i \in RR : recvRec'[n][i] = BlankRecord
    /\ tsaInQ'[n] = <<>> /\ tsaRespQ'[n] = <<>> /\ appInQ'[n] = <<>> /\ appCeRspInQ'[n] = <<>>
    /\ \A o \in Node : o # n =>
          /\ tsaOutQ'[o] = tsaOutQ[o] /\ nwOutQ'[o] = nwOutQ[o] /\ xmitRec'[o] = xmitRec[o]
          /\ transID'[o] = transID[o] /\ recvRec'[o] = recvRec[o] /\ reqId'[o] = reqId[o]
          /\ tsaInQ'[o] = tsaInQ[o] /\ tsaRespQ'[o] = tsaRespQ[o]
          /\ appInQ'[o] = appInQ[o] /\ appCeRspInQ'[o] = appCeRspInQ[o]
    /\ UNCHANGED <<submitted, delivered, told>>

LEMMA ResetTyped ==
  ASSUME Typed, NEW n \in Node, NEW kind \in ResetKinds, Reset(n, kind)
  PROVE  Typed' /\ n \in ResetNodes /\ ResetAs(n, kind)
<1> USE TypedParts
<1>1. \A c \in {"nwOut", "tsaIn", "tsaOut", "tsaResp", "appIn", "appCeRsp"} : 0 < Cnt[c]
  BY Counts
<1>2. \A S : <<>> \in Seq(S) /\ Len(<<>>) = 0
  BY EmptySeq
<1>3. kind \in {"reset", "powerup"}
  BY TsaAssumption
<1>4. /\ OutTyped' /\ \A p \in Priority : tsaOutQ'[n][p] = <<>>
      /\ \A o \in Node : o # n => tsaOutQ'[o] = tsaOutQ[o]
  BY <1>1, <1>2 DEF OutTyped, Reset
<1>5. /\ NwTyped' /\ \A p \in Priority : nwOutQ'[n][p] = <<>>
      /\ \A o \in Node : o # n => nwOutQ'[o] = nwOutQ[o]
  BY <1>1, <1>2 DEF NwTyped, Reset
<1>6. /\ UnusedTx \in [status : {"unused", "transport", "session"}, transNum : 0 .. MaxTid,
                       retriesLeft : 0 .. Retries, ackCount : {0, 1}]
      /\ UnusedTx.status = "unused"
  BY TsaAssumption DEF UnusedTx
<1>7. /\ XmitTyped' /\ \A p \in Priority : xmitRec'[n][p].status = "unused"
      /\ \A o \in Node : o # n => xmitRec'[o] = xmitRec[o]
  BY <1>6 DEF XmitTyped, Reset
<1>8. NumbersTyped' /\ \A o \in Node : o # n => transID'[o] = transID[o]
  <2>1. /\ transID' \in [Node -> [Priority -> 0 .. MaxTid]]
        /\ \A o \in Node : o # n => transID'[o] = transID[o]
    BY TsaAssumption DEF NumbersTyped, Reset
  <2>2. lastTid' \in [Node -> [Priority -> [Node -> NoTid .. MaxTid]]]
    BY TsaAssumption DEF NumbersTyped, Reset, NoTid
  <2> QED
    BY <2>1, <2>2 DEF NumbersTyped
<1>9. /\ RestartTyped' /\ restart'[n] = kind
      /\ \A o \in Node : o # n => restart'[o] = restart[o]
  BY <1>3 DEF RestartTyped, Reset
<1>10. BlankRecord \in Record /\ BlankRecord.src = NoNode /\ BlankRecord \in RecordsOf(n)
  BY DEF Record, BlankRecord, RecordsOf
<1>11. /\ \A i \in RR : recvRec'[n][i] = BlankRecord
       /\ \A o \in Node : o # n => recvRec'[o] = recvRec[o]
       /\ recvRec' \in [Node -> [RR -> Record]]
  BY <1>10 DEF RecordsTyped, Reset
<1>12. RecordsTyped'
  BY <1>10, <1>11 DEF RecordsTyped
<1>13. Unambiguous'
  BY <1>10, <1>11 DEF Unambiguous
<1>14. ReqIdTyped' /\ \A o \in Node : o # n => reqId'[o] = reqId[o]
  BY TsaAssumption DEF ReqIdTyped, Reset
<1>15. /\ InTyped' /\ tsaInQ'[n] = <<>> /\ \A o \in Node : o # n => tsaInQ'[o] = tsaInQ[o]
  BY <1>1, <1>2 DEF InTyped, Reset
<1>16. /\ RespTyped' /\ tsaRespQ'[n] = <<>>
       /\ \A o \in Node : o # n => tsaRespQ'[o] = tsaRespQ[o]
  BY <1>1, <1>2 DEF RespTyped, Reset
<1>17. /\ AppTyped' /\ appInQ'[n] = <<>> /\ \A o \in Node : o # n => appInQ'[o] = appInQ[o]
  BY <1>1, <1>2 DEF AppTyped, Reset
<1>18. /\ EventTyped' /\ appCeRspInQ'[n] = <<>>
       /\ \A o \in Node : o # n => appCeRspInQ'[o] = appCeRspInQ[o]
  BY <1>1, <1>2 DEF EventTyped, Reset
<1>19. InProgress'
  BY <1>4, <1>7 DEF InProgress
<1>20. ResetsTyped'
  BY TsaAssumption DEF ResetsTyped, Reset
<1>21. UNCHANGED <<submitted, delivered, told>> /\ UNCHANGED <<outcome, answers>>
  BY DEF Reset, told
<1>22. SubmittedTyped' /\ DeliveredTyped' /\ ToldTyped'
  BY <1>21, TypedUnchanged
<1>23. n \in ResetNodes
  BY DEF Reset
<1> QED
  BY <1>4, <1>5, <1>7, <1>8, <1>9, <1>11, <1>12, <1>13, <1>14, <1>15, <1>16, <1>17, <1>18, <1>19,
     <1>20, <1>21, <1>22, <1>23 DEF ResetAs

LEMMA RestartOverTyped ==
  ASSUME Typed, NEW n \in Node, RestartOver(n)
  PROVE  /\ Typed' /\ restart[n] # "over" /\ Quiet(n)
         /\ restart[n] = "powerup" /\ DelayOutlasts =>
               \A o \in Node : \A i \in RR :
                   recvRec[o][i].src = n => recvRec[o][i].status = "unused"
         /\ restart'[n] = "over" /\ \A o \in Node : o # n => restart'[o] = restart[o]
         /\ UNCHANGED <<tsaOutQ, xmitRec, transID, lastTid, recvVars, tsaInQ, nwOutQ,
                        appVars, resets, submitted, delivered, told>>
<1> USE TypedParts
<1>1. RestartTyped' /\ restart'[n] = "over" /\ \A o \in Node : o # n => restart'[o] = restart[o]
  BY DEF RestartTyped, RestartOver
<1>2. UNCHANGED <<tsaOutQ, xmitRec, transID, lastTid, recvRec, reqId, tsaInQ, nwOutQ, tsaRespQ,
                  appInQ, appCeRspInQ, resets, submitted, delivered, outcome, answers>>
  BY DEF RestartOver, recvVars, appVars, told
<1>3. Typed'
  BY <1>1, <1>2, TypedUnchanged
<1> QED
  BY <1>1, <1>3 DEF RestartOver

\* The steps of Next.
LEMMA Steps ==
  ASSUME Next
  PROVE  \/ \E m \in Message : Submit(m)
         \/ \E n \in Node : \E p \in Priority :
               \/ \E layer \in {"transport", "session"} :
                     CompleteAtOnce(n, p, layer) \/ SendNewMsg(n, p, layer)
               \/ GiveUp(n, p) \/ Retry(n, p)
               \/ Lose(n, p) \/ \E again \in BOOLEAN : Arrive(n, p, again)
         \/ \E n \in Node :
               \/ SendResponse(n)
               \/ \E layer \in {"transport", "session"} : ReceiveNewMsg(n, layer)
               \/ \/ \E layer \in {"transport", "session"} : ReceiveRefused(n, layer)
                  \/ IgnoreStale(n) \/ IgnoreReply(n)
               \/ TPReceiveAck(n) \/ SNReceiveResponse(n)
               \/ SendReplyToChallenge(n) \/ ProcessReply(n)
               \/ \E i \in RR : ReceiveTimerExpired(n, i)
               \/ AppMsgReceive(n) \/ AppRspReceive(n)
               \/ \E kind \in ResetKinds : Reset(n, kind)
               \/ RestartOver(n)
BY DEF Next, SendStep, ReceiveStep, AppStep, ChannelStep

LEMMA TypedStep ==
  ASSUME Typed, [Next]_vars
  PROVE  Typed'
<1>1. CASE UNCHANGED vars
  BY <1>1, TypedParts, TypedUnchanged DEF vars, sendVars, recvVars, appVars, told
<1>2. CASE Next
  <2>1. ASSUME NEW n \in Node, NEW layer \in {"transport", "session"}, ReceiveNewMsg(n, layer)
        PROVE  Typed'
    BY <2>1, Hears, HeardTyped DEF Typed
  <2>2. ASSUME NEW n \in Node, ProcessReply(n)
        PROVE  Typed'
    BY <2>2, Replies, RepliedTyped DEF Typed
  <2>3. ASSUME NEW n \in Node, NEW p \in Priority, NEW layer \in {"transport", "session"},
               CompleteAtOnce(n, p, layer) \/ SendNewMsg(n, p, layer)
        PROVE  Typed'
    BY <2>3, CompleteAtOnceTyped, SendNewMsgTyped
  <2>4. ASSUME NEW n \in Node, NEW p \in Priority,
               \/ GiveUp(n, p) \/ Retry(n, p)
               \/ Lose(n, p) \/ \E again \in BOOLEAN : Arrive(n, p, again)
        PROVE  Typed'
    BY <2>4, GiveUpTyped, RetryTyped, ChannelTyped
  <2>5. ASSUME NEW n \in Node,
               \/ SendResponse(n)
               \/ \/ \E layer \in {"transport", "session"} : ReceiveRefused(n, layer)
                  \/ IgnoreStale(n) \/ IgnoreReply(n)
               \/ TPReceiveAck(n) \/ SNReceiveResponse(n)
        PROVE  Typed'
    BY <2>5, SendResponseTyped, IgnoredTyped, TPReceiveAckTyped, SNReceiveResponseTyped
  <2>6. ASSUME NEW n \in Node,
               \/ SendReplyToChallenge(n)
               \/ \E i \in RR : ReceiveTimerExpired(n, i)
               \/ AppMsgReceive(n) \/ AppRspReceive(n)
               \/ \E kind \in ResetKinds : Reset(n, kind)
               \/ RestartOver(n)
        PROVE  Typed'
    BY <2>6, SendReplyToChallengeTyped, ReceiveTimerTyped, AppMsgReceiveTyped,
       AppRspReceiveTyped, ResetTyped, RestartOverTyped
  <2>7. ASSUME NEW m \in Message, Submit(m)
        PROVE  Typed'
    BY <2>7, SubmitTyped
  <2> QED
    BY <1>2, Steps, <2>1, <2>2, <2>3, <2>4, <2>5, <2>6, <2>7
<1> QED
  BY <1>1, <1>2

\* The layers of every node keep the types of their variables: no queue is ever
\* filled beyond its size, and every entry is what its readers expect.
THEOREM TypeCorrect == Spec => []TypeOK
<1>1. Spec => []Typed
  BY TypedInit, TypedStep, PTL DEF Spec
<1>2. Typed => TypeOK
  BY DEF Typed
<1> QED
  BY <1>1, <1>2, PTL

\* RetrieveRR finds the one record of a source and priority, and the message that is
\* being sent stays at the head of its queue.
THEOREM RecordsStayUnambiguous == Spec => []RecordsAreUnambiguous
<1>1. Spec => []Typed
  BY TypedInit, TypedStep, PTL DEF Spec
<1>2. Typed => RecordsAreUnambiguous
  BY DEF Typed
<1> QED
  BY <1>1, <1>2, PTL

-----------------------------------------------------------------------------
(* What numbers stand for.                                                 *)

LEMMA RangeIs ==
  ASSUME NEW S, NEW q \in Seq(S)
  PROVE  \A e : e \in Range(q) <=> \E k \in 1 .. Len(q) : q[k] = e
BY LenProperties DEF Range

\* Response frames answer the message that their number stands for.
ResponsesTrue ==
    \A f \in Frame :
        InFlight(f) /\ f.kind = "response" => f = ResponseFrame(f.body, f.transNum)

\* A number stands for one message of a source and priority, and for one request.
NumbersUnique ==
    \A m, o \in Message : \A t \in 0 .. MaxTid :
        m.src = o.src /\ m.priority = o.priority /\ InUse(m, t) /\ InUse(o, t) => m = o
RequestsUnique ==
    \A n \in Node : \A q \in 0 .. MaxReqId : \A m, o \in Message :
        Outstanding(n, q, m) /\ Outstanding(n, q, o) => m = o

\* What a record says is so.
RecordTrue(n, rr) ==
    rr.src # NoNode /\ rr.transState = "responded" => rr.response = rr.msg
RecordsTrue == \A n \in Node : \A i \in RR : RecordTrue(n, recvRec[n][i])

\* A step puts no frame on its way, but for those in G.
FlightKept(G) == \A f \in Frame : InFlight(f)' => InFlight(f) \/ f \in G

\* After a step, no number stands for what it did not stand for before.
NoNewUse == \A m \in Message : \A t \in 0 .. MaxTid : InUse(m, t)' => InUse(m, t)
NoNewRequest ==
    \A n \in Node : \A q \in 0 .. MaxReqId : \A m \in Message :
        Outstanding(n, q, m)' => Outstanding(n, q, m)

LEMMA InFlightIs ==
  ASSUME Typed, NEW f \in Frame
  PROVE  InFlight(f) <=> f \in Range(nwOutQ[f.src][f.priority]) \/ f \in Range(tsaInQ[f.dst])
<1>1. f.src \in Node /\ f.dst \in Node /\ f.priority \in Priority
  BY FrameKinds
<1>2. nwOutQ[f.src][f.priority] \in Seq(Frame) /\ tsaInQ[f.dst] \in Seq(Frame)
  BY <1>1, TypedParts DEF NwTyped, InTyped
<1>3. /\ f \in Range(nwOutQ[f.src][f.priority]) <=> Queued(f, nwOutQ[f.src][f.priority])
      /\ f \in Range(tsaInQ[f.dst]) <=> Queued(f, tsaInQ[f.dst])
  BY <1>2, RangeIs DEF Queued
<1> QED
  BY <1>3 DEF InFlight

LEMMA InFlightNextIs ==
  ASSUME Typed', NEW f \in Frame
  PROVE  InFlight(f)' <=> f \in Range(nwOutQ'[f.src][f.priority]) \/ f \in Range(tsaInQ'[f.dst])
<1>1. f.src \in Node /\ f.dst \in Node /\ f.priority \in Priority
  BY FrameKinds
<1>2. nwOutQ'[f.src][f.priority] \in Seq(Frame) /\ tsaInQ'[f.dst] \in Seq(Frame)
  BY <1>1, TypedParts DEF NwTyped, InTyped
<1>3. /\ f \in Range(nwOutQ'[f.src][f.priority]) <=> Queued(f, nwOutQ'[f.src][f.priority])
      /\ f \in Range(tsaInQ'[f.dst]) <=> Queued(f, tsaInQ'[f.dst])
  BY <1>2, RangeIs DEF Queued
<1> QED
  BY <1>3 DEF InFlight

LEMMA FlightIsKept ==
  ASSUME Typed, Typed', NEW G,
         \A o \in Node, q \in Priority : Range(nwOutQ'[o][q]) \subseteq Range(nwOutQ[o][q]) \cup G,
         \A o \in Node : \A f \in Range(tsaInQ'[o]) : f \in Range(tsaInQ[o]) \/ InFlight(f)
  PROVE  FlightKept(G)
<1> SUFFICES ASSUME NEW f \in Frame, InFlight(f)'
             PROVE  InFlight(f) \/ f \in G
  BY DEF FlightKept
<1>1. f.src \in Node /\ f.dst \in Node /\ f.priority \in Priority
  BY FrameKinds
<1>2. f \in Range(nwOutQ'[f.src][f.priority]) \/ f \in Range(tsaInQ'[f.dst])
  BY InFlightNextIs
<1> QED
  BY <1>1, <1>2, InFlightIs

LEMMA FramesOfUse ==
  ASSUME NEW m \in Message, NEW t \in 0 .. MaxTid
  PROVE  /\ MessageFrame(m, t) \in Frame /\ MessageFrame(m, t).kind = m.service
         /\ m.service \in Service
         /\ MessageFrame(m, t).body = m /\ MessageFrame(m, t).transNum = t
         /\ ResponseFrame(m, t) \in Frame /\ ResponseFrame(m, t).kind = "response"
         /\ ResponseFrame(m, t).body = m /\ ResponseFrame(m, t).transNum = t
         /\ ResponseFrame(m, t).src = m.dst /\ ResponseFrame(m, t).dst = m.src
         /\ ResponseFrame(m, t).priority = m.priority
<1>1. m.src \in Node /\ m.dst \in Node /\ m.priority \in Priority /\ m.service \in Service
  BY TsaAssumption
<1>2. ResponseFrame(m, t) \in Answer("response", Message)
  BY <1>1 DEF ResponseFrame, Answer
<1>3. /\ MessageFrame(m, t) \in Frame /\ MessageFrame(m, t).kind = m.service
      /\ MessageFrame(m, t).body = m /\ MessageFrame(m, t).transNum = t
  BY FrameOfMessage DEF FramesOf
<1>4. ResponseFrame(m, t) \in Frame
  BY <1>2 DEF Frame
<1> QED
  BY <1>1, <1>3, <1>4 DEF ResponseFrame

\* No number stands for anything new when frames are sent only for what it stands for.
LEMMA UseIsKept ==
  ASSUME NEW G, FlightKept(G),
         \A f \in G : f.kind \in Service \cup {"response"} => InUse(f.body, f.transNum),
         \A m \in Message : \A t \in 0 .. MaxTid :
             Recorded(m, t)' \/ Sending(m, t)' => InUse(m, t)
  PROVE  NoNewUse
<1> SUFFICES ASSUME NEW m \in Message, NEW t \in 0 .. MaxTid, InUse(m, t)'
             PROVE  InUse(m, t)
  BY DEF NoNewUse
<1>1. \/ InFlight(MessageFrame(m, t))' \/ InFlight(ResponseFrame(m, t))'
      \/ Sending(m, t)' \/ Recorded(m, t)'
  BY DEF InUse
<1>2. CASE InFlight(MessageFrame(m, t))'
  <2>1. InFlight(MessageFrame(m, t)) \/ MessageFrame(m, t) \in G
    BY <1>2, FramesOfUse DEF FlightKept
  <2> QED
    BY <2>1, FramesOfUse DEF InUse
<1>3. CASE InFlight(ResponseFrame(m, t))'
  <2>1. InFlight(ResponseFrame(m, t)) \/ ResponseFrame(m, t) \in G
    BY <1>3, FramesOfUse DEF FlightKept
  <2> QED
    BY <2>1, FramesOfUse DEF InUse
<1> QED
  BY <1>1, <1>2, <1>3

LEMMA ResponsesKept ==
  ASSUME ResponsesTrue, NEW G, FlightKept(G),
         \A f \in G : f.kind = "response" => f = ResponseFrame(f.body, f.transNum)
  PROVE  ResponsesTrue'
BY DEF ResponsesTrue, FlightKept

\* A message that is being sent, as long as it is.
LEMMA SendingKept ==
  ASSUME Typed,
         \A n \in Node, p \in Priority :
            \/ xmitRec'[n][p].status = "unused"
            \/ /\ xmitRec'[n][p].status = xmitRec[n][p].status
               /\ xmitRec'[n][p].transNum = xmitRec[n][p].transNum
               /\ \/ tsaOutQ'[n][p] = tsaOutQ[n][p]
                  \/ \E m \in Message : tsaOutQ'[n][p] = Put(tsaOutQ[n][p], m, Cnt.tsaOut)
  PROVE  \A m \in Message : \A t \in 0 .. MaxTid : Sending(m, t)' => InUse(m, t)
<1> SUFFICES ASSUME NEW m \in Message, NEW t \in 0 .. MaxTid, Sending(m, t)'
             PROVE  Sending(m, t)
  BY DEF InUse
<1> DEFINE n == m.src
           p == m.priority
<1>1. n \in Node /\ p \in Priority
  BY TsaAssumption
<1>2. /\ xmitRec'[n][p].status # "unused" /\ xmitRec'[n][p].transNum = t
      /\ Head(tsaOutQ'[n][p]) = m
  BY DEF Sending
<1> HIDE DEF n, p
<1>3. /\ xmitRec[n][p].status # "unused" /\ xmitRec[n][p].transNum = t
      /\ \/ tsaOutQ'[n][p] = tsaOutQ[n][p]
         \/ \E o \in Message : tsaOutQ'[n][p] = Put(tsaOutQ[n][p], o, Cnt.tsaOut)
  BY <1>1, <1>2
<1>4. tsaOutQ[n][p] # <<>> /\ tsaOutQ[n][p] \in Seq(Message)
  <2>1. InProgress /\ OutTyped
    BY TypedNow
  <2> QED
    BY <1>1, <1>3, <2>1 DEF InProgress, OutTyped
<1>5. Head(tsaOutQ'[n][p]) = Head(tsaOutQ[n][p])
  <2>1. CASE \E o \in Message : tsaOutQ'[n][p] = Put(tsaOutQ[n][p], o, Cnt.tsaOut)
    <3>1. PICK o \in Message : tsaOutQ'[n][p] = Put(tsaOutQ[n][p], o, Cnt.tsaOut)
      BY <2>1
    <3> DEFINE q == tsaOutQ[n][p]
               c == Cnt.tsaOut
    <3>2. q \in Seq(Message) /\ q # <<>> /\ c \in Nat \ {0}
      BY <1>4, Counts
    <3> HIDE DEF q, c
    <3>3. Head(Put(q, o, c)) = Head(q)
      BY <3>2, PutProperties
    <3> QED
      BY <3>1, <3>3 DEF q, c
  <2> QED
    BY <1>3, <2>1
<1>6. Sending(m, t) <=> /\ xmitRec[n][p].status # "unused" /\ xmitRec[n][p].transNum = t
                        /\ Head(tsaOutQ[n][p]) = m
  BY DEF Sending, n, p
<1> QED
  BY <1>2, <1>3, <1>5, <1>6

\* A record that is written stands for the message of a number that stood for it before.
LEMMA RecordedKept ==
  ASSUME Typed, NEW n \in Node, NEW i \in RR, NEW d \in RecordsOf(n),
         recvRec' = [recvRec EXCEPT ![n][i] = d],
         d.status # "unused" => InUse(d.msg, d.transNum)
  PROVE  \A m \in Message : \A t \in 0 .. MaxTid : Recorded(m, t)' => InUse(m, t)
<1>1. recvRec \in [Node -> [RR -> Record]]
  BY TypedNow DEF RecordsTyped
<1>2. /\ recvRec'[n][i] = d
      /\ \A o \in Node, k \in RR : <<o, k>> # <<n, i>> => recvRec'[o][k] = recvRec[o][k]
  BY <1>1
<1> SUFFICES ASSUME NEW m \in Message, NEW t \in 0 .. MaxTid, Recorded(m, t)'
             PROVE  InUse(m, t)
  OBVIOUS
<1>3. PICK j \in RR : /\ recvRec'[m.dst][j].status # "unused"
                      /\ recvRec'[m.dst][j].msg = m /\ recvRec'[m.dst][j].transNum = t
  BY DEF Recorded
<1>4. m.dst \in Node
  BY TsaAssumption
<1>5. CASE <<m.dst, j>> = <<n, i>>
  <2>1. m.dst = n /\ j = i
    BY <1>5
  <2>2. d.status # "unused" /\ d.msg = m /\ d.transNum = t
    BY <1>2, <1>3, <2>1
  <2> QED
    BY <2>2
<1>6. CASE <<m.dst, j>> # <<n, i>>
  BY <1>2, <1>3, <1>4, <1>6 DEF InUse, Recorded
<1> QED
  BY <1>5, <1>6

LEMMA RecordsStayTrue ==
  ASSUME Typed, RecordsTrue, NEW n \in Node, NEW i \in RR, NEW d \in RecordsOf(n),
         recvRec' = [recvRec EXCEPT ![n][i] = d], RecordTrue(n, d)
  PROVE  RecordsTrue'
<1>1. recvRec \in [Node -> [RR -> Record]]
  BY TypedNow DEF RecordsTyped
<1>2. /\ recvRec'[n][i] = d
      /\ \A o \in Node, k \in RR : <<o, k>> # <<n, i>> => recvRec'[o][k] = recvRec[o][k]
  BY <1>1
<1> SUFFICES ASSUME NEW o \in Node, NEW k \in RR
             PROVE  RecordTrue(o, recvRec'[o][k])
  BY DEF RecordsTrue, RecordTrue
<1>3. CASE <<o, k>> = <<n, i>>
  BY <1>2, <1>3
<1>4. CASE <<o, k>> # <<n, i>>
  BY <1>2, <1>4 DEF RecordsTrue
<1> QED
  BY <1>3, <1>4

\* Requests that wait for their response, when those in N are added.
LEMMA RequestsAfter ==
  ASSUME Typed, Typed', NEW N,
         \A n \in Node, i \in RR :
            \/ recvRec'[n][i] = recvRec[n][i]
            \/ recvRec'[n][i].transState \notin {"authenticating", "delivered"}
            \/ recvRec'[n][i].msg.service # "request"
            \/ Outstanding(n, recvRec'[n][i].reqId, recvRec'[n][i].msg)
            \/ <<n, recvRec'[n][i].reqId, recvRec'[n][i].msg>> \in N,
         \A n \in Node : \A a \in Range(appInQ'[n]) :
            \/ a \in Range(appInQ[n])
            \/ a.msg.service # "request"
            \/ Outstanding(n, a.reqId, a.msg)
            \/ <<n, a.reqId, a.msg>> \in N,
         \A n \in Node : \A a \in Range(tsaRespQ'[n]) :
            a \in Range(tsaRespQ[n]) \/ Outstanding(n, a.reqId, a.body)
  PROVE  \A n \in Node : \A q \in 0 .. MaxReqId : \A m \in Message :
            Outstanding(n, q, m)' => Outstanding(n, q, m) \/ <<n, q, m>> \in N
<1> SUFFICES ASSUME NEW n \in Node, NEW q \in 0 .. MaxReqId, NEW m \in Message,
                    Outstanding(n, q, m)'
             PROVE  Outstanding(n, q, m) \/ <<n, q, m>> \in N
  OBVIOUS
<1>1. CASE /\ m.service = "request"
           /\ \E i \in RR : /\ recvRec'[n][i].transState \in {"authenticating", "delivered"}
                            /\ recvRec'[n][i].msg = m /\ recvRec'[n][i].reqId = q
  <2>1. PICK i \in RR : /\ recvRec'[n][i].transState \in {"authenticating", "delivered"}
                        /\ recvRec'[n][i].msg = m /\ recvRec'[n][i].reqId = q
    BY <1>1
  <2>2. CASE recvRec'[n][i] = recvRec[n][i]
    BY <1>1, <2>1, <2>2 DEF Outstanding
  <2> QED
    BY <1>1, <2>1, <2>2
<1>2. CASE /\ m.service = "request"
           /\ \E k \in 1 .. Len(appInQ'[n]) : appInQ'[n][k].msg = m /\ appInQ'[n][k].reqId = q
  <2>1. appInQ[n] \in Seq(Delivery) /\ appInQ'[n] \in Seq(Delivery)
    <3>1. AppTyped /\ AppTyped'
      BY TypedNow, TypedNext
    <3> QED
      BY <3>1 DEF AppTyped
  <2>2. PICK a \in Range(appInQ'[n]) : a.msg = m /\ a.reqId = q
    BY <1>2, <2>1, RangeIs
  <2>3. CASE a \in Range(appInQ[n])
    <3>1. PICK k \in 1 .. Len(appInQ[n]) : appInQ[n][k] = a
      BY <2>1, <2>3, RangeIs
    <3> QED
      BY <1>2, <2>2, <3>1 DEF Outstanding
  <2> QED
    BY <1>2, <2>2, <2>3
<1>3. CASE \E k \in 1 .. Len(tsaRespQ'[n]) :
              tsaRespQ'[n][k].body = m /\ tsaRespQ'[n][k].reqId = q
  <2>1. tsaRespQ[n] \in Seq(Answered) /\ tsaRespQ'[n] \in Seq(Answered)
    <3>1. RespTyped /\ RespTyped'
      BY TypedNow, TypedNext
    <3> QED
      BY <3>1 DEF RespTyped
  <2>2. PICK a \in Range(tsaRespQ'[n]) : a.body = m /\ a.reqId = q
    BY <1>3, <2>1, RangeIs
  <2>3. CASE a \in Range(tsaRespQ[n])
    <3>1. PICK k \in 1 .. Len(tsaRespQ[n]) : tsaRespQ[n][k] = a
      BY <2>1, <2>3, RangeIs
    <3> QED
      BY <1>3, <2>2, <3>1 DEF Outstanding
  <2> QED
    BY <2>2, <2>3
<1> QED
  BY <1>1, <1>2, <1>3 DEF Outstanding

LEMMA RequestsKept ==
  ASSUME Typed, Typed',
         \A n \in Node, i \in RR :
            \/ recvRec'[n][i] = recvRec[n][i]
            \/ recvRec'[n][i].transState \notin {"authenticating", "delivered"}
            \/ /\ recvRec[n][i].transState \in {"authenticating", "delivered"}
               /\ recvRec'[n][i].msg = recvRec[n][i].msg
               /\ recvRec'[n][i].reqId = recvRec[n][i].reqId,
         \A n \in Node : \A a \in Range(appInQ'[n]) :
            \/ a \in Range(appInQ[n])
            \/ a.msg.service = "request" => Outstanding(n, a.reqId, a.msg),
         \A n \in Node : \A a \in Range(tsaRespQ'[n]) :
            a \in Range(tsaRespQ[n]) \/ Outstanding(n, a.reqId, a.body)
  PROVE  NoNewRequest
<1> PICK N : N = {}
  OBVIOUS
<1>1. \A n \in Node, i \in RR :
            \/ recvRec'[n][i] = recvRec[n][i]
            \/ recvRec'[n][i].transState \notin {"authenticating", "delivered"}
            \/ recvRec'[n][i].msg.service # "request"
            \/ Outstanding(n, recvRec'[n][i].reqId, recvRec'[n][i].msg)
            \/ <<n, recvRec'[n][i].reqId, recvRec'[n][i].msg>> \in N
  BY DEF Outstanding
<1>2. \A n \in Node : \A a \in Range(appInQ'[n]) :
            \/ a \in Range(appInQ[n])
            \/ a.msg.service # "request"
            \/ Outstanding(n, a.reqId, a.msg)
            \/ <<n, a.reqId, a.msg>> \in N
  OBVIOUS
<1>3. \A n \in Node : \A q \in 0 .. MaxReqId : \A m \in Message :
            Outstanding(n, q, m)' => Outstanding(n, q, m) \/ <<n, q, m>> \in N
  BY <1>1, <1>2, RequestsAfter
<1> QED
  BY <1>3 DEF NoNewRequest

LEMMA ResponseKept ==
  ASSUME EventTyped, EventTyped', ResponseIsForItsRequest,
         \A m \in Message : answers'[m] \subseteq {m},
         \A n \in Node : \A a \in Range(appCeRspInQ'[n]) :
            a \in Range(appCeRspInQ[n]) \/ (a.indication = "message" => a.body = a.msg)
  PROVE  ResponseIsForItsRequest'
<1> SUFFICES ASSUME NEW n \in Node, NEW k \in 1 .. Len(appCeRspInQ'[n]),
                    appCeRspInQ'[n][k].indication = "message"
             PROVE  appCeRspInQ'[n][k].body = appCeRspInQ'[n][k].msg
  BY DEF ResponseIsForItsRequest
<1>1. appCeRspInQ[n] \in Seq(Event) /\ appCeRspInQ'[n] \in Seq(Event)
  BY DEF EventTyped
<1>2. appCeRspInQ'[n][k] \in Range(appCeRspInQ'[n])
  BY <1>1, RangeIs
<1>3. CASE appCeRspInQ'[n][k] \in Range(appCeRspInQ[n])
  <2>1. PICK j \in 1 .. Len(appCeRspInQ[n]) : appCeRspInQ[n][j] = appCeRspInQ'[n][k]
    BY <1>1, <1>3, RangeIs
  <2>2. appCeRspInQ[n][j].indication = "message" => appCeRspInQ[n][j].body = appCeRspInQ[n][j].msg
    BY DEF ResponseIsForItsRequest
  <2> QED
    BY <2>1, <2>2
<1> QED
  BY <1>2, <1>3

Sound ==
    /\ Typed /\ ResponsesTrue /\ NumbersUnique /\ RequestsUnique /\ RecordsTrue
    /\ ResponseIsForItsRequest

\* A step that gives out no number, and keeps the rest of Sound.
Steady ==
    /\ Typed' /\ NoNewUse /\ NoNewRequest /\ ResponsesTrue' /\ RecordsTrue'
    /\ ResponseIsForItsRequest'

\* What a step keeps that leaves variables alone.
LEMMA SoundUnchanged ==
  ASSUME Sound, Typed'
  PROVE  /\ UNCHANGED recvRec => RecordsTrue'
         /\ UNCHANGED recvRec =>
               \A m \in Message : \A t \in 0 .. MaxTid : Recorded(m, t)' => InUse(m, t)
         /\ UNCHANGED <<tsaOutQ, xmitRec>> =>
               \A m \in Message : \A t \in 0 .. MaxTid : Sending(m, t)' => InUse(m, t)
         /\ UNCHANGED <<appCeRspInQ, answers>> => ResponseIsForItsRequest'
         /\ UNCHANGED <<recvRec, appInQ, tsaRespQ>> => NoNewRequest
         /\ UNCHANGED nwOutQ /\ (\A o \in Node : Range(tsaInQ'[o]) \subseteq Range(tsaInQ[o])) =>
               FlightKept({})
<1>1. UNCHANGED recvRec => RecordsTrue'
  BY DEF Sound, RecordsTrue
<1>2. UNCHANGED recvRec =>
               \A m \in Message : \A t \in 0 .. MaxTid : Recorded(m, t)' => InUse(m, t)
  BY DEF Recorded, InUse
<1>3. UNCHANGED <<tsaOutQ, xmitRec>> =>
               \A m \in Message : \A t \in 0 .. MaxTid : Sending(m, t)' => InUse(m, t)
  BY DEF Sending, InUse
<1>5. UNCHANGED <<appCeRspInQ, answers>> => ResponseIsForItsRequest'
  BY DEF ResponseIsForItsRequest, Sound
<1>6. UNCHANGED <<recvRec, appInQ, tsaRespQ>> => NoNewRequest
  BY DEF NoNewRequest, Outstanding
<1>7. UNCHANGED nwOutQ /\ (\A o \in Node : Range(tsaInQ'[o]) \subseteq Range(tsaInQ[o])) =>
               FlightKept({})
  BY FlightIsKept DEF Sound
<1> QED
  BY <1>1, <1>2, <1>3, <1>5, <1>6, <1>7

-----------------------------------------------------------------------------
(* Steps that give out no number.                                          *)

\* Steps that leave records and what the application is given alone.
LEMMA SendingSteady ==
  ASSUME Sound, Typed', NEW G, FlightKept(G),
         \A f \in G : f.kind \in Service \cup {"response"} => InUse(f.body, f.transNum),
         \A f \in G : f.kind # "response",
         \A m \in Message : \A t \in 0 .. MaxTid : Sending(m, t)' => InUse(m, t),
         ResponseIsForItsRequest',
         UNCHANGED <<recvRec, appInQ, tsaRespQ>>
  PROVE  Steady
<1>1. /\ RecordsTrue' /\ NoNewRequest
      /\ \A m \in Message : \A t \in 0 .. MaxTid : Recorded(m, t)' => InUse(m, t)
  BY SoundUnchanged
<1>2. NoNewUse
  BY <1>1, UseIsKept
<1>3. ResponsesTrue'
  BY ResponsesKept DEF Sound
<1> QED
  BY <1>1, <1>2, <1>3 DEF Steady

LEMMA SubmitSteady ==
  ASSUME Sound, NEW m \in Message, Submit(m)
  PROVE  Steady
<1>1. /\ Typed'
      /\ tsaOutQ'[m.src][m.priority] = Put(tsaOutQ[m.src][m.priority], m, Cnt.tsaOut)
      /\ \A o \in Node, r \in Priority :
            <<o, r>> # <<m.src, m.priority>> => tsaOutQ'[o][r] = tsaOutQ[o][r]
  BY SubmitTyped DEF Sound
<1>2. UNCHANGED <<xmitRec, recvRec, tsaInQ, nwOutQ, tsaRespQ, appInQ, appCeRspInQ, answers>>
  BY DEF Submit, recvVars, appVars, told
<1>3. FlightKept({}) /\ ResponseIsForItsRequest'
  BY <1>1, <1>2, SoundUnchanged
<1>4. \A n \in Node, p \in Priority :
          \/ tsaOutQ'[n][p] = tsaOutQ[n][p]
          \/ \E o \in Message : tsaOutQ'[n][p] = Put(tsaOutQ[n][p], o, Cnt.tsaOut)
  BY <1>1
<1>5. \A o \in Message : \A t \in 0 .. MaxTid : Sending(o, t)' => InUse(o, t)
  BY <1>2, <1>4, SendingKept DEF Sound
<1> QED
  BY <1>1, <1>2, <1>3, <1>5, SendingSteady

\* An entry for the application that is no response.
LEMMA CompletionKept ==
  ASSUME Sound, Typed', NEW n \in Node, NEW q \in Seq(EventsOf(n)),
         NEW m, NEW success, Completion(m, success) \in EventsOf(n),
         \A a \in Range(q) : a \in Range(appCeRspInQ[n]) \/ (a.indication = "message" => a.body = a.msg),
         appCeRspInQ'[n] = Put(q, Completion(m, success), Cnt.appCeRsp),
         \A o \in Node : o # n => appCeRspInQ'[o] = appCeRspInQ[o],
         UNCHANGED answers
  PROVE  ResponseIsForItsRequest'
<1>1. Range(appCeRspInQ'[n]) \subseteq Range(q) \cup {Completion(m, success)}
  BY PutProperties, Counts
<1>2. Completion(m, success).indication = "completion"
  BY DEF Completion
<1>3. \A o \in Node : \A a \in Range(appCeRspInQ'[o]) :
          a \in Range(appCeRspInQ[o]) \/ (a.indication = "message" => a.body = a.msg)
  BY <1>1, <1>2
<1>4. \A o \in Message : answers'[o] \subseteq {o}
  BY DEF Sound, ResponseIsForItsRequest
<1> QED
  BY <1>3, <1>4, ResponseKept, TypedParts DEF Sound

LEMMA CompleteAtOnceSteady ==
  ASSUME Sound, NEW n \in Node, NEW p \in Priority, NEW layer, CompleteAtOnce(n, p, layer)
  PROVE  Steady
<1>1. PICK m, success :
             /\ Typed' /\ xmitRec[n][p].status = "unused"
             /\ tsaOutQ'[n][p] = Tail(tsaOutQ[n][p])
             /\ \A o \in Node, r \in Priority :
                   <<o, r>> # <<n, p>> => tsaOutQ'[o][r] = tsaOutQ[o][r]
             /\ appCeRspInQ'[n] = Put(appCeRspInQ[n], Completion(m, success), Cnt.appCeRsp)
             /\ \A o \in Node : o # n => appCeRspInQ'[o] = appCeRspInQ[o]
             /\ Completion(m, success) \in EventsOf(n)
             /\ UNCHANGED <<xmitRec, transID, lastTid, restart, recvVars, tsaInQ, nwOutQ,
                            tsaRespQ, appInQ, resets, submitted, delivered, told>>
  BY CompleteAtOnceTyped DEF Sound
<1>2. UNCHANGED <<recvRec, xmitRec, tsaInQ, nwOutQ, tsaRespQ, appInQ, answers>>
  BY <1>1 DEF recvVars, told
<1>3. ResponseIsForItsRequest'
  BY <1>1, <1>2, CompletionKept, TypedParts DEF Sound, EventTyped
<1>4. FlightKept({})
  BY <1>1, <1>2, SoundUnchanged
<1>5. \A o \in Node, r \in Priority :
         \/ xmitRec'[o][r].status = "unused"
         \/ tsaOutQ'[o][r] = tsaOutQ[o][r]
  BY <1>1, <1>2
<1>6. \A o \in Message : \A t \in 0 .. MaxTid : Sending(o, t)' => InUse(o, t)
  BY <1>2, <1>5, SendingKept DEF Sound
<1> QED
  BY <1>1, <1>2, <1>3, <1>4, <1>6, SendingSteady

\* A transaction ends.
LEMMA EndedSteady ==
  ASSUME Sound, Typed', NEW n \in Node, NEW p \in Priority, NEW q, NEW success \in BOOLEAN,
         EndedAs(n, p, q, success),
         \A a \in Range(q) : a \in Range(appCeRspInQ[n]) \/ (a.indication = "message" => a.body = a.msg),
         \A o \in Node : Range(tsaInQ'[o]) \subseteq Range(tsaInQ[o]),
         UNCHANGED <<recvRec, nwOutQ, tsaRespQ, appInQ, answers>>
  PROVE  Steady
<1>1. /\ q \in Seq(EventsOf(n))
      /\ \A o \in Node, r \in Priority : <<o, r>> # <<n, p>> => tsaOutQ'[o][r] = tsaOutQ[o][r]
      /\ appCeRspInQ'[n] = Put(q, Completion(Head(tsaOutQ[n][p]), success), Cnt.appCeRsp)
      /\ \A o \in Node : o # n => appCeRspInQ'[o] = appCeRspInQ[o]
      /\ Completion(Head(tsaOutQ[n][p]), success) \in EventsOf(n)
      /\ xmitRec'[n][p].status = "unused"
      /\ \A o \in Node, r \in Priority : <<o, r>> # <<n, p>> => xmitRec'[o][r] = xmitRec[o][r]
  BY DEF EndedAs
<1>2. ResponseIsForItsRequest'
  BY <1>1, CompletionKept
<1>3. FlightKept({})
  BY SoundUnchanged
<1>4. \A o \in Node, r \in Priority :
         \/ xmitRec'[o][r].status = "unused"
         \/ tsaOutQ'[o][r] = tsaOutQ[o][r] /\ xmitRec'[o][r] = xmitRec[o][r]
  BY <1>1
<1>5. \A o \in Message : \A t \in 0 .. MaxTid : Sending(o, t)' => InUse(o, t)
  BY <1>4, SendingKept DEF Sound
<1> QED
  BY <1>2, <1>3, <1>5, SendingSteady

LEMMA GiveUpSteady ==
  ASSUME Sound, NEW n \in Node, NEW p \in Priority, GiveUp(n, p)
  PROVE  Steady
<1>1. PICK success : /\ Typed' /\ EndedAs(n, p, appCeRspInQ[n], success)
                     /\ UNCHANGED <<lastTid, restart, recvVars, tsaInQ, nwOutQ, tsaRespQ, appInQ,
                                    resets, submitted, delivered, told>>
  BY GiveUpTyped DEF Sound
<1>2. success \in BOOLEAN
  BY <1>1 DEF EndedAs
<1>3. UNCHANGED <<recvRec, tsaInQ, nwOutQ, tsaRespQ, appInQ, answers>>
  BY <1>1 DEF recvVars, told
<1> QED
  BY <1>1, <1>2, <1>3, EndedSteady

LEMMA TPReceiveAckSteady ==
  ASSUME Sound, NEW n \in Node, TPReceiveAck(n)
  PROVE  Steady
<1>1. PICK p \in Priority, success \in BOOLEAN :
          /\ Typed' /\ tsaInQ[n] # <<>> /\ DropReceived(n)
          /\ EndedAs(n, p, appCeRspInQ[n], success)
          /\ UNCHANGED <<lastTid, restart, recvVars, nwOutQ, tsaRespQ, appInQ,
                         resets, submitted, delivered, told>>
  BY TPReceiveAckTyped DEF Sound
<1>2. \A o \in Node : Range(tsaInQ'[o]) \subseteq Range(tsaInQ[o])
  BY <1>1, DropTyped, TypedParts DEF Sound
<1>3. UNCHANGED <<recvRec, nwOutQ, tsaRespQ, appInQ, answers>>
  BY <1>1 DEF recvVars, told
<1> QED
  BY <1>1, <1>2, <1>3, EndedSteady

LEMMA ResponseFields ==
  ASSUME NEW f, f = ResponseFrame(f.body, f.transNum)
  PROVE  f.src = f.body.dst /\ f.dst = f.body.src /\ f.priority = f.body.priority
BY DEF ResponseFrame

\* The response that is passed on was sent for the number that the transaction in progress
\* has, and that number stands for one message.
LEMMA SNReceiveResponseSteady ==
  ASSUME Sound, NEW n \in Node, SNReceiveResponse(n)
  PROVE  Steady
<1> DEFINE f == Head(tsaInQ[n])
           p == f.priority
           m == Head(tsaOutQ[n][p])
           e == ResponseTo(m, f.body)
<1>1. /\ Typed' /\ tsaInQ[n] # <<>> /\ DropReceived(n)
      /\ f \in FramesTo(n) /\ f \in Frame /\ f \in Range(tsaInQ[n])
      /\ f.kind = "response" /\ p \in Priority /\ Current(n, f, "session")
      /\ e \in EventsOf(n)
      /\ \E success \in BOOLEAN : EndedAs(n, p, Put(appCeRspInQ[n], e, Cnt.appCeRsp), success)
      /\ UNCHANGED <<lastTid, restart, recvVars, nwOutQ, tsaRespQ, appInQ,
                     resets, submitted, delivered, told>>
  BY SNReceiveResponseTyped DEF Sound
<1>2. f.dst = n /\ f.transNum \in 0 .. MaxTid /\ f.body \in Message
  BY <1>1, FrameKinds DEF FramesTo
<1>3. /\ xmitRec[n][p].status = "session" /\ xmitRec[n][p].transNum = f.transNum
  BY <1>1 DEF Current
<1>4. InFlight(f)
  BY <1>1, <1>2, InFlightIs DEF Sound
<1>5. f = ResponseFrame(f.body, f.transNum)
  BY <1>1, <1>4 DEF Sound, ResponsesTrue
<1>6. f.body.src = n /\ f.body.priority = p
  <2> HIDE DEF f
  <2> QED
    BY <1>2, <1>5, ResponseFields
<1>7. m \in Message /\ m.src = n /\ m.priority = p
  <2>1. p \in Priority /\ xmitRec[n][p].status = "session"
    BY <1>1, <1>3
  <2> HIDE DEF p
  <2>2. OutTyped /\ InProgress
    BY TypedParts DEF Sound
  <2>3. tsaOutQ[n][p] # <<>>
    BY <2>1, <2>2 DEF InProgress
  <2> QED
    BY <2>1, <2>2, <2>3, HeadMessage
<1>8. InUse(m, f.transNum)
  BY <1>3, <1>7 DEF InUse, Sending
<1>9. InUse(f.body, f.transNum)
  BY <1>4, <1>5 DEF InUse
<1>10. f.body = m
  BY <1>2, <1>6, <1>7, <1>8, <1>9 DEF Sound, NumbersUnique
<1>11. e.indication = "message" /\ e.body = e.msg
  BY <1>10 DEF ResponseTo
<1> HIDE DEF e
<1>12. \A a \in Range(Put(appCeRspInQ[n], e, Cnt.appCeRsp)) :
           a \in Range(appCeRspInQ[n]) \/ (a.indication = "message" => a.body = a.msg)
  <2>1. appCeRspInQ[n] \in Seq(EventsOf(n))
    BY TypedParts DEF Sound, EventTyped
  <2>2. Range(Put(appCeRspInQ[n], e, Cnt.appCeRsp)) \subseteq Range(appCeRspInQ[n]) \cup {e}
    BY <1>1, <2>1, PutProperties, Counts
  <2> QED
    BY <1>11, <2>2
<1>13. \A o \in Node : Range(tsaInQ'[o]) \subseteq Range(tsaInQ[o])
  BY <1>1, DropTyped, TypedParts DEF Sound
<1>14. UNCHANGED <<recvRec, nwOutQ, tsaRespQ, appInQ, answers>>
  BY <1>1 DEF recvVars, told
<1> HIDE DEF f, p, m
<1>15. PICK success \in BOOLEAN :
           EndedAs(n, p, Put(appCeRspInQ[n], e, Cnt.appCeRsp), success)
  BY <1>1
<1> QED
  BY <1>1, <1>12, <1>13, <1>14, <1>15, EndedSteady

LEMMA RetrySteady ==
  ASSUME Sound, NEW n \in Node, NEW p \in Priority, Retry(n, p)
  PROVE  Steady
<1> DEFINE f == MessageFrame(Head(tsaOutQ[n][p]), xmitRec[n][p].transNum)
<1>1. /\ Typed' /\ xmitRec[n][p].status # "unused"
      /\ \A o \in Node, r \in Priority :
            /\ xmitRec'[o][r].status = xmitRec[o][r].status
            /\ xmitRec'[o][r].transNum = xmitRec[o][r].transNum
      /\ Send(n, f) /\ f \in FramesOf(n, p)
      /\ UNCHANGED <<tsaOutQ, transID, lastTid, restart, recvVars, tsaInQ, appVars,
                     resets, submitted, delivered, told>>
  BY RetryTyped DEF Sound
<1>2. UNCHANGED <<tsaOutQ, recvRec, tsaInQ, tsaRespQ, appInQ, appCeRspInQ, answers>>
  BY <1>1 DEF recvVars, appVars, told
<1>3. /\ Head(tsaOutQ[n][p]) \in Message /\ Head(tsaOutQ[n][p]).src = n
      /\ Head(tsaOutQ[n][p]).priority = p
  BY <1>1, HeadMessage, TypedParts DEF Sound, InProgress
<1>4. xmitRec[n][p].transNum \in 0 .. MaxTid
  BY TypedParts DEF Sound, XmitTyped
<1>5. f.kind \in Service /\ f.body = Head(tsaOutQ[n][p]) /\ f.transNum = xmitRec[n][p].transNum
  BY <1>3, <1>4, FramesOfUse
<1>6. InUse(f.body, f.transNum)
  BY <1>1, <1>3, <1>5 DEF InUse, Sending
<1> HIDE DEF f
<1>7. \A o \in Node, r \in Priority : Range(nwOutQ'[o][r]) \subseteq Range(nwOutQ[o][r]) \cup {f}
  BY <1>1, SendTyped, TypedParts DEF Sound
<1>8. FlightKept({f})
  BY <1>1, <1>2, <1>7, FlightIsKept DEF Sound
<1>9. ResponseIsForItsRequest'
  BY <1>1, <1>2, SoundUnchanged
<1>10. \A o \in Message : \A t \in 0 .. MaxTid : Sending(o, t)' => InUse(o, t)
  BY <1>1, <1>2, SendingKept DEF Sound
<1>11. f.kind # "response"
  BY <1>5 DEF Service
<1> QED
  BY <1>1, <1>2, <1>6, <1>8, <1>9, <1>10, <1>11, SendingSteady

LEMMA IgnoredSteady ==
  ASSUME Sound, NEW n \in Node,
         \/ \E layer \in {"transport", "session"} : ReceiveRefused(n, layer)
         \/ IgnoreStale(n) \/ IgnoreReply(n)
  PROVE  Steady
<1>1. /\ Typed' /\ tsaInQ[n] # <<>> /\ DropReceived(n)
      /\ UNCHANGED <<sendVars, recvVars, nwOutQ, appVars, resets, submitted, delivered, told>>
  BY IgnoredTyped DEF Sound
<1>2. UNCHANGED <<tsaOutQ, xmitRec, recvRec, nwOutQ, tsaRespQ, appInQ, appCeRspInQ, answers>>
  BY <1>1 DEF sendVars, recvVars, appVars, told
<1>3. \A o \in Node : Range(tsaInQ'[o]) \subseteq Range(tsaInQ[o])
  BY <1>1, DropTyped, TypedParts DEF Sound
<1>4. /\ FlightKept({}) /\ ResponseIsForItsRequest'
      /\ \A m \in Message : \A t \in 0 .. MaxTid : Sending(m, t)' => InUse(m, t)
  BY <1>1, <1>2, <1>3, SoundUnchanged
<1> QED
  BY <1>1, <1>2, <1>4, SendingSteady

LEMMA SendReplyToChallengeSteady ==
  ASSUME Sound, NEW n \in Node, SendReplyToChallenge(n)
  PROVE  Steady
<1>1. /\ Typed' /\ tsaInQ[n] # <<>> /\ DropReceived(n)
      /\ \/ UNCHANGED nwOutQ
         \/ \E g, p : p \in Priority /\ g \in FramesOf(n, p) /\ g.kind = "reply" /\ Send(n, g)
      /\ UNCHANGED <<sendVars, recvVars, appVars, resets, submitted, delivered, told>>
  BY SendReplyToChallengeTyped DEF Sound
<1>2. UNCHANGED <<tsaOutQ, xmitRec, recvRec, tsaRespQ, appInQ, appCeRspInQ, answers>>
  BY <1>1 DEF sendVars, recvVars, appVars, told
<1>3. \A o \in Node : Range(tsaInQ'[o]) \subseteq Range(tsaInQ[o])
  BY <1>1, DropTyped, TypedParts DEF Sound
<1> DEFINE G == {g \in Frame : g.kind = "reply"}
<1>4. \A o \in Node, r \in Priority : Range(nwOutQ'[o][r]) \subseteq Range(nwOutQ[o][r]) \cup G
  <2>1. CASE UNCHANGED nwOutQ
    BY <2>1
  <2>2. CASE \E g, p : p \in Priority /\ g \in FramesOf(n, p) /\ g.kind = "reply" /\ Send(n, g)
    <3>1. PICK g, p : p \in Priority /\ g \in FramesOf(n, p) /\ g.kind = "reply" /\ Send(n, g)
      BY <2>2
    <3>2. \A o \in Node, r \in Priority : Range(nwOutQ'[o][r]) \subseteq Range(nwOutQ[o][r]) \cup {g}
      BY <3>1, SendTyped, TypedParts DEF Sound
    <3>3. g \in G
      BY <3>1 DEF FramesOf
    <3> QED
      BY <3>2, <3>3
  <2> QED
    BY <1>1, <2>1, <2>2
<1>5. FlightKept(G)
  BY <1>1, <1>3, <1>4, FlightIsKept DEF Sound
<1>6. /\ ResponseIsForItsRequest'
      /\ \A m \in Message : \A t \in 0 .. MaxTid : Sending(m, t)' => InUse(m, t)
  BY <1>1, <1>2, SoundUnchanged
<1>7. \A f \in G : f.kind \notin Service \cup {"response"}
  BY DEF Service
<1> HIDE DEF G
<1> QED
  BY <1>1, <1>2, <1>5, <1>6, <1>7, SendingSteady

LEMMA ChannelSteady ==
  ASSUME Sound, NEW n \in Node, NEW p \in Priority,
         Lose(n, p) \/ \E again \in BOOLEAN : Arrive(n, p, again)
  PROVE  Steady
<1> DEFINE f == Head(nwOutQ[n][p])
<1>1. /\ Typed' /\ nwOutQ[n][p] # <<>>
      /\ f \in FramesOf(n, p) /\ f \in Frame /\ f \in Range(nwOutQ[n][p])
      /\ \/ UNCHANGED tsaInQ
         \/ tsaInQ' = [tsaInQ EXCEPT ![f.dst] = Put(@, f, Cnt.tsaIn)]
      /\ \/ UNCHANGED nwOutQ
         \/ nwOutQ' = [nwOutQ EXCEPT ![n][p] = Tail(@)]
      /\ UNCHANGED <<sendVars, recvVars, appVars, resets, submitted, delivered, told>>
  BY ChannelTyped DEF Sound
<1> HIDE DEF f
<1>2. UNCHANGED <<tsaOutQ, xmitRec, recvRec, tsaRespQ, appInQ, appCeRspInQ, answers>>
  BY <1>1 DEF sendVars, recvVars, appVars, told
<1>3. InFlight(f)
  BY <1>1, InFlightIs DEF Sound, FramesOf
<1>4. \A o \in Node : Range(tsaInQ'[o]) \subseteq Range(tsaInQ[o]) \cup {f}
  BY <1>1, ArriveTyped, TypedParts DEF Sound
<1>5. \A o \in Node, r \in Priority : Range(nwOutQ'[o][r]) \subseteq Range(nwOutQ[o][r])
  BY <1>1, LeaveTyped, TypedParts DEF Sound
<1>6. FlightKept({})
  BY <1>1, <1>3, <1>4, <1>5, FlightIsKept DEF Sound
<1>7. /\ ResponseIsForItsRequest'
      /\ \A m \in Message : \A t \in 0 .. MaxTid : Sending(m, t)' => InUse(m, t)
  BY <1>1, <1>2, SoundUnchanged
<1> QED
  BY <1>1, <1>2, <1>6, <1>7, SendingSteady

LEMMA RestartOverSteady ==
  ASSUME Sound, NEW n \in Node, RestartOver(n)
  PROVE  Steady
<1>1. /\ Typed'
      /\ UNCHANGED <<tsaOutQ, xmitRec, transID, lastTid, recvVars, tsaInQ, nwOutQ,
                     appVars, resets, submitted, delivered, told>>
  BY RestartOverTyped DEF Sound
<1>2. UNCHANGED <<tsaOutQ, xmitRec, recvRec, tsaInQ, nwOutQ, tsaRespQ, appInQ, appCeRspInQ,
                  answers>>
  BY <1>1 DEF recvVars, appVars, told
<1>3. /\ FlightKept({}) /\ ResponseIsForItsRequest'
      /\ \A m \in Message : \A t \in 0 .. MaxTid : Sending(m, t)' => InUse(m, t)
  BY <1>1, <1>2, SoundUnchanged
<1> QED
  BY <1>1, <1>2, <1>3, SendingSteady

LEMMA ReceiveTimerSteady ==
  ASSUME Sound, NEW n \in Node, NEW i \in RR, ReceiveTimerExpired(n, i)
  PROVE  Steady
<1>1. PICK d :
         /\ Typed' /\ d \in RecordsOf(n) /\ d.status = "unused"
         /\ d.src = recvRec[n][i].src
         /\ d.msg = recvRec[n][i].msg /\ d.transState = recvRec[n][i].transState
         /\ d.auth = recvRec[n][i].auth /\ d.response = recvRec[n][i].response
         /\ d.reqId = recvRec[n][i].reqId
         /\ recvRec' = [recvRec EXCEPT ![n][i] = d]
         /\ UNCHANGED <<sendVars, reqId, tsaInQ, nwOutQ, appVars, resets, submitted,
                        delivered, told>>
  BY ReceiveTimerTyped DEF Sound
<1>2. UNCHANGED <<tsaOutQ, xmitRec, tsaInQ, nwOutQ, tsaRespQ, appInQ, appCeRspInQ, answers>>
  BY <1>1 DEF sendVars, appVars, told
<1>3. RecordTrue(n, d)
  BY <1>1 DEF Sound, RecordsTrue, RecordTrue
<1>4. RecordsTrue'
  BY <1>1, <1>3, RecordsStayTrue DEF Sound
<1>5. \A m \in Message : \A t \in 0 .. MaxTid : Recorded(m, t)' => InUse(m, t)
  BY <1>1, RecordedKept DEF Sound
<1>6. /\ FlightKept({}) /\ ResponseIsForItsRequest'
      /\ \A m \in Message : \A t \in 0 .. MaxTid : Sending(m, t)' => InUse(m, t)
  BY <1>1, <1>2, SoundUnchanged
<1>7. ResponsesTrue' /\ NoNewUse
  BY <1>5, <1>6, ResponsesKept, UseIsKept DEF Sound
<1>8. \A o \in Node, j \in RR :
          recvRec'[o][j] = recvRec[o][j] \/ (<<o, j>> = <<n, i>> /\ recvRec'[o][j] = d)
  BY <1>1, RecordTyped, TypedParts DEF Sound
<1>9. NoNewRequest
  BY <1>1, <1>2, <1>8, RequestsKept DEF Sound
<1> QED
  BY <1>1, <1>4, <1>6, <1>7, <1>9 DEF Steady

\* Steps that leave frames, records and messages to send alone.
LEMMA ApplicationSteady ==
  ASSUME Sound, Typed', NoNewRequest, ResponseIsForItsRequest',
         UNCHANGED <<tsaOutQ, xmitRec, recvRec, tsaInQ, nwOutQ>>
  PROVE  Steady
<1>1. /\ FlightKept({}) /\ RecordsTrue'
      /\ \A m \in Message : \A t \in 0 .. MaxTid : Recorded(m, t)' => InUse(m, t)
      /\ \A m \in Message : \A t \in 0 .. MaxTid : Sending(m, t)' => InUse(m, t)
  BY SoundUnchanged
<1>2. ResponsesTrue' /\ NoNewUse
  BY <1>1, ResponsesKept, UseIsKept DEF Sound
<1> QED
  BY <1>1, <1>2 DEF Steady

LEMMA AppMsgReceiveSteady ==
  ASSUME Sound, NEW n \in Node, AppMsgReceive(n)
  PROVE  Steady
<1>1. /\ Typed' /\ Head(appInQ[n]) \in Range(appInQ[n])
      /\ \A o \in Node : Range(appInQ'[o]) \subseteq Range(appInQ[o])
      /\ \A o \in Node : \A a \in Range(tsaRespQ'[o]) :
            \/ a \in Range(tsaRespQ[o])
            \/ /\ o = n /\ Head(appInQ[n]).msg.service = "request"
               /\ a.reqId = Head(appInQ[n]).reqId /\ a.body = Head(appInQ[n]).msg
      /\ UNCHANGED <<sendVars, recvVars, tsaInQ, nwOutQ, appCeRspInQ, resets, submitted,
                     delivered, told>>
  BY AppMsgReceiveTyped DEF Sound
<1>2. UNCHANGED <<tsaOutQ, xmitRec, recvRec, tsaInQ, nwOutQ, appCeRspInQ, answers>>
  BY <1>1 DEF sendVars, recvVars, told
<1>3. appInQ[n] \in Seq(Delivery)
  BY TypedParts DEF Sound, AppTyped
<1>4. PICK k \in 1 .. Len(appInQ[n]) : appInQ[n][k] = Head(appInQ[n])
  BY <1>1, <1>3, RangeIs
<1>5. Head(appInQ[n]).msg.service = "request" =>
          Outstanding(n, Head(appInQ[n]).reqId, Head(appInQ[n]).msg)
  BY <1>4 DEF Outstanding
<1>6. NoNewRequest
  BY <1>1, <1>2, <1>5, RequestsKept DEF Sound
<1>8. ResponseIsForItsRequest'
  BY <1>1, <1>2, SoundUnchanged
<1> QED
  BY <1>1, <1>2, <1>6, <1>8, ApplicationSteady

LEMMA AppRspReceiveSteady ==
  ASSUME Sound, NEW n \in Node, AppRspReceive(n)
  PROVE  Steady
<1> DEFINE a == Head(appCeRspInQ[n])
<1>1. /\ Typed' /\ appCeRspInQ[n] # <<>> /\ a \in EventsOf(n) /\ a \in Range(appCeRspInQ[n])
      /\ \A o \in Node : Range(appCeRspInQ'[o]) \subseteq Range(appCeRspInQ[o])
      /\ \/ UNCHANGED answers
         \/ /\ a.indication = "message"
            /\ answers' = [answers EXCEPT ![a.msg] = @ \union {a.body}]
      /\ UNCHANGED <<sendVars, recvVars, tsaInQ, nwOutQ, tsaRespQ, appInQ, resets,
                     submitted, delivered>>
  BY AppRspReceiveTyped DEF Sound
<1>2. UNCHANGED <<tsaOutQ, xmitRec, recvRec, tsaInQ, nwOutQ, tsaRespQ, appInQ>>
  BY <1>1 DEF sendVars, recvVars
<1>3. appCeRspInQ[n] \in Seq(Event)
  BY TypedParts DEF Sound, EventTyped
<1>4. a.indication = "message" => a.body = a.msg
  BY <1>1, <1>3, RangeIs DEF Sound, ResponseIsForItsRequest
<1> HIDE DEF a
<1>5. \A m \in Message : answers'[m] \subseteq {m}
  <2>1. answers \in [Message -> SUBSET Message]
    BY TypedParts DEF Sound, ToldTyped
  <2>2. \A m \in Message : answers[m] \subseteq {m}
    BY DEF Sound, ResponseIsForItsRequest
  <2>3. CASE a.indication = "message" /\ answers' = [answers EXCEPT ![a.msg] = @ \union {a.body}]
    <3>1. \A m \in Message :
             answers'[m] = answers[m] \/ (m = a.msg /\ answers'[m] = answers[m] \union {a.body})
      BY <2>1, <2>3
    <3> QED
      BY <1>4, <2>2, <2>3, <3>1
  <2> QED
    BY <1>1, <2>2, <2>3
<1>6. ResponseIsForItsRequest'
  BY <1>1, <1>5, ResponseKept, TypedParts DEF Sound
<1>7. NoNewRequest
  BY <1>1, <1>2, SoundUnchanged
<1> QED
  BY <1>1, <1>2, <1>6, <1>7, ApplicationSteady

LEMMA ResetSteady ==
  ASSUME Sound, NEW n \in Node, NEW kind \in ResetKinds, Reset(n, kind)
  PROVE  Steady
<1>1. Typed' /\ ResetAs(n, kind)
  BY ResetTyped DEF Sound
<1>2. /\ \A p \in Priority : nwOutQ'[n][p] = <<>> /\ xmitRec'[n][p].status = "unused"
      /\ \A i \in RR : recvRec'[n][i] = BlankRecord
      /\ tsaInQ'[n] = <<>> /\ tsaRespQ'[n] = <<>> /\ appInQ'[n] = <<>> /\ appCeRspInQ'[n] = <<>>
      /\ \A o \in Node : o # n =>
            /\ tsaOutQ'[o] = tsaOutQ[o] /\ nwOutQ'[o] = nwOutQ[o] /\ xmitRec'[o] = xmitRec[o]
            /\ recvRec'[o] = recvRec[o] /\ tsaInQ'[o] = tsaInQ[o] /\ tsaRespQ'[o] = tsaRespQ[o]
            /\ appInQ'[o] = appInQ[o] /\ appCeRspInQ'[o] = appCeRspInQ[o]
      /\ UNCHANGED answers
  BY <1>1 DEF ResetAs, told
<1>3. Range(<<>>) = {}
  BY EmptySeq, RangeType
<1>4. /\ \A o \in Node, p \in Priority : Range(nwOutQ'[o][p]) \subseteq Range(nwOutQ[o][p])
      /\ \A o \in Node : Range(tsaInQ'[o]) \subseteq Range(tsaInQ[o])
      /\ \A o \in Node : Range(tsaRespQ'[o]) \subseteq Range(tsaRespQ[o])
      /\ \A o \in Node : Range(appInQ'[o]) \subseteq Range(appInQ[o])
      /\ \A o \in Node : Range(appCeRspInQ'[o]) \subseteq Range(appCeRspInQ[o])
  BY <1>2, <1>3
<1>5. FlightKept({})
  BY <1>1, <1>4, FlightIsKept DEF Sound
<1>6. \A m \in Message : \A t \in 0 .. MaxTid : Sending(m, t)' => InUse(m, t)
  <2>1. \A o \in Node, p \in Priority :
            \/ xmitRec'[o][p].status = "unused"
            \/ xmitRec'[o][p] = xmitRec[o][p] /\ tsaOutQ'[o][p] = tsaOutQ[o][p]
    BY <1>2
  <2> QED
    BY <2>1, SendingKept DEF Sound
<1>7. /\ BlankRecord.status = "unused" /\ BlankRecord.transState = "done"
      /\ BlankRecord.src = NoNode
  BY DEF BlankRecord
<1>8. \A o \in Node, i \in RR : recvRec'[o][i] = recvRec[o][i] \/ recvRec'[o][i] = BlankRecord
  BY <1>2
<1>9. \A m \in Message : \A t \in 0 .. MaxTid : Recorded(m, t)' => InUse(m, t)
  <2> SUFFICES ASSUME NEW m \in Message, NEW t \in 0 .. MaxTid, Recorded(m, t)'
               PROVE  Recorded(m, t)
    BY DEF InUse
  <2>1. m.dst \in Node
    BY TsaAssumption
  <2> QED
    BY <1>7, <1>8, <2>1 DEF Recorded
<1>10. ResponsesTrue' /\ NoNewUse
  BY <1>5, <1>6, <1>9, ResponsesKept, UseIsKept DEF Sound
<1>11. RecordsTrue'
  BY <1>7, <1>8 DEF RecordsTrue, RecordTrue, Sound
<1>12. NoNewRequest
  BY <1>1, <1>4, <1>7, <1>8, RequestsKept DEF Sound
<1>14. \A m \in Message : answers'[m] \subseteq {m}
  BY <1>2 DEF Sound, ResponseIsForItsRequest
<1>15. ResponseIsForItsRequest'
  BY <1>1, <1>4, <1>14, ResponseKept, TypedParts DEF Sound
<1> QED
  BY <1>1, <1>10, <1>11, <1>12, <1>15 DEF Steady

LEMMA SendResponseSteady ==
  ASSUME Sound, NEW n \in Node, SendResponse(n)
  PROVE  Steady
<1> DEFINE r == Head(tsaRespQ[n])
<1>1. /\ Typed'
      /\ \A o \in Node : Range(tsaRespQ'[o]) \subseteq Range(tsaRespQ[o])
      /\ r \in Range(tsaRespQ[n]) /\ r \in AnsweredBy(n)
      /\ UNCHANGED <<sendVars, reqId, tsaInQ, appInQ, appCeRspInQ, resets, submitted,
                     delivered, told>>
      /\ \/ UNCHANGED <<recvRec, nwOutQ>>
         \/ \E i, d : RespondedAs(n, r, i, d)
  BY SendResponseTyped, Responds DEF Sound, Typed
<1>2. UNCHANGED <<tsaOutQ, xmitRec, tsaInQ, appInQ, appCeRspInQ, answers>>
  BY <1>1 DEF sendVars, told
<1>3. tsaRespQ[n] \in Seq(Answered)
  BY TypedParts DEF Sound, RespTyped
<1>4. Outstanding(n, r.reqId, r.body)
  BY <1>1, <1>3, RangeIs DEF Outstanding
<1>5. r.body \in Message /\ r.reqId \in 0 .. MaxReqId
  BY <1>1 DEF AnsweredBy, Answered
<1> HIDE DEF r
<1>6. CASE UNCHANGED <<recvRec, nwOutQ>>
  <2>1. NoNewRequest
    BY <1>1, <1>2, <1>6, RequestsKept DEF Sound
  <2>2. ResponseIsForItsRequest'
    BY <1>1, <1>2, SoundUnchanged
  <2> QED
    BY <1>1, <1>2, <1>6, <2>1, <2>2, ApplicationSteady
<1>7. CASE \E i, d : RespondedAs(n, r, i, d)
  <2>1. PICK i, d : RespondedAs(n, r, i, d)
    BY <1>7
  <2>2. PICK old : old = recvRec[n][i]
    OBVIOUS
  <2>3. /\ i \in RR /\ old.status = "session" /\ old.reqId = r.reqId
        /\ old.transState = "delivered" /\ old.src # NoNode
        /\ d \in RecordsOf(n) /\ d.src = old.src /\ d.priority = old.priority
        /\ d.status = old.status /\ d.transNum = old.transNum /\ d.msg = old.msg
        /\ d.auth = old.auth /\ d.response = r.body
        /\ d.transState \in {"done", "responded"}
        /\ recvRec' = [recvRec EXCEPT ![n][i] = d]
        /\ SendAnswer(n, d)
    BY <2>1, <2>2 DEF RespondedAs
  <2>4. /\ old.msg \in Message /\ old.msg.src = old.src /\ old.msg.dst = n
        /\ old.msg.priority = old.priority /\ Layer(old.msg) = "session"
        /\ old.transNum \in 0 .. MaxTid
    <3>1. old \in RecordsOf(n)
      BY <2>2, <2>3, TypedParts DEF Sound, RecordsTyped
    <3> QED
      BY <2>3, <3>1, RecordFields
  <2>5. old.msg.service = "request"
    BY <2>4 DEF Layer
  <2>6. Outstanding(n, r.reqId, old.msg)
    BY <2>2, <2>3, <2>5 DEF Outstanding
  <2>7. r.body = old.msg
    BY <1>4, <1>5, <2>4, <2>6 DEF Sound, RequestsUnique
  <2>8. InUse(old.msg, old.transNum)
    BY <2>2, <2>3, <2>4 DEF InUse, Recorded
  <2>9. RecordTrue(n, d)
    BY <2>2, <2>3, <2>7 DEF RecordTrue, Sound, RecordsTrue
  <2>10. RecordsTrue'
    BY <2>3, <2>9, RecordsStayTrue DEF Sound
  <2>11. \A m \in Message : \A t \in 0 .. MaxTid : Recorded(m, t)' => InUse(m, t)
    <3>1. InUse(d.msg, d.transNum)
      BY <2>3, <2>8
    <3> QED
      BY <2>3, <3>1, RecordedKept DEF Sound
  <2>12. \A o \in Node, j \in RR :
            recvRec'[o][j] = recvRec[o][j] \/ recvRec'[o][j].transState \notin {"authenticating", "delivered"}
    BY <2>3, RecordTyped, TypedParts DEF Sound
  <2>13. NoNewRequest
    BY <1>1, <1>2, <2>12, RequestsKept DEF Sound
  <2> DEFINE f == FrameBack(n, d, "response", d.response)
  <2>14. f = ResponseFrame(old.msg, old.transNum)
    BY <2>3, <2>4, <2>7 DEF FrameBack, ResponseFrame
  <2>15. f.kind = "response" /\ f.body = old.msg /\ f.transNum = old.transNum
    BY <2>4, <2>14, FramesOfUse
  <2>16. f = ResponseFrame(f.body, f.transNum) /\ InUse(f.body, f.transNum)
    BY <2>8, <2>14, <2>15
  <2>17. \A o \in Node, p \in Priority : Range(nwOutQ'[o][p]) \subseteq Range(nwOutQ[o][p]) \cup {f}
    <3>1. \/ UNCHANGED nwOutQ
          \/ /\ Send(n, f) /\ f \in FramesOf(n, d.priority) /\ d.priority \in Priority
      BY <2>3, SendAnswerTyped, TypedParts DEF Sound
    <3> HIDE DEF f
    <3> QED
      BY <3>1, SendTyped, TypedParts DEF Sound
  <2> HIDE DEF f
  <2>18. FlightKept({f})
    BY <1>1, <1>2, <2>17, FlightIsKept DEF Sound
  <2>19. /\ ResponseIsForItsRequest'
         /\ \A m \in Message : \A t \in 0 .. MaxTid : Sending(m, t)' => InUse(m, t)
    BY <1>1, <1>2, SoundUnchanged
  <2>20. ResponsesTrue' /\ NoNewUse
    BY <2>11, <2>16, <2>18, <2>19, ResponsesKept, UseIsKept DEF Sound
  <2> QED
    BY <1>1, <2>10, <2>13, <2>19, <2>20 DEF Steady
<1> QED
  BY <1>1, <1>6, <1>7

LEMMA ProcessReplySteady ==
  ASSUME Sound, NEW n \in Node, ProcessReply(n)
  PROVE  Steady
<1>1. PICK f, i, rr, d : RepliedAs(n, f, i, rr, d)
  BY Replies DEF Sound, Typed
<1>2. Typed'
  BY <1>1, RepliedTyped DEF Sound
<1>3. PICK old : old = recvRec[n][i]
  OBVIOUS
<1>4. /\ tsaInQ[n] # <<>> /\ DropReceived(n)
      /\ i \in RR /\ old.src # NoNode /\ old.transState = "authenticating"
      /\ rr \in WideRecords(n) /\ rr.transState = "authenticated"
      /\ old.src = f.src /\ rr.src = old.src /\ rr.status = old.status
      /\ rr.transNum = old.transNum /\ rr.msg = old.msg /\ rr.reqId = old.reqId
      /\ d \in RecordsOf(n) /\ recvRec' = [recvRec EXCEPT ![n][i] = d]
      /\ SameRecord(d, rr) /\ d.transState \in Handled
      /\ d.transState = "responded" => rr.transState = "responded"
      /\ Deliver(n, rr) /\ SendAnswer(n, d)
  BY <1>1, <1>3 DEF RepliedAs, DeliveredAs
<1>5. UNCHANGED <<tsaOutQ, xmitRec, tsaRespQ, appCeRspInQ, answers>>
  BY <1>1 DEF RepliedAs, sendVars, told
<1>6. d.transState \in {"delivered", "done"}
  BY <1>4 DEF Handled
<1>7. /\ old.msg \in Message /\ old.msg.src = old.src /\ old.msg.dst = n
      /\ old.transNum \in 0 .. MaxTid /\ old.reqId \in 0 .. MaxReqId
  BY <1>3, <1>4, RecordFields, TypedParts DEF Sound, RecordsTyped
<1>8. /\ d.src = old.src /\ d.status = old.status /\ d.transNum = old.transNum
      /\ d.msg = old.msg /\ d.reqId = old.reqId /\ d.auth = rr.auth
  BY <1>4 DEF SameRecord
<1>10. RecordTrue(n, d)
  BY <1>4, <1>6, <1>7, <1>8 DEF RecordTrue
<1>11. RecordsTrue'
  BY <1>4, <1>10, RecordsStayTrue DEF Sound
<1>12. \A m \in Message : \A t \in 0 .. MaxTid : Recorded(m, t)' => InUse(m, t)
  <2>1. d.status # "unused" => InUse(d.msg, d.transNum)
    BY <1>3, <1>4, <1>7, <1>8 DEF InUse, Recorded
  <2> QED
    BY <1>4, <2>1, RecordedKept DEF Sound
<1>13. old.msg.service = "request" => Outstanding(n, old.reqId, old.msg)
  BY <1>3, <1>4 DEF Outstanding
<1> DEFINE a == [msg |-> rr.msg, reqId |-> rr.reqId, auth |-> rr.auth]
<1>14. a.msg = old.msg /\ a.reqId = old.reqId /\ a.auth = rr.auth
  BY <1>4
<1>15. \A o \in Node : Range(appInQ'[o]) \subseteq Range(appInQ[o]) \cup (IF o = n THEN {a} ELSE {})
  BY <1>4, DeliverTyped, TypedParts DEF Sound
<1> HIDE DEF a
<1>17. NoNewRequest
  <2>1. \A o \in Node, j \in RR :
           \/ recvRec'[o][j] = recvRec[o][j]
           \/ /\ recvRec[o][j].transState \in {"authenticating", "delivered"}
              /\ recvRec'[o][j].msg = recvRec[o][j].msg
              /\ recvRec'[o][j].reqId = recvRec[o][j].reqId
    BY <1>3, <1>4, <1>8, RecordTyped, TypedParts DEF Sound
  <2>2. \A o \in Node : \A b \in Range(appInQ'[o]) :
            b \in Range(appInQ[o]) \/ (b.msg.service = "request" => Outstanding(o, b.reqId, b.msg))
    BY <1>13, <1>14, <1>15
  <2> QED
    BY <1>2, <1>5, <2>1, <2>2, RequestsKept DEF Sound
<1> DEFINE G == {FrameBack(n, d, "ack", NoMsg)}
<1>18. \A g \in G : g.kind \notin Service \cup {"response"}
  BY DEF FrameBack, Service
<1>19. \A o \in Node, p \in Priority : Range(nwOutQ'[o][p]) \subseteq Range(nwOutQ[o][p]) \cup G
  <2>1. \/ UNCHANGED nwOutQ
        \/ /\ Send(n, FrameBack(n, d, "ack", NoMsg)) /\ d.priority \in Priority
           /\ FrameBack(n, d, "ack", NoMsg) \in FramesOf(n, d.priority)
    BY <1>4, <1>6, SendAnswerTyped, TypedParts DEF Sound
  <2> QED
    BY <2>1, SendTyped, TypedParts DEF Sound
<1> HIDE DEF G
<1>20. \A o \in Node : Range(tsaInQ'[o]) \subseteq Range(tsaInQ[o])
  BY <1>4, DropTyped, TypedParts DEF Sound
<1>21. FlightKept(G)
  BY <1>2, <1>19, <1>20, FlightIsKept DEF Sound
<1>22. /\ ResponseIsForItsRequest'
       /\ \A m \in Message : \A t \in 0 .. MaxTid : Sending(m, t)' => InUse(m, t)
  BY <1>2, <1>5, SoundUnchanged
<1>23. ResponsesTrue' /\ NoNewUse
  BY <1>12, <1>18, <1>21, <1>22, ResponsesKept, UseIsKept DEF Sound
<1> QED
  BY <1>2, <1>11, <1>17, <1>22, <1>23 DEF Steady

-----------------------------------------------------------------------------
(* Steps that give out numbers.                                            *)

\* All of Steady but for the requests that a step adds.
SteadyBut(n, q, m) ==
    /\ Typed' /\ NoNewUse /\ ResponsesTrue' /\ RecordsTrue'
    /\ ResponseIsForItsRequest'
    /\ \A o \in Node : \A r \in 0 .. MaxReqId : \A l \in Message :
           Outstanding(o, r, l)' => Outstanding(o, r, l) \/ (o = n /\ r = q /\ l = m)

\* A message that is received uses the number it came with; a repeated one is told from
\* a new one, since the number stands for one message.
LEMMA RecordHeld ==
  ASSUME Sound, NEW n \in Node, NEW layer \in {"transport", "session"}, NEW f, NEW i, NEW rr,
         NEW d, HeardAs(n, layer, f, i, rr, d)
  PROVE  /\ rr.msg = f.body /\ InUse(f.body, f.transNum)
         /\ rr.transState = "responded" => rr.response = rr.msg
         /\ Known(n, i, f, layer) => recvRec[n][i].msg = f.body
<1>1. /\ f = Head(tsaInQ[n]) /\ f \in FramesTo(n) /\ f \in Range(tsaInQ[n])
      /\ f.body \in Message /\ f = MessageFrame(f.body, f.transNum) /\ f.transNum \in 0 .. MaxTid
      /\ f.src = f.body.src /\ f.priority = f.body.priority /\ f.body.dst = n /\ i \in RR
  BY DEF HeardAs
<1>2. InUse(f.body, f.transNum)
  <2>1. f \in Frame /\ f.dst = n
    BY <1>1 DEF FramesTo
  <2>2. InFlight(f)
    BY <1>1, <2>1, InFlightIs DEF Sound
  <2> QED
    BY <1>1, <2>2 DEF InUse
<1>3. CASE Known(n, i, f, layer)
  <2>1. PICK old : old = recvRec[n][i]
    OBVIOUS
  <2>2. /\ old.src # NoNode /\ old.src = f.src /\ old.priority = f.priority
        /\ old.status = layer /\ old.transNum = f.transNum
    BY <1>3, <2>1, RetrieveRRFinds DEF Known, Repeats, HeardAs
  <2>3. /\ SameRecord(rr, old) /\ rr.transState = old.transState
    BY <1>3, <2>1 DEF HeardAs
  <2>4. old \in RecordsOf(n)
    BY <1>1, <2>1, TypedParts DEF Sound, RecordsTyped
  <2>5. /\ old.msg \in Message /\ old.msg.src = old.src /\ old.msg.dst = n
        /\ old.msg.priority = old.priority
    BY <2>2, <2>4, RecordFields
  <2>6. InUse(old.msg, f.transNum)
    BY <1>1, <2>1, <2>2, <2>5 DEF InUse, Recorded
  <2>7. old.msg = f.body
    BY <1>1, <1>2, <2>2, <2>5, <2>6 DEF Sound, NumbersUnique
  <2>8. RecordTrue(n, old)
    BY <1>1, <2>1 DEF Sound, RecordsTrue
  <2> QED
    BY <1>2, <2>1, <2>2, <2>3, <2>7, <2>8 DEF RecordTrue, SameRecord
<1>4. CASE ~Known(n, i, f, layer)
  BY <1>2, <1>4 DEF HeardAs
<1> QED
  BY <1>3, <1>4

LEMMA HeardSteady ==
  ASSUME Sound, NEW n \in Node, NEW layer \in {"transport", "session"}, NEW f, NEW i, NEW rr,
         NEW d, HeardAs(n, layer, f, i, rr, d)
  PROVE  /\ f.body \in Message
         /\ Steady \/ SteadyBut(n, ThisReqId(n), f.body)
         /\ Known(n, i, f, layer) \/ layer = "transport" => Steady
<1>1. Typed'
  BY HeardTyped DEF Sound
<1>2. PICK old : old = recvRec[n][i]
  OBVIOUS
<1>3. /\ tsaInQ[n] # <<>> /\ DropReceived(n) /\ f.body \in Message /\ layer = Layer(f.body)
      /\ f.transNum \in 0 .. MaxTid
      /\ f.src = f.body.src /\ f.priority = f.body.priority /\ f.body.dst = n /\ i \in RR
      /\ f.src \in Node
      /\ rr \in WideRecords(n) /\ rr.src = f.src /\ rr.priority = f.priority
      /\ rr.status = layer /\ rr.transNum = f.transNum /\ rr.needAuth = f.body.auth
      /\ Known(n, i, f, layer) =>
            rr.transState = old.transState /\ rr.reqId = old.reqId /\ rr.msg = old.msg
      /\ ~Known(n, i, f, layer) =>
            /\ rr.transState = "just_received"
            /\ rr.reqId = IF layer = "session" THEN ThisReqId(n) ELSE 0
      /\ d \in RecordsOf(n) /\ recvRec' = [recvRec EXCEPT ![n][i] = d]
      /\ SameRecord(d, rr)
  BY <1>2 DEF HeardAs, DeliveredAs, SameRecord
<1>4. UNCHANGED <<tsaOutQ, xmitRec, tsaRespQ, appCeRspInQ, answers>>
  BY DEF HeardAs, sendVars, told
<1>5. /\ rr.msg = f.body /\ InUse(f.body, f.transNum)
      /\ rr.transState = "responded" => rr.response = rr.msg
  BY RecordHeld
<1>6. \/ /\ NeedsChallenge(rr) /\ d.transState = "authenticating"
         /\ \E r \in Nonce : /\ Send(n, FrameBack(n, rr, "challenge", r))
                             /\ FrameBack(n, rr, "challenge", r) \in FramesOf(n, rr.priority)
         /\ UNCHANGED <<appInQ, delivered>>
      \/ /\ ~NeedsChallenge(rr) /\ d.transState \in Handled
         /\ d.transState = "responded" => rr.transState = "responded"
         /\ d.transState = "delivered" => rr.transState = "delivered" \/ rr.transState \notin Handled
         /\ Deliver(n, rr) /\ SendAnswer(n, d)
  BY DEF HeardAs, DeliveredAs
<1>7. /\ d.src = f.src /\ d.priority = f.priority /\ d.status = layer /\ d.transNum = f.transNum
      /\ d.msg = f.body /\ d.reqId = rr.reqId /\ d.auth = rr.auth /\ d.response = rr.response
  BY <1>3, <1>5 DEF SameRecord
<1>8. NeedsChallenge(rr) => f.body.auth /\ rr.transState \in {"just_received", "authenticating"}
  BY <1>3 DEF NeedsChallenge
<1>9. RecordTrue(n, d)
  BY <1>5, <1>6, <1>7, <1>8 DEF RecordTrue, Handled
<1>10. RecordsTrue'
  BY <1>3, <1>9, RecordsStayTrue DEF Sound
<1>11. \A m \in Message : \A t \in 0 .. MaxTid : Recorded(m, t)' => InUse(m, t)
  <2>1. InUse(d.msg, d.transNum)
    BY <1>5, <1>7
  <2> QED
    BY <1>3, <2>1, RecordedKept DEF Sound
<1>12. \A o \in Node : Range(tsaInQ'[o]) \subseteq Range(tsaInQ[o])
  BY <1>3, DropTyped, TypedParts DEF Sound
<1> DEFINE G == {g \in Frame : g.kind \notin Service \cup {"response"}
                              \/ (g = ResponseFrame(f.body, f.transNum))}
<1>13. \A o \in Node, p \in Priority : Range(nwOutQ'[o][p]) \subseteq Range(nwOutQ[o][p]) \cup G
  <2>1. PICK g : /\ g \in G
                 /\ \/ UNCHANGED nwOutQ
                    \/ \E p \in Priority : Send(n, g) /\ g \in FramesOf(n, p)
    <3>1. rr.priority \in Priority /\ d.priority \in Priority /\ d.src # NoNode
      BY <1>3, <1>7, Counts, TsaAssumption
    <3>2. ASSUME NEW r \in Nonce, Send(n, FrameBack(n, rr, "challenge", r)),
                 FrameBack(n, rr, "challenge", r) \in FramesOf(n, rr.priority)
          PROVE  /\ FrameBack(n, rr, "challenge", r) \in G
                 /\ \E p \in Priority : /\ Send(n, FrameBack(n, rr, "challenge", r))
                                        /\ FrameBack(n, rr, "challenge", r) \in FramesOf(n, p)
      <4>1. FrameBack(n, rr, "challenge", r).kind = "challenge"
        BY DEF FrameBack
      <4>2. FrameBack(n, rr, "challenge", r) \in G
        BY <3>2, <4>1 DEF FramesOf, Service
      <4> QED
        BY <3>1, <3>2, <4>2
    <3>3. CASE UNCHANGED nwOutQ
      <4>1. ResponseFrame(f.body, f.transNum) \in G
        BY <1>3, FramesOfUse
      <4> QED
        BY <3>3, <4>1
    <3>4. CASE /\ Send(n, FrameBack(n, d, "ack", NoMsg))
               /\ FrameBack(n, d, "ack", NoMsg) \in FramesOf(n, d.priority)
      <4>1. FrameBack(n, d, "ack", NoMsg).kind = "ack"
        BY DEF FrameBack
      <4>2. FrameBack(n, d, "ack", NoMsg) \in G
        BY <3>4, <4>1 DEF FramesOf, Service
      <4> QED
        BY <3>1, <3>4, <4>2
    <3>5. CASE /\ d.transState = "responded" /\ ~NeedsChallenge(rr)
               /\ Send(n, FrameBack(n, d, "response", d.response))
               /\ FrameBack(n, d, "response", d.response) \in FramesOf(n, d.priority)
      <4>1. d.response = f.body
        BY <1>5, <1>6, <1>7, <3>5
      <4>2. FrameBack(n, d, "response", d.response) = ResponseFrame(f.body, f.transNum)
        BY <1>3, <1>7, <4>1 DEF FrameBack, ResponseFrame
      <4>3. ResponseFrame(f.body, f.transNum) \in G
        BY <1>3, FramesOfUse
      <4> QED
        BY <3>1, <3>5, <4>2, <4>3
    <3> HIDE DEF G
    <3>6. CASE NeedsChallenge(rr)
      BY <1>6, <3>2, <3>6
    <3>7. CASE ~NeedsChallenge(rr)
      BY <1>3, <1>6, <3>3, <3>4, <3>5, <3>7, SendAnswerTyped, TypedParts DEF Sound
    <3> QED
      BY <3>6, <3>7
  <2> HIDE DEF G
  <2> QED
    BY <2>1, SendTyped, TypedParts DEF Sound
<1>14. /\ \A g \in G : g.kind \in Service \cup {"response"} => InUse(g.body, g.transNum)
       /\ \A g \in G : g.kind = "response" => g = ResponseFrame(g.body, g.transNum)
  <2>1. /\ ResponseFrame(f.body, f.transNum).body = f.body
        /\ ResponseFrame(f.body, f.transNum).transNum = f.transNum
    BY DEF ResponseFrame
  <2> QED
    BY <1>5, <2>1
<1> HIDE DEF G
<1>15. FlightKept(G)
  BY <1>1, <1>12, <1>13, FlightIsKept DEF Sound
<1>16. /\ ResponseIsForItsRequest'
       /\ \A m \in Message : \A t \in 0 .. MaxTid : Sending(m, t)' => InUse(m, t)
  BY <1>1, <1>4, SoundUnchanged
<1>17. ResponsesTrue' /\ NoNewUse
  BY <1>11, <1>14, <1>15, <1>16, ResponsesKept, UseIsKept DEF Sound
<1> DEFINE a == [msg |-> rr.msg, reqId |-> rr.reqId, auth |-> rr.auth]
<1>18. a.msg = f.body /\ a.reqId = rr.reqId /\ a.auth = rr.auth
  BY <1>5
<1>19. \/ UNCHANGED appInQ
       \/ /\ rr.transState \notin Handled
          /\ \A o \in Node : Range(appInQ'[o]) \subseteq
                Range(appInQ[o]) \cup (IF o = n THEN {a} ELSE {})
  BY <1>3, <1>6, DeliverTyped, TypedParts DEF Sound
<1> HIDE DEF a
<1>21. \A o \in Node, j \in RR :
           recvRec'[o][j] = recvRec[o][j] \/ (<<o, j>> = <<n, i>> /\ recvRec'[o][j] = d)
  BY <1>3, RecordTyped, TypedParts DEF Sound
<1>22. CASE Known(n, i, f, layer) \/ layer = "transport"
  <2> PICK N : N = {}
    OBVIOUS
  <2>1. f.body.service = "request" => Known(n, i, f, layer)
    BY <1>3, <1>22 DEF Layer
  <2>2. /\ f.body.service = "request" /\ rr.transState \in {"authenticating", "delivered"}
        => Outstanding(n, rr.reqId, f.body)
    BY <1>2, <1>3, <1>5, <2>1 DEF Outstanding
  <2>3. d.transState \in {"authenticating", "delivered"} /\ f.body.service = "request"
        => rr.transState \in {"authenticating", "delivered"}
    <3>1. old.transState \in Handled \cup {"authenticating"}
      BY <1>2, <1>3, RecordFields, TypedParts DEF Sound, RecordsTyped
    <3> QED
      BY <1>3, <1>6, <1>8, <2>1, <3>1 DEF Handled
  <2>4. rr.transState \notin Handled /\ f.body.service = "request"
        => rr.transState = "authenticating"
    BY <1>2, <1>3, <2>1, RecordFields, TypedParts DEF Sound, RecordsTyped
  <2>5. \A o \in Node, j \in RR :
            \/ recvRec'[o][j] = recvRec[o][j]
            \/ recvRec'[o][j].transState \notin {"authenticating", "delivered"}
            \/ recvRec'[o][j].msg.service # "request"
            \/ Outstanding(o, recvRec'[o][j].reqId, recvRec'[o][j].msg)
            \/ <<o, recvRec'[o][j].reqId, recvRec'[o][j].msg>> \in N
    BY <1>7, <1>21, <2>2, <2>3
  <2>6. \A o \in Node : \A b \in Range(appInQ'[o]) :
            \/ b \in Range(appInQ[o]) \/ b.msg.service # "request"
            \/ Outstanding(o, b.reqId, b.msg)
            \/ <<o, b.reqId, b.msg>> \in N
    BY <1>18, <1>19, <2>2, <2>4
  <2>7. \A o \in Node : \A r \in 0 .. MaxReqId : \A l \in Message :
           Outstanding(o, r, l)' => Outstanding(o, r, l) \/ <<o, r, l>> \in N
    BY <1>1, <1>4, <2>5, <2>6, RequestsAfter DEF Sound
  <2>8. NoNewRequest
    BY <2>7 DEF NoNewRequest
  <2> QED
    BY <1>1, <1>3, <1>10, <1>16, <1>17, <2>8 DEF Steady
<1>23. CASE ~Known(n, i, f, layer) /\ layer = "session"
  <2>1. rr.reqId = ThisReqId(n)
    BY <1>3, <1>23
  <2> DEFINE N == {<<n, ThisReqId(n), f.body>>}
  <2>2. \A o \in Node, j \in RR :
            recvRec'[o][j] = recvRec[o][j] \/ <<o, recvRec'[o][j].reqId, recvRec'[o][j].msg>> \in N
    BY <1>7, <1>21, <2>1
  <2>3. \A o \in Node : \A b \in Range(appInQ'[o]) :
            b \in Range(appInQ[o]) \/ <<o, b.reqId, b.msg>> \in N
    BY <1>18, <1>19, <2>1
  <2> HIDE DEF N
  <2>4. \A o \in Node : \A r \in 0 .. MaxReqId : \A l \in Message :
           Outstanding(o, r, l)' => Outstanding(o, r, l) \/ <<o, r, l>> \in N
    BY <1>1, <1>4, <2>2, <2>3, RequestsAfter DEF Sound
  <2> QED
    BY <1>1, <1>3, <1>10, <1>16, <1>17, <1>23, <2>4 DEF SteadyBut, N
<1>24. f.body \in Message
  BY <1>3
<1>25. ~(Known(n, i, f, layer) \/ layer = "transport") => ~Known(n, i, f, layer) /\ layer = "session"
  OBVIOUS
<1> QED
  BY <1>22, <1>23, <1>24, <1>25

\* All that numbers stand for after a step, and did not before, is m for number t.
OnlyNewUse(m, t) ==
    \A o \in Message : \A u \in 0 .. MaxTid :
        InUse(o, u)' => InUse(o, u) \/ (o = m /\ u = t)

\* The number of a message that is sent for the first time.
LEMMA UseAfterSending ==
  ASSUME Sound, Typed', NEW n \in Node, NEW p \in Priority, NEW layer, NEW m, NEW t,
         SentAs(n, p, layer, m, t)
  PROVE  /\ m \in Message /\ t \in 0 .. MaxTid /\ ResponsesTrue'
         /\ FlightKept({MessageFrame(m, t)}) /\ OnlyNewUse(m, t)
<1>1. /\ m = Head(tsaOutQ[n][p]) /\ m \in Message /\ m.src = n /\ m.priority = p
      /\ t \in 0 .. MaxTid
      /\ xmitRec'[n][p].transNum = t
      /\ \A o \in Node, r \in Priority : <<o, r>> # <<n, p>> => xmitRec'[o][r] = xmitRec[o][r]
      /\ Send(n, MessageFrame(m, t)) /\ MessageFrame(m, t) \in FramesOf(n, p)
      /\ UNCHANGED <<tsaOutQ, tsaInQ, recvRec>>
  BY DEF SentAs, recvVars
<1> DEFINE f == MessageFrame(m, t)
<1>2. /\ f.kind = m.service /\ f.kind \in Service /\ f.kind # "response"
      /\ f.body = m /\ f.transNum = t
  BY <1>1, FramesOfUse DEF Service
<1> HIDE DEF f
<1>3. \A o \in Node, r \in Priority : Range(nwOutQ'[o][r]) \subseteq Range(nwOutQ[o][r]) \cup {f}
  BY <1>1, SendTyped, TypedParts DEF Sound, f
<1>4. FlightKept({f})
  BY <1>1, <1>3, FlightIsKept DEF Sound
<1>5. ResponsesTrue'
  BY <1>2, <1>4, ResponsesKept DEF Sound
<1>6. ASSUME NEW o \in Message, NEW u \in 0 .. MaxTid, InUse(o, u)'
      PROVE  InUse(o, u) \/ (o = m /\ u = t)
  <2>1. CASE InFlight(MessageFrame(o, u))'
    <3>1. InFlight(MessageFrame(o, u)) \/ MessageFrame(o, u) = f
      BY <1>4, <2>1, FramesOfUse DEF FlightKept
    <3>2. MessageFrame(o, u).body = o /\ MessageFrame(o, u).transNum = u
      BY FramesOfUse
    <3> QED
      BY <1>2, <3>1, <3>2 DEF InUse
  <2>2. CASE InFlight(ResponseFrame(o, u))'
    <3>1. InFlight(ResponseFrame(o, u)) \/ ResponseFrame(o, u) = f
      BY <1>4, <2>2, FramesOfUse DEF FlightKept
    <3>2. ResponseFrame(o, u).kind = "response"
      BY FramesOfUse
    <3> QED
      BY <1>2, <3>1, <3>2 DEF InUse
  <2>3. CASE Sending(o, u)'
    <3>1. o.src \in Node /\ o.priority \in Priority
      BY TsaAssumption
    <3>2. CASE <<o.src, o.priority>> = <<n, p>>
      <4>1. o.src = n /\ o.priority = p
        BY <3>2
      <4> QED
        BY <1>1, <2>3, <4>1 DEF Sending
    <3>3. CASE <<o.src, o.priority>> # <<n, p>>
      BY <1>1, <2>3, <3>1, <3>3 DEF Sending, InUse
    <3> QED
      BY <3>2, <3>3
  <2>4. CASE Recorded(o, u)'
    BY <1>1, <2>4 DEF Recorded, InUse
  <2> QED
    BY <1>6, <2>1, <2>2, <2>3, <2>4 DEF InUse
<1> QED
  BY <1>1, <1>4, <1>5, <1>6 DEF f, OnlyNewUse

LEMMA SendNewMsgSound ==
  ASSUME Sound, NumbersAreFresh, NEW n \in Node, NEW p \in Priority,
         NEW layer \in {"transport", "session"}, SendNewMsg(n, p, layer)
  PROVE  Sound'
<1>1. PICK m, t : Typed' /\ SentAs(n, p, layer, m, t)
  BY SendNewMsgTyped DEF Sound
<1>2. /\ m = Head(tsaOutQ[n][p]) /\ m \in Message /\ m.src = n /\ m.priority = p
      /\ t = NewTid(n, p, m.dst) /\ restart[n] = "over"
      /\ xmitRec[n][p].status = "unused" /\ tsaOutQ[n][p] # <<>>
      /\ UNCHANGED <<recvRec, tsaRespQ, appInQ, appCeRspInQ, answers>>
  BY <1>1 DEF SentAs, recvVars, appVars, told
<1>3. ResponsesTrue' /\ t \in 0 .. MaxTid /\ OnlyNewUse(m, t)
  BY <1>1, UseAfterSending
<1>4. \A o \in Message : o.src = n /\ o.priority = p => ~InUse(o, t)
  BY <1>2 DEF NumbersAreFresh, Waiting, MessagesOf
<1>5. NumbersUnique'
  <2> SUFFICES ASSUME NEW o \in Message, NEW l \in Message, NEW u \in 0 .. MaxTid,
                      o.src = l.src, o.priority = l.priority, InUse(o, u)', InUse(l, u)'
               PROVE  o = l
    BY DEF NumbersUnique
  <2>1. CASE InUse(o, u) /\ InUse(l, u)
    BY <2>1 DEF Sound, NumbersUnique
  <2>2. CASE ~(InUse(o, u) /\ InUse(l, u))
    BY <1>2, <1>3, <1>4, <2>2 DEF OnlyNewUse
  <2> QED
    BY <2>1, <2>2
<1>6. /\ RecordsTrue' /\ NoNewRequest /\ ResponseIsForItsRequest'
  BY <1>1, <1>2, SoundUnchanged
<1>7. RequestsUnique'
  BY <1>6 DEF NoNewRequest, Sound, RequestsUnique
<1> QED
  BY <1>1, <1>3, <1>5, <1>6, <1>7 DEF Sound

LEMMA SteadySound ==
  ASSUME Sound, Steady
  PROVE  Sound'
<1>1. NumbersUnique'
  BY DEF Steady, Sound, NoNewUse, NumbersUnique
<1>2. RequestsUnique'
  BY DEF Steady, Sound, NoNewRequest, RequestsUnique
<1> QED
  BY <1>1, <1>2 DEF Steady, Sound

LEMMA ReceiveNewMsgSound ==
  ASSUME Sound, NumbersAreFresh, NEW n \in Node, NEW layer \in {"transport", "session"},
         ReceiveNewMsg(n, layer)
  PROVE  Sound'
<1>1. PICK f, i, rr, d : HeardAs(n, layer, f, i, rr, d)
  BY Hears DEF Sound, Typed
<1>2. f.body \in Message /\ (Steady \/ SteadyBut(n, ThisReqId(n), f.body))
  BY <1>1, HeardSteady
<1>3. CASE SteadyBut(n, ThisReqId(n), f.body)
  <2>1. NumbersUnique'
    BY <1>3 DEF SteadyBut, Sound, NoNewUse, NumbersUnique
  <2>2. \A m \in Message : ~Outstanding(n, ThisReqId(n), m)
    BY DEF NumbersAreFresh
  <2>3. RequestsUnique'
    <3> SUFFICES ASSUME NEW o \in Node, NEW q \in 0 .. MaxReqId, NEW m \in Message,
                        NEW l \in Message, Outstanding(o, q, m)', Outstanding(o, q, l)'
                 PROVE  m = l
      BY DEF RequestsUnique
    <3>1. /\ Outstanding(o, q, m) \/ (o = n /\ q = ThisReqId(n) /\ m = f.body)
          /\ Outstanding(o, q, l) \/ (o = n /\ q = ThisReqId(n) /\ l = f.body)
      BY <1>3 DEF SteadyBut
    <3>2. CASE Outstanding(o, q, m) /\ Outstanding(o, q, l)
      BY <3>2 DEF Sound, RequestsUnique
    <3> QED
      BY <2>2, <3>1, <3>2
  <2> QED
    BY <1>3, <2>1, <2>3 DEF SteadyBut, Sound
<1> QED
  BY <1>2, <1>3, SteadySound

\* In the beginning, numbers stand for nothing.
LEMMA InitUse ==
  ASSUME Init
  PROVE  /\ \A f \in Frame : ~InFlight(f)
         /\ \A m \in Message : \A t \in 0 .. MaxTid : ~InUse(m, t)
         /\ \A n \in Node : \A q \in 0 .. MaxReqId : \A m \in Message : ~Outstanding(n, q, m)
<1>1. /\ \A n \in Node : \A p \in Priority : nwOutQ[n][p] = <<>> /\ xmitRec[n][p] = UnusedTx
      /\ \A n \in Node : \A i \in RR : recvRec[n][i] = BlankRecord
      /\ \A n \in Node : tsaInQ[n] = <<>> /\ tsaRespQ[n] = <<>> /\ appInQ[n] = <<>>
  BY DEF Init
<1>2. /\ BlankRecord.status = "unused" /\ BlankRecord.transState = "done"
      /\ UnusedTx.status = "unused"
  BY DEF BlankRecord, UnusedTx
<1>3. Len(<<>>) = 0
  BY EmptySeq
<1>4. \A f \in Frame : ~InFlight(f)
  <2> SUFFICES ASSUME NEW f \in Frame, InFlight(f)
               PROVE  FALSE
    OBVIOUS
  <2>1. f.src \in Node /\ f.dst \in Node /\ f.priority \in Priority
    BY FrameKinds
  <2> QED
    BY <1>1, <1>3, <2>1 DEF InFlight, Queued
<1>5. \A m \in Message : \A t \in 0 .. MaxTid : ~InUse(m, t)
  <2> SUFFICES ASSUME NEW m \in Message, NEW t \in 0 .. MaxTid, InUse(m, t)
               PROVE  FALSE
    OBVIOUS
  <2>1. m.src \in Node /\ m.dst \in Node /\ m.priority \in Priority
    BY TsaAssumption
  <2>2. ~InFlight(MessageFrame(m, t)) /\ ~InFlight(ResponseFrame(m, t))
    BY <1>4, FramesOfUse
  <2>3. ~Sending(m, t) /\ ~Recorded(m, t)
    BY <1>1, <1>2, <2>1 DEF Sending, Recorded
  <2> QED
    BY <2>2, <2>3 DEF InUse
<1>6. \A n \in Node : \A q \in 0 .. MaxReqId : \A m \in Message : ~Outstanding(n, q, m)
  BY <1>1, <1>2, <1>3 DEF Outstanding
<1> QED
  BY <1>4, <1>5, <1>6

LEMMA SoundInit == Init => Sound
<1> SUFFICES ASSUME Init
             PROVE  Sound
  OBVIOUS
<1>1. Typed
  BY TypedInit
<1>2. /\ \A n \in Node : \A i \in RR : recvRec[n][i] = BlankRecord
      /\ \A n \in Node : appInQ[n] = <<>> /\ appCeRspInQ[n] = <<>>
      /\ \A m \in Message : answers[m] = {}
  BY DEF Init
<1>3. BlankRecord.src = NoNode /\ Len(<<>>) = 0
  BY EmptySeq DEF BlankRecord
<1>4. ResponsesTrue /\ NumbersUnique /\ RequestsUnique
  BY InitUse DEF ResponsesTrue, NumbersUnique, RequestsUnique
<1>5. RecordsTrue
  BY <1>2, <1>3 DEF RecordsTrue, RecordTrue
<1>6. ResponseIsForItsRequest
  BY <1>2, <1>3 DEF ResponseIsForItsRequest
<1> QED
  BY <1>1, <1>4, <1>5, <1>6 DEF Sound

\* The steps that give out no number.
LEMMA OtherSteps ==
  ASSUME Sound, Next
  PROVE  \/ Steady
         \/ \E n \in Node, p \in Priority, layer \in {"transport", "session"} :
               SendNewMsg(n, p, layer)
         \/ \E n \in Node, layer \in {"transport", "session"} : ReceiveNewMsg(n, layer)
<1>1. ASSUME NEW n \in Node, NEW p \in Priority, NEW layer \in {"transport", "session"},
             CompleteAtOnce(n, p, layer)
      PROVE  Steady
  BY <1>1, CompleteAtOnceSteady
<1>2. ASSUME NEW n \in Node, NEW p \in Priority,
             \/ GiveUp(n, p) \/ Retry(n, p)
             \/ Lose(n, p) \/ \E again \in BOOLEAN : Arrive(n, p, again)
      PROVE  Steady
  BY <1>2, GiveUpSteady, RetrySteady, ChannelSteady
<1>3. ASSUME NEW n \in Node,
             \/ SendResponse(n)
             \/ \/ \E layer \in {"transport", "session"} : ReceiveRefused(n, layer)
                \/ IgnoreStale(n) \/ IgnoreReply(n)
             \/ TPReceiveAck(n) \/ SNReceiveResponse(n)
      PROVE  Steady
  BY <1>3, SendResponseSteady, IgnoredSteady, TPReceiveAckSteady, SNReceiveResponseSteady
<1>4. ASSUME NEW n \in Node,
             \/ SendReplyToChallenge(n) \/ ProcessReply(n)
             \/ \E i \in RR : ReceiveTimerExpired(n, i)
             \/ AppMsgReceive(n) \/ AppRspReceive(n)
             \/ \E kind \in ResetKinds : Reset(n, kind)
             \/ RestartOver(n)
      PROVE  Steady
  BY <1>4, SendReplyToChallengeSteady, ProcessReplySteady, ReceiveTimerSteady,
     AppMsgReceiveSteady, AppRspReceiveSteady, ResetSteady, RestartOverSteady
<1>5. ASSUME NEW m \in Message, Submit(m)
      PROVE  Steady
  BY <1>5, SubmitSteady
<1> QED
  BY Steps, <1>1, <1>2, <1>3, <1>4, <1>5

LEMMA StutterSteady ==
  ASSUME Sound, UNCHANGED vars
  PROVE  Steady
<1>1. Typed'
  BY TypedStep DEF Sound
<1>2. UNCHANGED <<tsaOutQ, xmitRec, recvRec, tsaInQ, nwOutQ, tsaRespQ, appInQ, appCeRspInQ, answers>>
  BY DEF vars, sendVars, recvVars, appVars, told
<1>3. NoNewRequest /\ ResponseIsForItsRequest'
  BY <1>1, <1>2, SoundUnchanged
<1> QED
  BY <1>1, <1>2, <1>3, ApplicationSteady

LEMMA SoundStep ==
  ASSUME Sound, NumbersAreFresh, [Next]_vars
  PROVE  Sound'
<1>1. CASE UNCHANGED vars
  BY <1>1, StutterSteady, SteadySound
<1>2. CASE Next
  BY <1>2, OtherSteps, SteadySound, SendNewMsgSound, ReceiveNewMsgSound
<1> QED
  BY <1>1, <1>2

\* A record found for a frame that repeats its message holds that message.
LEMMA SoundRepeats == Sound => NewMessageIsNotARepeat
<1> SUFFICES ASSUME Sound, NEW n \in Node, FrameOf(n, Service),
                    NEW i \in RetrieveRR(n, Head(tsaInQ[n])),
                    Repeats(recvRec[n][i], Head(tsaInQ[n]), Layer(Head(tsaInQ[n]).body))
             PROVE  recvRec[n][i].msg = Head(tsaInQ[n]).body
  BY DEF NewMessageIsNotARepeat
<1>1. PICK f : f = Head(tsaInQ[n])
  OBVIOUS
<1>2. /\ tsaInQ[n] # <<>> /\ f.kind \in Service
      /\ i \in RR /\ recvRec[n][i].src = f.src /\ recvRec[n][i].priority = f.priority
      /\ recvRec[n][i].transNum = f.transNum /\ recvRec[n][i].status = Layer(f.body)
  BY <1>1, RetrieveRRFinds DEF FrameOf, Repeats
<1>3. f \in Frame /\ f.dst = n /\ f \in Range(tsaInQ[n])
  <2>1. tsaInQ[n] \in Seq(FramesTo(n))
    BY TypedParts DEF Sound, InTyped
  <2>2. f \in FramesTo(n) /\ f \in Range(tsaInQ[n])
    BY <1>1, <1>2, <2>1, TailProperties
  <2> QED
    BY <2>2 DEF FramesTo
<1>4. /\ f.body \in Message /\ f.body.src = f.src /\ f.body.priority = f.priority
      /\ f = MessageFrame(f.body, f.transNum) /\ f.transNum \in 0 .. MaxTid /\ f.src \in Node
  BY <1>2, <1>3, FrameKinds
<1>5. InUse(f.body, f.transNum)
  BY <1>3, <1>4, InFlightIs DEF Sound, InUse
<1>6. PICK rr : rr = recvRec[n][i]
  OBVIOUS
<1>7. /\ rr.msg \in Message /\ rr.msg.src = f.src /\ rr.msg.priority = f.priority
      /\ rr.msg.dst = n
  BY <1>2, <1>4, <1>6, RecordFields, Counts, TypedParts DEF Sound, RecordsTyped
<1>8. rr.status # "unused"
  BY <1>2, <1>6 DEF Layer
<1>9. InUse(rr.msg, f.transNum)
  BY <1>2, <1>6, <1>7, <1>8 DEF InUse, Recorded
<1> QED
  BY <1>1, <1>4, <1>5, <1>6, <1>7, <1>9 DEF Sound, NumbersUnique

\* As long as numbers are given out only when nothing is left that they stood for,
\* ReceiveNewMsg never takes a new message for a repeat of the last one.
THEOREM FreshNumbersTell ==
  Spec /\ []NumbersAreFresh => []NewMessageIsNotARepeat
<1>1. Spec /\ []NumbersAreFresh => []Sound
  BY SoundInit, SoundStep, PTL DEF Spec
<1> QED
  BY <1>1, SoundRepeats, PTL

\* As long as numbers are given out only when nothing is left that they stood for,
\* SNReceiveResponse never passes on a response to another request.
THEOREM FreshNumbersMatch ==
  Spec /\ []NumbersAreFresh => []ResponseIsForItsRequest
<1>1. Spec /\ []NumbersAreFresh => []Sound
  BY SoundInit, SoundStep, PTL DEF Spec
<1>2. Sound => ResponseIsForItsRequest
  BY DEF Sound
<1> QED
  BY <1>1, <1>2, PTL

-----------------------------------------------------------------------------
(* Authentication.                                                         *)

\* What a record says of authentication is so.
AuthTrue(n, rr) ==
    rr.src # NoNode =>
        /\ rr.auth => rr.msg.auth /\ Key[rr.msg.src] = Key[n]
        /\ rr.transState = "authenticating" => rr.msg.auth

Authentic ==
    /\ Typed /\ AuthenticatedOnlyWithKey
    /\ \A n \in Node : \A i \in RR : AuthTrue(n, recvRec[n][i])

LEMMA AuthKept ==
  ASSUME AppTyped, AppTyped', AuthenticatedOnlyWithKey,
         \A n \in Node : \A a \in Range(appInQ'[n]) :
            \/ a \in Range(appInQ[n])
            \/ a.auth => a.msg.auth /\ Key[a.msg.src] = Key[n]
  PROVE  AuthenticatedOnlyWithKey'
<1> SUFFICES ASSUME NEW n \in Node, NEW k \in 1 .. Len(appInQ'[n]), appInQ'[n][k].auth
             PROVE  appInQ'[n][k].msg.auth /\ Key[appInQ'[n][k].msg.src] = Key[n]
  BY DEF AuthenticatedOnlyWithKey
<1>1. appInQ[n] \in Seq(Delivery) /\ appInQ'[n] \in Seq(Delivery)
  BY DEF AppTyped
<1>2. appInQ'[n][k] \in Range(appInQ'[n])
  BY <1>1, RangeIs
<1>3. CASE appInQ'[n][k] \in Range(appInQ[n])
  <2>1. PICK j \in 1 .. Len(appInQ[n]) : appInQ[n][j] = appInQ'[n][k]
    BY <1>1, <1>3, RangeIs
  <2>2. appInQ[n][j].auth => appInQ[n][j].msg.auth /\ Key[appInQ[n][j].msg.src] = Key[n]
    BY DEF AuthenticatedOnlyWithKey
  <2> QED
    BY <2>1, <2>2
<1> QED
  BY <1>2, <1>3

\* One record changes, or none, and keeps or delivers the truth.
LEMMA AuthenticKept ==
  ASSUME Authentic, Typed',
         \A n \in Node : \A i \in RR :
            recvRec'[n][i] = recvRec[n][i] \/ AuthTrue(n, recvRec'[n][i]),
         \A n \in Node : \A a \in Range(appInQ'[n]) :
            \/ a \in Range(appInQ[n])
            \/ a.auth => a.msg.auth /\ Key[a.msg.src] = Key[n]
  PROVE  Authentic'
<1>1. AuthenticatedOnlyWithKey'
  BY AuthKept, TypedParts DEF Authentic
<1>2. \A n \in Node : \A i \in RR : AuthTrue(n, recvRec'[n][i])
  BY DEF Authentic
<1> QED
  BY <1>1, <1>2 DEF Authentic, AuthTrue

\* Record i of node n becomes d, and what it held before, rr, may be delivered.
LEMMA AuthenticDelivered ==
  ASSUME Authentic, Typed', NEW n \in Node, NEW i \in RR, NEW rr \in WideRecords(n),
         NEW d \in RecordsOf(n), recvRec' = [recvRec EXCEPT ![n][i] = d], AuthTrue(n, d),
         rr.auth => rr.msg.auth /\ Key[rr.msg.src] = Key[n],
         UNCHANGED appInQ \/ Deliver(n, rr)
  PROVE  Authentic'
<1>1. \A o \in Node, j \in RR :
          recvRec'[o][j] = recvRec[o][j] \/ (o = n /\ recvRec'[o][j] = d)
  BY RecordTyped, TypedParts DEF Authentic
<1> DEFINE a == [msg |-> rr.msg, reqId |-> rr.reqId, auth |-> rr.auth]
<1>2. a.msg = rr.msg /\ a.auth = rr.auth
  OBVIOUS
<1>3. \A o \in Node : Range(appInQ'[o]) \subseteq Range(appInQ[o]) \cup (IF o = n THEN {a} ELSE {})
  BY DeliverTyped, TypedParts DEF Authentic
<1> HIDE DEF a
<1>4. \A o \in Node : \A b \in Range(appInQ'[o]) :
          b \in Range(appInQ[o]) \/ (b.auth => b.msg.auth /\ Key[b.msg.src] = Key[o])
  BY <1>2, <1>3
<1>5. \A o \in Node : \A j \in RR :
          recvRec'[o][j] = recvRec[o][j] \/ AuthTrue(o, recvRec'[o][j])
  BY <1>1
<1> QED
  BY <1>4, <1>5, AuthenticKept

LEMMA ReceiveNewMsgAuthentic ==
  ASSUME Authentic, NEW n \in Node, NEW layer \in {"transport", "session"},
         ReceiveNewMsg(n, layer)
  PROVE  Authentic'
<1>1. PICK f, i, rr, d : HeardAs(n, layer, f, i, rr, d)
  BY Hears DEF Authentic, Typed
<1>2. Typed'
  BY <1>1, HeardTyped DEF Authentic
<1>3. PICK old : old = recvRec[n][i]
  OBVIOUS
<1>4. /\ i \in RR /\ rr \in WideRecords(n) /\ d \in RecordsOf(n)
      /\ rr.needAuth = f.body.auth
      /\ Known(n, i, f, layer) =>
            old.src # NoNode /\ SameRecord(rr, old) /\ rr.transState = old.transState
      /\ ~Known(n, i, f, layer) => rr.msg = f.body /\ ~rr.auth
      /\ recvRec' = [recvRec EXCEPT ![n][i] = d]
      /\ \/ /\ NeedsChallenge(rr) /\ SameRecord(d, rr) /\ UNCHANGED appInQ
         \/ /\ SameRecord(d, rr) /\ d.transState \in Handled /\ Deliver(n, rr)
  BY <1>1, <1>3 DEF HeardAs, DeliveredAs
<1>5. /\ AuthTrue(n, old) /\ old \in RecordsOf(n)
  BY <1>3, <1>4, TypedParts DEF Authentic, RecordsTyped
<1>6. rr.auth => rr.msg.auth /\ Key[rr.msg.src] = Key[n]
  BY <1>4, <1>5 DEF AuthTrue, SameRecord
<1>7. NeedsChallenge(rr) => rr.msg.auth
  <2>1. CASE Known(n, i, f, layer)
    <3>1. old.transState # "just_received"
      BY <1>5, RecordFields DEF Handled
    <3> QED
      BY <1>4, <1>5, <2>1, <3>1 DEF NeedsChallenge, AuthTrue, SameRecord
  <2>2. CASE ~Known(n, i, f, layer)
    BY <1>4, <2>2 DEF NeedsChallenge
  <2> QED
    BY <2>1, <2>2
<1>8. AuthTrue(n, d)
  BY <1>4, <1>6, <1>7 DEF AuthTrue, SameRecord, Handled
<1>9. UNCHANGED appInQ \/ Deliver(n, rr)
  BY <1>4
<1> QED
  BY <1>2, <1>4, <1>6, <1>8, <1>9, AuthenticDelivered

LEMMA ProcessReplyAuthentic ==
  ASSUME Authentic, NEW n \in Node, ProcessReply(n)
  PROVE  Authentic'
<1>1. PICK f, i, rr, d : RepliedAs(n, f, i, rr, d)
  BY Replies DEF Authentic, Typed
<1>2. Typed'
  BY <1>1, RepliedTyped DEF Authentic
<1>3. PICK old : old = recvRec[n][i]
  OBVIOUS
<1>4. /\ i \in RR /\ old.src # NoNode /\ old.transState = "authenticating" /\ old.src = f.src
      /\ rr \in WideRecords(n) /\ rr.src = old.src /\ rr.msg = old.msg
      /\ rr.auth => Key[f.src] = Key[n]
      /\ d \in RecordsOf(n) /\ recvRec' = [recvRec EXCEPT ![n][i] = d]
      /\ SameRecord(d, rr) /\ d.transState \in Handled /\ Deliver(n, rr)
  BY <1>1, <1>3 DEF RepliedAs, DeliveredAs
<1>5. old \in RecordsOf(n) /\ AuthTrue(n, old)
  BY <1>3, <1>4, TypedParts DEF Authentic, RecordsTyped
<1>6. /\ old.msg.src = old.src /\ old.msg.auth
      /\ rr.auth \in BOOLEAN /\ old.msg.auth \in BOOLEAN
  <2>1. old.msg.src = old.src /\ old.msg \in Message
    BY <1>4, <1>5, RecordFields
  <2>2. old.msg.auth
    BY <1>4, <1>5 DEF AuthTrue
  <2>3. old.msg.auth \in BOOLEAN
    BY <2>1, TsaAssumption
  <2>4. rr.auth \in BOOLEAN
    BY <1>4 DEF WideRecords
  <2> QED
    BY <2>1, <2>2, <2>3, <2>4
<1>7. rr.auth => rr.msg.auth /\ Key[rr.msg.src] = Key[n]
  <2>1. rr.auth => Key[old.msg.src] = Key[n]
    BY <1>4, <1>6
  <2> QED
    BY <1>4, <1>6, <2>1
<1>8. d.src # NoNode /\ d.msg = rr.msg /\ d.auth = rr.auth /\ d.transState # "authenticating"
  BY <1>4 DEF SameRecord, Handled
<1>9. AuthTrue(n, d)
  BY <1>7, <1>8 DEF AuthTrue
<1> QED
  BY <1>2, <1>4, <1>7, <1>9, AuthenticDelivered

LEMMA SendResponseAuthentic ==
  ASSUME Authentic, NEW n \in Node, SendResponse(n)
  PROVE  Authentic'
<1>1. /\ Typed' /\ UNCHANGED appInQ
      /\ \/ UNCHANGED <<recvRec, nwOutQ>>
         \/ \E i, d : RespondedAs(n, Head(tsaRespQ[n]), i, d)
  BY Responds, SendResponseTyped DEF Authentic, Typed
<1>2. ASSUME NEW o \in Node, NEW j \in RR
      PROVE  recvRec'[o][j] = recvRec[o][j] \/ AuthTrue(o, recvRec'[o][j])
  <2>1. CASE UNCHANGED <<recvRec, nwOutQ>>
    BY <2>1
  <2>2. CASE \E i, d : RespondedAs(n, Head(tsaRespQ[n]), i, d)
    <3>1. PICK i, d : RespondedAs(n, Head(tsaRespQ[n]), i, d)
      BY <2>2
    <3>2. /\ i \in RR /\ d \in RecordsOf(n) /\ recvRec' = [recvRec EXCEPT ![n][i] = d]
          /\ d.src = recvRec[n][i].src /\ d.msg = recvRec[n][i].msg
          /\ d.auth = recvRec[n][i].auth /\ d.transState \in {"done", "responded"}
      BY <3>1 DEF RespondedAs
    <3>3. AuthTrue(n, d)
      BY <3>2 DEF Authentic, AuthTrue
    <3>4. recvRec'[o][j] = recvRec[o][j] \/ (o = n /\ recvRec'[o][j] = d)
      BY <3>2, RecordTyped, TypedParts DEF Authentic
    <3> QED
      BY <3>3, <3>4
  <2> QED
    BY <1>1, <2>1, <2>2
<1> QED
  BY <1>1, <1>2, AuthenticKept

LEMMA ReceiveTimerAuthentic ==
  ASSUME Authentic, NEW n \in Node, NEW i \in RR, ReceiveTimerExpired(n, i)
  PROVE  Authentic'
<1>1. PICK d :
         /\ Typed' /\ d \in RecordsOf(n) /\ d.src = recvRec[n][i].src
         /\ d.msg = recvRec[n][i].msg /\ d.transState = recvRec[n][i].transState
         /\ d.auth = recvRec[n][i].auth
         /\ recvRec' = [recvRec EXCEPT ![n][i] = d] /\ UNCHANGED appVars
  BY ReceiveTimerTyped DEF Authentic
<1>2. AuthTrue(n, d) /\ UNCHANGED appInQ
  BY <1>1 DEF Authentic, AuthTrue, appVars
<1>3. \A o \in Node, j \in RR :
          recvRec'[o][j] = recvRec[o][j] \/ (o = n /\ recvRec'[o][j] = d)
  BY <1>1, RecordTyped, TypedParts DEF Authentic
<1>4. \A o \in Node : \A j \in RR :
          recvRec'[o][j] = recvRec[o][j] \/ AuthTrue(o, recvRec'[o][j])
  BY <1>2, <1>3
<1> QED
  BY <1>1, <1>2, <1>4, AuthenticKept

LEMMA ResetAuthentic ==
  ASSUME Authentic, NEW n \in Node, NEW kind \in ResetKinds, Reset(n, kind)
  PROVE  Authentic'
<1>1. /\ Typed' /\ \A i \in RR : recvRec'[n][i] = BlankRecord
      /\ appInQ'[n] = <<>>
      /\ \A o \in Node : o # n => recvRec'[o] = recvRec[o] /\ appInQ'[o] = appInQ[o]
  BY ResetTyped DEF Authentic, ResetAs
<1>2. AuthTrue(n, BlankRecord)
  BY DEF AuthTrue, BlankRecord
<1>3. \A o \in Node : \A j \in RR :
          recvRec'[o][j] = recvRec[o][j] \/ AuthTrue(o, recvRec'[o][j])
  BY <1>1, <1>2
<1>4. Range(<<>>) = {}
  BY EmptySeq, RangeType
<1>5. \A o \in Node : \A b \in Range(appInQ'[o]) : b \in Range(appInQ[o])
  BY <1>1, <1>4
<1> QED
  BY <1>1, <1>3, <1>5, AuthenticKept

\* The other steps touch no record, and deliver nothing.
LEMMA OtherAuthentic ==
  ASSUME Authentic, Next
  PROVE  \/ Authentic'
         \/ \E n \in Node :
               \/ \E layer \in {"transport", "session"} : ReceiveNewMsg(n, layer)
               \/ ProcessReply(n) \/ SendResponse(n)
               \/ \E i \in RR : ReceiveTimerExpired(n, i)
               \/ \E kind \in ResetKinds : Reset(n, kind)
<1>1. Typed'
  BY TypedStep DEF Authentic
<1>2. UNCHANGED <<recvRec, appInQ>> => Authentic'
  BY <1>1, AuthenticKept
<1>3. ASSUME NEW n \in Node, AppMsgReceive(n)
      PROVE  Authentic'
  <2>1. UNCHANGED recvRec /\ \A o \in Node : Range(appInQ'[o]) \subseteq Range(appInQ[o])
    BY <1>3, AppMsgReceiveTyped DEF Authentic, recvVars
  <2> QED
    BY <1>1, <2>1, AuthenticKept
<1>4. ASSUME NEW n \in Node, NEW p \in Priority,
             \/ \E layer \in {"transport", "session"} :
                   CompleteAtOnce(n, p, layer) \/ SendNewMsg(n, p, layer)
             \/ GiveUp(n, p) \/ Retry(n, p)
             \/ Lose(n, p) \/ \E again \in BOOLEAN : Arrive(n, p, again)
      PROVE  UNCHANGED <<recvRec, appInQ>>
  BY <1>4 DEF CompleteAtOnce, SendNewMsg, GiveUp, Retry, Lose, Arrive, recvVars, appVars
<1>5. ASSUME NEW n \in Node,
             \/ \/ \E layer \in {"transport", "session"} : ReceiveRefused(n, layer)
                \/ IgnoreStale(n) \/ IgnoreReply(n)
             \/ TPReceiveAck(n) \/ SNReceiveResponse(n) \/ SendReplyToChallenge(n)
             \/ AppRspReceive(n) \/ RestartOver(n)
      PROVE  UNCHANGED <<recvRec, appInQ>>
  BY <1>5 DEF ReceiveRefused, IgnoreStale, IgnoreReply, TPReceiveAck, SNReceiveResponse,
              SendReplyToChallenge, AppRspReceive, RestartOver, recvVars, appVars
<1>6. ASSUME NEW m \in Message, Submit(m)
      PROVE  UNCHANGED <<recvRec, appInQ>>
  BY <1>6 DEF Submit, recvVars, appVars
<1> QED
  BY Steps, <1>2, <1>3, <1>4, <1>5, <1>6

LEMMA AuthenticStep ==
  ASSUME Authentic, [Next]_vars
  PROVE  Authentic'
<1>1. CASE UNCHANGED vars
  <2>1. UNCHANGED <<recvRec, appInQ>>
    BY <1>1 DEF vars, recvVars, appVars
  <2>2. Typed'
    BY TypedStep DEF Authentic
  <2> QED
    BY <2>1, <2>2, AuthenticKept
<1>2. CASE Next
  BY <1>2, OtherAuthentic, ReceiveNewMsgAuthentic, ProcessReplyAuthentic, SendResponseAuthentic,
     ReceiveTimerAuthentic, ResetAuthentic
<1> QED
  BY <1>1, <1>2

LEMMA AuthenticInit ==
  ASSUME Init
  PROVE  Authentic
<1>1. Typed
  BY TypedInit
<1>2. /\ \A n \in Node : \A i \in RR : recvRec[n][i] = BlankRecord
      /\ \A n \in Node : appInQ[n] = <<>>
  BY DEF Init
<1>3. BlankRecord.src = NoNode /\ Len(<<>>) = 0
  BY EmptySeq DEF BlankRecord
<1> QED
  BY <1>1, <1>2, <1>3 DEF Authentic, AuthTrue, AuthenticatedOnlyWithKey

\* A message is delivered as authentic only if its source asked for authentication
\* and has the key of the receiver: ProcessReply accepts no other proof.
THEOREM AuthenticationIsProved == Spec => []AuthenticatedOnlyWithKey
<1>1. Spec => []Authentic
  BY AuthenticInit, AuthenticStep, PTL DEF Spec
<1>2. Authentic => AuthenticatedOnlyWithKey
  BY DEF Authentic
<1> QED
  BY <1>1, <1>2, PTL

-----------------------------------------------------------------------------
(* Numbers that have not come round.                                       *)

\* No node has come to the last number since it was reset.
NumbersLast ==
    \A n \in Node : (\A p \in Priority : transID[n][p] < MaxTid) /\ reqId[n] < MaxReqId

\* Numbers in use are below the next one, at a node that may send.
TidsBelow ==
    \A m \in Message : \A t \in 0 .. MaxTid : restart[m.src] = "over" /\ InUse(m, t) =>
        /\ t <= transID[m.src][m.priority]
        /\ xmitRec[m.src][m.priority].status = "unused" => t < transID[m.src][m.priority]
RequestsBelow ==
    \A n \in Node : \A q \in 0 .. MaxReqId : \A m \in Message :
        Outstanding(n, q, m) => q < reqId[n]

\* A node that may not send yet has sent no message since its reset.
HeldUp ==
    \A n \in Node : restart[n] # "over" =>
        /\ restart[n] \in ResetKinds
        /\ \A p \in Priority : /\ xmitRec[n][p].status = "unused"
                               /\ \A f \in Range(nwOutQ[n][p]) : f.kind \notin Service

Sequential == TidsBelow /\ RequestsBelow /\ HeldUp

LEMMA SequentialFresh ==
  ASSUME Typed, NumbersLast, Sequential
  PROVE  NumbersAreFresh
<1>1. ASSUME NEW n \in Node, NEW p \in Priority, restart[n] = "over", Waiting(n, p),
             NEW m \in Message, m.src = n, m.priority = p
      PROVE  ~InUse(m, NewTid(n, p, Head(tsaOutQ[n][p]).dst))
  <2> DEFINE t == NewTid(n, p, Head(tsaOutQ[n][p]).dst)
  <2>1. tsaOutQ[n][p] # <<>> /\ xmitRec[n][p].status = "unused"
    BY <1>1 DEF Waiting
  <2>2. Head(tsaOutQ[n][p]).dst \in Node
    BY <2>1, HeadMessage, TypedParts
  <2>3. transID[n][p] < MaxTid
    BY DEF NumbersLast
  <2>4. t \in 0 .. MaxTid /\ t >= transID[n][p]
    BY <2>2, <2>3, TidType, TypedParts
  <2>5. transID[n][p] \in Nat
    BY TypedParts DEF NumbersTyped
  <2> HIDE DEF t
  <2>6. ~InUse(m, t)
    BY <1>1, <2>1, <2>4, <2>5 DEF Sequential, TidsBelow
  <2> QED
    BY <2>6 DEF t
<1>2. ASSUME NEW n \in Node, NEW m \in Message
      PROVE  ~Outstanding(n, ThisReqId(n), m)
  <2>1. reqId[n] \in 0 .. MaxReqId /\ ThisReqId(n) \in 0 .. MaxReqId /\ ThisReqId(n) >= reqId[n]
    BY TypedParts, TsaAssumption DEF ReqIdTyped, ThisReqId
  <2> QED
    BY <2>1 DEF Sequential, RequestsBelow
<1> QED
  BY <1>1, <1>2 DEF NumbersAreFresh, MessagesOf

\* What happens to a queue of frames when no message is sent.
Answering ==
    \A n \in Node, p \in Priority :
        \/ nwOutQ'[n][p] = nwOutQ[n][p]
        \/ nwOutQ[n][p] # <<>> /\ nwOutQ'[n][p] = Tail(nwOutQ[n][p])
        \/ nwOutQ'[n][p] = <<>>
        \/ \E f \in FramesOf(n, p) :
              f.kind \notin Service /\ nwOutQ'[n][p] = Put(nwOutQ[n][p], f, Cnt.nwOut)

LEMMA AnswerSent ==
  ASSUME Typed, NEW n \in Node, NEW p \in Priority, NEW f \in FramesOf(n, p),
         f.kind \notin Service, Send(n, f)
  PROVE  Answering
<1>1. /\ \A o \in Node, q \in Priority : <<o, q>> # <<n, p>> => nwOutQ'[o][q] = nwOutQ[o][q]
      /\ nwOutQ'[n][p] = Put(nwOutQ[n][p], f, Cnt.nwOut)
  BY SendTyped, TypedParts
<1> SUFFICES ASSUME NEW o \in Node, NEW q \in Priority
             PROVE  \/ nwOutQ'[o][q] = nwOutQ[o][q]
                    \/ \E g \in FramesOf(o, q) :
                          /\ g.kind \notin Service
                          /\ nwOutQ'[o][q] = Put(nwOutQ[o][q], g, Cnt.nwOut)
  BY DEF Answering
<1>2. CASE o = n /\ q = p
  BY <1>1, <1>2
<1>3. CASE ~(o = n /\ q = p)
  BY <1>1, <1>3
<1> QED
  BY <1>2, <1>3

LEMMA AnswerKinds ==
  ASSUME NEW n, NEW rr, NEW body
  PROVE  \A kind \in {"ack", "response", "challenge"} :
            FrameBack(n, rr, kind, body).kind \notin Service
BY DEF FrameBack, Service

LEMMA SendAnswerAnswers ==
  ASSUME Typed, NEW n \in Node, NEW rr \in RecordsOf(n), SendAnswer(n, rr)
  PROVE  Answering
<1>1. CASE UNCHANGED nwOutQ
  BY <1>1 DEF Answering
<1>2. ASSUME NEW kind \in {"ack", "response"}, NEW body, rr.priority \in Priority,
             Send(n, FrameBack(n, rr, kind, body)),
             FrameBack(n, rr, kind, body) \in FramesOf(n, rr.priority)
      PROVE  Answering
  <2>1. FrameBack(n, rr, kind, body).kind \notin Service
    BY AnswerKinds
  <2> QED
    BY <1>2, <2>1, AnswerSent
<1> QED
  BY <1>1, <1>2, SendAnswerTyped, TypedParts

\* Steps that leave the numbers alone.
Calm == Steady /\ Answering /\ UNCHANGED <<xmitRec, transID, restart, reqId>>

\* The end of a transaction.
Ending ==
    /\ Steady /\ UNCHANGED <<restart, reqId, nwOutQ>>
    /\ \E n \in Node, p \in Priority : \E q, success : EndedAs(n, p, q, success)

LEMMA CalmSteps ==
  ASSUME Sound, Next
  PROVE  \/ Calm \/ Ending
         \/ \E n \in Node, p \in Priority : Retry(n, p)
         \/ \E n \in Node, p \in Priority, layer \in {"transport", "session"} :
               SendNewMsg(n, p, layer)
         \/ \E n \in Node, layer \in {"transport", "session"} : ReceiveNewMsg(n, layer)
         \/ \E n \in Node : \/ \E kind \in ResetKinds : Reset(n, kind)
                            \/ RestartOver(n)
<1>1. ASSUME NEW n \in Node, NEW p \in Priority, NEW layer \in {"transport", "session"},
             CompleteAtOnce(n, p, layer)
      PROVE  Calm
  <2>1. UNCHANGED <<xmitRec, transID, restart, recvVars, nwOutQ>>
    BY <1>1, CompleteAtOnceTyped DEF Sound
  <2> QED
    BY <1>1, <2>1, CompleteAtOnceSteady DEF Calm, Answering, recvVars
<1>2. ASSUME NEW n \in Node, NEW p \in Priority, GiveUp(n, p)
      PROVE  Ending
  <2>1. PICK success : /\ EndedAs(n, p, appCeRspInQ[n], success)
                       /\ UNCHANGED <<restart, recvVars, nwOutQ>>
    BY <1>2, GiveUpTyped DEF Sound
  <2> QED
    BY <1>2, <2>1, GiveUpSteady DEF Ending, recvVars
<1>3. ASSUME NEW n \in Node, TPReceiveAck(n)
      PROVE  Ending
  <2>1. PICK p \in Priority : \E success : /\ EndedAs(n, p, appCeRspInQ[n], success)
                                            /\ UNCHANGED <<restart, recvVars, nwOutQ>>
    BY <1>3, TPReceiveAckTyped DEF Sound
  <2> QED
    BY <1>3, <2>1, TPReceiveAckSteady DEF Ending, recvVars
<1>4. ASSUME NEW n \in Node, SNReceiveResponse(n)
      PROVE  Ending
  <2>1. PICK p \in Priority : \E q, success : /\ EndedAs(n, p, q, success)
                                               /\ UNCHANGED <<restart, recvVars, nwOutQ>>
    BY <1>4, SNReceiveResponseTyped DEF Sound
  <2> QED
    BY <1>4, <2>1, SNReceiveResponseSteady DEF Ending, recvVars
<1>5. ASSUME NEW n \in Node, NEW p \in Priority,
             Lose(n, p) \/ \E again \in BOOLEAN : Arrive(n, p, again)
      PROVE  Calm
  <2>1. /\ nwOutQ[n][p] # <<>>
        /\ UNCHANGED nwOutQ \/ nwOutQ' = [nwOutQ EXCEPT ![n][p] = Tail(@)]
        /\ UNCHANGED <<sendVars, recvVars>>
    BY <1>5, ChannelTyped DEF Sound
  <2>2. Answering
    BY <2>1, LeaveTyped, TypedParts DEF Sound, Answering
  <2> QED
    BY <1>5, <2>1, <2>2, ChannelSteady DEF Calm, sendVars, recvVars
<1>6. ASSUME NEW n \in Node,
             \/ \E layer \in {"transport", "session"} : ReceiveRefused(n, layer)
             \/ IgnoreStale(n) \/ IgnoreReply(n)
      PROVE  Calm
  <2>1. UNCHANGED <<sendVars, recvVars, nwOutQ>>
    BY <1>6, IgnoredTyped DEF Sound
  <2> QED
    BY <1>6, <2>1, IgnoredSteady DEF Calm, Answering, sendVars, recvVars
<1>7. ASSUME NEW n \in Node, SendReplyToChallenge(n)
      PROVE  Calm
  <2>1. /\ \/ UNCHANGED nwOutQ
           \/ \E g, p : p \in Priority /\ g \in FramesOf(n, p) /\ g.kind = "reply" /\ Send(n, g)
        /\ UNCHANGED <<sendVars, recvVars>>
    BY <1>7, SendReplyToChallengeTyped DEF Sound
  <2>2. "reply" \notin Service
    BY DEF Service
  <2>3. CASE UNCHANGED nwOutQ
    BY <1>7, <2>1, <2>3, SendReplyToChallengeSteady DEF Calm, Answering, sendVars, recvVars
  <2>4. CASE ~UNCHANGED nwOutQ
    <3>1. Answering
      BY <2>1, <2>2, <2>4, AnswerSent DEF Sound
    <3> QED
      BY <1>7, <2>1, <3>1, SendReplyToChallengeSteady DEF Calm, sendVars, recvVars
  <2> QED
    BY <2>3, <2>4
<1>8. ASSUME NEW n \in Node, ProcessReply(n)
      PROVE  Calm
  <2>1. PICK f, i, rr, d : RepliedAs(n, f, i, rr, d)
    BY <1>8, Replies DEF Sound, Typed
  <2>2. d \in RecordsOf(n) /\ SendAnswer(n, d) /\ UNCHANGED <<sendVars, reqId>>
    BY <2>1 DEF RepliedAs, DeliveredAs
  <2>3. Answering
    BY <2>2, SendAnswerAnswers DEF Sound
  <2> QED
    BY <1>8, <2>2, <2>3, ProcessReplySteady DEF Calm, sendVars
<1>9. ASSUME NEW n \in Node, SendResponse(n)
      PROVE  Calm
  <2>1. /\ UNCHANGED <<sendVars, reqId>>
        /\ \/ UNCHANGED <<recvRec, nwOutQ>>
           \/ \E i, d : RespondedAs(n, Head(tsaRespQ[n]), i, d)
    BY <1>9, Responds DEF Sound, Typed
  <2>2. Answering
    <3>1. CASE UNCHANGED <<recvRec, nwOutQ>>
      BY <3>1 DEF Answering
    <3>2. CASE \E i, d : RespondedAs(n, Head(tsaRespQ[n]), i, d)
      <4>1. PICK i, d : RespondedAs(n, Head(tsaRespQ[n]), i, d)
        BY <3>2
      <4>2. d \in RecordsOf(n) /\ SendAnswer(n, d)
        BY <4>1 DEF RespondedAs
      <4> QED
        BY <4>2, SendAnswerAnswers DEF Sound
    <3> QED
      BY <2>1, <3>1, <3>2
  <2> QED
    BY <1>9, <2>1, <2>2, SendResponseSteady DEF Calm, sendVars
<1>10. ASSUME NEW n \in Node, NEW i \in RR, ReceiveTimerExpired(n, i)
       PROVE  Calm
  <2>1. UNCHANGED <<sendVars, reqId, nwOutQ>>
    BY <1>10, ReceiveTimerTyped DEF Sound
  <2> QED
    BY <1>10, <2>1, ReceiveTimerSteady DEF Calm, Answering, sendVars
<1>11. ASSUME NEW n \in Node, AppMsgReceive(n) \/ AppRspReceive(n)
       PROVE  Calm
  <2>1. UNCHANGED <<sendVars, recvVars, nwOutQ>>
    BY <1>11, AppMsgReceiveTyped, AppRspReceiveTyped DEF Sound
  <2> QED
    BY <1>11, <2>1, AppMsgReceiveSteady, AppRspReceiveSteady
       DEF Calm, Answering, sendVars, recvVars
<1>12. ASSUME NEW m \in Message, Submit(m)
       PROVE  Calm
  <2>1. UNCHANGED <<xmitRec, transID, restart, recvVars, nwOutQ>>
    BY <1>12 DEF Submit
  <2> QED
    BY <1>12, <2>1, SubmitSteady DEF Calm, Answering, recvVars
<1> QED
  BY Steps, <1>1, <1>2, <1>3, <1>4, <1>5, <1>6, <1>7, <1>8, <1>9, <1>10, <1>11, <1>12

\* A queue of a node that may not send holds no messages after a step that sends none.
LEMMA HeldUpKept ==
  ASSUME Typed, Answering, NEW n \in Node, NEW p \in Priority,
         \A f \in Range(nwOutQ[n][p]) : f.kind \notin Service
  PROVE  \A f \in Range(nwOutQ'[n][p]) : f.kind \notin Service
<1>1. nwOutQ[n][p] \in Seq(FramesOf(n, p))
  BY TypedParts DEF NwTyped
<1>2. Range(<<>>) = {}
  BY EmptySeq, RangeType
<1>3. CASE nwOutQ[n][p] # <<>> /\ nwOutQ'[n][p] = Tail(nwOutQ[n][p])
  BY <1>1, <1>3, TailProperties
<1>4. CASE \E f \in FramesOf(n, p) :
              f.kind \notin Service /\ nwOutQ'[n][p] = Put(nwOutQ[n][p], f, Cnt.nwOut)
  BY <1>1, <1>4, PutProperties, Counts
<1> QED
  BY <1>2, <1>3, <1>4 DEF Answering

LEMMA CalmSequential ==
  ASSUME Sound, Sequential, Calm
  PROVE  Sequential'
<1>1. TidsBelow'
  BY DEF Sequential, TidsBelow, Calm, Steady, NoNewUse
<1>2. RequestsBelow'
  BY DEF Sequential, RequestsBelow, Calm, Steady, NoNewRequest
<1>3. HeldUp'
  BY HeldUpKept DEF Sequential, HeldUp, Calm, Sound
<1> QED
  BY <1>1, <1>2, <1>3 DEF Sequential

LEMMA EndingSequential ==
  ASSUME Sound, Sequential, NumbersLast, Ending
  PROVE  Sequential'
<1>1. PICK n \in Node, p \in Priority : \E q, success : EndedAs(n, p, q, success)
  BY DEF Ending
<1>2. /\ xmitRec[n][p].status # "unused" /\ transID'[n][p] = Bump(transID[n][p])
      /\ \A o \in Node, r \in Priority : <<o, r>> # <<n, p>> => transID'[o][r] = transID[o][r]
      /\ xmitRec'[n][p].status = "unused"
      /\ \A o \in Node, r \in Priority : <<o, r>> # <<n, p>> => xmitRec'[o][r] = xmitRec[o][r]
  BY <1>1 DEF EndedAs
<1>3. UNCHANGED <<restart, reqId, nwOutQ>> /\ NoNewUse /\ NoNewRequest
  BY DEF Ending, Steady
<1>4. transID'[n][p] = transID[n][p] + 1 /\ transID[n][p] \in Nat
  BY <1>2, TidType, TypedParts DEF Sound, NumbersLast, NumbersTyped
<1>5. TidsBelow'
  <2> SUFFICES ASSUME NEW m \in Message, NEW t \in 0 .. MaxTid, restart[m.src] = "over",
                      InUse(m, t)
               PROVE  /\ t <= transID'[m.src][m.priority]
                      /\ xmitRec'[m.src][m.priority].status = "unused"
                            => t < transID'[m.src][m.priority]
    BY <1>3 DEF TidsBelow, NoNewUse
  <2>1. /\ t <= transID[m.src][m.priority]
        /\ xmitRec[m.src][m.priority].status = "unused" => t < transID[m.src][m.priority]
    BY DEF Sequential, TidsBelow
  <2>2. m.src \in Node /\ m.priority \in Priority
    BY TsaAssumption
  <2>3. CASE m.src = n /\ m.priority = p
    BY <1>4, <2>1, <2>3
  <2>4. CASE ~(m.src = n /\ m.priority = p)
    BY <1>2, <2>1, <2>2, <2>4
  <2> QED
    BY <2>3, <2>4
<1>6. RequestsBelow'
  BY <1>3 DEF Sequential, RequestsBelow, NoNewRequest
<1>7. HeldUp'
  BY <1>2, <1>3 DEF Sequential, HeldUp
<1> QED
  BY <1>5, <1>6, <1>7 DEF Sequential

LEMMA RetrySequential ==
  ASSUME Sound, Sequential, NEW n \in Node, NEW p \in Priority, Retry(n, p)
  PROVE  Sequential'
<1> DEFINE f == MessageFrame(Head(tsaOutQ[n][p]), xmitRec[n][p].transNum)
<1>1. /\ restart[n] = "over"
      /\ \A o \in Node, r \in Priority : xmitRec'[o][r].status = xmitRec[o][r].status
      /\ Send(n, f) /\ f \in FramesOf(n, p)
      /\ UNCHANGED <<transID, restart, recvVars>>
  BY RetryTyped DEF Sound
<1> HIDE DEF f
<1>2. NoNewUse /\ NoNewRequest /\ UNCHANGED reqId
  BY <1>1, RetrySteady DEF Steady, recvVars
<1>3. TidsBelow'
  <2>1. \A m \in Message : m.src \in Node /\ m.priority \in Priority
    BY TsaAssumption
  <2> QED
    BY <1>1, <1>2, <2>1 DEF Sequential, TidsBelow, NoNewUse
<1>4. RequestsBelow'
  BY <1>2 DEF Sequential, RequestsBelow, NoNewRequest
<1>5. \A o \in Node, r \in Priority : <<o, r>> # <<n, p>> => nwOutQ'[o][r] = nwOutQ[o][r]
  BY <1>1, SendTyped, TypedParts DEF Sound
<1>6. HeldUp'
  BY <1>1, <1>5 DEF Sequential, HeldUp
<1> QED
  BY <1>3, <1>4, <1>6 DEF Sequential

LEMMA SendNewMsgSequential ==
  ASSUME Sound, Sequential, NumbersLast, NEW n \in Node, NEW p \in Priority,
         NEW layer \in {"transport", "session"}, SendNewMsg(n, p, layer)
  PROVE  Sequential'
<1>1. PICK m, t : Typed' /\ SentAs(n, p, layer, m, t)
  BY SendNewMsgTyped DEF Sound
<1>2. /\ restart[n] = "over" /\ xmitRec[n][p].status = "unused" /\ tsaOutQ[n][p] # <<>>
      /\ m \in Message /\ m.src = n /\ m.priority = p /\ t = NewTid(n, p, m.dst)
      /\ xmitRec'[n][p].status = Layer(m)
      /\ \A o \in Node, r \in Priority : <<o, r>> # <<n, p>> => xmitRec'[o][r] = xmitRec[o][r]
      /\ transID'[n][p] = t
      /\ \A o \in Node, r \in Priority : <<o, r>> # <<n, p>> => transID'[o][r] = transID[o][r]
      /\ Send(n, MessageFrame(m, t)) /\ MessageFrame(m, t) \in FramesOf(n, p)
      /\ UNCHANGED <<recvRec, tsaRespQ, appInQ, restart, reqId>>
  BY <1>1 DEF SentAs, recvVars, appVars
<1>3. t \in 0 .. MaxTid /\ OnlyNewUse(m, t)
  BY <1>1, UseAfterSending
<1>4. m.dst \in Node /\ Layer(m) # "unused"
  BY <1>2, TsaAssumption DEF Layer
<1>5. t >= transID[n][p] /\ transID[n][p] \in Nat
  <2>1. NumbersTyped /\ transID[n][p] < MaxTid
    BY TypedParts DEF Sound, NumbersLast
  <2>2. transID[n][p] \in Nat
    BY <2>1, TsaAssumption DEF NumbersTyped
  <2> QED
    BY <1>2, <1>4, <2>1, <2>2, TidType
<1>6. TidsBelow'
  <2> SUFFICES ASSUME NEW o \in Message, NEW u \in 0 .. MaxTid, restart[o.src] = "over",
                      InUse(o, u)'
               PROVE  /\ u <= transID'[o.src][o.priority]
                      /\ xmitRec'[o.src][o.priority].status = "unused"
                            => u < transID'[o.src][o.priority]
    BY <1>2 DEF TidsBelow
  <2>1. InUse(o, u) \/ (o = m /\ u = t)
    BY <1>3 DEF OnlyNewUse
  <2>2. o.src \in Node /\ o.priority \in Priority
    BY TsaAssumption
  <2>3. InUse(o, u) =>
          /\ u <= transID[o.src][o.priority]
          /\ xmitRec[o.src][o.priority].status = "unused" => u < transID[o.src][o.priority]
    BY DEF Sequential, TidsBelow
  <2>4. CASE o.src = n /\ o.priority = p
    BY <1>2, <1>3, <1>4, <1>5, <2>1, <2>3, <2>4
  <2>5. CASE ~(o.src = n /\ o.priority = p)
    BY <1>2, <2>1, <2>2, <2>3, <2>5
  <2> QED
    BY <2>4, <2>5
<1>7. RequestsBelow'
  <2>1. NoNewRequest
    BY <1>1, <1>2, SoundUnchanged
  <2> QED
    BY <1>2, <2>1 DEF Sequential, RequestsBelow, NoNewRequest
<1>8. \A o \in Node, r \in Priority : <<o, r>> # <<n, p>> => nwOutQ'[o][r] = nwOutQ[o][r]
  BY <1>2, SendTyped, TypedParts DEF Sound
<1>9. HeldUp'
  BY <1>2, <1>8 DEF Sequential, HeldUp
<1> QED
  BY <1>6, <1>7, <1>9 DEF Sequential

LEMMA ReceiveNewMsgSequential ==
  ASSUME Sound, Sequential, NumbersLast, NEW n \in Node,
         NEW layer \in {"transport", "session"}, ReceiveNewMsg(n, layer)
  PROVE  Sequential'
<1>1. PICK f, i, rr, d : HeardAs(n, layer, f, i, rr, d)
  BY Hears DEF Sound, Typed
<1>2. /\ f.body \in Message /\ (Steady \/ SteadyBut(n, ThisReqId(n), f.body))
      /\ Known(n, i, f, layer) \/ layer = "transport" => Steady
  BY <1>1, HeardSteady
<1>3. /\ reqId' = IF layer = "transport" \/ Known(n, i, f, layer) THEN reqId
                  ELSE [reqId EXCEPT ![n] = (ThisReqId(n) + 1) % (MaxReqId + 1)]
      /\ UNCHANGED <<xmitRec, transID, restart>>
  BY <1>1 DEF HeardAs, sendVars
<1>4. Answering
  <2>1. rr.priority \in Priority /\ d \in RecordsOf(n)
    <3>1. f.priority = f.body.priority /\ rr.priority = f.priority /\ d \in RecordsOf(n)
      BY <1>1 DEF HeardAs
    <3> QED
      BY <1>2, <3>1, TsaAssumption
  <2>2. CASE SendAnswer(n, d)
    BY <2>1, <2>2, SendAnswerAnswers DEF Sound
  <2>3. CASE \E r \in Nonce : /\ Send(n, FrameBack(n, rr, "challenge", r))
                              /\ FrameBack(n, rr, "challenge", r) \in FramesOf(n, rr.priority)
    <3>1. PICK r \in Nonce : /\ Send(n, FrameBack(n, rr, "challenge", r))
                             /\ FrameBack(n, rr, "challenge", r) \in FramesOf(n, rr.priority)
      BY <2>3
    <3>2. PICK g : g = FrameBack(n, rr, "challenge", r)
      OBVIOUS
    <3>3. g.kind \notin Service
      BY <3>2, AnswerKinds
    <3> QED
      BY <2>1, <3>1, <3>2, <3>3, AnswerSent DEF Sound
  <2> QED
    BY <1>1, <2>2, <2>3 DEF HeardAs, DeliveredAs
<1>5. NoNewUse
  BY <1>2 DEF Steady, SteadyBut
<1>6. TidsBelow'
  BY <1>3, <1>5 DEF Sequential, TidsBelow, NoNewUse
<1>7. /\ reqId \in [Node -> 0 .. MaxReqId] /\ reqId[n] < MaxReqId
      /\ MaxReqId \in Nat
  BY TypedParts, TsaAssumption DEF Sound, ReqIdTyped, NumbersLast
<1>8. ThisReqId(n) \in 1 .. MaxReqId /\ reqId[n] <= ThisReqId(n) /\ ThisReqId(n) + 1 <= MaxReqId + 1
  BY <1>7, TsaAssumption DEF ThisReqId
<1>9. (ThisReqId(n) + 1) % (MaxReqId + 1) = ThisReqId(n) + 1
  <2>1. ThisReqId(n) < MaxReqId
    BY <1>7, TsaAssumption DEF ThisReqId
  <2> QED
    BY <1>7, <1>8, <2>1
<1>10. RequestsBelow'
  <2>1. CASE layer = "transport" \/ Known(n, i, f, layer)
    BY <1>2, <1>3, <2>1 DEF Sequential, RequestsBelow, Steady, NoNewRequest
  <2>2. CASE ~(layer = "transport" \/ Known(n, i, f, layer))
    <3>1. \A o \in Node : reqId'[o] = IF o = n THEN ThisReqId(n) + 1 ELSE reqId[o]
      BY <1>3, <1>7, <1>9, <2>2
    <3>2. \A o \in Node : \A r \in 0 .. MaxReqId : \A l \in Message :
             Outstanding(o, r, l)' => Outstanding(o, r, l) \/ (o = n /\ r = ThisReqId(n))
      BY <1>2 DEF Steady, SteadyBut, NoNewRequest
    <3> SUFFICES ASSUME NEW o \in Node, NEW r \in 0 .. MaxReqId, NEW l \in Message,
                        Outstanding(o, r, l)'
                 PROVE  r < reqId'[o]
      BY DEF RequestsBelow
    <3>3. Outstanding(o, r, l) => r < reqId[o]
      BY DEF Sequential, RequestsBelow
    <3>4. Outstanding(o, r, l) \/ (o = n /\ r = ThisReqId(n))
      BY <3>2
    <3> QED
      BY <1>7, <1>8, <3>1, <3>3, <3>4
  <2> QED
    BY <2>1, <2>2
<1>11. HeldUp'
  BY <1>3, <1>4, HeldUpKept DEF Sequential, HeldUp, Sound
<1> QED
  BY <1>6, <1>10, <1>11 DEF Sequential

LEMMA ResetSequential ==
  ASSUME Sound, Sequential, NEW n \in Node, NEW kind \in ResetKinds, Reset(n, kind)
  PROVE  Sequential'
<1>1. ResetAs(n, kind) /\ kind # "over"
  BY ResetTyped, TsaAssumption DEF Sound
<1>2. /\ restart'[n] = kind /\ \A o \in Node : o # n => restart'[o] = restart[o]
      /\ \A p \in Priority : nwOutQ'[n][p] = <<>> /\ xmitRec'[n][p].status = "unused"
      /\ \A i \in RR : recvRec'[n][i] = BlankRecord
      /\ tsaRespQ'[n] = <<>> /\ appInQ'[n] = <<>>
      /\ \A o \in Node : o # n =>
            /\ nwOutQ'[o] = nwOutQ[o] /\ xmitRec'[o] = xmitRec[o]
            /\ transID'[o] = transID[o] /\ reqId'[o] = reqId[o]
  BY <1>1 DEF ResetAs
<1>3. NoNewUse /\ NoNewRequest
  BY ResetSteady DEF Steady
<1>4. TidsBelow'
  <2> SUFFICES ASSUME NEW m \in Message, NEW t \in 0 .. MaxTid, restart'[m.src] = "over",
                      InUse(m, t)'
               PROVE  /\ t <= transID'[m.src][m.priority]
                      /\ xmitRec'[m.src][m.priority].status = "unused"
                            => t < transID'[m.src][m.priority]
    BY DEF TidsBelow
  <2>1. m.src \in Node /\ m.src # n
    BY <1>1, <1>2, TsaAssumption
  <2>2. InUse(m, t)
    BY <1>3 DEF NoNewUse
  <2> QED
    BY <1>2, <2>1, <2>2 DEF Sequential, TidsBelow
<1>5. RequestsBelow'
  <2> SUFFICES ASSUME NEW o \in Node, NEW q \in 0 .. MaxReqId, NEW m \in Message,
                      Outstanding(o, q, m)'
               PROVE  q < reqId'[o]
    BY DEF RequestsBelow
  <2>1. CASE o = n
    <3>1. BlankRecord.transState = "done" /\ Len(<<>>) = 0
      BY EmptySeq DEF BlankRecord
    <3> QED
      BY <1>2, <2>1, <3>1 DEF Outstanding
  <2>2. CASE o # n
    BY <1>2, <1>3, <2>2 DEF Sequential, RequestsBelow, NoNewRequest
  <2> QED
    BY <2>1, <2>2
<1>6. HeldUp'
  <2>1. Range(<<>>) = {}
    BY EmptySeq, RangeType
  <2> QED
    BY <1>1, <1>2, <2>1 DEF Sequential, HeldUp
<1> QED
  BY <1>4, <1>5, <1>6 DEF Sequential

\* After a power-up with a delay that outlasts receive timers, nothing is left of what a
\* node sent before when it may send again.
LEMMA NothingLeft ==
  ASSUME Sound, Sequential, ResetKinds \subseteq {"powerup"}, DelayOutlasts, NEW n \in Node,
         RestartOver(n)
  PROVE  \A m \in Message : \A t \in 0 .. MaxTid : m.src = n => ~InUse(m, t)
<1> SUFFICES ASSUME NEW m \in Message, NEW t \in 0 .. MaxTid, m.src = n
             PROVE  ~InUse(m, t)
  OBVIOUS
<1>1. restart[n] # "over" /\ Quiet(n)
  BY RestartOverTyped DEF Sound
<1>2. /\ restart[n] = "powerup"
      /\ \A p \in Priority : /\ xmitRec[n][p].status = "unused"
                             /\ \A f \in Range(nwOutQ[n][p]) : f.kind \notin Service
  BY <1>1 DEF Sequential, HeldUp
<1>3. \A o \in Node : \A i \in RR : recvRec[o][i].src = n => recvRec[o][i].status = "unused"
  BY <1>2, RestartOverTyped DEF Sound
<1>4. m.dst \in Node /\ m.priority \in Priority
  BY TsaAssumption
<1>5. ~InFlight(MessageFrame(m, t))
  <2>1. PICK f : f = MessageFrame(m, t)
    OBVIOUS
  <2>2. f \in Frame /\ f.src = n /\ f.dst = m.dst /\ f.priority = m.priority /\ f.kind \in Service
    BY <2>1, FramesOfUse, TsaAssumption DEF MessageFrame
  <2>3. f \notin Range(nwOutQ[n][m.priority])
    BY <1>2, <1>4, <2>2
  <2>4. ~Queued(f, tsaInQ[m.dst])
    BY <1>1, <1>4, <2>2 DEF Quiet, Queued
  <2>5. f \notin Range(tsaInQ[m.dst])
    BY <1>4, <2>4, RangeIs, TypedParts DEF Sound, InTyped, Queued
  <2> QED
    BY <2>1, <2>2, <2>3, <2>5, InFlightIs DEF Sound
<1>6. ~InFlight(ResponseFrame(m, t))
  <2>1. /\ ResponseFrame(m, t).src = m.dst /\ ResponseFrame(m, t).dst = n
        /\ ResponseFrame(m, t).priority = m.priority
    BY DEF ResponseFrame
  <2> QED
    BY <1>1, <1>4, <2>1 DEF InFlight, Queued, Quiet
<1>7. ~Sending(m, t)
  BY <1>2, <1>4 DEF Sending
<1>8. ~Recorded(m, t)
  <2> SUFFICES ASSUME NEW i \in RR, recvRec[m.dst][i].status # "unused",
                      recvRec[m.dst][i].msg = m
               PROVE  FALSE
    BY DEF Recorded
  <2>1. PICK rr : rr = recvRec[m.dst][i]
    OBVIOUS
  <2>2. rr \in RecordsOf(m.dst)
    BY <1>4, <2>1, TypedParts DEF Sound, RecordsTyped
  <2>3. rr.src # NoNode
    BY <1>4, <2>1, <2>2, RecordFields
  <2>4. rr.src = n
    BY <1>4, <2>1, <2>2, <2>3, RecordFields
  <2> QED
    BY <1>3, <1>4, <2>1, <2>4
<1> QED
  BY <1>5, <1>6, <1>7, <1>8 DEF InUse

LEMMA RestartOverSequential ==
  ASSUME Sound, Sequential, ResetKinds \subseteq {"powerup"}, DelayOutlasts, NEW n \in Node,
         RestartOver(n)
  PROVE  Sequential'
<1>1. /\ restart'[n] = "over" /\ \A o \in Node : o # n => restart'[o] = restart[o]
      /\ UNCHANGED <<xmitRec, transID, recvVars, nwOutQ>>
  BY RestartOverTyped DEF Sound
<1>2. NoNewUse /\ NoNewRequest /\ UNCHANGED reqId
  BY <1>1, RestartOverSteady DEF Steady, recvVars
<1>3. TidsBelow'
  <2> SUFFICES ASSUME NEW m \in Message, NEW t \in 0 .. MaxTid, restart'[m.src] = "over",
                      InUse(m, t)'
               PROVE  /\ t <= transID'[m.src][m.priority]
                      /\ xmitRec'[m.src][m.priority].status = "unused"
                            => t < transID'[m.src][m.priority]
    BY DEF TidsBelow
  <2>1. InUse(m, t)
    BY <1>2 DEF NoNewUse
  <2>2. m.src \in Node /\ m.src # n
    BY <2>1, NothingLeft, TsaAssumption
  <2> QED
    BY <1>1, <2>1, <2>2 DEF Sequential, TidsBelow
<1>4. RequestsBelow'
  BY <1>2 DEF Sequential, RequestsBelow, NoNewRequest
<1>5. HeldUp'
  BY <1>1 DEF Sequential, HeldUp
<1> QED
  BY <1>3, <1>4, <1>5 DEF Sequential

LEMMA SequentialInit ==
  ASSUME Init
  PROVE  Sequential
<1>1. TidsBelow /\ RequestsBelow
  BY InitUse DEF TidsBelow, RequestsBelow
<1>2. HeldUp
  BY DEF Init, HeldUp
<1> QED
  BY <1>1, <1>2 DEF Sequential

LEMMA SequentialStep ==
  ASSUME Sound, Sequential, NumbersLast, ResetKinds \subseteq {"powerup"}, DelayOutlasts, [Next]_vars
  PROVE  Sequential'
<1>1. CASE UNCHANGED vars
  <2>1. UNCHANGED <<xmitRec, transID, restart, reqId, nwOutQ>>
    BY <1>1 DEF vars, sendVars, recvVars
  <2> QED
    BY <1>1, <2>1, StutterSteady, CalmSequential DEF Calm, Answering
<1>2. CASE Next
  BY <1>2, CalmSteps, CalmSequential, EndingSequential, RetrySequential, SendNewMsgSequential,
     ReceiveNewMsgSequential, ResetSequential, RestartOverSequential
<1> QED
  BY <1>1, <1>2

\* Numbers that have not come round since the last reset are fresh, if the table of
\* numbers is emptied by power-ups only, and if tsDelayTimer was set as its comment asks,
\* to outlast the receive timers of the network. TS_RESET_DELAY_TIME is 2000 ms and does
\* so for receive timers up to 1536 ms, not for the default of 2048 ms: see MCTsaPowerUp.
THEOREM NumbersStayFresh ==
  ASSUME ResetKinds \subseteq {"powerup"}, DelayOutlasts
  PROVE  Spec /\ []NumbersLast => []NumbersAreFresh
<1>1. Init => Sound /\ Sequential
  BY SoundInit, SequentialInit
<1>2. Sound /\ Sequential /\ NumbersLast => NumbersAreFresh
  BY SequentialFresh DEF Sound
<1>3. Sound /\ Sequential /\ NumbersLast /\ [Next]_vars => (Sound /\ Sequential)'
  BY <1>2, SoundStep, SequentialStep
<1> QED
  BY <1>1, <1>2, <1>3, PTL DEF Spec

\* So a node that powers up, waits longer than receive timers run, and has not come to
\* its last number since, never has a new message taken for a repeat, nor a response
\* taken for another one.
THEOREM PowerUpIsSafe ==
  ASSUME ResetKinds \subseteq {"powerup"}, DelayOutlasts
  PROVE  Spec /\ []NumbersLast => [](NewMessageIsNotARepeat /\ ResponseIsForItsRequest)
BY NumbersStayFresh, FreshNumbersTell, FreshNumbersMatch, PTL

=============================================================================
