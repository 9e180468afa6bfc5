-------------------------------- MODULE Tsa --------------------------------
(***************************************************************************)
(* The transport, session and authentication layers (lcs/lcs_tsa.c) of     *)
(* nodes that exchange messages over a channel that loses and duplicates   *)
(* frames: acknowledged, unacknowledged-repeated and request/response      *)
(* messages to a single node, with retries, duplicate detection by receive *)
(* records, and challenges.                                                *)
(*                                                                         *)
(* Each node runs the layers in turns from one loop (LCS_Service); a call  *)
(* of a layer's function handles at most one event and is one action here, *)
(* in any order. A transmit timer may run out at any time. QueueFull is    *)
(* never true (LcsQueue), so branches that wait for room are dead code and *)
(* left out; a QueueWrite without room loses the entry silently.           *)
(*                                                                         *)
(* The queues of the network layer and below are one queue of frames per   *)
(* node and priority, nwOutQ, from which frames go to tsaInQ at their      *)
(* destination.                                                            *)
(***************************************************************************)
EXTENDS Integers, Sequences

CONSTANTS
    Node,
    Priority,       \* the priorities in use
    Pri,            \* the one that is served first
    Message,        \* what the applications send, each once
    Retries,        \* retry count of an address table entry
    MaxTid,         \* the largest transaction number, 15
    MaxReqId,       \* the largest request id, 65535
    RecvRecCnt,     \* number of receive records of a node
    Cnt,            \* number of entries of each queue
    Nonce,          \* the values a challenge can have
    Key,            \* authentication key of each node
    NullResponse,   \* may applications answer with a null response?
    ResetNodes,     \* nodes that may be reset while they have messages to send
    ResetKinds,     \* "reset" by software, "powerup" or external
    MaxResets,      \* bound on the number of resets
    FrameLife,      \* ms that a frame and its repeats can take to be received
    ReceiveTimer,   \* ms of the longest receive timer in the network
    ResetDelay,     \* TS_RESET_DELAY_TIME, 2000 ms
    NoNode, NoMsg, NoNonce

Service == {"ackd", "unack_rpt", "request"}

ASSUME TsaAssumption ==
    /\ Retries \in Nat
    /\ MaxTid \in Nat \ {0, 1}
    /\ MaxReqId \in Nat \ {0, 1}
    /\ RecvRecCnt \in Nat
    /\ Cnt \in [{"nwOut", "tsaIn", "tsaOut", "tsaResp", "appIn", "appCeRsp"} -> Nat \ {0}]
    /\ ResetNodes \subseteq Node
    /\ ResetKinds \subseteq {"reset", "powerup"}
    /\ MaxResets \in Nat
    /\ FrameLife \in Nat /\ ReceiveTimer \in Nat /\ ResetDelay \in Nat
    /\ NullResponse \subseteq BOOLEAN
    /\ \A m \in Message :
          /\ m.src \in Node /\ m.dst \in Node
          /\ m.priority \in Priority
          /\ m.service \in Service
          /\ m.auth \in BOOLEAN
          /\ m.check \in {"ok", "bad", "lastTag"}
          /\ m.check = "lastTag" => m.service # "request"
    /\ NoNode \notin Node

VARIABLES
    tsaOutQ,      \* tsaOutPriQ and tsaOutQ: messages, the head is being sent
    xmitRec,      \* priXmitRec and xmitRec, with the transaction's number
    transID,      \* the next transaction number to try
    lastTid,      \* the number last used for each destination
    restart,      \* sending is held up by a reset, or tsDelayTimer
    recvRec,      \* receive records
    reqId,        \* the next request id
    tsaInQ,       \* frames received
    nwOutQ,       \* frames on their way to the channel, and on it
    tsaRespQ,     \* responses of the application
    appInQ,       \* messages delivered to the application
    appCeRspInQ,  \* responses and completion events for the application
    resets,       \* number of resets so far
    submitted,    \* history: messages handed to the transport or session layer
    delivered,    \* history: how often each message was put in an appInQ
    outcome,      \* history: completion events the application has got
    answers       \* history: the requests answered by the responses it has got

sendVars == <<tsaOutQ, xmitRec, transID, lastTid, restart>>
recvVars == <<recvRec, reqId>>
appVars == <<tsaRespQ, appInQ, appCeRspInQ>>
told == <<outcome, answers>>
vars == <<sendVars, recvVars, tsaInQ, nwOutQ, appVars, resets, submitted, delivered, told>>

RR == 1 .. RecvRecCnt

NoTid == -1

-----------------------------------------------------------------------------

\* Faulty variant: the last place is used too.
PutToCapacity(q, e, cnt) == IF Len(q) < cnt THEN Append(q, e) ELSE q

\* QueueWrite: the last place of a queue of cnt entries is never used.
Put(q, e, cnt) == IF Len(q) < cnt - 1 THEN Append(q, e) ELSE q

\* Where a search through S in increasing order stops: the least element.
First(S) == {i \in S : \A j \in S : i <= j}

\* Frames of this node leave in the order in which it forms them.
Send(n, f) == nwOutQ' = [nwOutQ EXCEPT ![n][f.priority] = Put(@, f, Cnt.nwOut)]

DropReceived(n) == tsaInQ' = [tsaInQ EXCEPT ![n] = Tail(@)]

\* An ACKD_MSG, UNACK_RPT_MSG or REQUEST_MSG that carries message m.
MessageFrame(m, t) ==
    [kind |-> m.service, src |-> m.src, dst |-> m.dst, priority |-> m.priority,
     transNum |-> t, body |-> m]

\* A frame from node n to the source of the message in receive record rr.
FrameBack(n, rr, kind, body) ==
    [kind |-> kind, src |-> n, dst |-> rr.src, priority |-> rr.priority,
     transNum |-> rr.transNum, body |-> body]

Layer(m) == IF m.service = "request" THEN "session" ELSE "transport"

UnusedTx == [status |-> "unused", transNum |-> 0, retriesLeft |-> 0, ackCount |-> 0]

BlankRecord ==
    [status |-> "unused", src |-> NoNode, priority |-> Pri, transNum |-> 0,
     transState |-> "done", msg |-> NoMsg, reqId |-> 0, needAuth |-> FALSE,
     auth |-> FALSE, rand |-> NoNonce, response |-> NoMsg]

-----------------------------------------------------------------------------
(* Sending.                                                                *)

\* TryMsgSend: the application layer hands over a message, which is lost when
\* the queue has no room.
Submit(m) ==
    /\ m \notin submitted
    /\ tsaOutQ' = [tsaOutQ EXCEPT ![m.src][m.priority] = Put(@, m, Cnt.tsaOut)]
    /\ submitted' = submitted \union {m}
    /\ UNCHANGED <<xmitRec, transID, lastTid, restart, recvVars, tsaInQ, nwOutQ,
                   appVars, resets, delivered, told>>

Waiting(n, p) == xmitRec[n][p].status = "unused" /\ tsaOutQ[n][p] # <<>>

\* TransportLayerSend or SessionLayerSend gets to the messages of priority p:
\* after a power-up it waits, the session layer sends responses first, and
\* while a priority message waits to be sent nothing else is looked at.
Turn(n, p, layer) ==
    /\ restart[n] = "over"
    /\ layer = "session" => tsaRespQ[n] = <<>>
    /\ p # Pri /\ Pri \in Priority => ~Waiting(n, Pri)

\* Entries of appCeRspInQ.
Completion(m, success) == [indication |-> "completion", msg |-> m, success |-> success]
ResponseTo(m, body) == [indication |-> "message", msg |-> m, body |-> body]

\* SendCompletion: the outcome of the message at the head of tsaOutQ is queued
\* behind what is in q, and the message is dropped.
SendCompletion(n, p, q, success) ==
    /\ appCeRspInQ' = [appCeRspInQ EXCEPT ![n] =
                          Put(q, Completion(Head(tsaOutQ[n][p]), success), Cnt.appCeRsp)]
    /\ tsaOutQ' = [tsaOutQ EXCEPT ![n][p] = Tail(@)]

\* The next transaction number; zero is used only right after a reset.
Bump(t) == IF t = MaxTid THEN 1 ELSE t + 1

\* NewTrans: not the number used last for the destination (Tcs has the table).
NewTid(n, p, d) ==
    IF lastTid[n][p][d] = transID[n][p] THEN Bump(transID[n][p]) ELSE transID[n][p]

\* SendNewMsg for a message that is not sent: one that fails the checks of its
\* address and size, or one that only carries the tag of a completed update.
CompleteAtOnce(n, p, layer) ==
    /\ Turn(n, p, layer) /\ Waiting(n, p)
    /\ LET m == Head(tsaOutQ[n][p])
       IN  /\ Layer(m) = layer
           /\ m.check # "ok"
           /\ SendCompletion(n, p, appCeRspInQ[n], m.check = "lastTag")
    /\ UNCHANGED <<xmitRec, transID, lastTid, restart, recvVars, tsaInQ, nwOutQ,
                   tsaRespQ, appInQ, resets, submitted, delivered, told>>

\* SendNewMsg for the message at the head of the queue: it gets a transaction
\* number and is sent for the first time.
SendNewMsg(n, p, layer) ==
    /\ Turn(n, p, layer) /\ Waiting(n, p)
    /\ LET m == Head(tsaOutQ[n][p])
           t == NewTid(n, p, m.dst)
       IN  /\ Layer(m) = layer /\ m.check = "ok"
           /\ transID' = [transID EXCEPT ![n][p] = t]
           /\ lastTid' = [lastTid EXCEPT ![n][p][m.dst] = t]
           /\ xmitRec' = [xmitRec EXCEPT ![n][p] =
                 [status |-> layer, transNum |-> t, retriesLeft |-> Retries, ackCount |-> 0]]
           /\ Send(n, MessageFrame(m, t))
    /\ UNCHANGED <<tsaOutQ, restart, recvVars, tsaInQ, appVars, resets, submitted,
                   delivered, told>>

\* TerminateTrans after acks answers: the next message gets another number.
TerminateTrans(n, p, q, acks) ==
    /\ xmitRec' = [xmitRec EXCEPT ![n][p] = UnusedTx]
    /\ transID' = [transID EXCEPT ![n][p] = Bump(@)]
    /\ SendCompletion(n, p, q, Head(tsaOutQ[n][p]).service = "unack_rpt" \/ acks = 1)

\* XmitTimerExpiration when no retries are left.
GiveUp(n, p) ==
    /\ xmitRec[n][p].status # "unused"
    /\ Turn(n, p, xmitRec[n][p].status)
    /\ xmitRec[n][p].retriesLeft = 0
    /\ TerminateTrans(n, p, appCeRspInQ[n], xmitRec[n][p].ackCount)
    /\ UNCHANGED <<lastTid, restart, recvVars, tsaInQ, nwOutQ, tsaRespQ, appInQ,
                   resets, submitted, delivered, told>>

\* Faulty variant: retries are not counted.
RetryUncounted(n, p) ==
    /\ xmitRec[n][p].status # "unused"
    /\ Turn(n, p, xmitRec[n][p].status)
    /\ xmitRec[n][p].retriesLeft # 0
    /\ Send(n, MessageFrame(Head(tsaOutQ[n][p]), xmitRec[n][p].transNum))
    /\ UNCHANGED <<sendVars, recvVars, tsaInQ, appVars, resets, submitted, delivered, told>>

\* XmitTimerExpiration when retries are left.
Retry(n, p) ==
    /\ xmitRec[n][p].status # "unused"
    /\ Turn(n, p, xmitRec[n][p].status)
    /\ xmitRec[n][p].retriesLeft # 0
    /\ xmitRec' = [xmitRec EXCEPT ![n][p].retriesLeft = @ - 1]
    /\ Send(n, MessageFrame(Head(tsaOutQ[n][p]), xmitRec[n][p].transNum))
    /\ UNCHANGED <<tsaOutQ, transID, lastTid, restart, recvVars, tsaInQ, appVars,
                   resets, submitted, delivered, told>>

-----------------------------------------------------------------------------
(* Receiving messages.                                                     *)

\* RetrieveRR: the record of the last message from the frame's source with the
\* frame's priority, whether or not its receive timer has run out.
RetrieveRR(n, f) ==
    First({i \in RR : recvRec[n][i].src = f.src /\ recvRec[n][i].priority = f.priority})

AllocateRR(n) == First({i \in RR : recvRec[n][i].status = "unused"})

\* Faulty variant: the transaction number is not compared.
RepeatsByContents(rr, f, layer) == rr.status = layer /\ rr.msg.apdu = f.body.apdu

\* Faulty variant: every frame is taken for a new message.
RepeatsNever(rr, f, layer) == FALSE

\* Does frame f repeat the message in record rr? Numbers and contents decide.
Repeats(rr, f, layer) ==
    /\ rr.transNum = f.transNum
    /\ rr.status = layer
    /\ rr.msg.apdu = f.body.apdu

\* Request ids wrap, and are never 0.
ThisReqId(n) == IF reqId[n] = 0 THEN 1 ELSE reqId[n]

NewRecord(n, f, layer) ==
    [BlankRecord EXCEPT !.status = layer, !.src = f.src, !.priority = f.priority,
        !.transNum = f.transNum, !.transState = "just_received", !.msg = f.body,
        !.reqId = IF layer = "session" THEN ThisReqId(n) ELSE 0]

NeedsChallenge(rr) == rr.needAuth /\ rr.transState \in {"just_received", "authenticating"}

\* InitiateChallenge for record i, whose contents so far are rr: a repeated
\* message is challenged again with the same random value.
InitiateChallenge(n, i, rr) ==
    \E r \in IF rr.transState = "authenticating" THEN {rr.rand} ELSE Nonce :
        /\ recvRec' = [recvRec EXCEPT ![n][i] =
               [rr EXCEPT !.transState = "authenticating", !.rand = r]]
        /\ Send(n, FrameBack(n, rr, "challenge", r))

Handled == {"delivered", "responded", "done"}

\* Deliver: the state of the record afterwards, and the message in appInQ.
DeliveredRecord(rr) ==
    IF rr.transState \in Handled THEN rr
    ELSE [rr EXCEPT !.transState =
             IF rr.needAuth /\ rr.transState # "authenticated" THEN "done" ELSE "delivered"]

Deliver(n, rr) ==
    IF rr.transState \notin Handled /\ DeliveredRecord(rr).transState = "delivered"
       /\ Len(appInQ[n]) < Cnt.appIn - 1
    THEN /\ appInQ' = [appInQ EXCEPT ![n] =
                 Append(@, [msg |-> rr.msg, reqId |-> rr.reqId, auth |-> rr.auth])]
         /\ delivered' = [delivered EXCEPT ![rr.msg] = @ + 1]
    ELSE UNCHANGED <<appInQ, delivered>>

\* What is sent back for record rr after it was delivered, now or earlier:
\* TPSendAck, or SNSendResponse with the saved response.
SendAnswer(n, rr) ==
    CASE rr.status = "transport" /\ rr.msg.service = "ackd" /\ rr.transState = "delivered" ->
            Send(n, FrameBack(n, rr, "ack", NoMsg))
      [] rr.status = "session" /\ rr.transState = "responded" ->
            Send(n, FrameBack(n, rr, "response", rr.response))
      [] OTHER -> UNCHANGED nwOutQ

\* Kinds of the frames that start or repeat a message of a layer.
MessageKinds(layer) == IF layer = "session" THEN {"request"} ELSE {"ackd", "unack_rpt"}

FrameOf(n, kinds) == tsaInQ[n] # <<>> /\ Head(tsaInQ[n]).kind \in kinds

\* ReceiveNewMsg when every record is in use by another source.
ReceiveRefused(n, layer) ==
    /\ FrameOf(n, MessageKinds(layer))
    /\ RetrieveRR(n, Head(tsaInQ[n])) = {}
    /\ AllocateRR(n) = {}
    /\ DropReceived(n)
    /\ UNCHANGED <<sendVars, recvVars, nwOutQ, appVars, resets, submitted, delivered, told>>

\* Faulty variant: an unused record is taken before the source's own.
RecordForUnusedFirst(n, f) == IF AllocateRR(n) # {} THEN AllocateRR(n) ELSE RetrieveRR(n, f)

\* The record for frame f, and what it holds before the frame is acted upon.
RecordFor(n, f) == IF RetrieveRR(n, f) # {} THEN RetrieveRR(n, f) ELSE AllocateRR(n)

Known(n, i, f, layer) == i \in RetrieveRR(n, f) /\ Repeats(recvRec[n][i], f, layer)

RecordWith(n, i, f, layer) ==
    [IF Known(n, i, f, layer) THEN recvRec[n][i] ELSE NewRecord(n, f, layer)
        EXCEPT !.needAuth = f.body.auth]

\* ReceiveNewMsg: a new message takes over the record, a repeated one uses it
\* as it is; then the message is challenged or delivered, unless it was before,
\* and acknowledged or answered again.
ReceiveNewMsg(n, layer) ==
    /\ FrameOf(n, MessageKinds(layer))
    /\ LET f == Head(tsaInQ[n])
       IN  \E i \in RecordFor(n, f) :
           LET rr == RecordWith(n, i, f, layer)
           IN  /\ reqId' = IF layer = "transport" \/ Known(n, i, f, layer) THEN reqId
                           ELSE [reqId EXCEPT ![n] = (ThisReqId(n) + 1) % (MaxReqId + 1)]
               /\ \/ /\ NeedsChallenge(rr)
                     /\ InitiateChallenge(n, i, rr)
                     /\ UNCHANGED <<appInQ, delivered>>
                  \/ /\ ~NeedsChallenge(rr)
                     /\ recvRec' = [recvRec EXCEPT ![n][i] = DeliveredRecord(rr)]
                     /\ Deliver(n, rr)
                     /\ SendAnswer(n, DeliveredRecord(rr))
    /\ DropReceived(n)
    /\ UNCHANGED <<sendVars, tsaRespQ, appCeRspInQ, resets, submitted, told>>

\* Can the message in record rr of node n still be repeated, by a retry or by
\* a frame on its way?
StillRepeated(n, rr) ==
    LET onItsWay(q) == \E k \in 1 .. Len(q) : q[k].kind \in Service /\ q[k].body = rr.msg
    IN  \/ onItsWay(nwOutQ[rr.src][rr.priority])
        \/ onItsWay(tsaInQ[n])
        \/ /\ tsaOutQ[rr.src][rr.priority] # <<>>
           /\ Head(tsaOutQ[rr.src][rr.priority]) = rr.msg

\* The receive timer of a record runs out and the record is released, with its
\* contents. Receive timers are configured to outlast the sender's retries.
ReceiveTimerExpired(n, i) ==
    /\ recvRec[n][i].status # "unused"
    /\ ~StillRepeated(n, recvRec[n][i])
    /\ recvRec' = [recvRec EXCEPT ![n][i].status = "unused"]
    /\ UNCHANGED <<sendVars, reqId, tsaInQ, nwOutQ, appVars, resets, submitted,
                   delivered, told>>

-----------------------------------------------------------------------------
(* Receiving answers.                                                      *)

\* Faulty variant: the transaction number is not compared.
CurrentOfAnyNumber(n, f, layer) ==
    /\ xmitRec[n][f.priority].status = layer
    /\ Head(tsaOutQ[n][f.priority]).dst = f.src

\* Does answer f belong to the transaction in progress? ValidateTrans, and the
\* checks of the transmit record's status and of the source address.
Current(n, f, layer) ==
    /\ xmitRec[n][f.priority].status = layer
    /\ xmitRec[n][f.priority].transNum = f.transNum
    /\ Head(tsaOutQ[n][f.priority]).dst = f.src

\* Answers that belong to no transaction in progress are ignored: late
\* acknowledgements and responses, and challenges of messages sent without auth.
IgnoreStale(n) ==
    /\ \/ FrameOf(n, {"ack"}) /\ ~Current(n, Head(tsaInQ[n]), "transport")
       \/ FrameOf(n, {"response"}) /\ ~Current(n, Head(tsaInQ[n]), "session")
    /\ DropReceived(n)
    /\ UNCHANGED <<sendVars, recvVars, nwOutQ, appVars, resets, submitted, delivered, told>>

TPReceiveAck(n) ==
    /\ FrameOf(n, {"ack"})
    /\ LET f == Head(tsaInQ[n])
       IN  /\ Current(n, f, "transport")
           /\ TerminateTrans(n, f.priority, appCeRspInQ[n],
                             xmitRec[n][f.priority].ackCount + 1)
    /\ DropReceived(n)
    /\ UNCHANGED <<lastTid, restart, recvVars, nwOutQ, tsaRespQ, appInQ, resets,
                   submitted, delivered, told>>

\* The response, then the completion event, go to the application.
SNReceiveResponse(n) ==
    /\ FrameOf(n, {"response"})
    /\ LET f == Head(tsaInQ[n])
           m == Head(tsaOutQ[n][f.priority])
       IN  /\ Current(n, f, "session")
           /\ TerminateTrans(n, f.priority,
                  Put(appCeRspInQ[n], ResponseTo(m, f.body), Cnt.appCeRsp),
                  xmitRec[n][f.priority].ackCount + 1)
    /\ DropReceived(n)
    /\ UNCHANGED <<lastTid, restart, recvVars, nwOutQ, tsaRespQ, appInQ, resets,
                   submitted, delivered, told>>

\* Faulty variant: the key is not used.
CryptoWithoutKey(r, a, k) == [rand |-> r, apdu |-> a, key |-> a]

\* What a node with key k answers to challenge r for contents a (Encrypt).
Crypto(r, a, k) == [rand |-> r, apdu |-> a, key |-> k]

\* SendReplyToChallenge, unless the challenge is stale.
SendReplyToChallenge(n) ==
    /\ FrameOf(n, {"challenge"})
    /\ LET f == Head(tsaInQ[n])
           x == xmitRec[n][f.priority]
       IN  IF /\ x.status # "unused"
              /\ x.transNum = f.transNum
              /\ Head(tsaOutQ[n][f.priority]).auth
           THEN Send(n, [kind |-> "reply", src |-> n, dst |-> f.src,
                         priority |-> f.priority, transNum |-> x.transNum,
                         body |-> Crypto(f.body, Head(tsaOutQ[n][f.priority]).apdu, Key[n])])
           ELSE UNCHANGED nwOutQ
    /\ DropReceived(n)
    /\ UNCHANGED <<sendVars, recvVars, appVars, resets, submitted, delivered, told>>

\* Faulty variant: a repeated reply is accepted again.
ChallengedBefore(n, f) == {i \in RetrieveRR(n, f) : recvRec[n][i].transNum = f.transNum}

\* The record that reply f is about: the status of the record is not looked at.
Challenged(n, f) ==
    {i \in RetrieveRR(n, f) : /\ recvRec[n][i].transState = "authenticating"
                              /\ recvRec[n][i].transNum = f.transNum}

\* ProcessReply: right or wrong, the reply settles whether the message is
\* delivered as authenticated, and it is delivered.
ProcessReply(n) ==
    /\ FrameOf(n, {"reply"})
    /\ \E i \in Challenged(n, Head(tsaInQ[n])) :
       LET old == recvRec[n][i]
           rr == [old EXCEPT !.transState = "authenticated",
                     !.auth = Head(tsaInQ[n]).body = Crypto(old.rand, old.msg.apdu, Key[n])]
       IN  /\ recvRec' = [recvRec EXCEPT ![n][i] = DeliveredRecord(rr)]
           /\ Deliver(n, rr)
           /\ SendAnswer(n, DeliveredRecord(rr))
    /\ DropReceived(n)
    /\ UNCHANGED <<sendVars, reqId, tsaRespQ, appCeRspInQ, resets, submitted, told>>

\* A reply for no record that waits for one.
IgnoreReply(n) ==
    /\ FrameOf(n, {"reply"})
    /\ Challenged(n, Head(tsaInQ[n])) = {}
    /\ DropReceived(n)
    /\ UNCHANGED <<sendVars, recvVars, nwOutQ, appVars, resets, submitted, delivered, told>>

-----------------------------------------------------------------------------
(* The application.                                                        *)

\* The application takes a message; it responds to a request.
AppMsgReceive(n) ==
    /\ appInQ[n] # <<>>
    /\ appInQ' = [appInQ EXCEPT ![n] = Tail(@)]
    /\ LET a == Head(appInQ[n])
       IN  IF a.msg.service = "request"
           THEN \E null \in NullResponse :
                   tsaRespQ' = [tsaRespQ EXCEPT ![n] =
                       Put(@, [reqId |-> a.reqId, body |-> a.msg, null |-> null], Cnt.tsaResp)]
           ELSE UNCHANGED tsaRespQ
    /\ UNCHANGED <<sendVars, recvVars, tsaInQ, nwOutQ, appCeRspInQ, resets, submitted,
                   delivered, told>>

\* FindRR: the record of the request that a response with id q is for, if the
\* request is still waiting for it.
FindRR(n, q) ==
    {i \in First({j \in RR : recvRec[n][j].status = "session" /\ recvRec[n][j].reqId = q}) :
        recvRec[n][i].transState = "delivered"}

\* SessionLayerSend, response first: it is saved in the record of its request
\* and sent, or discarded if it comes too late. A null response is not sent.
SendResponse(n) ==
    /\ restart[n] = "over"
    /\ tsaRespQ[n] # <<>>
    /\ LET r == Head(tsaRespQ[n])
           saved(i) == [recvRec[n][i] EXCEPT !.response = r.body,
                           !.transState = IF r.null THEN "done" ELSE "responded"]
       IN  \/ /\ FindRR(n, r.reqId) = {}
              /\ UNCHANGED <<recvRec, nwOutQ>>
           \/ \E i \in FindRR(n, r.reqId) :
                 /\ recvRec' = [recvRec EXCEPT ![n][i] = saved(i)]
                 /\ SendAnswer(n, saved(i))
    /\ tsaRespQ' = [tsaRespQ EXCEPT ![n] = Tail(@)]
    /\ UNCHANGED <<sendVars, reqId, tsaInQ, appInQ, appCeRspInQ, resets, submitted,
                   delivered, told>>

\* The application takes a completion event or a response.
AppRspReceive(n) ==
    /\ appCeRspInQ[n] # <<>>
    /\ appCeRspInQ' = [appCeRspInQ EXCEPT ![n] = Tail(@)]
    /\ LET a == Head(appCeRspInQ[n])
       IN  IF a.indication = "completion"
           THEN /\ outcome' = [outcome EXCEPT ![a.msg] = Append(@, a.success)]
                /\ UNCHANGED answers
           ELSE /\ answers' = [answers EXCEPT ![a.msg] = @ \union {a.body}]
                /\ UNCHANGED outcome
    /\ UNCHANGED <<sendVars, recvVars, tsaInQ, nwOutQ, tsaRespQ, appInQ, resets,
                   submitted, delivered>>

-----------------------------------------------------------------------------
(* The channel and resets.                                                 *)

\* The next frame that node n sends: priority frames go first.
NextOut(n, p) ==
    /\ nwOutQ[n][p] # <<>>
    /\ p # Pri /\ Pri \in Priority => nwOutQ[n][Pri] = <<>>

\* The frame arrives, if there is room for it, and may arrive again.
Arrive(n, p, again) ==
    /\ NextOut(n, p)
    /\ LET f == Head(nwOutQ[n][p])
       IN  tsaInQ' = [tsaInQ EXCEPT ![f.dst] = Put(@, f, Cnt.tsaIn)]
    /\ nwOutQ' = IF again THEN nwOutQ ELSE [nwOutQ EXCEPT ![n][p] = Tail(@)]
    /\ UNCHANGED <<sendVars, recvVars, appVars, resets, submitted, delivered, told>>

Lose(n, p) ==
    /\ NextOut(n, p)
    /\ nwOutQ' = [nwOutQ EXCEPT ![n][p] = Tail(@)]
    /\ UNCHANGED <<sendVars, recvVars, tsaInQ, appVars, resets, submitted, delivered, told>>

\* NodeReset: queues and records are allocated anew and transaction numbers start
\* from 0. After a power-up or external reset the table of numbers used is empty
\* too, and tsDelayTimer is started; a software reset keeps the table.
Reset(n, kind) ==
    /\ n \in ResetNodes
    /\ resets < MaxResets
    /\ resets' = resets + 1
    /\ tsaOutQ' = [tsaOutQ EXCEPT ![n] = [p \in Priority |-> <<>>]]
    /\ xmitRec' = [xmitRec EXCEPT ![n] = [p \in Priority |-> UnusedTx]]
    /\ transID' = [transID EXCEPT ![n] = [p \in Priority |-> 0]]
    /\ lastTid' = IF kind = "reset" THEN lastTid
                  ELSE [lastTid EXCEPT ![n] = [p \in Priority |-> [d \in Node |-> NoTid]]]
    /\ restart' = [restart EXCEPT ![n] = kind]
    /\ recvRec' = [recvRec EXCEPT ![n] = [i \in RR |-> BlankRecord]]
    /\ reqId' = [reqId EXCEPT ![n] = 0]
    /\ tsaInQ' = [tsaInQ EXCEPT ![n] = <<>>]
    /\ nwOutQ' = [nwOutQ EXCEPT ![n] = [p \in Priority |-> <<>>]]
    /\ tsaRespQ' = [tsaRespQ EXCEPT ![n] = <<>>]
    /\ appInQ' = [appInQ EXCEPT ![n] = <<>>]
    /\ appCeRspInQ' = [appCeRspInQ EXCEPT ![n] = <<>>]
    /\ UNCHANGED <<submitted, delivered, told>>

\* No frame from or to node n is left in a queue of another node.
Quiet(n) ==
    \A o \in Node :
        /\ \A k \in 1 .. Len(tsaInQ[o]) : n \notin {tsaInQ[o][k].src, o}
        /\ \A p \in Priority : \A k \in 1 .. Len(nwOutQ[o][p]) : nwOutQ[o][p][k].dst # n

\* Faulty variant: tsDelayTimer is not asked.
RestartOverEarly(n) ==
    /\ restart[n] # "over"
    /\ Quiet(n)
    /\ restart' = [restart EXCEPT ![n] = "over"]
    /\ UNCHANGED <<tsaOutQ, xmitRec, transID, lastTid, recvVars, tsaInQ, nwOutQ,
                   appVars, resets, submitted, delivered, told>>

\* "The timer duration would be set based on the maximum expected receive timer
\* value in all target nodes": is it? With the defaults of this stack it is not,
\* the receive timer being 2048 ms, and 8192 ms for messages to a unique id.
DelayOutlasts == FrameLife + ReceiveTimer <= ResetDelay

\* Node n may send again: after a software reset when NodeReset is done, which
\* takes longer than a frame and its answer; after a power-up when tsDelayTimer
\* runs out, which may be before the receive records of its messages do.
RestartOver(n) ==
    /\ restart[n] # "over"
    /\ Quiet(n)
    /\ restart[n] = "powerup" /\ DelayOutlasts =>
           \A o \in Node : \A i \in RR :
               recvRec[o][i].src = n => recvRec[o][i].status = "unused"
    /\ restart' = [restart EXCEPT ![n] = "over"]
    /\ UNCHANGED <<tsaOutQ, xmitRec, transID, lastTid, recvVars, tsaInQ, nwOutQ,
                   appVars, resets, submitted, delivered, told>>

-----------------------------------------------------------------------------

Init ==
    /\ tsaOutQ = [n \in Node |-> [p \in Priority |-> <<>>]]
    /\ xmitRec = [n \in Node |-> [p \in Priority |-> UnusedTx]]
    /\ transID = [n \in Node |-> [p \in Priority |-> 0]]
    /\ lastTid = [n \in Node |-> [p \in Priority |-> [d \in Node |-> NoTid]]]
    /\ restart = [n \in Node |-> "over"]
    /\ recvRec = [n \in Node |-> [i \in RR |-> BlankRecord]]
    /\ reqId = [n \in Node |-> 0]
    /\ tsaInQ = [n \in Node |-> <<>>]
    /\ nwOutQ = [n \in Node |-> [p \in Priority |-> <<>>]]
    /\ tsaRespQ = [n \in Node |-> <<>>]
    /\ appInQ = [n \in Node |-> <<>>]
    /\ appCeRspInQ = [n \in Node |-> <<>>]
    /\ resets = 0
    /\ submitted = {}
    /\ delivered = [m \in Message |-> 0]
    /\ outcome = [m \in Message |-> <<>>]
    /\ answers = [m \in Message |-> {}]

\* TransportLayerSend and SessionLayerSend, but for responses.
SendStep(n) ==
    \E p \in Priority :
        \/ \E layer \in {"transport", "session"} :
              CompleteAtOnce(n, p, layer) \/ SendNewMsg(n, p, layer)
        \/ GiveUp(n, p)
        \/ Retry(n, p)

\* TransportLayerReceive, SessionLayerReceive and AuthReceive, but for timers.
ReceiveStep(n) ==
    \/ \E layer \in {"transport", "session"} :
          ReceiveRefused(n, layer) \/ ReceiveNewMsg(n, layer)
    \/ IgnoreStale(n) \/ TPReceiveAck(n) \/ SNReceiveResponse(n)
    \/ SendReplyToChallenge(n) \/ ProcessReply(n) \/ IgnoreReply(n)

AppStep(n) == AppMsgReceive(n) \/ AppRspReceive(n)

ChannelStep(n) ==
    \E p \in Priority : \/ \E again \in BOOLEAN : Arrive(n, p, again)
                        \/ Lose(n, p)

Next ==
    \/ \E m \in Message : Submit(m)
    \/ \E n \in Node : \/ SendStep(n)
                       \/ SendResponse(n)
                       \/ ReceiveStep(n)
                       \/ \E i \in RR : ReceiveTimerExpired(n, i)
                       \/ AppStep(n)
                       \/ ChannelStep(n)
                       \/ \E kind \in ResetKinds : Reset(n, kind)
                       \/ RestartOver(n)

Spec == Init /\ [][Next]_vars

\* The service loop of a node calls the sending functions again and again and
\* transmit timers run out; the application takes what it is given.
Fairness ==
    \A n \in Node : /\ WF_vars(SendStep(n))
                    /\ WF_vars(SendResponse(n))
                    /\ WF_vars(AppStep(n))

FairSpec == Spec /\ Fairness

-----------------------------------------------------------------------------

\* What answers of a kind carry.
Answer(kind, bodies) ==
    [kind : {kind}, src : Node, dst : Node, priority : Priority,
     transNum : 0 .. MaxTid, body : bodies]

Frame ==
    {MessageFrame(m, t) : m \in Message, t \in 0 .. MaxTid}
    \union Answer("ack", {NoMsg})
    \union Answer("response", Message)
    \union Answer("challenge", Nonce)
    \union {f \in Answer("reply", {Crypto(r, m.apdu, Key[n]) :
                                    r \in Nonce, m \in Message, n \in Node}) :
              f.body.key = Key[f.src]}

\* The receive records that a node can have between two steps.
Record ==
    {BlankRecord} \union
    {rr \in [status : {"unused", "transport", "session"}, src : Node,
             priority : Priority, transNum : 0 .. MaxTid,
             transState : Handled \union {"authenticating"},
             msg : Message, reqId : 0 .. MaxReqId, needAuth : BOOLEAN,
             auth : BOOLEAN, rand : Nonce \union {NoNonce},
             response : Message \union {NoMsg}] :
        /\ rr.msg.src = rr.src /\ rr.msg.priority = rr.priority
        /\ rr.status \in {"unused", Layer(rr.msg)}
        /\ rr.transState = "responded" => rr.response \in Message
        /\ rr.transState = "authenticating" => rr.rand \in Nonce}

\* What is in tsaRespQ, appInQ and appCeRspInQ.
Answered == [reqId : 0 .. MaxReqId, body : Message, null : BOOLEAN]
Delivery == [msg : Message, reqId : 0 .. MaxReqId, auth : BOOLEAN]
Event == [indication : {"completion"}, msg : Message, success : BOOLEAN]
         \union [indication : {"message"}, msg : Message, body : Message]

\* What concerns node n, and its messages of priority p.
MessagesOf(n, p) == {m \in Message : m.src = n /\ m.priority = p}
FramesOf(n, p) == {f \in Frame : f.src = n /\ f.priority = p}
FramesTo(n) == {f \in Frame : f.dst = n}
RecordsOf(n) == {rr \in Record : rr.src = NoNode \/ rr.msg.dst = n}
AnsweredBy(n) == {a \in Answered : a.body.dst = n}
DeliveriesTo(n) == {a \in Delivery : a.msg.dst = n}
EventsOf(n) == {a \in Event : a.msg.src = n}

\* Queues stay within their size and hold what their readers expect, and
\* records are well formed.
TypeOK ==
    /\ tsaOutQ \in [Node -> [Priority -> Seq(Message)]]
    /\ xmitRec \in [Node -> [Priority ->
          [status : {"unused", "transport", "session"}, transNum : 0 .. MaxTid,
           retriesLeft : 0 .. Retries, ackCount : {0, 1}]]]
    /\ transID \in [Node -> [Priority -> 0 .. MaxTid]]
    /\ lastTid \in [Node -> [Priority -> [Node -> NoTid .. MaxTid]]]
    /\ restart \in [Node -> {"over", "reset", "powerup"}]
    /\ recvRec \in [Node -> [RR -> Record]]
    /\ reqId \in [Node -> 0 .. MaxReqId]
    /\ nwOutQ \in [Node -> [Priority -> Seq(Frame)]]
    /\ tsaInQ \in [Node -> Seq(Frame)]
    /\ tsaRespQ \in [Node -> Seq(Answered)]
    /\ appInQ \in [Node -> Seq(Delivery)]
    /\ appCeRspInQ \in [Node -> Seq(Event)]
    /\ \A n \in Node : \A p \in Priority :
          /\ tsaOutQ[n][p] \in Seq(MessagesOf(n, p)) /\ Len(tsaOutQ[n][p]) < Cnt.tsaOut
          /\ nwOutQ[n][p] \in Seq(FramesOf(n, p)) /\ Len(nwOutQ[n][p]) < Cnt.nwOut
    /\ \A n \in Node :
          /\ \A i \in RR : recvRec[n][i] \in RecordsOf(n)
          /\ tsaInQ[n] \in Seq(FramesTo(n)) /\ Len(tsaInQ[n]) < Cnt.tsaIn
          /\ tsaRespQ[n] \in Seq(AnsweredBy(n)) /\ Len(tsaRespQ[n]) < Cnt.tsaResp
          /\ appInQ[n] \in Seq(DeliveriesTo(n)) /\ Len(appInQ[n]) < Cnt.appIn
          /\ appCeRspInQ[n] \in Seq(EventsOf(n)) /\ Len(appCeRspInQ[n]) < Cnt.appCeRsp
    /\ resets \in 0 .. MaxResets
    /\ submitted \subseteq Message
    /\ delivered \in [Message -> Nat]
    /\ outcome \in [Message -> Seq(BOOLEAN)]
    /\ answers \in [Message -> SUBSET Message]

\* The message that is being sent stays at the head of its queue until its
\* transaction ends, and the receiver has at most one record per source and
\* priority, so that RetrieveRR finds the one that the last message left.
RecordsAreUnambiguous ==
    /\ \A n \in Node : \A p \in Priority :
          xmitRec[n][p].status # "unused" =>
              /\ tsaOutQ[n][p] # <<>>
              /\ Layer(Head(tsaOutQ[n][p])) = xmitRec[n][p].status
    /\ \A n \in Node : \A i, j \in RR :
          /\ recvRec[n][i].src # NoNode
          /\ recvRec[n][i].src = recvRec[n][j].src
          /\ recvRec[n][i].priority = recvRec[n][j].priority
          => i = j

\* The transport and session layers implement the service that applications
\* rely on: retries, late and repeated frames and resets of the sender never
\* deliver a message twice, TPSendAck and SNSendResponse never acknowledge what
\* Deliver did not deliver, and SendCompletion reports each message once.
Promise == INSTANCE MessageService WITH
    Confirmed <- {m \in Message : m.service # "unack_rpt" /\ m.check = "ok"},
    sent <- submitted, received <- delivered, reports <- outcome

ImplementsMessageService == Promise!ServiceSpec

\* The frame that SNSendResponse sends for request m, which came with number t.
ResponseFrame(m, t) ==
    [kind |-> "response", src |-> m.dst, dst |-> m.src, priority |-> m.priority,
     transNum |-> t, body |-> m]

Queued(f, q) == \E k \in 1 .. Len(q) : q[k] = f
InFlight(f) == Queued(f, nwOutQ[f.src][f.priority]) \/ Queued(f, tsaInQ[f.dst])

Sending(m, t) ==
    /\ xmitRec[m.src][m.priority].status # "unused"
    /\ xmitRec[m.src][m.priority].transNum = t
    /\ Head(tsaOutQ[m.src][m.priority]) = m

Recorded(m, t) ==
    \E i \in RR : /\ recvRec[m.dst][i].status # "unused"
                  /\ recvRec[m.dst][i].msg = m
                  /\ recvRec[m.dst][i].transNum = t

\* Somewhere, transaction number t still stands for message m.
InUse(m, t) ==
    \/ InFlight(MessageFrame(m, t)) \/ InFlight(ResponseFrame(m, t))
    \/ Sending(m, t) \/ Recorded(m, t)

\* At node n, request id q stands for request m, which has not been answered.
Outstanding(n, q, m) ==
    \/ /\ m.service = "request"
       /\ \E i \in RR : /\ recvRec[n][i].transState \in {"authenticating", "delivered"}
                        /\ recvRec[n][i].msg = m /\ recvRec[n][i].reqId = q
    \/ /\ m.service = "request"
       /\ \E k \in 1 .. Len(appInQ[n]) : appInQ[n][k].msg = m /\ appInQ[n][k].reqId = q
    \/ \E k \in 1 .. Len(tsaRespQ[n]) : tsaRespQ[n][k].body = m /\ tsaRespQ[n][k].reqId = q

\* NewTrans and ReceiveNewMsg give out a number only when nothing is left that it stood
\* for: no frame on its way, no receive record, no request without an answer. What
\* is left after a reset of the sender is over when it may send again.
NumbersAreFresh ==
    /\ \A n \in Node : \A p \in Priority : restart[n] = "over" /\ Waiting(n, p) =>
          \A m \in MessagesOf(n, p) : ~InUse(m, NewTid(n, p, Head(tsaOutQ[n][p]).dst))
    /\ \A n \in Node : \A m \in Message : ~Outstanding(n, ThisReqId(n), m)

\* SNReceiveResponse passes on a response only as the response to the request
\* that it answers, also when it comes after the request has failed and the
\* next one is being sent.
ResponseIsForItsRequest ==
    /\ \A m \in Message : answers[m] \subseteq {m}
    /\ \A n \in Node : \A k \in 1 .. Len(appCeRspInQ[n]) :
          LET a == appCeRspInQ[n][k]
          IN  a.indication = "message" => a.body = a.msg

\* ProcessReply marks a message authentic only if its source asked for it and
\* proved that it has the key.
AuthenticatedOnlyWithKey ==
    \A n \in Node : \A k \in 1 .. Len(appInQ[n]) :
        LET a == appInQ[n][k]
        IN  a.auth => a.msg.auth /\ Key[a.msg.src] = Key[n]

\* "If we don't follow these guidelines, the target node may throw away messages
\* sent after a reset as duplicates": ReceiveNewMsg takes a frame for a repeat
\* of the message in a receive record only if it carries that message.
NewMessageIsNotARepeat ==
    \A n \in Node : FrameOf(n, Service) =>
        LET f == Head(tsaInQ[n])
        IN  \A i \in RetrieveRR(n, f) :
                Repeats(recvRec[n][i], f, Layer(f.body)) => recvRec[n][i].msg = f.body

\* Message m is being sent, or waits for that.
ToSend(m) == Queued(m, tsaOutQ[m.src][m.priority])

\* The completion event of m found no room: m is off its queue, and appCeRspInQ is
\* full of other things.
FoundNoRoom(m) ==
    /\ ~ToSend(m) /\ outcome[m] = <<>>
    /\ Len(appCeRspInQ[m.src]) = Cnt.appCeRsp - 1
    /\ \A k \in DOMAIN appCeRspInQ[m.src] :
           LET a == appCeRspInQ[m.src][k] IN a.indication = "message" \/ a.msg # m

\* The application learns the outcome of every message it queued, however late frames and
\* answers are and however slow it is itself, but for two reasons: its node was
\* reset, or the completion event found no room. Of that lcs_tsa.c:221 says the
\* opposite: "If there is no room for the completion event then we just don't
\* dequeue the outgoing message".
MessageIsCompleted ==
    \A m \in Message :
        ToSend(m) ~> (outcome[m] # <<>> \/ resets > 0 \/ FoundNoRoom(m))

\* "it is better to drop the message and let the retry mechanism take care of
\* redelivery": an acknowledged message that is reported as sent was delivered,
\* also when the application is slow to take its messages.
AcknowledgedIsDelivered ==
    \A m \in Message :
        m.service = "ackd" /\ m.check = "ok" /\ outcome[m] = <<TRUE>> => delivered[m] > 0
=============================================================================
