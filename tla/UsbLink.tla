------------------------------ MODULE UsbLink ------------------------------
(***************************************************************************)
(* The link layer over USB (lcs/lcs_link.c) and its driver for a MIP/U50   *)
(* LON interface (lon_usb/lon_usb_link.c): the start-up of the link, the   *)
(* code packets with their sequence numbers and acknowledgement flags, the *)
(* acknowledgement timer, and the queues of messages both ways.            *)
(*                                                                         *)
(* The service loop calls LinkLayerUsbSend, LonUsbDownlinkSend and         *)
(* LinkLayerUsbReceive in turns; each call is one action here, in any      *)
(* order. LonUsbDownlinkSend does what the state of the downlink asks for: *)
(* one action for each state. A parameter late says that the timer of the  *)
(* state has run out, and ok that the driver can write to the USB port.    *)
(*                                                                         *)
(* Packets are whole: a code packet together with the message that follows *)
(* it. The interface at the other end is external: it takes packets in     *)
(* order, answers them, may lose or repeat what it sends, and may reset.   *)
(***************************************************************************)
EXTENDS Integers, Sequences, SequencesExt

CONSTANTS
    Down,               \* network messages to be sent, each once
    MaxUp,              \* number of network messages received
    SeqMask,            \* SEQ_NUM_MASK, 7
    MaxUidRetries, MaxStatusRetries,
    MaxBuffers,         \* MAX_LON_DOWNLINK_BUFFERS and MAX_LON_UPLINK_BUFFERS, 16
    MultipleMips,       \* LINK_ID is MULTIPLE_USB_MIPS, with one interface, not USB_MIP
    Chunk,              \* the packets one call of ReadLonUsbMsg parses at most
    MaxDownlink,        \* bound on the packets on their way to the interface
    MaxUplink,          \* bound on those on their way to the driver
    MaxFaults,          \* bound on resets of the node and of the interface, failed writes,
                        \* and lost, repeated, damaged and rejected packets
    None

ASSUME UsbLinkAssumption ==
    /\ SeqMask \in Nat \ {0}
    /\ {MaxUp, MaxUidRetries, MaxStatusRetries, MaxBuffers, Chunk, MaxDownlink, MaxUplink, MaxFaults}
        \subseteq Nat
    /\ MultipleMips \in BOOLEAN

VARIABLES
    link,       \* iface_state: the fields that decide what the driver does
    toNi,       \* packets written to the USB port
    fromNi,     \* packets the ring buffer holds or will
    ni,         \* external: the interface's layer mode, its number, and an unacknowledged packet
    handed,     \* network messages the link layer has been given
    got,        \* NPDUs put in nwInQ: of a network message, or None for any other bytes
    faults

vars == <<link, toNi, fromNi, ni, handed, got, faults>>

NoAckRequired == -2
AckWithNext == -1

\* The states from DOWNLINK_IDLE_START on, in which acknowledgements are awaited.
AwaitAckStates == {"WAIT_CP_ACK", "WAIT_MSG_ACK", "WAIT_CP_RESPONSE"}
Started(l) == l.dl \in AwaitAckStates \cup {"IDLE_START", "IDLE"}

Message(kind, body) == [kind |-> kind, body |-> body]
ModeMsg(mode) == Message("mode", mode)
UidRequestMsg == Message("uidRequest", None)
StatusMsg == Message("status", None)

\* Messages of one byte, but for the mode commands, go out as short commands.
IsLocalNiCmd(m) == m.kind = "status"

GetExpectedResponse(m) == m.kind = "status"

----------------------------------------------------------------------------
(* The driver's functions, as operators on iface_state; field out collects   *)
(* what a call writes.                                                       *)

StopAckTimer(l) == [l EXCEPT !.dl = IF @ \in AwaitAckStates THEN "IDLE" ELSE @]

\* The buffer of the message last written is cleared too, but nobody reads it.
ResetDownlinkState(l) == StopAckTimer([l EXCEPT !.rejected = FALSE])

\* An acknowledgement that is due sets the flag. A resynchronisation restarts the numbers.
WriteDownlinkCodePacket(l, cmd, body, ok) ==
    [l EXCEPT !.ackSeq = NoAckRequired,
              !.out = IF ok THEN Append(@, [cmd |-> cmd, ack |-> l.ackSeq # NoAckRequired,
                                            body |-> body]) ELSE @,
              !.ulSeq = IF ok /\ cmd = "RESYNC" THEN 0 ELSE @]

\* The message is awaited even if it cannot be written.
WriteDownlinkMessage(l, m, ok) ==
    LET w == WriteDownlinkCodePacket([l EXCEPT !.ackSeq = AckWithNext], "MSG", m, ok)
    IN  IF Started(w) THEN [w EXCEPT !.dl = "WAIT_MSG_ACK"] ELSE w

\* Takes the command from the staging buffer: the last message queued.
WriteDownlinkLocalNiCmd(l, ok) ==
    LET w == WriteDownlinkCodePacket(l, "SHORT", l.staged, ok)
        next == IF GetExpectedResponse(l.staged) THEN "WAIT_CP_RESPONSE" ELSE "WAIT_CP_ACK"
    IN  IF ok /\ Started(w) THEN [w EXCEPT !.dl = next] ELSE w

\* Acknowledges what has been received, then writes the message at the head of the queue.
ProcessNextDownlinkMessage(l, ok) ==
    LET due == l.ackSeq >= 0
        acked == WriteDownlinkCodePacket(l, "NULL", None, ok)
        a == IF due THEN acked ELSE l
        b == [a EXCEPT !.queue = Tail(@)]
    IN  IF due /\ ~ok THEN acked
        ELSE IF a.queue = <<>> THEN a
        ELSE IF IsLocalNiCmd(Head(a.queue)) THEN WriteDownlinkLocalNiCmd(ResetDownlinkState(b), ok)
        ELSE WriteDownlinkMessage(b, Head(a.queue), ok)

\* QueueWrite takes one entry less than MaxBuffers, without a word (LcsQueue).
WriteLonUsbMsg(l, m) ==
    IF Len(l.queue) >= MaxBuffers THEN l
    ELSE [l EXCEPT !.staged = m,
                   !.queue = IF Len(@) < MaxBuffers - 1 THEN Append(@, m) ELSE @]

SetNiLayerMode(l, mode) ==
    WriteLonUsbMsg([l EXCEPT !.mode = mode, !.statsMode = "unknown"], ModeMsg(mode))

ResetUplinkState(l) == [l EXCEPT !.dup = FALSE, !.skip = FALSE]

StartLonUsbLink(l) ==
    [ResetUplinkState(ResetDownlinkState([l EXCEPT !.queue = <<>>])) EXCEPT !.dl = "START"]

----------------------------------------------------------------------------
(* LonUsbDownlinkSend: ProcessDownlinkRequests, one action for each state.   *)

\* The staging buffer is only read for a command that is queued after it was filled.
Wrote(l) ==
    /\ toNi = <<>> \/ l.out = <<>> \/ Len(toNi) + Len(l.out) <= MaxDownlink
    /\ toNi' = toNi \o l.out
    /\ link' = [l EXCEPT !.out = <<>>, !.staged = IF l.queue = <<>> THEN None ELSE @]

Downlink(state, l) ==
    /\ link.dl = state
    /\ Wrote(l)
    /\ UNCHANGED <<fromNi, ni, handed, got>>

\* Most states end with ProcessNextDownlinkMessage.
Then(state, l, ok) == Downlink(state, ProcessNextDownlinkMessage(l, ok))

Start(late, ok) ==
    Downlink("START", [StartLonUsbLink(link) EXCEPT !.waitReset = TRUE,
                                                    !.dl = "WAIT_STARTUP_RESET"])

\* SendResync, then wait for a NULL packet; a failed write ends the call.
Resync(state, l, ok) ==
    LET r == WriteDownlinkCodePacket(l, "RESYNC", None, ok)
    IN  IF ok THEN Then(state, [r EXCEPT !.waitNull = TRUE, !.dl = "WAIT_STARTUP_RESYNC_ACK"], ok)
        ELSE Downlink(state, r)

WaitStartupReset(late, ok) ==
    IF link.haveReset \/ late
    THEN Resync("WAIT_STARTUP_RESET", [link EXCEPT !.haveReset = FALSE], ok)
    ELSE Then("WAIT_STARTUP_RESET", link, ok)

WaitStartupResyncAck(late, ok) ==
    \/ /\ link.haveNull
       /\ Then("WAIT_STARTUP_RESYNC_ACK",
               [link EXCEPT !.haveNull = FALSE, !.waitReset = TRUE, !.dl = "WAIT_RESYNC_RESET"], ok)
    \/ ~link.haveNull /\ late /\ Resync("WAIT_STARTUP_RESYNC_ACK", link, ok)
    \/ ~link.haveNull /\ ~late /\ Then("WAIT_STARTUP_RESYNC_ACK", link, ok)

\* What is still to be learned about the interface decides how the start goes on.
WaitResyncReset(late, ok) ==
    LET r == [link EXCEPT !.haveReset = FALSE]
        next == IF ~r.haveUid THEN [r EXCEPT !.uidRetries = MaxUidRetries,
                                             !.dl = "NI_UNIQUE_ID_REQUEST"]
                ELSE IF ~r.haveStatus THEN [r EXCEPT !.dl = "MIP_STATUS_REQUEST"]
                ELSE IF r.statsMode # "L2" THEN [r EXCEPT !.dl = "LAYER_2_REQUEST"]
                ELSE [r EXCEPT !.dl = "IDLE_START"]
    IN  Then("WAIT_RESYNC_RESET", IF link.haveReset \/ late THEN next ELSE link, ok)

LayerRequest(state, mode, next, ok) ==
    Then(state, [SetNiLayerMode(link, mode) EXCEPT !.waitNull = TRUE, !.dl = next], ok)

Layer5Request(late, ok) == LayerRequest("LAYER_5_REQUEST", "L5", "WAIT_LAYER_5_ACK", ok)

Layer2Request(late, ok) == LayerRequest("LAYER_2_REQUEST", "L2", "WAIT_LAYER_2_ACK", ok)

\* Without an acknowledgement of the mode, the link is synchronised again.
WaitLayerAck(state, l, late, ok) ==
    Then(state, IF link.haveNull THEN l
                ELSE IF late THEN [link EXCEPT !.dl = "WAIT_STARTUP_RESYNC_ACK"]
                ELSE link, ok)

WaitLayer5Ack(late, ok) ==
    WaitLayerAck("WAIT_LAYER_5_ACK",
                 [link EXCEPT !.haveNull = FALSE, !.dl = "NI_UNIQUE_ID_REQUEST"], late, ok)

WaitLayer2Ack(late, ok) ==
    WaitLayerAck("WAIT_LAYER_2_ACK",
                 [link EXCEPT !.haveNull = FALSE, !.statusRetries = MaxStatusRetries,
                              !.dl = "MIP_STATUS_REQUEST"], late, ok)

\* After the last retry nothing is asked any more, and the next wait is the last.
RequestUsbNiUid(l) ==
    IF l.haveUid THEN l
    ELSE IF l.uidRetries <= 0 THEN [l EXCEPT !.waitUid = FALSE]
    ELSE [WriteLonUsbMsg(l, UidRequestMsg) EXCEPT !.uidRetries = @ - 1, !.waitUid = TRUE]

RequestUsbNiStatus(l) ==
    IF l.haveStatus THEN l
    ELSE IF l.statusRetries <= 0 THEN [l EXCEPT !.waitStatus = FALSE]
    ELSE [WriteLonUsbMsg(l, StatusMsg) EXCEPT !.statusRetries = @ - 1, !.waitStatus = TRUE]

UniqueIdRequest(late, ok) ==
    Then("NI_UNIQUE_ID_REQUEST",
         IF link.mode # "L5" THEN [link EXCEPT !.dl = "LAYER_5_REQUEST"]
         ELSE [RequestUsbNiUid(link) EXCEPT !.dl = "WAIT_NI_UNIQUE_ID"], ok)

WaitUniqueId(late, ok) ==
    Then("WAIT_NI_UNIQUE_ID",
         IF link.haveUid THEN [link EXCEPT !.dl = "LAYER_2_REQUEST"]
         ELSE IF ~late THEN link
         ELSE IF link.waitUid THEN [link EXCEPT !.dl = "NI_UNIQUE_ID_REQUEST"]
         ELSE [link EXCEPT !.dl = "MIP_STATUS_REQUEST"], ok)

MipStatusRequest(late, ok) ==
    Then("MIP_STATUS_REQUEST",
         IF link.mode # "L2" THEN [link EXCEPT !.dl = "LAYER_2_REQUEST"]
         ELSE [RequestUsbNiStatus(link) EXCEPT !.dl = "WAIT_MIP_STATUS"], ok)

WaitMipStatus(late, ok) ==
    Then("WAIT_MIP_STATUS",
         IF link.haveStatus THEN [link EXCEPT !.dl = "IDLE_START"]
         ELSE IF ~late THEN link
         ELSE IF link.waitStatus THEN [link EXCEPT !.dl = "MIP_STATUS_REQUEST"]
         ELSE [link EXCEPT !.dl = "IDLE_START"], ok)

IdleStart(late, ok) ==
    LET n == WriteDownlinkCodePacket(link, "NULL", None, ok)
    IN  IF link.mode # "L2" THEN Then("IDLE_START", [link EXCEPT !.dl = "LAYER_2_REQUEST"], ok)
        ELSE IF ok THEN Then("IDLE_START", [n EXCEPT !.ready = TRUE, !.dl = "IDLE"], ok)
        ELSE Downlink("IDLE_START", n)

Idle(late, ok) ==
    /\ link.queue # <<>> \/ link.ackSeq >= 0     \* otherwise nothing happens
    /\ Then("IDLE", link, ok)

\* Faulty variant: the timeout leaves the state as it is.
WaitAckForever(late, ok) ==
    late /\ \E s \in AwaitAckStates : Then(s, link, ok)
\* An acknowledgement that does not come ends the wait, not more: the timer is set, and
\* the count of timeouts reset, by each write, so the count never reaches 2.
WaitAck(late, ok) ==
    /\ late
    /\ \E s \in AwaitAckStates : Then(s, [link EXCEPT !.dl = "IDLE"], ok)

\* A failed write is a fault, and so is an answer that comes after its time.
Fault(late, ok) ==
    IF ok /\ (late => toNi \o fromNi = <<>>) THEN UNCHANGED faults
    ELSE faults < MaxFaults /\ faults' = faults + 1

ProcessDownlinkRequests(late, ok) ==
    /\ \/ Start(late, ok) \/ WaitStartupReset(late, ok) \/ WaitStartupResyncAck(late, ok)
       \/ WaitResyncReset(late, ok) \/ Layer5Request(late, ok) \/ WaitLayer5Ack(late, ok)
       \/ UniqueIdRequest(late, ok) \/ WaitUniqueId(late, ok) \/ Layer2Request(late, ok)
       \/ WaitLayer2Ack(late, ok) \/ MipStatusRequest(late, ok) \/ WaitMipStatus(late, ok)
       \/ IdleStart(late, ok) \/ Idle(late, ok) \/ WaitAck(late, ok)
    /\ Fault(late, ok)

----------------------------------------------------------------------------
(* LinkLayerUsbReceive: ReadLonUsbMsg parses what has come in.               *)

\* Whatever is outstanding counts as acknowledged; the flag names no packet.
ClearUplinkTransaction(l) ==
    IF l.dl = "WAIT_MSG_ACK" THEN ResetDownlinkState(l) ELSE StopAckTimer(l)

\* What the start-up asks for is taken out, and while it waits all else is discarded.
ProcessUplinkMessage(l, m) ==
    IF l.waitUid
    THEN IF m.kind = "uid" THEN [l EXCEPT !.waitUid = FALSE, !.haveUid = TRUE] ELSE l
    ELSE IF l.waitStatus
    THEN IF m.kind = "status"
         THEN [l EXCEPT !.waitStatus = FALSE, !.haveStatus = TRUE,
                        !.mode = m.body, !.statsMode = m.body]
         ELSE l
    ELSE IF Len(l.upQ) < MaxBuffers - 1 THEN [l EXCEPT !.upQ = Append(@, m)] ELSE l

\* A message is complete. Field dup is not looked at.
CheckUplinkCompleted(l, m) ==
    LET r == [l EXCEPT !.mode = m.body, !.statsMode = m.body,
                       !.waitReset = FALSE, !.haveReset = @ \/ l.waitReset]
    IN  ResetUplinkState(ProcessUplinkMessage(IF m.kind = "reset" THEN r ELSE l, m))

ShortNiCommand(l, m) ==
    LET r == IF m.kind = "reset" THEN [l EXCEPT !.dl = "START"] ELSE l
    IN  ResetUplinkState(IF l.dup THEN l ELSE ProcessUplinkMessage(r, m))

\* The first rejection starts a timer; one that comes too late resets the interface.
MessageReject(l, late) ==
    LET s == StopAckTimer(l)
    IN  IF l.dl \notin {"WAIT_MSG_ACK", "WAIT_CP_ACK"} THEN l
        ELSE IF ~s.rejected THEN [s EXCEPT !.rejected = TRUE]
        ELSE IF ~late THEN s
        ELSE [WriteDownlinkCodePacket([s EXCEPT !.rejected = FALSE], "SHORT",
                                      Message("reset", None), TRUE) EXCEPT !.skip = TRUE]

\* After an error the parser still waits for the checksum, and takes the first byte of
\* the next packet for it.
ProcessUplinkCodePacket(l, p, late) ==
    LET bad == p.cmd \in {"FAIL", "REJECT"}
        n == IF p.cmd = "NULL" THEN l
             ELSE [l EXCEPT !.dup = @ \/ (~bad /\ l.ulSeq = p.seq), !.ulSeq = p.seq]
        c == IF p.ack /\ ~bad /\ n.dl # "WAIT_CP_RESPONSE" THEN ClearUplinkTransaction(n) ELSE n
    IN  CASE p.cmd = "MSG"    -> CheckUplinkCompleted([c EXCEPT !.ackSeq = p.seq], p.body)
          [] p.cmd = "SHORT"  -> ShortNiCommand([c EXCEPT !.ackSeq = p.seq], p.body)
          [] p.cmd = "REJECT" -> MessageReject(c, late)
          [] p.cmd = "FAIL"   -> [StopAckTimer(ClearUplinkTransaction(c)) EXCEPT !.skip = TRUE]
          [] p.cmd = "NULL"   -> [c EXCEPT !.haveNull = @ \/ c.waitNull, !.waitNull = FALSE]

\* The rest of a chunk with an error is dropped.
ProcessUplinkBytes(l, chunk, late) ==
    LET Parse(s, p) ==
            IF s.failed THEN s
            ELSE IF s.link.skip
            THEN [s EXCEPT !.link.skip = FALSE, !.link.ackSeq = NoAckRequired]
            ELSE LET n == ProcessUplinkCodePacket(s.link, p, late)
                 IN  [link |-> n, failed |-> n.skip]
    IN  FoldLeft(Parse, [link |-> l, failed |-> FALSE], chunk).link

\* What LinkLayerUsbReceive makes of a message. For USB_MIP the pointer to the LPDU and
\* its size are never set: any bytes may be taken for the NPDU.
Npdu(m) ==
    IF ~MultipleMips THEN {<<None>>, <<m.body>>}
    ELSE IF m.kind = "network" THEN {<<m.body>>} ELSE {<<>>}

\* One message goes up.
LinkLayerUsbReceive(late) ==
    \E k \in 0 .. Chunk :
       /\ k <= Len(fromNi) /\ (k > 0 \/ link.upQ # <<>>)
       /\ LET p == ProcessUplinkBytes(link, SubSeq(fromNi, 1, k), late)
          IN  IF p.upQ = <<>> THEN Wrote(p) /\ UNCHANGED got
              ELSE /\ Wrote([p EXCEPT !.upQ = Tail(@)])
                   /\ \E npdu \in Npdu(Head(p.upQ)) : got' = got \o npdu
       /\ fromNi' = SubSeq(fromNi, k + 1, Len(fromNi))
       /\ UNCHANGED <<ni, handed, faults>>

\* The message is taken from the queue of the link layer even if the link is not ready.
LinkLayerUsbSend(m) ==
    /\ m \notin handed
    /\ handed' = handed \cup {m}
    /\ link' = IF link.ready THEN WriteLonUsbMsg(link, Message("network", m)) ELSE link
    /\ UNCHANGED <<toNi, fromNi, ni, got, faults>>

\* A reset of the node opens the link again.
LinkLayerReset ==
    /\ faults < MaxFaults /\ faults' = faults + 1
    /\ link' = StartLonUsbLink([link EXCEPT !.ready = FALSE])
    /\ UNCHANGED <<toNi, fromNi, ni, handed, got>>

----------------------------------------------------------------------------
(* The interface, as far as the driver relies on it.                         *)

Reply(cmd, seq, ack, body) == [cmd |-> cmd, seq |-> seq, ack |-> ack, body |-> body]

Ack == Reply("NULL", 0, TRUE, None)

\* The number after 2^3 - 1 is 1.
NextNumber(n) == IF (n + 1) % (SeqMask + 1) = 0 THEN 1 ELSE n + 1

NiSays(answers) ==
    /\ Len(fromNi) + Len(answers) <= MaxUplink
    /\ fromNi' = fromNi \o answers

\* Numbered packets from the interface.
NiMsg(m) == Reply("MSG", NextNumber(ni.seq), TRUE, m)

\* It takes a packet, and answers. A network message may be rejected for lack of room.
NiTake ==
    /\ toNi # <<>> /\ toNi' = Tail(toNi)
    /\ LET p == Head(toNi)
           unacked == IF p.ack THEN None ELSE ni.unacked
           Answer(n, s) == ni' = [n EXCEPT !.unacked = unacked] /\ NiSays(s)
           numbered == [ni EXCEPT !.seq = NextNumber(@)]
       IN  \/ p.cmd = "NULL" /\ Answer(ni, <<>>)
           \/ p.cmd = "RESYNC" /\ Answer([ni EXCEPT !.seq = 0], <<Reply("NULL", 0, FALSE, None)>>)
           \/ p.body # None /\ p.body.kind = "mode" /\ Answer([ni EXCEPT !.mode = p.body.body], <<Ack>>)
           \/ p.body # None /\ p.body.kind = "uidRequest" /\ ni.mode = "L5"
              /\ Answer(numbered, <<NiMsg(Message("uid", None))>>)
           \/ p.body # None /\ p.body.kind = "uidRequest" /\ ni.mode # "L5" /\ Answer(ni, <<Ack>>)
           \/ p.body # None /\ p.body.kind = "status"
              /\ Answer(numbered, <<NiMsg(Message("status", ni.mode))>>)
           \/ p.body # None /\ p.body.kind = "reset" /\ Answer(ni, <<>>)
           \/ p.body # None /\ p.body.kind = "network" /\ Answer(ni, <<Ack>>)
    /\ UNCHANGED <<link, handed, got, faults>>

\* It has no room for a message, or the message was damaged.
NiRefuse(cmd) ==
    /\ faults < MaxFaults /\ faults' = faults + 1
    /\ toNi # <<>> /\ Head(toNi).cmd = "MSG" /\ toNi' = Tail(toNi)
    /\ NiSays(<<Reply(cmd, 0, FALSE, None)>>)
    /\ UNCHANGED <<link, ni, handed, got>>

\* In layer 2 mode it passes network messages, stop and wait.
NiReceive ==
    /\ ni.mode = "L2" /\ ni.unacked = None /\ ni.next <= MaxUp
    /\ LET p == NiMsg(Message("network", ni.next))
       IN  /\ NiSays(<<[p EXCEPT !.ack = FALSE]>>)
           /\ ni' = [ni EXCEPT !.seq = p.seq, !.next = @ + 1, !.unacked = [p EXCEPT !.ack = FALSE]]
    /\ UNCHANGED <<link, toNi, handed, got, faults>>

\* Its acknowledgement timer runs out.
NiRepeat ==
    /\ faults < MaxFaults /\ faults' = faults + 1
    /\ ni.unacked # None /\ NiSays(<<ni.unacked>>)
    /\ UNCHANGED <<link, toNi, ni, handed, got>>

\* It resets, and says so with a short command or a message; its mode may have changed.
NiReset ==
    /\ faults < MaxFaults /\ faults' = faults + 1
    /\ \E mode \in {"L2", "L5"}, cmd \in {"SHORT", "MSG"} :
          LET p == Reply(cmd, NextNumber(ni.seq), FALSE, Message("reset", mode))
          IN  /\ NiSays(<<p>>)
              /\ ni' = [ni EXCEPT !.seq = p.seq, !.mode = mode, !.unacked = None,
                                !.wasReset = TRUE]
    /\ UNCHANGED <<link, toNi, handed, got>>

\* Bytes are lost: the ring buffer was full.
Lose ==
    /\ faults < MaxFaults /\ faults' = faults + 1
    /\ fromNi # <<>> /\ fromNi' = Tail(fromNi)
    /\ UNCHANGED <<link, toNi, ni, handed, got>>

----------------------------------------------------------------------------
\* After OpenLonUsbLink.
Init ==
    /\ link = [dl |-> "START", ready |-> FALSE, mode |-> "unknown", statsMode |-> "unknown",
               waitReset |-> FALSE, haveReset |-> FALSE, waitNull |-> FALSE, haveNull |-> FALSE,
               waitUid |-> FALSE, haveUid |-> FALSE, uidRetries |-> 0,
               waitStatus |-> FALSE, haveStatus |-> FALSE, statusRetries |-> 0,
               ulSeq |-> SeqMask + 1, ackSeq |-> NoAckRequired,
               dup |-> FALSE, skip |-> FALSE, rejected |-> FALSE,
               queue |-> <<>>, staged |-> None, upQ |-> <<>>, out |-> <<>>]
    /\ toNi = <<>> /\ fromNi = <<>>
    /\ \E mode \in {"L2", "L5"} : ni = [mode |-> mode, seq |-> 0, unacked |-> None, next |-> 1, wasReset |-> FALSE]
    /\ handed = {} /\ got = <<>>
    /\ faults = 0

Interface == NiTake \/ NiReceive \/ NiRepeat \/ NiReset \/ Lose
             \/ \E cmd \in {"REJECT", "FAIL"} : NiRefuse(cmd)

Next ==
    \/ \E late, ok \in BOOLEAN : ProcessDownlinkRequests(late, ok)
    \/ \E late \in BOOLEAN : LinkLayerUsbReceive(late)
    \/ \E m \in Down : LinkLayerUsbSend(m)
    \/ LinkLayerReset
    \/ Interface

Spec == Init /\ [][Next]_vars

\* The service loop keeps calling, timers run out, and the interface answers.
FairSpec ==
    /\ Spec
    /\ WF_vars(\E late, ok \in BOOLEAN : ProcessDownlinkRequests(late, ok))
    /\ WF_vars(\E late \in BOOLEAN : LinkLayerUsbReceive(late))
    /\ WF_vars(NiTake)

(* Numbers and flags stay in range whatever the interface sends              *)
(* (LonUsbLinkState).                                                        *)
TypeOK ==
    /\ link.ulSeq \in 0 .. SeqMask + 1
    /\ link.ackSeq \in -2 .. SeqMask
    /\ link.uidRetries \in 0 .. MaxUidRetries
    /\ link.statusRetries \in 0 .. MaxStatusRetries
    /\ Len(link.queue) < MaxBuffers /\ Len(link.upQ) < MaxBuffers
    /\ link.out = <<>>
    /\ \A s \in {link.ready, link.waitReset, link.haveReset, link.waitNull, link.haveNull,
                 link.waitUid, link.haveUid, link.waitStatus, link.haveStatus, link.dup,
                 link.skip, link.rejected} : s \in BOOLEAN
    /\ {link.mode, link.statsMode, ni.mode} \subseteq {"unknown", "L2", "L5"}
    /\ \A i \in DOMAIN toNi : toNi[i].cmd \in {"MSG", "SHORT", "NULL", "RESYNC"}

(* "Duplicate sequence number; process it partially to receive and dump any  *)
(* following message into the uplink buffer without queuing it": a message   *)
(* that the interface repeats, for want of an acknowledgement, reaches the   *)
(* network layer once (ProcessUplinkCodePacket, CheckUplinkCompleted).       *)
RepeatsAreDumped == \A i, j \in DOMAIN got : got[i] = got[j] => i = j

(* "The function extracts the NPDU from the LPDU and transfers it to the     *)
(* network layer" (LinkLayerUsbReceive).                                     *)
NpduIsExtracted == \A i \in DOMAIN got : got[i] \in 1 .. MaxUp

Quiet == link.ready /\ link.dl = "IDLE" /\ toNi = <<>> /\ link.queue = <<>>

(* The link always comes up, and all that is queued for the interface is     *)
(* written, whatever is lost, refused, repeated or reset: no wait of the     *)
(* driver lasts for ever (ProcessDownlinkRequests).                          *)
LinkComesUp == []<>(link.ready /\ link.dl = "IDLE" /\ link.queue = <<>>)

(* "Verify the LON interface mode is layer 2", before the link is ready:     *)
(* then it is (ProcessDownlinkRequests).                                     *)
ReadyMeansLayer2 == Quiet /\ ~ni.wasReset => ni.mode = "L2"
============================================================================
