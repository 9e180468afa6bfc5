# Verification of the LON Stack DX

The LON Stack is a C implementation of the LON protocol (ISO/IEC 14908-1) for
embedded devices: a node's application reads and writes network variables and
messages, and the stack carries them over LON/IP (UDP) or over a native LON
channel behind a USB interface. This directory holds TLA+ models of its
components, TLC runs of them, and TLAPS proofs about them. Line numbers refer to
the files under `src/`.

## The system

One loop, `LCS_Service` (`lcs/lcs.c`), calls every layer of a node in turn. A call
handles at most one event. Layers talk through queues (`lcs/lcs_queue.c`) in the
global structure `gp`; nothing blocks, and "wait" means that the function returns
and is called again. Threads and locks exist only in the USB driver and in the
operating system abstraction.

| Component | State | Operations | Talks to |
|---|---|---|---|
| Queues, `lcs/lcs_queue.c` | circular array, head, tail, count | tail, write, peek, drop, flush | every layer |
| Timers, `lcs/lcs_timer.c` | expiration, repeat interval | set, poll | every layer |
| Transaction control, `lcs/lcs_tcs.c` | next TID, transaction in progress, table of last TIDs, per priority | `NewTrans`, `OverrideTrans`, `TransDone`, reset | transport, session |
| Transport, session, authentication, `lcs/lcs_tsa.c` | transmit records, receive records, request ids, challenges | send, retry, receive, deliver, acknowledge, respond, challenge, reply | application above, network below |
| Application, `lcs/lcs_app.c` | queues of network variables to send or poll, scheduling flags | propagate, poll, send, handle messages and completions | API, transport and session |
| Network, `lcs/lcs_network.c` | queues | route between transport, session, authentication and link | proxy, link |
| Link, `lcs/lcs_link.c`, `lon_usb/` | two queues, the state of the link and of its acknowledgements, the parser | send, receive, start-up, resynchronise | network layer, USB interface |
| LON/IP, `lon_udp/` | addresses, table of learnt addresses | convert headers both ways, learn, age, announce, join groups | network layer, sockets |
| Node, `lcs/lcs_node.c`, `lcs/lcs.c` | node state, reset flag and cause | `NodeReset`, online and offline | all layers |
| Network management, `lcs/lcs_netmgmt.c` | configuration with its checksum, state and mode of the node | command handlers | application, node, persistence |
| Image update, `lcs/lcs_iup.c` | a block of flash memory, counters, timers | handlers of the update protocol, timers | network management, boot loader |
| Proxy, `lcs/lcs_proxy.c` | none of its own | relay a message | transport and session |
| Persistence, `persistence/` | segments with a transaction record, commit schedule | store, restore, commit check | node, API, storage |
| API, `IzotApi.c`; abstraction, `abstraction/`; ISI tables, `isi/`; example | registrations, sockets, files | | application |

What is hard in it, and what would make each part correct:

* Frames are lost, duplicated and late, timers run out while answers are on
  their way, nodes reset: the transport and session layers must deliver each
  message at most once, report success only for what was delivered, and match
  answers to the right transaction. Transaction numbers have 4 bits, so
  everything rests on a number not being reused while a receiver remembers it.
* Every buffer is small. A write to a queue without room is lost silently.
* The tick counter wraps, and an expiration of 0 means "stopped".
* A crash between two writes to storage must leave the old state, the new state
  or a segment known to be invalid.
* The USB start-up and acknowledgement states have many time-outs.
* Scheduling of network variables stops until a completion event arrives.

`PROJECT.json` lists these hazards with the line where each bites and the
properties that cover it.

## Modules

| Module | Models | Checked by |
|---|---|---|
| `BoundedFifo` | abstract: a bounded first-in first-out buffer with one staged entry | refined by `LcsQueue` |
| `LcsQueue` | `lcs_queue.c` | run `base`, `TimerQueueProofs` |
| `LonTimer` | `lcs_timer.c` | run `base`, `TimerQueueProofs` |
| `Tcs` | `lcs_tcs.c` | run `tcs`, `TcsProofs` |
| `MessageService` | abstract: what an application may rely on | refined by `Tsa` |
| `Tsa` | `lcs_tsa.c`, with the parts of `lcs_app.c`, `lcs_node.c` and the channel that it meets | runs `tsa`, `tsa_auth`, `tsa_powerup`, `TsaProofs`, `TsaServiceProofs` |
| `Application` | `lcs_app.c`: updates and polls of network variables, messages, requests, completion events; the transaction layers as `Tsa` presents them | runs `app`, `app_marker` |
| `Node` | `lcs_netmgmt.c`, and what `lcs_node.c`, `lcs.c`, `lcs_eeprom.c` and `IzotApi.c` do to the configuration and the state | run `node`, `NodeProofs` |
| `Iup` | `lcs_iup.c` and its timers in `lcs_app.c` | run `iup`, `IupProofs` |
| `UsbLink` | `lon_usb_link.c`, `lcs_link.c`, and the interface they talk to | run `usb` |
| `LonUdp` | `ipv4_to_lon_udp.c`, `lon_udp_mapping_util.c`, and the addressing in `lcs_network.c` and `IzotCal.c` | run `udp`, `LonUdpProofs` |
| `DurableStore` | abstract: segments that survive a loss of power as a whole or not at all | refined by `Persistence` |
| `Persistence` | `persistence/`, the storage functions of `abstraction/IzotHal.c`, and the parts of `lcs_eeprom.c`, `lcs_node.c` and `IzotApi.c` that mark, store and restore segments | run `persist`, `PersistenceProofs` |

`Tsa` composes two or three nodes with the channel between them, `LonUdp` nodes
with the IP network, `UsbLink` the driver with its interface, `Iup` a node with
its manager, `Node` network management with the application, the service loop
and the image. Where two modules meet, one presents the other by its promise:
`Application` gets from the transaction layers what `MessageService` says, and
`Node` gets from storage what `DurableStore` says.

Modules named `MC...` give the constants their values; `MCBase` puts `LonTimer` and
`LcsQueue` side by side. An operator described as a
"faulty variant" is the definition after it with a plausible mistake; no action
uses it. Each shows that a property would notice that mistake (`mutants` in
`PROJECT.json`).

### LcsQueue

A producer takes `QueueTail`, forms the entry in place, and commits it with
`QueueWrite`; a consumer reads `QueuePeek` and releases with `QueueDropHead`.
`FormEntry` and `QueueWrite` are separate actions, because many callers form an
entry and return without committing it. `QueueWrite` refuses when
`queueEntries >= queueCapacity - 1`, while `QueueFull` and `QueueTail` compare
with `queueCapacity`. Hence `QueueFull` never holds (`TailFollowsEntries`), the
usable size is one less than what was asked for, and each branch of the stack
that waits for room is dead. `Tsa` uses this.

### LonTimer

The counter has `2 * HalfRange` values. The history variables `interval`, `repeats`
and `due` say what the caller asked for: whether an interval runs, whether it is to
be followed by others, and, in unbounded time, when it ends. A duration of 0 ends
the interval and not the repeats, as the comment says (`lcs_timer.c:29-31`).
`ReportsExactlyWhenDue` compares what a poll reports with `interval` and `due`;
`RepeatingTimerKeepsRunning` says that only the caller ends a repeating timer. A timer is polled
less than half the counter's range after it is due (`MaxLate`). The code breaks the comments
in three places, two of which the properties name as their only exceptions; the history
variable `halted` says that a timer met one of them.

* A duration of 0 ends the repeats as well, because a poll looks at the expiration first
  (`lcs_timer.c:47`, 90; "does not terminate a repeating timer", 29-31). `repeats` stays TRUE
  then, as the comment asks, and `RepeatingTimerKeepsRunning` excepts `halted = "zero"`.
* A repeating timer that is polled exactly one period late computes a rest of 0 and
  stops (`lcs_timer.c:99-103`). Both properties except `halted = "late"`. Polls that are more
  or less late than that are no exception.
* A timer of the longest duration whose expiration would be 0 gets 1 instead, which
  is half the range ahead, counts as past, and is reported at once (`lcs_timer.c:42`). The durations
  of run `base` and the hypothesis `InTime` of the theorems are below the longest.

### Tcs

One control record and one table per priority, as in the code. `request` is the
destination at the head of the output queue. `NewTrans` is split by its branches:
destination found, added, added in place of an old entry, refused. `WithEntry`
writes the length of the domain id where the code writes it. `lastUse` and
`previous` are histories: the TID a destination was last given, by `NewTrans` or by
inheritance (`TidOrInherited`), while that is less than `MIN_TABLE_TIME` ago. A table
entry's timer is the time left.

The comment at `NewTrans` (`lcs_tcs.c:100-103`) promises that no destination gets the TID that was
last used for it. The code keeps that with two exceptions, and `TidDiffersFromPrevious` says
with just these two:

* `OverrideTrans` leaves the table as it is, so that a TID that a proxied message just
  brought to a destination can be given to it again (`lcs_tcs.c:290`; `previous.inherited`);
* the length of a new entry's domain id goes where the replaced entry was
  (`lcs_tcs.c:250`), so that the entry that moves there is not found any more if its
  domain id has another length (`misfiled`).

Run `tcs` has domain ids of two lengths and an inherited TID, and reaches both.

### Tsa

Each call of `TransportLayerSend`, `SessionLayerSend`, `TransportLayerReceive`,
`SessionLayerReceive`, `AuthReceive` or of the application's queue readers is one
action; the order is free, which includes the loop's order. State is per node:
output queues, transmit records and TIDs per priority, receive records, request
ids and the queues around them. Message contents are one value, so that only
transaction numbers tell messages apart. The queues of the network and link
layers and the channel are one queue of frames per node and priority; frames are
lost and duplicated but not reordered within a priority. `Crypto` stands for
`Encrypt` as an injective function.

Assumptions, stated where they are used: receive timers outlast the sender's
retries (`StillRepeated`), which is what a network tool configures; when sending resumes
after a reset, no frame from before it is left (`Quiet`). Only sending nodes reset.
Transaction numbers do not wrap within a run, since at least 14 more messages would
be needed: what a wrap does to the table is the subject of `Tcs`. Request ids have 5
values in run `tsa` and 65536 in the code.

The delay after a power-up is `ResetDelay`, 2000 ms in the build. Time itself is left
out: while `DelayOutlasts` (a frame's life and the longest receive timer together are
no longer than the delay) a node sends again when the receive records of its messages have run out, and
otherwise it may send while any of them is left (`RestartOver`). Run `tsa` has receive timers of
1536 ms, one of the values a network tool can configure, and a frame's life
of 400 ms; the receive timers this build configures by itself, 2048 ms, are in run `tsa_powerup`.

`NumbersAreFresh` says what the two promises about numbers rest on: `NewTrans` and
`ReceiveNewMsg` give out a number only when no frame on its way, no receive record, no
transaction and no request without an answer is left that the number stood for
(`InUse`, `Outstanding`).

What the code does not keep:

* With the build's own delay and timers a record outlives the delay, and a new message is
  taken for a repeat of an old one, against the comment at the delay (`lcs_custom.h:92-94`).
  Run `tsa_powerup` shows it.
* So it is after a software reset, which has no delay (`lcs_tcs.c:64`, `MCTsaSoftware.cfg`).
* With `appInQ` full a message is marked as delivered and acknowledged, and lost, since
  `QueueWrite` refuses what `QueueFull` let through (`lcs_tsa.c:2475`, `AcknowledgedIsDelivered`,
  `MCTsaSlow.cfg`).
* `appCeRspInQ` has one usable place in the build; a response takes it, and the
  completion that follows is lost (`lcs_tsa.c:226`, against the comment at 221). `MessageIsCompleted`
  excepts the messages this happens to (`FoundNoRoom`) and no other.

Run `tsa` has both queues as small as the build makes them, and both overflow in it.

### Persistence

`phase` is the place in `IzotEventPump` or in the start of the stack. `Service` is
all of `LCS_Service` and of the application: any segments change, a flush or a
reset may be requested. Storing a segment takes five accesses to storage, each an
action that succeeds or fails: the transaction record is made invalid, erased,
the header and the data are written, the record is made valid. After a failure
all accesses fail until the next start (`persistentMemError`), and a status that
was not logged before marks the network image (`OsalPrintLog`). Between any two
accesses power may be lost. A segment's contents are one value; its data in
storage is a value or `Torn`.

Modelled is the Linux build. There `storageFd` (`IzotHal.c:123`) is -1 for the
network image only, and the first access to application data goes to standard
input, which holds no segment; so it fails (`Succeeds`, `Fails`), and a requested reset is carried out with nothing of it
stored (`CommittedBeforeReset`, stated and not checked). Assumptions:
what was written stays written and in order (the code does not synchronise the
file), `HalReboot` restarts the node, and the application registers handlers for
its data. The ISI tables and the second security generation have segments of
their own that are stored in the same way and are left out.

### Application

The global structure is one record, `app`, with one field per queue or flag, and
each function of `lcs_app.c` is an operator from one such record to the next, so
that `AppLayerSend` is the composition of the four functions it calls. The
functions are called in any order, which includes the order of `LCS_Service`. The
values of variables are left out; calls, reports, answers and completions are
numbered as history. `QueueWrite` stops one short of the capacity (`LcsQueue`), so
that the tests with `QueueFull` never hold. `DoApp` handles a message and frees it in
one step, hence no state for `callMsgFree` and `callRespFree`. Registration,
arrays by `PropagateArrayNV` and `PollArrayNV`, and network management messages
are left out. `EveryCallCompletes` assumes room in the queues and a running
application; two places of a queue are enough to break it, see `app_marker`.

Explicit messages have a service and a form. One too long for the network layer's
buffers that is to be acknowledged completes with a failure; an unacknowledged one
completes and stays at the head of its queue, and completes again at every pass
(`lcs_app.c:1055`). Run `app` has such a message too, and `AnsweredAndCompletedOnce` excepts it and
no other (`KeptAsTooLong`). The completion event
gets a status code, of which 0 is success, where its parameter is a Boolean
(`lcs_app.c:597`, `EventSaysSuccess`, `MCApplicationEvent.cfg`).

### Node

A handler is described by what it makes of the EEPROM structure, of the mode and
reset flags, and of the queue of responses, with the common end of `HandleNM` and
`HandleND`: what changed is scheduled to be stored. Addresses, variables and
aliases are one value, `tables`, since the handlers treat them alike; domains keep
whether they are valid and their key. A message is right, or of a wrong length,
or names an index there is no entry for. The checksum is the configuration it was
computed of. Storage never fails here (`Persistence` has the failures), a restart
restores the last image, and a response is one slot.

Two promises the code does not keep. `NMNDRespond` takes the codes of
success and failure the wrong way round (`lcs_netmgmt.c:206`, `ResponseIsTrue`,
`MCNodeResponse.cfg`). The state that a failed check of the configuration leaves is stored
only together with a new error, so that after the second checksum error in a row a
restart makes the node configured again (`lcs.c:241`, `UnconfiguredIsKept`,
`MCNodeUnconfigured.cfg`); `ImageIsCurrent` leaves that state out (`failed`).

### Iup

The code is compiled only with `IUP_ID_V1`; the default build leaves it out. Each
operation on flash memory is a step of its own (`todo`), and power may fail between
any two; an erased byte reads 255, which the code takes for true. Images and
digests are named by the session that transfers them. Time is left out: a timer
that runs may expire. The manager is external: one manager, which waits for as
long as the node tells it to, repeats what was not answered and may give up for a
new session at any time. Answers may be lost.

`ConfirmedIsStored` says what a confirmation promises: each packet in the passive
partition is the one of the session, or the image was switched over to. It does not
hold when the partition could not be opened or erased: `InitUpdateProcess` returns an
error that nobody looks at, the packets are written over the older image (`Mixed`) and
confirmed (`lcs_iup.c:238`, `NoMorePacketsMeansStored`, `MCIupErase.cfg`). In that case
the block of the update was erased and not written, hence `PartitionWasErased`.

After a restart in an update, or a second connection to the network, the flags
and the count no longer tell what happened (`lcs_iup.c:177`): a switch-over that
is answered with success does nothing, and packets are counted twice. The
properties say which updates they leave out: `DoneMeansActive` those that were
`disturbed`, `ConfirmedIsStored` and `UpdateEnds` those with a second connection.
With a manager that does not wait for a validation or commit before it begins
anew, `ActiveIsWhole` does not hold (`lcs_iup.c:637`).

### UsbLink

The thirteen states of the start-up and of the downlink are one action each, as in
`ProcessDownlinkRequests`. A packet is a record; bytes, escapes and checksums are left
out, but for the parser that after a bad packet takes the next byte for a checksum
(`skip`). The uplink has numbers, which is how the driver tells a repeated message.
The interface (actions `Ni...`, `Lose`) answers, refuses, resets, repeats and sends
messages of its own, in layer 2 only; its late answers, resets, losses, repetitions and
refusals and failing writes of the host share one bound, `MaxFaults`. The priority queue of the
downlink is not used by the stack, and an interface that cannot be opened is left
out.

What the code does not keep: the driver believes the interface is in the mode it queued
a command for (`lon_usb_link.c:1158`, `ReadyMeansLayer2`, `MCUsbLinkMode.cfg`); a message
that the interface repeats is marked as a duplicate and then queued all the same
(`lon_usb_link.c:2741`, `RepeatsAreDumped`, `MCUsbLinkRepeat.cfg`); and with the default link
identifier the pointer to the received NPDU is never set (`lcs_link.c:403`,
`NpduIsExtracted`, `MCUsbLinkNpdu.cfg`).

### LonUdp

Each node has its LON address, its IP address, its table of learnt addresses and
the broadcasts it listens to. A datagram encloses source and destination only when
they cannot be derived from the IP addresses; the conversions in both
directions are the operators that decide which. The state of the table is that of
`lsMapInfo`, one entry per subnet and node. Announcements are sent by others only
(`#if 0` in this code). `SourceIsTrue` is stated for senders whose
domain the receiver knew, and `AddresseeIsReached` for a node that has joined its
broadcasts: a connection overwrites the first domain without that
(`EventNormalConnected`). One datagram may reach several nodes (`left`). One domain
entry; groups, headers' bytes and IPv6 are left out. The mark of a group response is set in
the wrong byte (`lon_udp_mapping_util.c:303`, `GroupResponseIsKept`, `MCLonUdpGroup.cfg`).

Addresses are such that an IP address tells them apart, which the code does not
check: a three-byte domain that begins with 10, or with 192 and 168, has the prefix
of a shorter one (`ipv4_to_lon_udp.c:80`). For announcements of one-byte domains
`UpdateMapping` compares the 10 but not the domain
(`lon_udp_mapping_util.c:480`; the header has `10.d1.s.n`,
`ipv4_to_lon_udp.h:355`): the address 10.2.1.1 announced in domain 1 is stored as
derived, and answers go to 10.1.1.1 (`AnnouncerIsAnswered`, `MCLonUdpAnnounced.cfg`). `ReplyReachesSender`
leaves out such an announcer, and no other (`TakenForDerived`), and `AddresseeIsReached` a node that
keeps announcing itself so. Run `udp` begins either in one-byte domains or in
three-byte ones, and reaches that case. Addresses that an IP address does not tell
apart are left out by the assumption `Unambiguous` of the theorems.

## Runs

| Run | Expect | Shows |
|---|---|---|
| `base` | pass | a timer with a counter of 16 ticks, started at all its values with durations of zero to most of half of it, one-shot and repeating, polled late by less, as much, or more than a period; and next to it an array of 4 entries: timers report exactly when they are due, repeats go on, the array refines `BoundedFifo` |
| `tcs` | pass | 3 destinations with domain ids of two lengths and a table of 2, TIDs 0 to 3, so that numbers wrap and entries are replaced; an inherited TID; both kinds of reset |
| `tsa` | pass | two requests, one retry, two receive records, a power-up of the sender, the application's queues as in the build: `MessageService` is implemented, responses match, numbers are fresh, every message completes that finds room for its event |
| `tsa_auth` | pass | two authenticated messages from sources with the right and with a wrong key, one receive record for both, priority traffic, queues with one usable place |
| `tsa_powerup` | violation | the build's delay of 2000 ms and receive timers of 2048 ms: a new message is taken for a repeat |
| `persist` | pass | with and without application data, a storage error and two losses of power anywhere: `DurableStore` is implemented, segments are unmarked when stored, a requested reset waits for that and is carried out |
| `usb` | pass | a message down and two up, with one fault of any kind: the link comes up with its queue written |
| `app` | pass | an array of two outputs, an input with an alias, messages of every service and form, losses and a change of state or mode: each call ends with one event that tells the truth, no request is forgotten or answered twice, no message but one completes twice |
| `app_marker` | violation | with the queue of the default build (`MAX_NV_OUT`), the end marker of an update is lost (`lcs_app.c:2416`) and its event never comes |
| `udp` | pass | two nodes that change addresses, lose the link, restart and announce themselves, in domains of one byte or of three: sources are true, entries unique, answers arrive, the addressee is reached again |
| `node` | pass | any three messages or calls with a loss of power: the checksum and the image follow the configuration, a locked node stays locked, damage is found |
| `iup` | pass | three sessions of three packets, erasures that fail, two losses of power and a second connection: what is confirmed is stored, what runs is whole, done means running, and every update ends |

A run that expects a violation checks one property, which quotes what a comment of the
code says; `PROJECT.json` ("findings") has the quotation and what the code does instead.

Further configurations are kept beside the runs. In all but the last TLC finds a
violation of the one property they check, which is what a comment of the code or the
interface asks for:

| Configuration | Module | Property | What the code does |
|---|---|---|---|
| `MCTsaSoftware.cfg` | `MCTsa` | `NewMessageIsNotARepeat` | after a software reset numbers begin at 0 while a receiver still has a record of an older message (`lcs_tcs.c:64`) |
| `MCTsaSlow.cfg` | `MCTsa` | `AcknowledgedIsDelivered` | a message that found `appInQ` full is acknowledged and lost (`lcs_tsa.c:2475`) |
| `MCApplicationEvent.cfg` | `MCApplication` | `EventSaysSuccess` | the event of a successful update says it failed (`lcs_app.c:597`) |
| `MCUsbLinkRepeat.cfg` | `MCUsbLink` | `RepeatsAreDumped` | a repeated message is queued twice (`lon_usb_link.c:2741`) |
| `MCUsbLinkNpdu.cfg` | `MCUsbLink` | `NpduIsExtracted` | nothing that was read reaches the network layer in the build with one interface (`lcs_link.c:403`) |
| `MCUsbLinkMode.cfg` | `MCUsbLink` | `ReadyMeansLayer2` | the link is ready with the interface in layer 5 (`lon_usb_link.c:1158`) |
| `MCLonUdpAnnounced.cfg` | `MCLonUdp` | `AnnouncerIsAnswered` | an answer to an announcer of another one-byte domain goes elsewhere (`lon_udp_mapping_util.c:480`) |
| `MCLonUdpGroup.cfg` | `MCLonUdp` | `GroupResponseIsKept` | a response to a group message is received as an ordinary one (`lon_udp_mapping_util.c:303`) |
| `MCNodeResponse.cfg` | `MCNode` | `ResponseIsTrue` | what was done is answered as a failure, what was refused as a success (`lcs_netmgmt.c:206`) |
| `MCNodeUnconfigured.cfg` | `MCNode` | `UnconfiguredIsKept` | a node that failed its check twice is configured again after a loss of power (`lcs.c:241`) |
| `MCIupErase.cfg` | `MCIup` | `NoMorePacketsMeansStored` | packets are written over an image that was not erased, and confirmed (`lcs_iup.c:238`) |
| `MCLonUdpFull.cfg` | `MCLonUdp` | `ReplyReachesSender` | holds, with one place in the table of learnt addresses, which is full as soon as one node is learnt |

`TypeOK` is defined in every module with state, checked in `tcs`, `tsa`, `app`, `node`
and `iup`, and proved in every module that has proofs but `LonTimer`.

Bounds. Two messages are the least with which an answer can meet the wrong
transaction, and one retry the least with which a frame is repeated; for the
loss after a software reset a third message is needed, so that a record is left of
the one before the last. A table of two
entries has a first and a last entry, which replacement treats differently.
Two losses of power are the least with which an update can be cut off, and the
one after the restart from it too; three contents tell the last stored, the one
before it and the default apart. Queues in run `tsa` and `tsa_auth` overflow: in the first
those of the application, in the second those between the layers.

In `app`, three calls or messages (`MaxLoad`) are an update, another that waits for
it and a poll or a message in between; `QueueCnt` has room for them. In `node` three
commands are one that changes the configuration, one that locks or changes the state, and
one that meets the result; a larger domain table has no more cases, since the
handlers take one index. In `iup` three packets distinguish all, four fifths and
fewer; three sessions are one in whose update another begins, and one
after it; two losses of power as above. In `usb` numbers have the three bits they have in the
code, and one fault meets every state of the start-up. In `udp` a table of two entries has room for one stale entry
and one new, and one change of address of either kind makes an entry stale; a third
entry would take two changes, with more states than can be checked for liveness.

Deadlock is not checked in the runs of `Tsa`, `Application`, `Node`, `Iup` and
`UsbLink`: a node with nothing left to do may stop, and the bounds stop the rest.

Fairness. `Tcs`: time passes, the loop calls `SendNewMsg` again for a message that
waits, and a transaction ends, by its last answer or last retry. `Tsa`: the loop
calls the sending functions of each node again and again, transmit timers run
out, and the application takes what it is given. Nothing is assumed of the
channel: a message completes because retries are counted. `Persistence`: the
application calls `IzotEventPump` again and again, as its comment asks, the guard
band passes, and a node that was started comes up. Nothing is assumed of storage:
`ResetIsCarriedOut` excuses a reset once an access has failed. `Application`: the
loop calls each layer, and the transaction layers complete what they were given,
which is `MessageIsCompleted` of `Tsa`. `Node`: the loop checks the
configuration, carries out resets, sends responses and stores the image. `UsbLink`:
the loop calls the driver, and an interface answers what reached it unless that is
one of its faults. `LonUdp`: a talker goes on sending to
each other node, the network does not lose every one of its messages (strong
fairness, for `AddresseeIsReached`), nodes poll their IP address, and a table is aged
when the timer that a network manager sets runs out. `Iup`: timers are looked at and flash
operations end; the manager's packets and requests get through again and again
when they are repeated (strong fairness, as each may be lost any number of times).

## Proofs

`TimerQueueProofs`, for `LcsQueue`: for every capacity and every set of entries,
`QueueTypeOK`, `TailFollowsEntries`, and the refinement of `BoundedFifo`. The invariant needed is
that the tail lies `queueEntries` places after the head, and fewer than
`Capacity` entries are committed; the refinement then shows that each operation on
the array changes the sequence of committed entries as the abstract one does.

`TcsProofs`: for all constants, `TypeOK` and `TidDiffersFromPrevious` (`NewTidDiffers`), for domain ids
of any lengths and with no further condition. The invariant `TidInv` says that no two entries
stand for one destination, and that a TID assigned recently is the one in the entry of its
destination, unless that was inherited. It is inductive as long as nothing is `misfiled`:
a replacement writes the new length to the place that was freed, and that is right if the entry
that moves to it has that length too, or is the one replaced. That is the one step of `NewTrans`
that breaks the promise, and the theorem shows that there is no other.

`PersistenceProofs`: for every set of contents and any numbers of errors and losses
of power, `UnmarkedIsStored` and the refinement of `DurableStore`. Three parts make
the invariant inductive. `UpdateInv` ties the place in the sequence of accesses to
the transaction record: while header and data are written the record is blank, and
a valid record is of whole data. `NetInv` states the property for the network image
from the moment the node starts, so that it is there when the start ends. `AppInv`
says why nothing more is needed for application data: on the modelled build their
first access fails, so that with them a node is in the error the property leaves
out. In the refinement an access that makes the record invalid or
blank is the abstract beginning of a store, the one that makes it valid is its end
(`FinishSegUpdate`), and the accesses in between, whole or cut off, are stutters.

`TimerQueueProofs`, for `LonTimer`: `ReportsExactlyWhenDue` and `RepeatingTimerKeepsRunning` for
every width of the counter, zero durations and late polls of any kind included, under `InTime`,
which leaves out the longest duration. `PlaceInv` says that the expiration, taken as a number, differs
from the counter by what is due, give or take one round; the signed difference of the
code is then `due` itself. `HaltInv` says that an expiration of 0 with repeats still wanted comes
from one of the two cases that `halted` tells: in particular, no wrap of the counter ever
makes one.

`NodeProofs`: `TypeOK`, `ConfigurationIsChecked`, `ImageIsCurrent` and the action
property `StaysLocked`, for one domain or two, every finite set of values and every set
of messages. The handlers are treated alike by one lemma, `HandlersEnd`: each makes of
the EEPROM structure one with its checksum up to date, or one whose configuration and checksum
are as they were, or writes memory, and each ends by scheduling what it changed
(`EndsWell`). `ImageIsCurrent` needs to know that the state of a node is
the one that was last scheduled unless the check changed it (`StateInv`), and that an
image with nothing scheduled after it is the one that was (`StoredInv`).

`IupProofs`: `TypeOK`, `ConfirmedIsStored`, `ActiveIsWhole` and `DoneMeansActive`,
for every number of sessions, packets, losses of power and connections. The difficulty
is the handler that is cut off between two operations on flash memory. `TodoInv` lists
what can be left of each handler and what has been done by then; `TimersInv` which
timers run at each step of the manager; `SessionInv` that nothing is stored of a
session that has not begun; `CountInv` relates the packets counted to those marked,
and bounds what a second connection adds; `ConfirmedInv`, `DigestInv`, `ImageInv` and
`ActiveInv` follow the image from the confirmation over the digest and the
switch-over to the commit. The assumption that the markers of contents (`Erased`,
`Mixed`, `Factory`, `Bad`) are distinct is all that is asked of the constants beside
their types. `ConfirmedIsStored` takes one more invariant, `StoredInv`: while the block of the update
is valid, the passive partition holds nothing but packets of the session in the block, or
that image runs. It is established by the block being written last in `InitUpdateProcess`, and it is
why a loss of power between erasing and writing does no harm.

`LonUdpProofs`: `TypeOK`, and `MappingIsUnique` for any nodes, addresses and size of
the table. What is inductive is stronger than that: an entry in use differs from all entries
before it, also from those that are not in use, because the announcement of a
subnet makes the first entry of each of its nodes used again. `SourceIsTrue` is
proved under `Unambiguous` from `SourceInv`: a datagram on its way is read as what
its sender meant, whatever becomes of the sender; and the action property
`ReplyReachesSender` under the same assumption, for announcers in domains of every length;
what `UpdateMapping` takes for a derived address is one, but for the second byte in a
one-byte domain (`LooksDerivedIs`), which is the exception that the property names.
Addresses with subnet or node 0 are left out by `Unambiguous`, since the code then
leaves the domain out of the IP address. Run `udp` has constants that meet it.

`LeastExists` of that module, that a nonempty set of natural numbers has a least
element, comes from the library's theorem that finite sets are well-founded by
inclusion. With it a statement about all natural numbers can be proved from its
least counterexample, which serves where the induction theorems, whose parameter is an operator,
cannot be used.

`TsaProofs`: for any nodes, messages, priorities, retries, receive records and sizes
of queues, with loss, duplication, timers that run out at any time and resets.

* `TypeOK` and `RecordsAreUnambiguous` from `Typed`. The two need each other: a frame
  that is sent again is one of its sender's messages because the message of a
  transaction stays at the head of its queue, and `RetrieveRR` finds one record
  because a record in which `AllocateRR` puts a message is of a source that had none.
* `AuthenticatedOnlyWithKey` from `Authentic`, without a condition on the numbers. A
  reply carries what only its sender's key makes of the challenge and of the message,
  and `ProcessReply` compares it with what the receiver's key makes of the message
  in the record, which has the source of the reply. So the two keys are equal, also if
  the reply is an old one or the record was taken over since. The invariant follows
  the mark of an authentic message from there to the record and to the application.
* `NewMessageIsNotARepeat` and `ResponseIsForItsRequest` from `Sound`: two uses of one
  number by one source and priority are of one message (frames on their way, records,
  the transaction), and a request id stands for one request until that is
  answered. Both theorems (`FreshNumbersTell`, `FreshNumbersMatch`) assume
  `[]NumbersAreFresh`, which is all that can go wrong: 4 bits of transaction number
  come round after 15 messages of a priority, and the code does not wait for
  what is left of the messages that had them.
* `NumbersAreFresh` from `Sequential`, for nodes that are reset by power-up only, with a
  delay that outlasts frames and receive timers (`DelayOutlasts`):
  numbers in use are below the next one as long as a node has not come to its
  last number since its reset (`NumbersLast`). `PowerUpIsSafe` puts the three together. Run `tsa` has
  states, resets and timers that meet all three conditions. They are needed. After a software reset numbers
  begin at 0 again while receivers hold records of those before (`MCTsaSoftware.cfg`), and with the
  build's own receive timers so they do after a power-up (run `tsa_powerup`). `HeldUp` says
  that until the wait is over none of the node's messages is under way. What the theorems say is thus
  for a network whose tool keeps receive timers below 2 s.

`NumbersLast` is a condition on a behaviour and not on the code: it covers the first 14 messages
of each priority and the first 65534 requests received after a start. For later ones it takes the timing that `NumbersAreFresh`
abstracts from: that all of a transaction has died out when its number is next used.

`TsaServiceProofs`: with the same generality, that `Tsa` implements `MessageService`.

* `ReportedOnce`, from `Accounted`: a message is in `tsaOutQ` or reported, never both,
  and once in either. It needs no condition.
* `DeliveredOnce`, from `Once`, for messages to nodes that are not reset. It needs no
  condition on the numbers, since a message that is taken for another one is
  lost and not repeated. The invariant ranks the messages of a sender and priority by
  when their transactions began. Frames are under way in that order (`QueuesSorted`,
  `InBeforeOut`), and nothing is under way that began before the message in the receive record of
  their source (`RecordsFirst`); so a record that is taken over is of a message whose last
  frame has been handled. `UnusedIsOver` says the same of a record whose
  timer has run out, which is what `ReceiveTimerExpired` waits for. The
  channel of the model loses and repeats frames but does not overtake; the order of
  frames is used here.
* `PromiseIsKept`, the refinement. A step that puts a message in `appInQ` is
  `DeliverMessage`, by `Once`; one by which the application takes a
  completion event is `ReportOutcome`, by `Accounted` and `Told`; `Submit` is `SendMessage`, and
  all else is a stutter. `Told` follows a success back to its cause: from the completion
  event to the acknowledgement or response (`AcksTold`, `ResponsesTold`), and from there to
  the state of the record that it was sent for (`RecordsTold`).
* Its hypotheses are needed. No receiver is reset: after a reset it does not know what it has
  delivered. `NumbersAreFresh`, and `AcksAreFresh` for acknowledgements, which do not say what
  message they are for: one that is late by a whole round of numbers confirms
  another message. `RoomToDeliver`: `Deliver` marks a message as delivered also when
  `appInQ` has no room for it, and it is acknowledged then; that is
  what `AcknowledgedIsDelivered` is about. In the code the application takes its
  messages in the pass of `LCS_Service` in which they come, after the layers below have
  handled one frame each, so that a queue of a few places has room.
* `PowerUpKeepsPromise` has `NumbersLast` in place of the two conditions on what is under
  way, for nodes that are reset by power-up only and `DelayOutlasts`, from `Sequential` and
  `AcksBelow`. An acknowledgement is of a record, whose number is in use, hence below
  the next one; and none is left when a node may send again.

Run `tsa` has two messages, so that numbers do not come round; there the refinement is checked with no
further condition.

The inductive invariant of each of these modules was checked with TLC on the constants of
the module's run before it was proved.

Only model-checked: liveness (`ResetIsCarriedOut`, `DamageIsFound`, `UpdateEnds`,
`AddresseeIsReached`, `WaitingMessageIsServed`, `MessageIsCompleted`, `LinkComesUp`,
`EveryCallCompletes`), which rests on fairness and is beyond the prover; and what
`Application` and `UsbLink` say, whose invariants are not inductive alone and need to know what is
in each queue at each step of a transaction.

## Not modelled

* `Tsa`: group and broadcast destinations, reminders, the enhanced protocol mode
  and the second security generation.
* `Application`: registration, arrays by one call, values of variables, network
  management and proxied messages. That a synchronous variable turned around takes its
  value when it is sent (`lcs_app.c:2737`) is about values and left out.
* `Node`: the contents of the tables and of answers, statistics, the unique ID, the
  service pin and LEDs, memory behind the EEPROM structure, and the relay of proxy
  commands. `GoUnconfigured` and `GoOffline` are never called. The response to a
  message that asks for a reset is dropped by that reset (`lcs.c:134`), as modelled.
  The expanded update of an alias uses the index without taking off the number of
  variables (`lcs_netmgmt.c:1139`) and writes behind the table, which a model of
  the table's contents would have to leave undefined.
* `Iup`: digests of other types, delayed switch-over, preserving of the
  configuration, refusals by size.
* `UsbLink`: the recovery after two time-outs of an acknowledgement, since
  `StartAckTimer` sets their count to 0 each time (`lon_usb_link.c:1288`).
* `LonUdp`: groups (`RestoreIpMembership` collects them with OR in one variable,
  `ipv4_to_lon_udp.c:157`), second domain entry, IPv6, WiFi.
* Proxy agent: compiled only for `LON_PL_PROXY`; stateless between the queues of
  `Tsa` and `Application` but for one timer.
* ISI: only the serialisation of two tables; the engine is not in this repository.
* `NodeReset` returns at the first layer whose reset fails (`lcs_node.c:460`); no
  layer's reset fails after its first start.

## Plan

1. Proofs: all modules but `Application` and `UsbLink` are proved but for liveness. Next
   `CompletionIsForItsCall` of `Application` and the buffers of `UsbLink`.
2. Group destinations and reminders in `Tsa` (`ReceiveRem`, partial
   acknowledgements), with the receive-record hazards they bring.
3. Proxy agent on `Application` and `Tsa`: inherited TIDs, and the wait for a
   buffer that its comment calls a deadlock.
4. Persistence: what the file system may lose or reorder, and the ISI tables.
