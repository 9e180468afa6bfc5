--------------------------------- MODULE Iup ---------------------------------
(***************************************************************************)
(* The image update protocol (lcs/lcs_iup.c, lcs/lcs_app.c): a manager     *)
(* sends a new firmware image in packets, which the node writes into its   *)
(* passive partition, has them confirmed and validated, and switches the   *)
(* node over to them. The state of the update is kept in a block of flash  *)
(* memory, which is read at the start and whenever the node connects to    *)
(* the network (abstraction/IzotCal.c).                                    *)
(*                                                                         *)
(* What a handler or a timer writes to flash memory happens one operation  *)
(* at a time, and power can fail between any two. A bit of flash memory    *)
(* that was written stays so until its block is erased; an erased byte     *)
(* reads 255, which counts as true.                                        *)
(*                                                                         *)
(* An image is named by the session that transfers it, and a digest by     *)
(* the image it is the digest of.                                          *)
(***************************************************************************)
EXTENDS Integers, Sequences, FiniteSets

CONSTANTS
    Sessions,       \* the session numbers a manager uses, 1 .. n
    Packets,        \* the packets of an image, 1 .. n
    MaxPowerLosses, \* bound on losses of power
    MaxReconnects,  \* bound on connections to the network without a restart
    Erased, Mixed,  \* contents of a packet's place: nothing, and overwritten without being erased
    Factory, Bad    \* running images: the one the node came with, and one that is no image

ASSUME IupAssumption ==
    /\ Sessions = 1 .. Cardinality(Sessions) /\ IsFiniteSet(Sessions)
    /\ Packets = 1 .. Cardinality(Packets) /\ IsFiniteSet(Packets) /\ Packets # {}
    /\ MaxPowerLosses \in Nat /\ MaxReconnects \in Nat
    /\ Erased \notin {Mixed, Factory, Bad} /\ Mixed \notin {Factory, Bad} /\ Factory # Bad
    /\ {Erased, Mixed, Factory, Bad} \cap (Sessions \cup {0}) = {}

VARIABLES
    flash,       \* the block of the update: valid, session, and the three flags; marks of packets
    passive,     \* the passive partition, by packet
    active,      \* the image in the active partition
    data,        \* iupPersistData: session, and the three flags
    count,       \* iupRcvdPckCount
    validated,   \* iupImageValidated
    digestmatch,
    digest,      \* digestBytes
    read,        \* md5c and fileSizeTemp: what was taken into the digest
    timers,      \* the timers that run
    todo,        \* operations on flash memory the running handler still has to carry out
    manager,     \* the manager's session and how far it is
    disturbed,   \* history: since an update began power failed or the node connected again
    powerLosses, reconnects

vars == <<flash, passive, active, data, count, validated, digestmatch, digest, read, timers, todo,
          manager, disturbed, powerLosses, reconnects>>

Flags == {0, 1, 255}
Contents == Sessions \cup {Erased, Mixed, Factory, Bad}
Timers == {"init", "validate", "md5", "switch", "commit"}
Steps == {"transfer", "refused", "confirmed", "validated", "switched", "secondary", "done"}

\* The most iupRcvdPckCount can come to: each connection adds what is marked to what was counted.
MaxCount == (MaxReconnects + 2) * Cardinality(Packets)

----------------------------------------------------------------------------
(* Flash memory.                                                           *)

ErasedBlock ==
    [valid |-> FALSE, session |-> 0, confirmed |-> 255, commitDone |-> 255, secondary |-> 255,
     marks |-> {}]

Overwritten(old, new) == IF old \in {Erased, new} THEN new ELSE Mixed

EraseIupPersistData == [op |-> "erase block"]
ErasePartition == [op |-> "erase partition"]
WriteInitData == [op |-> "init data"]
WritePacket(p) == [op |-> "packet", packet |-> p]
MarkPacket(p) == [op |-> "mark", packet |-> p]
WriteFlag(flag) == [op |-> "flag", flag |-> flag]
Reboot == [op |-> "reboot"]
SetActive == [op |-> "set active"]

isPacketMissed(p) == p \notin flash.marks
Image(contents) == IF \E s \in Sessions : \A p \in Packets : contents[p] = s THEN contents[1] ELSE Bad

\* The partition that becomes active and the other change places.
part_set_active_partition ==
    /\ active' = Image(passive)
    /\ passive' = [p \in Packets |-> active]

----------------------------------------------------------------------------
(* Starting, and connecting.                                               *)

NoData == [session |-> 0, confirmed |-> 0, commitDone |-> 0, secondary |-> 0]
Stored(block) ==
    [session |-> block.session, confirmed |-> block.confirmed, commitDone |-> block.commitDone,
     secondary |-> block.secondary]

\* The packets found are added to those counted before.
readIupPersistData(old, counted) ==
    IF flash.valid
    THEN /\ data' = Stored(flash)
         /\ count' = counted + Cardinality(flash.marks)
    ELSE data' = old /\ count' = counted

Restarted ==
    /\ readIupPersistData(NoData, 0)
    /\ validated' = FALSE /\ digestmatch' = FALSE /\ digest' = 0 /\ read' = <<>>
    /\ timers' = {} /\ todo' = <<>>

PowerLoss ==
    /\ powerLosses < MaxPowerLosses /\ powerLosses' = powerLosses + 1
    /\ Restarted /\ disturbed' = TRUE
    /\ UNCHANGED <<flash, passive, active, manager, reconnects>>

EventNormalConnected ==
    /\ reconnects < MaxReconnects /\ reconnects' = reconnects + 1
    /\ todo = <<>>
    /\ readIupPersistData(data, count) /\ disturbed' = TRUE
    /\ UNCHANGED <<flash, passive, active, validated, digestmatch, digest, read, timers, todo,
                   manager, powerLosses>>

\* One operation on flash memory.
FlashStep ==
    /\ todo # <<>>
    /\ LET next == Head(todo) IN
       CASE next.op = "erase block" -> flash' = ErasedBlock /\ UNCHANGED <<passive, active>>
         [] next.op = "erase partition" ->
              passive' = [p \in Packets |-> Erased] /\ UNCHANGED <<flash, active>>
         [] next.op = "init data" ->
              flash' = [flash EXCEPT !.valid = TRUE, !.session = data.session]
              /\ UNCHANGED <<passive, active>>
         [] next.op = "packet" ->
              passive' = [passive EXCEPT ![next.packet] = Overwritten(@, data.session)]
              /\ UNCHANGED <<flash, active>>
         [] next.op = "mark" ->
              flash' = [flash EXCEPT !.marks = @ \cup {next.packet}] /\ UNCHANGED <<passive, active>>
         [] next.op = "flag" ->
              flash' = [flash EXCEPT ![next.flag] = 1] /\ UNCHANGED <<passive, active>>
         [] next.op = "set active" -> part_set_active_partition /\ UNCHANGED flash
         [] next.op = "reboot" -> UNCHANGED <<flash, passive, active>>
    /\ IF Head(todo) = Reboot THEN Restarted
       ELSE /\ todo' = Tail(todo)
            /\ UNCHANGED <<data, count, validated, digestmatch, digest, read, timers>>
    /\ UNCHANGED <<manager, disturbed, powerLosses, reconnects>>

----------------------------------------------------------------------------
(* Timers, which AppLayerReceive looks at.                                 *)

Expires(timer) ==
    /\ todo = <<>> /\ timer \in timers
    /\ UNCHANGED <<flash, passive, active, manager, powerLosses, reconnects>>

\* When the partition cannot be opened or erased, it stays as it is.
InitOperationsPartitionFirst(erases) ==
    IF erases THEN <<ErasePartition, EraseIupPersistData, WriteInitData>> ELSE <<EraseIupPersistData>>
InitOperations(erases) ==
    IF erases THEN <<EraseIupPersistData, ErasePartition, WriteInitData>> ELSE <<EraseIupPersistData>>

NewConfirmation(d) == [d EXCEPT !.confirmed = 0]
NewFlags(d) == [d EXCEPT !.confirmed = 0, !.commitDone = 0, !.secondary = 0]

InitUpdateProcess ==
    /\ Expires("init") /\ timers' = timers \ {"init"}
    /\ count' = 0 /\ validated' = FALSE
    /\ data' = NewFlags(data)
    /\ \E erases \in BOOLEAN : todo' = InitOperations(erases)
    /\ disturbed' = FALSE
    /\ UNCHANGED <<digestmatch, digest, read>>

\* The context is what was taken into the digest so far; a digest is named by its image.
MD5Init == <<>>
MD5Update(context) == Append(context, passive[Len(context) + 1])
MD5Final(context) == Image(context)

\* The loader accepts whole images. Whether it does or not, the digest is computed.
VerifyImage == Image(passive) # Bad

ComputeMD5Digest ==
    /\ Expires("validate") /\ timers' = (timers \ {"validate"}) \cup {"md5"}
    /\ validated' = (validated \/ ~VerifyImage)
    /\ digestmatch' = (digestmatch /\ VerifyImage)
    /\ read' = MD5Init
    /\ UNCHANGED <<data, count, digest, todo, disturbed>>

ValidatedWhenSame(same) == same
Validated(same) == TRUE

\* A piece of the image, or the comparison behind the last one.
CalculateMD5 ==
    /\ Expires("md5")
    /\ IF Len(read) < Cardinality(Packets)
       THEN /\ read' = MD5Update(read)
            /\ UNCHANGED <<timers, validated, digestmatch>>
       ELSE /\ digestmatch' = (MD5Final(read) = digest)
            /\ validated' = Validated(digestmatch') /\ read' = MD5Init /\ timers' = timers \ {"md5"}
    /\ UNCHANGED <<data, count, digest, todo, disturbed>>

\* The timer of a switch-over that was accepted is not stopped by a new update: it is asked again
\* whether the image is validated.
AlwaysValidated == TRUE
StillValidated == validated
SwitchOverImage ==
    /\ Expires("switch") /\ timers' = timers \ {"switch"}
    /\ todo' = IF StillValidated /\ data.secondary = 0 THEN <<SetActive, Reboot>> ELSE <<>>
    /\ UNCHANGED <<data, count, validated, digestmatch, digest, read, disturbed>>

CommitImage ==
    /\ Expires("commit") /\ timers' = timers \ {"commit"}
    /\ IF data.commitDone = 0
       THEN /\ data' = [data EXCEPT !.commitDone = 1]
            /\ todo' = <<SetActive, WriteFlag("commitDone"), Reboot>>
       ELSE UNCHANGED <<data, todo>>
    /\ UNCHANGED <<count, validated, digestmatch, digest, read, disturbed>>

----------------------------------------------------------------------------
(* Messages. The answer of a request arrives or is lost, and then the      *)
(* manager asks again. After Init it waits for as long as it was told, ten *)
(* seconds, which is longer than the timers of Init and of a switch-over.  *)

Asks(steps) ==
    /\ todo = <<>> /\ "init" \notin timers
    /\ manager.step = "transfer" => "switch" \notin timers
    /\ manager.step \in steps
    /\ UNCHANGED <<flash, passive, active, disturbed, powerLosses, reconnects>>

Learns(step) == manager' = [manager EXCEPT !.step = step] \/ UNCHANGED manager

\* A manager starts an update, and gives up one that it had started, unless it was told to wait for
\* a validation or a commit: neither is stopped by a new update. For an image of another model the
\* answer is a refusal, and the update begins all the same.
HandleNmeIupInit ==
    /\ todo = <<>> /\ timers \cap {"validate", "md5", "commit"} = {}
    /\ manager.session + 1 \in Sessions
    /\ \E step \in {"transfer", "refused"} :
          manager' = [session |-> manager.session + 1, step |-> step]
    /\ data' = [data EXCEPT !.session = manager.session + 1]
    /\ timers' = timers \cup {"init"}
    /\ UNCHANGED <<flash, passive, active, count, validated, digestmatch, digest, read, todo,
                   disturbed, powerLosses, reconnects>>

\* A packet. One that arrived before is dropped, one that cannot be written is not marked.
AcceptsAgain(p) == TRUE
Accepts(p) == isPacketMissed(p)
HandleNmeIupTransfer(p) ==
    /\ Asks({"transfer"})
    /\ data.session = manager.session /\ data.confirmed # 1 /\ Accepts(p)
    /\ count' = count + 1 /\ todo' = <<WritePacket(p), MarkPacket(p)>>
    /\ UNCHANGED <<data, validated, digestmatch, digest, read, timers, manager>>

EightyPercent(n) == (80 * n) \div 100

\* With less than four fifths of the packets the update is not viable. When the count and the marks
\* differ, it is the marks that are reported.
HandleNmeIupConfirm ==
    /\ Asks({"transfer"}) /\ data.session = manager.session
    /\ \/ count < EightyPercent(Cardinality(Packets))
          /\ Learns("refused") /\ UNCHANGED <<data, todo>>
       \/ count >= EightyPercent(Cardinality(Packets)) /\ count = Cardinality(Packets)
          /\ data' = [data EXCEPT !.confirmed = 1] /\ todo' = <<WriteFlag("confirmed")>>
          /\ Learns("confirmed")
       \/ count >= EightyPercent(Cardinality(Packets)) /\ count # Cardinality(Packets)
          /\ Learns(IF flash.marks = Packets THEN "confirmed" ELSE "transfer")
          /\ UNCHANGED <<data, todo>>
    /\ UNCHANGED <<count, validated, digestmatch, digest, read, timers>>

\* Once an image was validated, well or not, the answer is the same until the next Init. The
\* manager waits for the validation it asked for.
HandleNmeIupValidate ==
    /\ Asks({"confirmed"}) /\ data.session = manager.session
    /\ digest = manager.session => timers \cap {"validate", "md5"} = {}
    /\ IF validated
       THEN Learns(IF digestmatch THEN "validated" ELSE "refused") /\ UNCHANGED <<digest, timers>>
       ELSE digest' = manager.session /\ timers' = timers \cup {"validate"} /\ UNCHANGED manager
    /\ UNCHANGED <<data, count, validated, digestmatch, read, todo>>

HandleNmeIupSwitchOver(secondary) ==
    /\ Asks({"validated"})
    /\ \/ ~validated /\ Learns("refused") /\ UNCHANGED <<data, todo, timers>>
       \/ /\ validated /\ Learns("switched")
          /\ data' = IF secondary THEN [data EXCEPT !.secondary = 1] ELSE data
          /\ todo' = IF secondary THEN <<WriteFlag("secondary")>> ELSE <<>>
          /\ timers' = timers \cup {"switch"}
    /\ UNCHANGED <<count, validated, digestmatch, digest, read>>

\* The manager waits for the switch-over before it asks. What the flags say is erased with the
\* answer, unless the image is still to be committed.
HandleNmeIupStatus ==
    /\ Asks({"switched"}) /\ "switch" \notin timers
    /\ LET known == data.session = manager.session
           pending == known /\ data.commitDone = 0 /\ data.secondary # 0
       IN /\ Learns(CASE pending -> "secondary"
                      [] known /\ data.commitDone # 0 -> "done"
                      [] OTHER -> "refused")
          /\ todo' = IF pending THEN <<>> ELSE <<EraseIupPersistData>>
    /\ UNCHANGED <<data, count, validated, digestmatch, digest, read, timers>>

HandleNmeIupCommit ==
    /\ Asks({"secondary"})
    /\ LET known == data.session = manager.session
           commits == known /\ data.secondary # 0 /\ data.commitDone = 0
       IN /\ timers' = IF commits THEN timers \cup {"commit"} ELSE timers
          /\ todo' = IF commits THEN <<>> ELSE <<EraseIupPersistData>>
          /\ \/ commits /\ UNCHANGED manager
             \/ ~commits /\ Learns(IF known /\ data.secondary # 0 THEN "done" ELSE "refused")
    /\ UNCHANGED <<data, count, validated, digestmatch, digest, read>>

\* The session of another update is not answered, and the manager gives up.
Unanswered ==
    /\ Asks({"transfer", "confirmed"}) /\ data.session # manager.session
    /\ manager' = [manager EXCEPT !.step = "refused"]
    /\ UNCHANGED <<data, count, validated, digestmatch, digest, read, timers, todo>>

----------------------------------------------------------------------------
Init ==
    /\ flash = ErasedBlock
    /\ passive = [p \in Packets |-> Erased] /\ active = Factory
    /\ data = NoData /\ count = 0
    /\ validated = FALSE /\ digestmatch = FALSE /\ digest = 0 /\ read = <<>>
    /\ timers = {} /\ todo = <<>>
    /\ manager = [session |-> 0, step |-> "refused"]
    /\ disturbed = FALSE
    /\ powerLosses = 0 /\ reconnects = 0

Message ==
    \/ HandleNmeIupInit
    \/ \E p \in Packets : HandleNmeIupTransfer(p)
    \/ HandleNmeIupConfirm \/ HandleNmeIupValidate
    \/ \E secondary \in BOOLEAN : HandleNmeIupSwitchOver(secondary)
    \/ HandleNmeIupStatus \/ HandleNmeIupCommit
    \/ Unanswered

Timer == InitUpdateProcess \/ ComputeMD5Digest \/ CalculateMD5 \/ SwitchOverImage \/ CommitImage

Next == Message \/ Timer \/ FlashStep \/ PowerLoss \/ EventNormalConnected

Spec == Init /\ [][Next]_vars

\* A request that gets the manager further, or starts what it waits for.
Progress ==
    /\ \/ HandleNmeIupConfirm \/ HandleNmeIupValidate
       \/ \E secondary \in BOOLEAN : HandleNmeIupSwitchOver(secondary)
       \/ HandleNmeIupStatus \/ HandleNmeIupCommit
       \/ Unanswered
    /\ manager' # manager \/ (manager.step \in {"confirmed", "secondary"} /\ timers' # timers)

\* Timers are looked at, operations on flash memory end, and a manager that lost a packet or an
\* answer tries again until it gets through.
FairSpec ==
    /\ Spec /\ WF_vars(FlashStep \/ Timer)
    /\ SF_vars(\E p \in Packets : HandleNmeIupTransfer(p))
    /\ SF_vars(Progress)

----------------------------------------------------------------------------
(* Properties.                                                             *)

\* The state is well formed: a flag is one of the bytes flash memory can hold, and no sequence of
\* transfers and connections makes the count of received packets pass its bound.
TypeOK ==
    /\ flash \in [valid : BOOLEAN, session : Sessions \cup {0}, confirmed : {1, 255},
                  commitDone : {1, 255}, secondary : {1, 255}, marks : SUBSET Packets]
    /\ passive \in [Packets -> Contents] /\ active \in Contents
    /\ data \in [session : Sessions \cup {0}, confirmed : Flags, commitDone : Flags,
                 secondary : Flags]
    /\ count \in 0 .. MaxCount
    /\ {validated, digestmatch, disturbed} \subseteq BOOLEAN
    /\ digest \in Sessions \cup {0}
    /\ read \in Seq(Contents) /\ Len(read) <= Cardinality(Packets) /\ timers \subseteq Timers
    /\ manager \in [session : Sessions \cup {0}, step : Steps]
    /\ powerLosses \in 0 .. MaxPowerLosses /\ reconnects \in 0 .. MaxReconnects

Confirmed == data.confirmed = 1 /\ "init" \notin timers /\ todo = <<>>

\* Every packet of the update's image is in the passive partition, or the image was switched over to.
ImageIsStored == active = data.session \/ \A p \in Packets : passive[p] = data.session

\* The block of the update is written only when the partition was opened and erased.
PartitionWasErased == flash.valid

\* An image that was confirmed as received is stored, packet by packet and none of them mixed with
\* what was there before, whatever was lost, came twice, or was interrupted by a loss of power
\* (HandleNmeIupConfirm, HandleNmeIupTransfer, InitUpdateProcess), unless the partition was not
\* erased, or the node connected to the network again, which counts packets twice.
ConfirmedIsStored == Confirmed /\ PartitionWasErased /\ reconnects = 0 => ImageIsStored

\* "No packet error detected" (HandleNmeIupConfirm), and no packet is taken any more: the update
\* has all of its packets stored, also when its start failed.
NoMorePacketsMeansStored == Confirmed /\ reconnects = 0 => ImageIsStored

\* The node runs a whole image, also when a new update begins while it is about to switch over.
ActiveIsWhole == active # Bad

\* An update that was not disturbed and that the manager was told to be done is running.
DoneMeansActive ==
    manager.step = "done" /\ ~disturbed => active = manager.session

\* An update that is not given up for another is carried out or refused, also when power fails. With
\* a packet counted twice a node may say it has all of them, and take none any more.
UpdateEnds ==
    \A s \in Sessions :
        (manager.session = s /\ reconnects = 0)
            ~> \/ manager.session # s \/ manager.step \in {"done", "refused"}
               \/ reconnects > 0
=============================================================================
