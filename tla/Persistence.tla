---------------------------- MODULE Persistence ----------------------------
(***************************************************************************)
(* Persistent data of a node (persistence/ and the storage functions of    *)
(* abstraction/IzotHal.c for Linux): segments that are marked when they    *)
(* change, stored some time later by IzotPersistentMemCommit, and restored *)
(* when the node starts. Storage holds a transaction record before each    *)
(* segment, so that a segment whose update was cut off is known.           *)
(*                                                                         *)
(* IzotEventPump runs LCS_Service, then IzotPersistentMemCommitCheck, then *)
(* looks for a requested reset. Each access to storage is a step: the node *)
(* may lose power after any of them. What was written stays written.       *)
(***************************************************************************)
EXTENDS Naturals, FiniteSets

CONSTANTS
    Value,          \* contents of a segment
    Default,        \* contents when nothing can be restored
    AppData,        \* may the application have persistent data?
    MaxErrors,      \* bound on storage errors
    MaxCrashes,     \* bound on power failures
    Torn, Lost      \* not a whole segment, and no segment

\* Segments that are stored. The network image comes first.
Net == "net"
App == "app"
Segment == {Net, App}

ASSUME PersistenceAssumption ==
    /\ Default \in Value
    /\ Torn \notin Value /\ Lost \notin Value
    /\ AppData \subseteq BOOLEAN
    /\ MaxErrors \in Nat /\ MaxCrashes \in Nat

VARIABLES
    phase,       \* where IzotEventPump or the start of the stack is
    cur,         \* the segment that IzotPersistentSegStore is storing
    ram,         \* the node's copy of each segment
    tx,          \* storage: the transaction record of each segment
    data,        \* storage: header and data of each segment
    marked,      \* persistence_list
    scheduled,   \* the commit timer was started
    guardOver,   \* the guard band of the commit timer has passed
    commitFlag,  \* commit_flag: commit without waiting for the timer
    doReset,     \* do_reset: a physical reset was requested
    memError,    \* persistentMemError is set, and stays until the next start
    errorLog,    \* the status logged last, part of the network image
    hasApp,      \* the application has persistent data
    errors, crashes

storage == <<tx, data>>
schedule == <<marked, scheduled, guardOver, commitFlag>>
vars == <<phase, cur, ram, storage, schedule, doReset, memError, errorLog, hasApp,
          errors, crashes>>

Status == {"none", "access", "failure", "eeprom"}

Off == {"off", "rebooted"}

Storing == {"enter", "open", "header", "image", "exit"}

-----------------------------------------------------------------------------
(* Access to storage, and what happens when it fails.                      *)

\* An access to segment s succeeds. storageFd is initialised to -1, not open,
\* for the first segment only. For others it is 0: HalOpenStorageSegment takes
\* standard input for the segment, which has no data, and the access fails.
Succeeds(s) ==
    /\ ~memError /\ s = Net
    /\ UNCHANGED <<memError, errors>>

\* It fails; after that all fail.
Fails(s) ==
    /\ \/ (memError \/ s # Net) /\ UNCHANGED errors
       \/ ~memError /\ s = Net /\ errors < MaxErrors /\ errors' = errors + 1
    /\ memError' = TRUE

\* OsalPrintLog of an error: a status that was not the last one is stored with
\* the network image. m is persistence_list so far.
LogError(status, m) ==
    /\ errorLog' = status
    /\ marked' = IF errorLog = status THEN m ELSE [m EXCEPT ![Net] = TRUE]
    /\ scheduled' = (scheduled \/ errorLog # status)
    /\ guardOver' = (guardOver /\ scheduled)

-----------------------------------------------------------------------------
(* Marking segments, and the commit timer.                                 *)

\* Faulty variant: the timer is not started.
MarkWithoutTimer(S) ==
    /\ marked' = [s \in Segment |-> marked[s] \/ s \in S]
    /\ UNCHANGED <<scheduled, guardOver>>

\* LCS_WritePersistentNetworkImage and LCS_WritePersistentAppData: the segments
\* in S are marked and the timer started, unless it runs.
MarkAndSchedule(S) ==
    /\ marked' = [s \in Segment |-> marked[s] \/ s \in S]
    /\ scheduled' = (scheduled \/ S # {})
    /\ guardOver' = (guardOver /\ scheduled)

\* LCS_Service, and the application: segments change, a flush or a physical
\* reset may be requested.
Service(S, flush, reset) ==
    /\ phase = "service"
    /\ S \subseteq (IF hasApp THEN Segment ELSE {Net})
    /\ \E v \in Value : ram' = [s \in Segment |-> IF s \in S THEN v ELSE ram[s]]
    /\ MarkAndSchedule(S)
    /\ commitFlag' = (commitFlag \/ flush)
    /\ doReset' = (doReset \/ reset)
    /\ phase' = "check"
    /\ UNCHANGED <<cur, storage, memError, errorLog, hasApp, errors, crashes>>

\* The guard band runs out.
GuardBandOver ==
    /\ phase \notin Off /\ scheduled /\ ~guardOver
    /\ guardOver' = TRUE
    /\ UNCHANGED <<phase, cur, ram, storage, marked, scheduled, commitFlag, doReset,
                   memError, errorLog, hasApp, errors, crashes>>

-----------------------------------------------------------------------------
(* IzotPersistentMemCommit: one marked segment after the other.            *)

\* The loop goes on with the first segment of S that is marked in m, or ends.
Continue(S, m) ==
    LET todo == {s \in S : m[s]}
    IN  IF todo # {}
        THEN phase' = "enter" /\ cur' = IF Net \in todo THEN Net ELSE App
        ELSE phase' = "reset" /\ UNCHANGED cur

After(s) == IF s = Net THEN {App} ELSE {}

\* The timer is stopped when the loop ends.
StopTimer == scheduled' = (phase' # "reset" /\ scheduled)

CommitCheck ==
    /\ phase = "check"
    /\ IF scheduled /\ (guardOver \/ commitFlag)
       THEN Continue(Segment, marked) /\ StopTimer
       ELSE phase' = "reset" /\ UNCHANGED <<cur, scheduled>>
    /\ UNCHANGED <<ram, storage, marked, guardOver, commitFlag, doReset, memError,
                   errorLog, hasApp, errors, crashes>>

\* An access that fails logs the error; the caller goes on at phase p.
FailAndGoTo(p) ==
    /\ Fails(cur)
    /\ LogError("access", marked)
    /\ phase' = p
    /\ UNCHANGED <<cur, storage, commitFlag>>

\* IzotStorageStartSegUpdate: the segment is marked as being updated. Its result
\* is not looked at.
StartSegUpdate ==
    /\ phase = "enter"
    /\ \/ /\ Succeeds(cur)
          /\ tx' = [tx EXCEPT ![cur] = "invalid"]
          /\ phase' = "open"
          /\ UNCHANGED <<cur, data, schedule, errorLog>>
       \/ FailAndGoTo("open")
    /\ UNCHANGED <<ram, doReset, hasApp, crashes>>

\* IzotStorageOpenSegForWrite erases the transaction record. If it fails, nothing
\* is written, and this is not treated as an error.
OpenSegForWrite ==
    /\ phase = "open"
    /\ \/ /\ Succeeds(cur)
          /\ tx' = [tx EXCEPT ![cur] = "blank"]
          /\ phase' = "header"
          /\ UNCHANGED <<cur, data, schedule, errorLog>>
       \/ FailAndGoTo("exit")
    /\ UNCHANGED <<ram, doReset, hasApp, crashes>>

\* A write that fails is reported, and the segment stays marked.
WriteFails ==
    /\ Fails(cur)
    /\ errorLog' = "eeprom"
    /\ marked' = [marked EXCEPT ![Net] = TRUE]
    /\ Continue(After(cur), marked')
    /\ scheduled' = (phase' # "reset")
    /\ guardOver' = (guardOver /\ scheduled)
    /\ UNCHANGED <<tx, commitFlag>>

\* IzotPersistentSegWrite of the header.
WriteHeader ==
    /\ phase = "header"
    /\ \/ /\ Succeeds(cur)
          /\ data' = [data EXCEPT ![cur] = Torn]
          /\ phase' = "image"
          /\ UNCHANGED <<cur, tx, schedule, errorLog>>
       \/ WriteFails /\ data' \in {data, [data EXCEPT ![cur] = Torn]}
    /\ UNCHANGED <<ram, doReset, hasApp, crashes>>

\* IzotPersistentSegWrite of the data, which was serialized beforehand.
WriteImage ==
    /\ phase = "image"
    /\ \/ /\ Succeeds(cur)
          /\ data' = [data EXCEPT ![cur] = ram[cur]]
          /\ phase' = "exit"
          /\ UNCHANGED <<cur, tx, schedule, errorLog>>
       \/ WriteFails /\ UNCHANGED data
    /\ UNCHANGED <<ram, doReset, hasApp, crashes>>

\* The segment counts as stored.
Stored ==
    /\ commitFlag' = FALSE
    /\ Continue(After(cur), marked')

\* IzotStorageFinishSegUpdate makes the transaction record valid. Its result is
\* not looked at either.
FinishSegUpdate ==
    /\ phase = "exit"
    /\ \/ /\ Succeeds(cur)
          /\ tx' = [tx EXCEPT ![cur] = "valid"]
          /\ marked' = [marked EXCEPT ![cur] = FALSE]
          /\ Stored
          /\ StopTimer
          /\ UNCHANGED <<guardOver, errorLog>>
       \/ /\ Fails(cur)
          /\ errorLog' = "access"
          /\ marked' = [s \in Segment |-> s # cur /\
                           (marked[s] \/ (s = Net /\ errorLog # "access"))]
          /\ Stored
          /\ scheduled' = (phase' # "reset" /\ (scheduled \/ errorLog # "access"))
          /\ guardOver' = (guardOver /\ scheduled)
          /\ UNCHANGED tx
    /\ UNCHANGED <<data, ram, doReset, hasApp, crashes>>

-----------------------------------------------------------------------------
(* Reset, loss of power, and start.                                        *)

\* Faulty variant: a reset does not wait for marked segments.
ResetCheckNoWait ==
    /\ phase = "reset"
    /\ phase' = IF doReset THEN "rebooted" ELSE "service"
    /\ UNCHANGED <<cur, ram, storage, schedule, doReset, memError, errorLog, hasApp,
                   errors, crashes>>

\* The end of IzotEventPump: a requested reset is carried out once no segment
\* is marked; otherwise commitFlag asks for a commit the next time.
ResetCheck ==
    /\ phase = "reset"
    /\ IF doReset /\ \A s \in Segment : ~marked[s]
       THEN phase' = "rebooted" /\ UNCHANGED commitFlag
       ELSE phase' = "service" /\ commitFlag' = (commitFlag \/ doReset)
    /\ UNCHANGED <<cur, ram, storage, marked, scheduled, guardOver, doReset, memError,
                   errorLog, hasApp, errors, crashes>>

Crash ==
    /\ phase \notin Off
    /\ crashes < MaxCrashes
    /\ crashes' = crashes + 1
    /\ phase' = "off"
    /\ UNCHANGED <<cur, ram, storage, schedule, doReset, memError, errorLog, hasApp,
                   errors>>

\* Faulty variant: the transaction record is not looked at.
DurableAnyway(s) == IF data[s] \in Value THEN data[s] ELSE Default

\* What IzotPersistentSegRestore finds: nothing if the transaction record says
\* that the segment was never written or that its update was cut off.
Durable(s) == IF tx[s] = "valid" THEN data[s] ELSE Lost

\* Faulty variant: the data is restored whatever the transaction record says.
InitEEPROMUnchecked ==
    /\ phase \in Off
    /\ memError' = FALSE /\ UNCHANGED errors
    /\ ram' = [s \in Segment |-> IF s = Net THEN DurableAnyway(Net) ELSE Default]
    /\ errorLog' \in Status
    /\ marked' = [s \in Segment |-> FALSE]
    /\ scheduled' = FALSE
    /\ guardOver' = FALSE /\ commitFlag' = FALSE /\ doReset' = FALSE
    /\ phase' = "start"
    /\ UNCHANGED <<cur, storage, hasApp, crashes>>

\* InitEEPROM: the network image is restored, or set to default values and
\* marked. The error that was logged last comes with the image.
InitEEPROM ==
    /\ phase \in Off
    /\ \E readable \in BOOLEAN :
          /\ IF readable THEN UNCHANGED errors
             ELSE errors < MaxErrors /\ errors' = errors + 1
          /\ memError' = ~readable
          /\ LET restored == readable /\ Durable(Net) # Lost
             IN  /\ ram' = [s \in Segment |->
                               IF restored /\ s = Net THEN Durable(Net) ELSE Default]
                 /\ errorLog' \in IF restored THEN Status ELSE {"none"}
                 /\ marked' = [s \in Segment |-> s = Net /\ ~restored]
                 /\ scheduled' = ~restored
    /\ guardOver' = FALSE /\ commitFlag' = FALSE /\ doReset' = FALSE
    /\ phase' = "start"
    /\ UNCHANGED <<cur, storage, hasApp, crashes>>

\* IzotStartStack: application data cannot be restored (Succeeds). Both segments
\* are erased, which fails too, and marked; the node becomes unconfigured.
IzotStartStack ==
    /\ phase = "start"
    /\ IF hasApp
       THEN /\ Fails(App)
            /\ errorLog' = "access"
            /\ MarkAndSchedule(Segment)
            /\ \E v \in Value : ram' = [ram EXCEPT ![Net] = v]
       ELSE UNCHANGED <<memError, errors, errorLog, marked, scheduled,
                       guardOver, ram>>
    /\ phase' = "service"
    /\ UNCHANGED <<cur, storage, commitFlag, doReset, hasApp, crashes>>

\* The node was never started before.
Init ==
    /\ phase = "off"
    /\ cur = Net
    /\ ram = [s \in Segment |-> Default]
    /\ tx = [s \in Segment |-> "blank"]
    /\ data = [s \in Segment |-> Torn]
    /\ marked = [s \in Segment |-> FALSE]
    /\ scheduled = FALSE /\ guardOver = FALSE /\ commitFlag = FALSE
    /\ doReset = FALSE /\ memError = FALSE
    /\ errorLog = "none"
    /\ hasApp \in AppData
    /\ errors = 0 /\ crashes = 0

ServiceStep ==
    \E S \in SUBSET Segment : \E flush, reset \in BOOLEAN : Service(S, flush, reset)

StoreStep ==
    StartSegUpdate \/ OpenSegForWrite \/ WriteHeader \/ WriteImage \/ FinishSegUpdate

PumpStep == ServiceStep \/ CommitCheck \/ StoreStep \/ ResetCheck

StartStep == InitEEPROM \/ IzotStartStack

Next == PumpStep \/ StartStep \/ GuardBandOver \/ Crash

Spec == Init /\ [][Next]_vars

\* The application calls IzotEventPump again and again, time passes, and a node
\* that was started comes up.
FairSpec ==
    /\ Spec
    /\ WF_vars(PumpStep) /\ WF_vars(IzotStartStack) /\ WF_vars(GuardBandOver)

-----------------------------------------------------------------------------

\* The segment that is being stored is a marked one, and storage holds whole
\* segments, torn ones or none.
TypeOK ==
    /\ phase \in Off \union Storing \union {"start", "service", "check", "reset"}
    /\ cur \in Segment
    /\ phase \in Storing => marked[cur]
    /\ ram \in [Segment -> Value]
    /\ tx \in [Segment -> {"blank", "invalid", "valid"}]
    /\ data \in [Segment -> Value \union {Torn}]
    /\ marked \in [Segment -> BOOLEAN]
    /\ scheduled \in BOOLEAN /\ guardOver \in BOOLEAN /\ commitFlag \in BOOLEAN
    /\ doReset \in BOOLEAN /\ memError \in BOOLEAN
    /\ errorLog \in Status
    /\ hasApp \in BOOLEAN
    /\ errors \in 0 .. MaxErrors /\ crashes \in 0 .. MaxCrashes

\* Whatever access to storage fails or is the last before a loss of power,
\* IzotPersistentSegRestore never restores half of an update: a segment holds
\* what was stored last or its default.
Store == INSTANCE DurableStore WITH
    up <- phase \notin Off, value <- ram, durable <- [s \in Segment |-> Durable(s)]

\* As stated at Store.
ImplementsDurableStore == Store!StoreSpec

\* As long as storage works, IzotPersistentMemCommit unmarks only what it has
\* stored: a segment that a running node has not marked can be restored as it
\* is, and so can all segments when a requested reset is carried out.
UnmarkedIsStored ==
    phase \notin {"off", "start"} /\ ~memError =>
        \A s \in Segment :
            (s = Net \/ hasApp) =>
                \/ ram[s] = Durable(s)
                \/ marked[s] /\ phase # "rebooted"

\* IzotPersistentSegCommitScheduled, "to ensure that all persistent data is
\* committed before the reset": HalReboot finds all of it in storage.
CommittedBeforeReset ==
    phase = "rebooted" => \A s \in Segment : s = Net \/ hasApp => ram[s] = Durable(s)

\* "If so, it sets the commit flag to force an immediate commit": a requested
\* physical reset is not put off for ever by data that keeps changing, as long
\* as storage works.
ResetIsCarriedOut == doReset /\ phase \notin Off ~> phase \in Off \/ memError
=============================================================================
