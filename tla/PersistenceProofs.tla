------------------------- MODULE PersistenceProofs -------------------------
(***************************************************************************)
(* For every set of contents and any number of storage errors and losses   *)
(* of power: what a restart restores is a whole segment that was stored,   *)
(* and a segment that is not marked is in storage as it is.                *)
(***************************************************************************)
EXTENDS Persistence, TLAPS

\* Where a segment is marked as being updated, its old contents are gone; it is
\* declared valid only with all of its new contents written.
UpdateInv ==
    /\ \A s \in Segment : tx[s] = "valid" => data[s] \in Value
    /\ phase \in {"header", "image"} => tx[cur] = "blank"
    /\ phase = "exit" /\ ~memError => tx[cur] = "blank" /\ data[cur] = ram[cur]

\* A node whose application has persistent data is never without a storage
\* error once it has started.
AppInv == hasApp /\ phase \notin {"off", "start"} => memError

\* The network image that is not marked can be restored as it is, from the
\* moment the node starts.
NetInv ==
    phase # "off" /\ ~memError =>
        \/ ram[Net] = Durable(Net)
        \/ marked[Net] /\ phase # "rebooted"

IndInv == TypeOK /\ UpdateInv /\ AppInv /\ NetInv

-----------------------------------------------------------------------------

\* The loop goes on with a marked segment.
LEMMA ContinueType ==
  ASSUME NEW S \in SUBSET Segment, NEW m \in [Segment -> BOOLEAN],
         cur \in Segment, Continue(S, m)
  PROVE  /\ phase' \in {"enter", "reset"}
         /\ cur' \in Segment
         /\ phase' = "enter" => m[cur']
BY DEF Continue, Segment, Net, App

\* An access that fails leaves the flag set, and errors within its bound.
LEMMA FailsType ==
  ASSUME TypeOK, NEW s \in Segment, Fails(s)
  PROVE  memError' = TRUE /\ errors' \in 0 .. MaxErrors
BY PersistenceAssumption DEF TypeOK, Fails

\* Logging an error marks segments and unmarks none.
LEMMA LogErrorType ==
  ASSUME TypeOK, NEW status \in Status, LogError(status, marked)
  PROVE  /\ marked' \in [Segment -> BOOLEAN]
         /\ \A s \in Segment : marked[s] => marked'[s]
         /\ scheduled' \in BOOLEAN /\ guardOver' \in BOOLEAN
         /\ errorLog' \in Status
BY DEF TypeOK, LogError, Segment, Net

\* Marking is marking.
LEMMA MarkType ==
  ASSUME TypeOK, NEW S \in SUBSET Segment, MarkAndSchedule(S)
  PROVE  /\ marked' \in [Segment -> BOOLEAN]
         /\ \A s \in Segment : marked[s] \/ s \in S => marked'[s]
         /\ scheduled' \in BOOLEAN /\ guardOver' \in BOOLEAN
BY DEF TypeOK, MarkAndSchedule

-----------------------------------------------------------------------------

\* A node that was never started has nothing in storage.
LEMMA InitInv == Init => IndInv
<1> SUFFICES ASSUME Init PROVE IndInv
  OBVIOUS
<1>1. /\ hasApp \in BOOLEAN /\ errorLog \in Status
      /\ errors \in 0 .. MaxErrors /\ crashes \in 0 .. MaxCrashes
  BY PersistenceAssumption DEF Init, Status
<1>2. /\ ram \in [Segment -> Value]
      /\ tx \in [Segment -> {"blank", "invalid", "valid"}]
      /\ data \in [Segment -> Value \union {Torn}]
      /\ marked \in [Segment -> BOOLEAN]
  BY PersistenceAssumption DEF Init
<1>3. TypeOK
  BY <1>1, <1>2 DEF Init, TypeOK, Off, Storing, Segment
<1> QED
  BY <1>3 DEF Init, IndInv, UpdateInv, AppInv, NetInv

\* LCS_Service and the application change only what they mark.
LEMMA ServiceInv ==
  ASSUME IndInv, NEW S \in SUBSET Segment, NEW flush \in BOOLEAN, NEW reset \in BOOLEAN,
         Service(S, flush, reset)
  PROVE  IndInv'
<1> USE DEF IndInv
<1>1. ram' \in [Segment -> Value] /\ \A s \in Segment \ S : ram'[s] = ram[s]
  BY DEF Service, TypeOK
<1>2. TypeOK'
  BY <1>1, MarkType DEF Service, TypeOK, Off, Storing, storage
<1>3. UpdateInv'
  BY DEF Service, UpdateInv, storage
<1>4. NetInv'
  BY <1>1, MarkType DEF Service, NetInv, Durable, Segment, storage
<1> QED
  BY <1>2, <1>3, <1>4 DEF Service, AppInv

\* The commit starts with a marked segment.
LEMMA CommitCheckInv == ASSUME IndInv, CommitCheck PROVE IndInv'
<1> USE DEF IndInv
<1>1. /\ phase' \in {"enter", "reset"} /\ cur' \in Segment
      /\ phase' = "enter" => marked[cur']
      /\ scheduled' \in BOOLEAN
  <2>1. CASE scheduled /\ (guardOver \/ commitFlag)
    BY <2>1, ContinueType DEF CommitCheck, StopTimer, TypeOK
  <2>2. CASE ~(scheduled /\ (guardOver \/ commitFlag))
    BY <2>2 DEF CommitCheck, TypeOK
  <2> QED
    BY <2>1, <2>2
<1>2. TypeOK'
  BY <1>1 DEF CommitCheck, TypeOK, Off, Storing, storage
<1> QED
  BY <1>1, <1>2 DEF CommitCheck, UpdateInv, AppInv, NetInv, Durable, storage

\* An access that succeeds is one to the network image of a node without
\* persistent application data.
LEMMA SucceedsInv ==
  ASSUME IndInv, phase \in Storing, Succeeds(cur)
  PROVE  cur = Net /\ ~hasApp /\ ~memError /\ marked[Net]
BY DEF Succeeds, IndInv, TypeOK, AppInv, Storing

\* A failure that is logged and goes on at p leaves storage as it is.
LEMMA FailAndGoToInv ==
  ASSUME IndInv, phase \in Storing, NEW p \in {"open", "exit"}, FailAndGoTo(p),
         UNCHANGED <<ram, doReset, hasApp, crashes>>
  PROVE  IndInv'
<1> USE DEF IndInv
<1>1. cur \in Segment /\ "access" \in Status
  BY DEF TypeOK, Status
<1>2. TypeOK'
  BY <1>1, FailsType, LogErrorType DEF FailAndGoTo, TypeOK, Storing, Off, storage
<1> QED
  BY <1>1, <1>2, FailsType DEF FailAndGoTo, UpdateInv, AppInv, NetInv, storage

\* The transaction record is made invalid.
LEMMA StartSegUpdateInv == ASSUME IndInv, StartSegUpdate PROVE IndInv'
<1>1. phase \in Storing
  BY DEF StartSegUpdate, Storing
<1>2. CASE Succeeds(cur) /\ phase' = "open"
  <2> USE <1>2, SucceedsInv DEF IndInv
  <2>1. tx' \in [Segment -> {"blank", "invalid", "valid"}]
    BY <1>1 DEF StartSegUpdate, FailAndGoTo, TypeOK, Succeeds, Fails, storage
  <2> QED
    BY <1>1, <2>1 DEF StartSegUpdate, FailAndGoTo, Fails, TypeOK, UpdateInv, AppInv, NetInv,
                      Succeeds, schedule, Storing, Off, storage
<1> QED
  BY <1>1, <1>2, FailAndGoToInv DEF StartSegUpdate

\* The transaction record is erased before anything is written.
LEMMA OpenSegForWriteInv == ASSUME IndInv, OpenSegForWrite PROVE IndInv'
<1>1. phase \in Storing
  BY DEF OpenSegForWrite, Storing
<1>2. CASE Succeeds(cur) /\ phase' = "header"
  <2> USE <1>2, SucceedsInv DEF IndInv
  <2>1. /\ tx' = [tx EXCEPT ![cur] = "blank"]
        /\ UNCHANGED <<cur, data, schedule, errorLog, ram, doReset, hasApp, crashes>>
    BY <1>1 DEF OpenSegForWrite, FailAndGoTo
  <2> QED
    BY <1>1, <2>1 DEF TypeOK, UpdateInv, AppInv, NetInv, Succeeds, schedule, Storing
<1> QED
  BY <1>1, <1>2, FailAndGoToInv DEF OpenSegForWrite

\* After a write that fails the loop goes on with the next segment.
LEMMA WriteFailsInv ==
  ASSUME IndInv, phase \in {"header", "image"}, WriteFails,
         data' \in {data, [data EXCEPT ![cur] = Torn]},
         UNCHANGED <<ram, doReset, hasApp, crashes>>
  PROVE  IndInv'
<1> USE DEF IndInv
<1>1. cur \in Segment /\ After(cur) \in SUBSET Segment
  BY DEF TypeOK, After, Segment
<1>2. memError' = TRUE /\ errors' \in 0 .. MaxErrors
  BY <1>1, FailsType DEF WriteFails
<1>3. marked' \in [Segment -> BOOLEAN] /\ errorLog' \in Status
  BY DEF WriteFails, TypeOK, Status
<1>4. phase' \in {"enter", "reset"} /\ cur' \in Segment /\ (phase' = "enter" => marked'[cur'])
  BY <1>1, <1>3, ContinueType DEF WriteFails
<1>5. data' \in [Segment -> Value \union {Torn}]
  BY <1>1 DEF TypeOK
<1>6. TypeOK'
  BY <1>2, <1>3, <1>4, <1>5 DEF WriteFails, TypeOK, Storing, Off
<1>7. UpdateInv'
  BY <1>1, <1>2, <1>4, <1>5 DEF WriteFails, UpdateInv, TypeOK
<1> QED
  BY <1>2, <1>6, <1>7 DEF AppInv, NetInv

\* The header is written while the transaction record is erased.
LEMMA WriteHeaderInv == ASSUME IndInv, WriteHeader PROVE IndInv'
<1>1. phase \in Storing /\ phase \in {"header", "image"}
  BY DEF WriteHeader, Storing
<1>2. CASE Succeeds(cur) /\ phase' = "image"
  <2> USE <1>2, SucceedsInv DEF IndInv
  <2>1. /\ data' = [data EXCEPT ![cur] = Torn]
        /\ UNCHANGED <<cur, tx, schedule, errorLog, ram, doReset, hasApp, crashes>>
    BY <1>1 DEF WriteHeader, WriteFails, Fails, Succeeds
  <2> QED
    BY <1>1, <2>1 DEF WriteHeader, TypeOK, UpdateInv, AppInv, NetInv, Durable, Succeeds,
                      schedule, Storing
<1> QED
  BY <1>1, <1>2, WriteFailsInv DEF WriteHeader

\* So is the data.
LEMMA WriteImageInv == ASSUME IndInv, WriteImage PROVE IndInv'
<1>1. phase \in Storing /\ phase \in {"header", "image"}
  BY DEF WriteImage, Storing
<1>2. CASE Succeeds(cur) /\ phase' = "exit"
  <2> USE <1>2, SucceedsInv DEF IndInv
  <2>1. /\ data' = [data EXCEPT ![cur] = ram[cur]]
        /\ UNCHANGED <<cur, tx, schedule, errorLog, ram, doReset, hasApp, crashes>>
    BY <1>1 DEF WriteImage, WriteFails, Fails, Succeeds
  <2> QED
    BY <1>1, <2>1 DEF WriteImage, TypeOK, UpdateInv, AppInv, NetInv, Durable, Succeeds,
                      schedule, Storing
<1> QED
  BY <1>1, <1>2, WriteFailsInv DEF WriteImage

\* The segment is declared valid and unmarked, or storage has failed.
LEMMA FinishSegUpdateInv == ASSUME IndInv, FinishSegUpdate PROVE IndInv'
<1> USE DEF IndInv
<1>1. /\ phase = "exit" /\ phase \in Storing /\ cur \in Segment
      /\ After(cur) \in SUBSET Segment
  BY DEF FinishSegUpdate, Storing, TypeOK, After, Segment
<1>2. marked' \in [Segment -> BOOLEAN] /\ errorLog' \in Status
  BY <1>1 DEF FinishSegUpdate, TypeOK, Status
<1>3. phase' \in {"enter", "reset"} /\ cur' \in Segment /\ (phase' = "enter" => marked'[cur'])
  BY <1>1, <1>2, ContinueType DEF FinishSegUpdate, Stored
<1>4. memError' \in BOOLEAN /\ errors' \in 0 .. MaxErrors
  BY <1>1, FailsType DEF FinishSegUpdate, Succeeds, TypeOK
<1>5. tx' \in [Segment -> {"blank", "invalid", "valid"}] /\ data' = data
  BY DEF FinishSegUpdate, TypeOK
<1>6. TypeOK'
  BY <1>2, <1>3, <1>4, <1>5
     DEF FinishSegUpdate, Stored, StopTimer, TypeOK, Storing, Off
<1>7. CASE Succeeds(cur) /\ tx' = [tx EXCEPT ![cur] = "valid"]
  <2>1. cur = Net /\ ~memError /\ ~hasApp
    BY <1>1, <1>7, SucceedsInv
  <2>2. data[Net] = ram[Net] /\ ram[Net] \in Value /\ tx'[Net] = "valid" /\ tx'[App] = tx[App]
    BY <1>1, <1>7, <2>1 DEF UpdateInv, TypeOK, Segment, Net, App
  <2>3. NetInv'
    BY <1>5, <2>2 DEF FinishSegUpdate, NetInv, Durable
  <2>4. UpdateInv'
    BY <1>3, <1>5, <2>2 DEF UpdateInv, Segment
  <2> QED
    BY <1>6, <2>1, <2>3, <2>4 DEF FinishSegUpdate, AppInv
<1>8. CASE Fails(cur) /\ tx' = tx
  BY <1>3, <1>5, <1>6, <1>8 DEF Fails, UpdateInv, AppInv, NetInv
<1> QED
  BY <1>7, <1>8 DEF FinishSegUpdate

\* The node restarts for a reset only when nothing is marked.
LEMMA ResetCheckInv == ASSUME IndInv, ResetCheck PROVE IndInv'
BY DEF IndInv, ResetCheck, TypeOK, UpdateInv, AppInv, NetInv, Durable, storage,
       Storing, Off, Segment

\* A loss of power leaves storage as it is.
LEMMA CrashInv == ASSUME IndInv, Crash PROVE IndInv'
BY PersistenceAssumption
   DEF IndInv, Crash, TypeOK, UpdateInv, AppInv, NetInv, storage, schedule, Storing, Off

\* The timer says nothing about contents.
LEMMA GuardBandOverInv == ASSUME IndInv, GuardBandOver PROVE IndInv'
BY DEF IndInv, GuardBandOver, TypeOK, UpdateInv, AppInv, NetInv, Durable, storage

\* What is restored is whole; what is not restored is marked.
LEMMA InitEEPROMInv == ASSUME IndInv, InitEEPROM PROVE IndInv'
<1> USE DEF IndInv
<1>1. PICK readable \in BOOLEAN :
        LET restored == readable /\ Durable(Net) # Lost
        IN  /\ memError' = ~readable
            /\ IF readable THEN UNCHANGED errors
               ELSE errors < MaxErrors /\ errors' = errors + 1
            /\ ram' = [s \in Segment |->
                          IF restored /\ s = Net THEN Durable(Net) ELSE Default]
            /\ errorLog' \in IF restored THEN Status ELSE {"none"}
            /\ marked' = [s \in Segment |-> s = Net /\ ~restored]
            /\ scheduled' = ~restored
  BY DEF InitEEPROM
<1>2. Net \in Segment /\ (Durable(Net) # Lost => Durable(Net) \in Value)
  BY DEF UpdateInv, Durable, Segment
<1>3. ram' \in [Segment -> Value] /\ marked' \in [Segment -> BOOLEAN]
  BY <1>1, <1>2, PersistenceAssumption
<1>4. errors' \in 0 .. MaxErrors
  BY <1>1, PersistenceAssumption DEF TypeOK
<1>5. TypeOK'
  BY <1>1, <1>3, <1>4 DEF InitEEPROM, TypeOK, Status, Storing, Off, storage
<1>6. NetInv'
  BY <1>1, <1>2 DEF InitEEPROM, NetInv, Durable, storage
<1> QED
  BY <1>5, <1>6 DEF InitEEPROM, UpdateInv, AppInv, storage

\* A node with persistent application data starts with a storage error.
LEMMA IzotStartStackInv == ASSUME IndInv, IzotStartStack PROVE IndInv'
<1> USE DEF IndInv
<1>1. CASE hasApp
  <2>1. /\ App \in Segment /\ Net \in Segment /\ Segment \in SUBSET Segment
        /\ "access" \in Status
    BY DEF Segment, Status
  <2>2. ram' \in [Segment -> Value]
    BY <1>1 DEF IzotStartStack, TypeOK
  <2>3. memError' = TRUE /\ errors' \in 0 .. MaxErrors
    BY <1>1, <2>1, FailsType DEF IzotStartStack
  <2>4. TypeOK'
    BY <1>1, <2>1, <2>2, <2>3, MarkType DEF IzotStartStack, TypeOK, Storing, Off, storage
  <2> QED
    BY <2>3, <2>4 DEF IzotStartStack, UpdateInv, AppInv, NetInv, storage
<1>2. CASE ~hasApp
  BY <1>2 DEF IzotStartStack, TypeOK, UpdateInv, AppInv, NetInv, Durable, Storing, Off, storage
<1> QED
  BY <1>1, <1>2

\* Every step keeps all of it.
LEMMA NextInv == IndInv /\ [Next]_vars => IndInv'
<1> SUFFICES ASSUME IndInv, [Next]_vars PROVE IndInv'
  OBVIOUS
<1>1. CASE ServiceStep
  BY <1>1, ServiceInv DEF ServiceStep
<1>2. CASE StoreStep
  BY <1>2, StartSegUpdateInv, OpenSegForWriteInv, WriteHeaderInv, WriteImageInv,
     FinishSegUpdateInv DEF StoreStep
<1>3. CASE UNCHANGED vars
  BY <1>3 DEF vars, storage, schedule, IndInv, TypeOK, UpdateInv, AppInv, NetInv, Durable
<1> QED
  BY <1>1, <1>2, <1>3, CommitCheckInv, ResetCheckInv, InitEEPROMInv, IzotStartStackInv,
     GuardBandOverInv, CrashInv DEF Next, PumpStep, StartStep

\* The segment that is being stored is a marked one, and storage holds whole
\* segments, torn ones or none (IzotPersistentMemCommit, IzotHal.c).
THEOREM TypeCorrect == Spec => []TypeOK
<1>1. IndInv => TypeOK
  BY DEF IndInv
<1> QED
  BY <1>1, InitInv, NextInv, PTL DEF Spec

\* A segment that a running node has not marked can be restored as it is, and a
\* node restarts for a reset only with all of its image stored, whatever was
\* changed, committed or lost before, as long as storage works.
THEOREM UnmarkedStaysStored == Spec => []UnmarkedIsStored
<1>1. IndInv => UnmarkedIsStored
  BY DEF IndInv, AppInv, NetInv, UnmarkedIsStored, Segment
<1> QED
  BY <1>1, InitInv, NextInv, PTL DEF Spec

-----------------------------------------------------------------------------

\* Storage that was never written restores nothing.
LEMMA InitRefines == Init => Store!StoreInit
BY DEF Init, Store!StoreInit, Durable, Off

\* Only the two updates of the transaction record change what can be restored:
\* the first takes the old contents away, the last brings the new ones, whole.
LEMMA StoreStepRefines ==
  ASSUME IndInv, StoreStep
  PROVE  Store!StoreNext \/ UNCHANGED Store!storeVars
<1> USE DEF IndInv
<1>1. /\ phase \in Storing /\ phase' \in Storing \union {"reset"} /\ cur \in Segment
      /\ phase \notin Off /\ phase' \notin Off /\ ram' = ram
  BY ContinueType DEF StoreStep, StartSegUpdate, OpenSegForWrite, WriteHeader, WriteImage,
     FinishSegUpdate, FailAndGoTo, WriteFails, Stored, Continue, TypeOK, Storing, Off
<1>2. CASE tx' = tx /\ \A s \in Segment : tx[s] = "valid" => data'[s] = data[s]
  BY <1>1, <1>2 DEF Store!storeVars, Durable
<1>3. CASE tx' \in {[tx EXCEPT ![cur] = "invalid"], [tx EXCEPT ![cur] = "blank"]} /\ data' = data
  <2>1. tx'[cur] # "valid" /\ \A s \in Segment \ {cur} : tx'[s] = tx[s] /\ data'[s] = data[s]
    <3>1. tx \in [Segment -> {"blank", "invalid", "valid"}]
      BY DEF TypeOK
    <3>2. CASE tx' = [tx EXCEPT ![cur] = "invalid"]
      BY <1>1, <1>3, <3>1, <3>2
    <3>3. CASE tx' = [tx EXCEPT ![cur] = "blank"]
      BY <1>1, <1>3, <3>1, <3>3
    <3> QED
      BY <1>3, <3>2, <3>3
  <2>2. \A s \in Segment : Durable(s)' = IF s = cur THEN Lost ELSE Durable(s)
    BY <2>1 DEF Durable
  <2>3. [s \in Segment |-> Durable(s)]' =
          [[s \in Segment |-> Durable(s)] EXCEPT ![cur] = Lost]
    BY <1>1, <2>2
  <2> QED
    BY <1>1, <2>3 DEF Store!StoreNext, Store!BeginStore
<1>4. CASE FinishSegUpdate /\ Succeeds(cur) /\ tx' = [tx EXCEPT ![cur] = "valid"]
  <2>1. data' = data /\ data[cur] = ram[cur] /\ tx[cur] = "blank"
    BY <1>4 DEF FinishSegUpdate, Succeeds, UpdateInv
  <2> QED
    BY <1>1, <1>4, <2>1 DEF Store!StoreNext, Store!EndStore, Durable, TypeOK
<1> QED
  BY <1>1, <1>2, <1>3, <1>4
     DEF StoreStep, StartSegUpdate, OpenSegForWrite, WriteHeader, WriteImage,
         FinishSegUpdate, FailAndGoTo, WriteFails, UpdateInv, TypeOK, storage

\* Starting restores segments that are whole, or their defaults.
LEMMA InitEEPROMRefines == ASSUME IndInv, InitEEPROM PROVE Store!StoreNext
<1> USE DEF IndInv
<1>1. ram' \in [Segment -> Value]
  BY InitEEPROMInv DEF TypeOK
<1>2. \A s \in Segment : ram'[s] \in {Default, Durable(s)}
  BY DEF InitEEPROM
<1>3. UNCHANGED [s \in Segment |-> Durable(s)]
  BY DEF InitEEPROM, Durable, storage
<1> QED
  BY <1>1, <1>2, <1>3 DEF InitEEPROM, Store!StoreNext, Store!PowerUp, Off

\* What else changes the node's data does not change what can be restored.
LEMMA UpdateRefines ==
  ASSUME IndInv, ServiceStep \/ IzotStartStack
  PROVE  Store!StoreNext
<1>1. phase \notin Off /\ phase' \notin Off /\ UNCHANGED storage
  BY DEF ServiceStep, Service, IzotStartStack, Off
<1>2. ram' \in [Segment -> Value]
  BY ServiceInv, IzotStartStackInv DEF ServiceStep, IndInv, TypeOK
<1> QED
  BY <1>1, <1>2 DEF Store!StoreNext, Store!Update, Durable, storage

\* The node goes down by losing power or by the reset that was asked for.
LEMMA DownRefines ==
  ASSUME Crash \/ ResetCheck
  PROVE  Store!StoreNext \/ UNCHANGED Store!storeVars
BY DEF Crash, ResetCheck, Store!StoreNext, Store!PowerDown, Store!storeVars, Durable,
       Off, storage

\* Whatever access to storage fails or is the last before a loss of power, a
\* restart restores the segment that was stored last or its default, and the
\* default if storing it was cut off.
THEOREM PersistenceIsDurable == Spec => ImplementsDurableStore
<1>1. IndInv /\ [Next]_vars => [Store!StoreNext]_(Store!storeVars)
  <2> SUFFICES ASSUME IndInv, [Next]_vars PROVE [Store!StoreNext]_(Store!storeVars)
    OBVIOUS
  <2>1. CASE ServiceStep \/ IzotStartStack
    BY <2>1, UpdateRefines
  <2>2. CASE StoreStep
    BY <2>2, StoreStepRefines
  <2>3. CASE InitEEPROM
    BY <2>3, InitEEPROMRefines
  <2>4. CASE Crash \/ ResetCheck
    BY <2>4, DownRefines
  <2>5. CASE CommitCheck \/ GuardBandOver \/ UNCHANGED vars
    <3>1. UNCHANGED <<ram, storage>> /\ (phase \in Off <=> phase' \in Off)
      BY <2>5 DEF CommitCheck, Continue, GuardBandOver, vars, Off, schedule
    <3> QED
      BY <3>1 DEF Store!storeVars, Durable, storage
  <2> QED
    BY <2>1, <2>2, <2>3, <2>4, <2>5 DEF Next, PumpStep, StartStep
<1> QED
  BY <1>1, InitInv, NextInv, InitRefines, PTL
     DEF Spec, ImplementsDurableStore, Store!StoreSpec
=============================================================================
