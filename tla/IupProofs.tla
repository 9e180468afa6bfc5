------------------------------ MODULE IupProofs ------------------------------
(***************************************************************************)
(* For every number of updates and of packets, and wherever power fails:   *)
(* the node never runs an image that is not whole, one that was confirmed  *)
(* is stored, and a manager is told "done" when its image runs.            *)
(***************************************************************************)
EXTENDS Iup, FiniteSetTheorems, TLAPS

\* The operation a running handler comes to next, and the one it will end with.
FirstOp(operations) == IF operations = <<>> THEN "none" ELSE Head(operations).op
LastOp(operations) == IF operations = <<>> THEN "none" ELSE operations[Len(operations)].op

Initialising == LastOp(todo) = "init data"
Erasing == LastOp(todo) = "erase block"
Writing == LastOp(todo) = "mark"
SwitchingOver == LastOp(todo) = "reboot"
Activating == SwitchingOver /\ FirstOp(todo) = "set active"
Activated == SwitchingOver /\ FirstOp(todo) # "set active"

Idle == todo = <<>>
Busy(operations) == todo = operations
Transferring == manager.step = "transfer" /\ "init" \notin timers

\* What is left of each handler, and what it has done by then.
BeginsUpdate ==
    /\ \/ Busy(<<EraseIupPersistData, ErasePartition, WriteInitData>>)
       \/ Busy(<<ErasePartition, WriteInitData>>) /\ flash = ErasedBlock
       \/ Busy(<<WriteInitData>>) /\ flash = ErasedBlock
    /\ manager.step \in {"transfer", "refused"} /\ timers \subseteq {"switch"}
    /\ count = 0 /\ ~validated /\ data.confirmed = 0

ErasesBlock ==
    /\ Busy(<<EraseIupPersistData>>) /\ (Transferring => count = 0)
    /\ manager.step \notin {"confirmed", "validated"}

StoresPacket(p) ==
    /\ \/ Busy(<<WritePacket(p), MarkPacket(p)>>)
       \/ Busy(<<MarkPacket(p)>>) /\ passive[p] # Erased
    /\ Transferring /\ "switch" \notin timers
    /\ data.session \in Sessions

Confirms ==
    /\ Busy(<<WriteFlag("confirmed")>>) /\ manager.step \in {"transfer", "confirmed"}
    /\ reconnects = 0 => flash.marks = Packets

IsSecondary == Busy(<<WriteFlag("secondary")>>) /\ manager.step \in {"validated", "switched"}

SwitchesOver ==
    /\ \/ Busy(<<SetActive, Reboot>>) \/ Busy(<<SetActive, WriteFlag("commitDone"), Reboot>>)
       \/ Busy(<<WriteFlag("commitDone"), Reboot>>) \/ Busy(<<Reboot>>)
    /\ manager.step \notin {"confirmed", "done"}

TodoInv ==
    \/ Idle \/ BeginsUpdate \/ ErasesBlock
    \/ \E p \in Packets \ flash.marks : StoresPacket(p)
    \/ Confirms \/ IsSecondary \/ SwitchesOver

\* The timers that can run at each step of the manager.
TimersInv ==
    /\ manager.step = "transfer" => timers \subseteq {"init", "switch"}
    /\ manager.step = "confirmed" => timers \subseteq {"validate", "md5"}
    /\ manager.step \in {"validated", "switched"} => timers \subseteq {"switch"}
    /\ manager.step \in {"secondary", "done"} => timers \subseteq {"commit"}
    /\ \/ timers \subseteq {"init", "switch"}
       \/ timers \subseteq {"validate", "md5"}
       \/ timers \subseteq {"commit"}
    /\ timers \cap {"validate", "md5"} # {} => Idle

\* No session is ahead of the manager's, and one that has not begun is stored nowhere.
SessionInv ==
    /\ manager.step # "refused" => manager.session # 0
    /\ data.session <= manager.session
    /\ flash.valid => flash.session <= manager.session
    /\ "init" \in timers /\ flash.valid => flash.session # manager.session

\* What as many connections can add to the count.
Recounted(connections) == connections * Cardinality(Packets)

\* Packets that are marked are stored, and counted.
CountInv ==
    /\ \A p \in flash.marks : passive[p] # Erased
    /\ count <= Cardinality(Packets) + Recounted(reconnects)
    /\ Transferring /\ data.session = manager.session /\ ~Initialising /\ ~Erasing /\ ~SwitchingOver
       => LET counted == Cardinality(flash.marks) + IF Writing THEN 1 ELSE 0
          IN /\ count <= counted + Recounted(reconnects)
             /\ reconnects = 0 => count = counted

ConfirmedInv ==
    reconnects = 0 /\ 1 \in {data.confirmed, flash.confirmed}
        => \A p \in Packets : passive[p] # Erased

\* A digest is of what is stored, and is compared with the manager's.
DigestInv ==
    /\ manager.step = "transfer" => "init" \in timers \/ ~validated
    /\ manager.step = "confirmed" =>
          /\ validated \/ timers # {} => digest = manager.session
          /\ "md5" \in timers => \A i \in 1 .. Len(read) : read[i] = passive[i]
          /\ validated /\ digestmatch /\ timers = {} => Image(passive) = manager.session

\* What was validated, and is to be switched over to or committed, is in the passive partition.
ImageInv ==
    /\ manager.step \in {"validated", "switched", "secondary"} /\ ~Activated
         /\ (validated \/ (data.session = manager.session /\ data.commitDone = 0))
       => Image(passive) = manager.session
    /\ "switch" \in timers /\ validated /\ ~Activated
       => Image(passive) # Bad /\ (Image(passive) = manager.session \/ "init" \in timers)
    /\ "commit" \in timers /\ data.commitDone = 0
       => manager.step = "secondary" /\ data.session = manager.session /\ data.secondary # 0

\* What is switched over to is whole, and is the manager's when the block of the update says so.
ActiveInv ==
    LET stored == flash.valid /\ flash.session = manager.session
    IN  /\ active \notin {Bad, Erased}
        /\ Activating => Image(passive) # Bad /\ (stored => Image(passive) = manager.session)
        /\ Activated => (stored => active = manager.session)
        /\ manager.step \notin {"refused", "done"} /\ ~disturbed /\ data.session = manager.session
             /\ data.commitDone # 0 /\ "init" \notin timers /\ ~SwitchingOver
           => active = manager.session
        /\ DoneMeansActive

IndInv ==
    /\ TypeOK /\ TodoInv /\ TimersInv /\ SessionInv /\ CountInv /\ ConfirmedInv
    /\ DigestInv /\ ImageInv /\ ActiveInv

-----------------------------------------------------------------------------
(* Images, marks and operations.                                           *)

LEMMA Constants ==
  /\ Sessions \subseteq Nat \ {0} /\ MaxReconnects \in Nat /\ Cardinality(Packets) \in Nat
  /\ Erased \notin Sessions \cup {Mixed, Factory, Bad} /\ Bad \notin Sessions \cup {Factory}
BY IupAssumption, FS_CardinalityType

LEMMA FirstPacket == 1 \in Packets
BY IupAssumption, FS_CardinalityType

LEMMA SessionsAreNat ==
  ASSUME TypeOK
  PROVE  manager.session \in Nat /\ flash.session \in Nat /\ data.session \in Nat
<1>1. {manager.session, flash.session, data.session} \subseteq Sessions \cup {0}
  BY DEF TypeOK
<1>2. \A x \in Sessions \cup {0} : x \in Nat
  BY Constants
<1> QED
  BY <1>1, <1>2

LEMMA ImageType ==
  ASSUME NEW f
  PROVE  Image(f) \in Sessions \cup {Bad} /\ (Image(f) # Bad => Image(f) \in Sessions)
BY IupAssumption, FS_CardinalityType DEF Image

LEMMA ImageSame ==
  ASSUME NEW f, NEW g, \A p \in Packets : f[p] = g[p]
  PROVE  Image(f) = Image(g)
BY IupAssumption, FS_CardinalityType DEF Image

LEMMA MarksCount ==
  ASSUME NEW s \in SUBSET Packets
  PROVE  /\ Cardinality(s) \in 0 .. Cardinality(Packets) /\ Cardinality(Packets) \in Nat
         /\ Cardinality(s) = Cardinality(Packets) => s = Packets
         /\ \A p \in Packets \ s : /\ Cardinality(s \cup {p}) = Cardinality(s) + 1
                                   /\ Cardinality(s) < Cardinality(Packets)
         /\ Cardinality({}) = 0
<1>1. IsFiniteSet(Packets) /\ IsFiniteSet(s)
  BY IupAssumption, FS_Subset
<1>2. \A p \in Packets \ s : Cardinality(s \cup {p}) = Cardinality(s) + 1
  BY <1>1, FS_AddElement
<1>3. \A p \in Packets \ s : Cardinality(s) < Cardinality(Packets)
  <2> TAKE p \in Packets \ s
  <2>1. IsFiniteSet(s \cup {p}) /\ Cardinality(s \cup {p}) <= Cardinality(Packets)
    BY <1>1, FS_Subset
  <2> QED
    BY <1>1, <1>2, <2>1, FS_CardinalityType
<1>4. Cardinality(s) <= Cardinality(Packets) /\ (Cardinality(s) = Cardinality(Packets) => s = Packets)
  BY <1>1, FS_Subset
<1> QED
  BY <1>1, <1>2, <1>3, <1>4, FS_CardinalityType, FS_EmptySet

LEMMA RecountedIs ==
  ASSUME NEW r \in 0 .. MaxReconnects
  PROVE  /\ Recounted(r) \in Nat /\ Recounted(0) = 0
         /\ Recounted(r + 1) = Recounted(r) + Cardinality(Packets)
<1> DEFINE n == Cardinality(Packets)
<1>1. r \in Nat /\ n \in Nat
  BY Constants
<1> HIDE DEF n
<1>2. r * n \in Nat /\ 0 * n = 0 /\ (r + 1) * n = r * n + n
  BY <1>1
<1> QED
  BY <1>2 DEF Recounted, n

\* A count that is bounded with what connections added keeps to its type.
LEMMA CountBound ==
  ASSUME NEW c \in Nat, NEW r \in 0 .. MaxReconnects, c <= Cardinality(Packets) + Recounted(r)
  PROVE  c \in 0 .. MaxCount
<1> DEFINE n == Cardinality(Packets)
           k == MaxReconnects + 1 - r
<1>1. k \in Nat /\ n \in Nat /\ MaxReconnects + 2 = (r + 1) + k /\ r \in Nat
  BY Constants
<1> HIDE DEF k, n
<1>2. k * n \in Nat /\ (r + 1) * n \in Nat /\ ((r + 1) + k) * n = (r + 1) * n + k * n
        /\ (r + 1) * n = n + r * n
  BY <1>1
<1>3. c <= n + r * n
  BY DEF Recounted, n
<1>4. c <= (MaxReconnects + 2) * n
  BY <1>1, <1>2, <1>3
<1>5. (MaxReconnects + 2) * n \in Nat
  BY <1>1, <1>2
<1> QED
  BY <1>4, <1>5 DEF n, MaxCount

LEMMA Operations ==
  /\ EraseIupPersistData.op = "erase block" /\ ErasePartition.op = "erase partition"
  /\ WriteInitData.op = "init data" /\ Reboot.op = "reboot" /\ SetActive.op = "set active"
  /\ \A p : /\ WritePacket(p).op = "packet" /\ WritePacket(p).packet = p
            /\ MarkPacket(p).op = "mark" /\ MarkPacket(p).packet = p
            /\ WritePacket(p) # Reboot /\ MarkPacket(p) # Reboot
  /\ \A f : WriteFlag(f).op = "flag" /\ WriteFlag(f).flag = f /\ WriteFlag(f) # Reboot
<1>1. /\ EraseIupPersistData.op = "erase block" /\ ErasePartition.op = "erase partition"
      /\ WriteInitData.op = "init data" /\ Reboot.op = "reboot" /\ SetActive.op = "set active"
  BY DEF EraseIupPersistData, ErasePartition, WriteInitData, Reboot, SetActive
<1>2. ASSUME NEW p
      PROVE  /\ WritePacket(p).op = "packet" /\ WritePacket(p).packet = p
             /\ MarkPacket(p).op = "mark" /\ MarkPacket(p).packet = p
             /\ WriteFlag(p).op = "flag" /\ WriteFlag(p).flag = p
  BY DEF WritePacket, MarkPacket, WriteFlag
<1>3. ASSUME NEW p
      PROVE  WritePacket(p) # Reboot /\ MarkPacket(p) # Reboot /\ WriteFlag(p) # Reboot
  BY <1>1, <1>2
<1> QED
  BY <1>1, <1>2, <1>3

\* The block once WriteInitData was carried out.
LEMMA InitDataIs ==
  ASSUME NEW s, NEW written, written = [ErasedBlock EXCEPT !.valid = TRUE, !.session = s]
  PROVE  written = [valid |-> TRUE, session |-> s, confirmed |-> 255, commitDone |-> 255,
                    secondary |-> 255, marks |-> {}]
BY DEF ErasedBlock

LEMMA FirstAndLast ==
  /\ FirstOp(<<>>) = "none" /\ LastOp(<<>>) = "none"
  /\ \A a : FirstOp(<<a>>) = a.op /\ LastOp(<<a>>) = a.op
  /\ \A a, b : FirstOp(<<a, b>>) = a.op /\ LastOp(<<a, b>>) = b.op
  /\ \A a, b, c : FirstOp(<<a, b, c>>) = a.op /\ LastOp(<<a, b, c>>) = c.op
BY DEF FirstOp, LastOp

LEMMA HeadAndTail ==
  /\ \A a : Head(<<a>>) = a /\ Tail(<<a>>) = <<>>
  /\ \A a, b : Head(<<a, b>>) = a /\ Tail(<<a, b>>) = <<b>>
  /\ \A a, b, c : Head(<<a, b, c>>) = a /\ Tail(<<a, b, c>>) = <<b, c>>
OBVIOUS

\* What holds of a handler that begins.
LEMMA IdleIs ==
  ASSUME Idle
  PROVE  /\ ~Initialising /\ ~Erasing /\ ~Writing /\ ~SwitchingOver /\ ~Activating /\ ~Activated
BY DEF Idle, Initialising, Erasing, Writing, SwitchingOver, Activating, Activated, LastOp

\* Starting, with or without a block of the update that is valid.
LEMMA RestartIs ==
  ASSUME Restarted, TypeOK
  PROVE  /\ data' = IF flash.valid THEN Stored(flash) ELSE NoData
         /\ count' = IF flash.valid THEN Cardinality(flash.marks) ELSE 0
         /\ validated' = FALSE /\ digestmatch' = FALSE /\ digest' = 0 /\ read' = <<>>
         /\ timers' = {} /\ todo' = <<>>
<1>1. Cardinality(flash.marks) \in Nat
  BY MarksCount DEF TypeOK
<1> QED
  BY <1>1 DEF Restarted, readIupPersistData

LEMMA CountedIs ==
  ASSUME IndInv, Idle, Transferring, data.session = manager.session
  PROVE  /\ Cardinality(flash.marks) \in 0 .. Cardinality(Packets) /\ Cardinality(Packets) \in Nat
         /\ Recounted(reconnects) \in Nat /\ count \in Nat
         /\ count <= Cardinality(flash.marks) + Recounted(reconnects)
         /\ reconnects = 0 => count = Cardinality(flash.marks)
<1>1. flash.marks \in SUBSET Packets /\ reconnects \in 0 .. MaxReconnects /\ count \in Nat
  BY DEF IndInv, TypeOK
<1>2. Cardinality(flash.marks) \in 0 .. Cardinality(Packets) /\ Cardinality(Packets) \in Nat
        /\ Recounted(reconnects) \in Nat
  BY <1>1, MarksCount, RecountedIs
<1>3. LET counted == Cardinality(flash.marks) + IF Writing THEN 1 ELSE 0
      IN  /\ count <= counted + Recounted(reconnects)
          /\ reconnects = 0 => count = counted
  BY IdleIs DEF IndInv, CountInv
<1>4. ~Writing
  BY IdleIs
<1> QED
  BY <1>1, <1>2, <1>3, <1>4

-----------------------------------------------------------------------------
(* Messages.                                                               *)

LEMMA InitInv == Init => IndInv
<1> SUFFICES ASSUME Init PROVE IndInv
  OBVIOUS
<1>1. TypeOK
  <2>1. 0 \in 0 .. MaxCount /\ 0 \in 0 .. MaxReconnects /\ 0 \in 0 .. MaxPowerLosses
    <3>1. 0 \in 0 .. MaxReconnects /\ 0 \in 0 .. MaxPowerLosses /\ Cardinality(Packets) \in Nat
      BY Constants, IupAssumption
    <3>2. 0 <= Cardinality(Packets) + Recounted(0)
      BY <3>1, RecountedIs
    <3> QED
      BY <3>1, <3>2, CountBound
  <2>2. <<>> \in Seq(Contents) /\ Len(<<>>) <= Cardinality(Packets)
    BY Constants
  <2>3. ErasedBlock \in [valid : BOOLEAN, session : Sessions \cup {0}, confirmed : {1, 255},
                         commitDone : {1, 255}, secondary : {1, 255}, marks : SUBSET Packets]
    BY DEF ErasedBlock
  <2>4. [p \in Packets |-> Erased] \in [Packets -> Contents] /\ Factory \in Contents
    BY DEF Contents
  <2>5. NoData \in [session : Sessions \cup {0}, confirmed : Flags, commitDone : Flags,
                    secondary : Flags]
    BY DEF NoData, Flags
  <2>6. /\ flash = ErasedBlock /\ passive = [p \in Packets |-> Erased] /\ active = Factory
        /\ data = NoData /\ count = 0 /\ read = <<>> /\ timers = {} /\ digest = 0
        /\ powerLosses = 0 /\ reconnects = 0
        /\ {validated, digestmatch, disturbed} \subseteq BOOLEAN
        /\ manager \in [session : Sessions \cup {0}, step : Steps]
    BY DEF Init, Steps
  <2> HIDE DEF Init
  <2> QED
    BY <2>1, <2>2, <2>3, <2>4, <2>5, <2>6 DEF TypeOK
<1>2. TodoInv /\ TimersInv /\ SessionInv
  BY DEF Init, TodoInv, Idle, TimersInv, SessionInv, ErasedBlock, NoData
<1>3. CountInv /\ ConfirmedInv
  BY Constants, RecountedIs, MarksCount DEF Init, CountInv, ConfirmedInv, ErasedBlock, NoData, Transferring
<1>4. DigestInv /\ ImageInv /\ ActiveInv
  BY Constants, FirstAndLast
  DEF Init, DigestInv, ImageInv, ActiveInv, DoneMeansActive, Activating, Activated, SwitchingOver
<1> QED
  BY <1>1, <1>2, <1>3, <1>4 DEF IndInv

LEMMA HandleNmeIupInitInv == ASSUME IndInv, HandleNmeIupInit PROVE IndInv'
<1> USE DEF IndInv, HandleNmeIupInit
<1>1. manager'.session = manager.session + 1 /\ manager'.step \in {"transfer", "refused"}
        /\ manager' \in [session : Sessions \cup {0}, step : Steps]
  BY DEF Steps
<1>2. data' \in [session : Sessions \cup {0}, confirmed : Flags, commitDone : Flags, secondary : Flags]
        /\ data' = [data EXCEPT !.session = manager.session + 1]
  BY DEF TypeOK
<1>3. timers \subseteq {"init", "switch"} /\ timers' = timers \cup {"init"}
  BY DEF TypeOK, Timers
<1>4. manager.session \in Nat /\ flash.session \in Nat
  BY SessionsAreNat
<1>5. TypeOK'
  BY <1>1, <1>2, <1>3 DEF TypeOK, Timers
<1>6. TodoInv' /\ TimersInv'
  BY <1>1, <1>3 DEF TodoInv, Idle, TimersInv, TypeOK
<1>7. SessionInv'
  BY <1>1, <1>2, <1>4 DEF SessionInv, TypeOK
<1>8. CountInv' /\ ConfirmedInv'
  BY <1>1, <1>2 DEF CountInv, ConfirmedInv, Transferring, TypeOK
<1>9. DigestInv' /\ ImageInv'
  BY <1>1, <1>2 DEF DigestInv, ImageInv, Activated, SwitchingOver, TypeOK
<1>10. ActiveInv'
  <2>1. ~SwitchingOver' /\ active' = active /\ manager'.step # "done" /\ "init" \in timers'
    BY <1>1, IdleIs DEF Idle, SwitchingOver
  <2> QED
    BY <2>1 DEF ActiveInv, DoneMeansActive, Activating, Activated
<1> QED
  BY <1>5, <1>6, <1>7, <1>8, <1>9, <1>10

\* A packet that is taken is not yet marked.
LEMMA HandleNmeIupTransferInv ==
  ASSUME IndInv, NEW p \in Packets, HandleNmeIupTransfer(p)
  PROVE  IndInv'
<1> USE DEF IndInv, HandleNmeIupTransfer, Asks
<1>1. p \in Packets \ flash.marks /\ Transferring /\ "switch" \notin timers /\ data.session # 0
        /\ data.session \in Sessions
  BY DEF Accepts, isPacketMissed, Transferring, SessionInv, TypeOK
<1>2. flash.marks \in SUBSET Packets /\ Cardinality(flash.marks) \in Nat
        /\ Cardinality(flash.marks) + 1 <= Cardinality(Packets) /\ Cardinality(Packets) \in Nat
  BY <1>1, MarksCount DEF TypeOK
<1>3. count <= Cardinality(flash.marks) + Recounted(reconnects)
        /\ (reconnects = 0 => count = Cardinality(flash.marks))
  BY <1>1, CountedIs DEF Idle
<1>4. count' = count + 1 /\ count' \in Nat
        /\ count' <= Cardinality(flash.marks) + 1 + Recounted(reconnects)
        /\ count' <= Cardinality(Packets) + Recounted(reconnects)
        /\ (reconnects = 0 => count' = Cardinality(flash.marks) + 1)
  <2>1. count' = count + 1
    OBVIOUS
  <2>2. count \in Nat /\ reconnects \in 0 .. MaxReconnects
    BY DEF TypeOK, MaxCount
  <2>3. Recounted(reconnects) \in Nat
    BY <2>2, RecountedIs
  <2> HIDE DEF IndInv, HandleNmeIupTransfer, Asks
  <2> QED
    BY <1>2, <1>3, <2>1, <2>2, <2>3
<1>5. count' \in 0 .. MaxCount
  BY <1>4, CountBound DEF TypeOK
<1>6. /\ UNCHANGED <<flash, passive, active, disturbed, powerLosses, reconnects>>
      /\ UNCHANGED <<data, validated, digestmatch, digest, read, timers, manager>>
  OBVIOUS
<1>7. TypeOK'
  BY <1>5, <1>6 DEF TypeOK
<1>8. TodoInv' /\ TimersInv' /\ SessionInv'
  <2>1. Busy(<<WritePacket(p), MarkPacket(p)>>)' /\ p \in Packets \ flash'.marks
          /\ Transferring' /\ "switch" \notin timers' /\ data'.session \in Sessions
    BY <1>1 DEF Busy, Transferring
  <2>2. TodoInv'
    BY <2>1 DEF TodoInv, StoresPacket
  <2> QED
    BY <1>1, <2>2 DEF TimersInv, SessionInv, Transferring
<1>9. LastOp(todo') = "mark" /\ FirstOp(todo') = "packet"
  <2>1. LastOp(<<WritePacket(p), MarkPacket(p)>>) = MarkPacket(p).op
          /\ FirstOp(<<WritePacket(p), MarkPacket(p)>>) = WritePacket(p).op
    BY FirstAndLast
  <2> QED
    BY <2>1, Operations
<1>10. CountInv' /\ ConfirmedInv'
  BY <1>4, <1>9 DEF CountInv, ConfirmedInv, Writing
<1>11. DigestInv' /\ ImageInv' /\ ActiveInv'
  BY <1>9, IdleIs DEF Idle, DigestInv, ImageInv, ActiveInv, DoneMeansActive, Activating, Activated, SwitchingOver
<1> QED
  BY <1>7, <1>8, <1>10, <1>11

\* A handler leaves what it is to remember, and perhaps a flag to be written.
LEMMA FlagTodo ==
  ASSUME NEW operations, NEW f, operations \in {<<>>, <<WriteFlag(f)>>}
  PROVE  LastOp(operations) \in {"none", "flag"}
<1>1. LastOp(<<>>) = "none" /\ LastOp(<<WriteFlag(f)>>) = WriteFlag(f).op
  BY FirstAndLast
<1> QED
  BY <1>1, Operations

LEMMA HandleNmeIupConfirmInv == ASSUME IndInv, HandleNmeIupConfirm PROVE IndInv'
<1> USE DEF IndInv
<1>1. /\ Idle /\ Transferring /\ timers = {} /\ data.session = manager.session /\ ~validated
      /\ manager.step = "transfer"
      /\ UNCHANGED <<flash, passive, active, disturbed, powerLosses, reconnects>>
      /\ UNCHANGED <<count, validated, digestmatch, digest, read, timers>>
  BY DEF HandleNmeIupConfirm, Asks, Idle, Transferring, TimersInv, DigestInv
<1>2. /\ manager'.session = manager.session /\ manager'.step \in {"transfer", "refused", "confirmed"}
      /\ manager' \in [session : Sessions \cup {0}, step : Steps]
  BY <1>1 DEF HandleNmeIupConfirm, Learns, TypeOK, Steps
<1>3. \/ data' = data /\ todo' = <<>>
      \/ /\ count = Cardinality(Packets)
         /\ data' = [data EXCEPT !.confirmed = 1] /\ todo' = <<WriteFlag("confirmed")>>
         /\ manager'.step \in {"transfer", "confirmed"}
  BY <1>1 DEF HandleNmeIupConfirm, Learns, Idle, TypeOK
<1>4. data' \in [session : Sessions \cup {0}, confirmed : Flags, commitDone : Flags, secondary : Flags]
        /\ data'.session = data.session /\ data'.commitDone = data.commitDone
        /\ data'.secondary = data.secondary /\ (data'.confirmed # 1 => data' = data)
  BY <1>3 DEF TypeOK, Flags
<1>5. LastOp(todo') \in {"none", "flag"}
  BY <1>3, FlagTodo
<1>6. /\ Cardinality(flash.marks) \in Nat /\ Recounted(reconnects) \in Nat
      /\ count <= Cardinality(flash.marks) + Recounted(reconnects)
      /\ reconnects = 0 => count = Cardinality(flash.marks)
  BY <1>1, CountedIs
<1>7. reconnects = 0 /\ count = Cardinality(Packets) => flash.marks = Packets
  BY <1>6, MarksCount DEF TypeOK
<1>8. TypeOK'
  BY <1>1, <1>2, <1>4 DEF TypeOK
<1>9. TodoInv'
  BY <1>1, <1>3, <1>7 DEF TodoInv, Idle, Confirms, Busy
<1>10. TimersInv' /\ SessionInv'
  BY <1>1, <1>2, <1>4 DEF TimersInv, SessionInv, Transferring
<1>11. CountInv'
  <2>1. ~Writing'
    BY <1>5 DEF Writing
  <2> QED
    BY <1>1, <1>6, <2>1 DEF CountInv
<1>12. ConfirmedInv'
  BY <1>1, <1>3, <1>7 DEF CountInv, ConfirmedInv, TypeOK
<1>13. DigestInv' /\ ImageInv'
  BY <1>1, <1>2, <1>4, <1>5 DEF DigestInv, ImageInv, Activated, SwitchingOver
<1>14. ActiveInv'
  BY <1>1, <1>2, <1>4, <1>5, IdleIs
  DEF ActiveInv, DoneMeansActive, Activating, Activated, SwitchingOver, Transferring
<1> QED
  BY <1>8, <1>9, <1>10, <1>11, <1>13, <1>14, <1>12

LEMMA HandleNmeIupValidateInv == ASSUME IndInv, HandleNmeIupValidate PROVE IndInv'
<1> USE DEF IndInv
<1>1. /\ Idle /\ manager.step = "confirmed" /\ timers \subseteq {"validate", "md5"}
      /\ data.session = manager.session /\ todo' = <<>>
      /\ UNCHANGED <<flash, passive, active, disturbed, powerLosses, reconnects>>
      /\ UNCHANGED <<data, count, validated, digestmatch, read>>
      /\ manager'.session = manager.session
      /\ manager' \in [session : Sessions \cup {0}, step : Steps]
  BY DEF HandleNmeIupValidate, Asks, Idle, TimersInv, Learns, TypeOK, Steps
<1>2. CASE validated
  <2>1. digest = manager.session /\ timers = {} /\ UNCHANGED <<digest, timers>>
    BY <1>1, <1>2 DEF HandleNmeIupValidate, DigestInv
  <2>2. manager'.step \in {"confirmed", "refused"} \/ (manager'.step = "validated" /\ digestmatch)
    BY <1>1, <1>2 DEF HandleNmeIupValidate, Learns, TypeOK
  <2>3. TypeOK' /\ TodoInv' /\ TimersInv' /\ SessionInv'
    BY <1>1, <2>1, <2>2 DEF TypeOK, TodoInv, Idle, TimersInv, SessionInv
  <2>4. CountInv' /\ ConfirmedInv'
    BY <1>1, <2>1, <2>2 DEF CountInv, ConfirmedInv, Transferring
  <2>5. DigestInv' /\ ImageInv' /\ ActiveInv'
    BY <1>1, <1>2, <2>1, <2>2, IdleIs
    DEF DigestInv, ImageInv, ActiveInv, DoneMeansActive, Idle, Activating, Activated, SwitchingOver
  <2> QED
    BY <2>3, <2>4, <2>5
<1>3. CASE ~validated
  <2>1. digest' = manager.session /\ timers' = timers \cup {"validate"} /\ manager' = manager
    BY <1>3 DEF HandleNmeIupValidate
  <2>2. "md5" \in timers' => "md5" \in timers
    BY <2>1
  <2>3. TypeOK' /\ TodoInv' /\ TimersInv' /\ SessionInv'
    BY <1>1, <2>1 DEF TypeOK, Timers, TodoInv, Idle, TimersInv, SessionInv
  <2>4. CountInv' /\ ConfirmedInv'
    BY <1>1, <2>1 DEF CountInv, ConfirmedInv, Transferring
  <2>5. DigestInv' /\ ImageInv' /\ ActiveInv'
    BY <1>1, <1>3, <2>1, <2>2, IdleIs
    DEF DigestInv, ImageInv, ActiveInv, DoneMeansActive, Idle, Activating, Activated, SwitchingOver
  <2> QED
    BY <2>3, <2>4, <2>5
<1> QED
  BY <1>2, <1>3

LEMMA HandleNmeIupSwitchOverInv ==
  ASSUME IndInv, NEW secondary \in BOOLEAN, HandleNmeIupSwitchOver(secondary)
  PROVE  IndInv'
<1> USE DEF IndInv
<1>1. /\ Idle /\ manager.step = "validated" /\ timers \subseteq {"switch"}
      /\ UNCHANGED <<flash, passive, active, disturbed, powerLosses, reconnects>>
      /\ UNCHANGED <<count, validated, digestmatch, digest, read>>
      /\ manager'.session = manager.session /\ manager.session # 0
      /\ manager' \in [session : Sessions \cup {0}, step : Steps]
  BY DEF HandleNmeIupSwitchOver, Asks, Idle, TimersInv, SessionInv, Learns, TypeOK, Steps
<1>2. \/ ~validated /\ manager'.step \in {"validated", "refused"} /\ UNCHANGED <<data, todo, timers>>
      \/ /\ validated /\ manager'.step \in {"validated", "switched"}
         /\ timers' = {"switch"}
         /\ \/ data' = [data EXCEPT !.secondary = 1] /\ todo' = <<WriteFlag("secondary")>>
            \/ data' = data /\ todo' = <<>>
  BY <1>1 DEF HandleNmeIupSwitchOver, Learns, TypeOK
<1>3. /\ data' \in [session : Sessions \cup {0}, confirmed : Flags, commitDone : Flags, secondary : Flags]
      /\ data'.session = data.session /\ data'.commitDone = data.commitDone
      /\ data'.confirmed = data.confirmed
      /\ manager'.step \in {"validated", "refused", "switched"} /\ timers' \subseteq {"switch"}
  BY <1>1, <1>2 DEF TypeOK, Flags
<1>4. LastOp(todo') \in {"none", "flag"}
  BY <1>1, <1>2, FlagTodo DEF Idle
<1>5. TypeOK'
  BY <1>1, <1>3 DEF TypeOK, Timers
<1>6. TodoInv' /\ TimersInv' /\ SessionInv'
  BY <1>1, <1>2, <1>3 DEF TodoInv, Idle, IsSecondary, Busy, TimersInv, SessionInv
<1>7. CountInv' /\ ConfirmedInv'
  BY <1>1, <1>3 DEF CountInv, ConfirmedInv, Transferring
<1>8. DigestInv' /\ ImageInv'
  <2>1. validated => Image(passive) = manager.session /\ manager.session # Bad
    BY <1>1, IdleIs, Constants DEF ImageInv, TypeOK
  <2> QED
    BY <1>1, <1>2, <1>3, <2>1, IdleIs DEF DigestInv, ImageInv
<1>9. ActiveInv'
  BY <1>1, <1>3, <1>4, IdleIs DEF ActiveInv, DoneMeansActive, Activating, Activated, SwitchingOver
<1> QED
  BY <1>5, <1>6, <1>7, <1>8, <1>9

\* What a status or commit leaves: nothing, or the block to be erased.
LEMMA EraseTodo ==
  ASSUME NEW operations, operations \in {<<>>, <<EraseIupPersistData>>}
  PROVE  LastOp(operations) \in {"none", "erase block"}
<1>1. LastOp(<<>>) = "none" /\ LastOp(<<EraseIupPersistData>>) = EraseIupPersistData.op
  BY FirstAndLast
<1> QED
  BY <1>1, Operations

LEMMA HandleNmeIupStatusInv == ASSUME IndInv, HandleNmeIupStatus PROVE IndInv'
<1> USE DEF IndInv
<1>1. /\ Idle /\ manager.step = "switched" /\ timers = {}
      /\ UNCHANGED <<flash, passive, active, disturbed, powerLosses, reconnects>>
      /\ UNCHANGED <<data, count, validated, digestmatch, digest, read, timers>>
      /\ manager'.session = manager.session
      /\ manager' \in [session : Sessions \cup {0}, step : Steps]
      /\ manager'.step \in {"switched", "secondary", "done", "refused"}
      /\ manager'.step = "done" => data.session = manager.session /\ data.commitDone # 0
      /\ todo' \in {<<>>, <<EraseIupPersistData>>}
  BY DEF HandleNmeIupStatus, Asks, Idle, TimersInv, Learns, TypeOK, Steps
<1>2. LastOp(todo') \in {"none", "erase block"}
  BY <1>1, EraseTodo
<1>3. TypeOK' /\ TodoInv' /\ TimersInv' /\ SessionInv'
  BY <1>1 DEF TypeOK, TodoInv, Idle, ErasesBlock, Busy, TimersInv, SessionInv, Transferring
<1>4. CountInv' /\ ConfirmedInv'
  BY <1>1 DEF CountInv, ConfirmedInv, Transferring
<1>5. DigestInv' /\ ImageInv'
  BY <1>1, <1>2, IdleIs DEF DigestInv, ImageInv
<1>6. ActiveInv'
  BY <1>1, <1>2, IdleIs DEF ActiveInv, DoneMeansActive, Activating, Activated, SwitchingOver
<1> QED
  BY <1>3, <1>4, <1>5, <1>6

LEMMA HandleNmeIupCommitInv == ASSUME IndInv, HandleNmeIupCommit PROVE IndInv'
<1> USE DEF IndInv
<1> DEFINE commits == data.session = manager.session /\ data.secondary # 0 /\ data.commitDone = 0
<1>1. /\ Idle /\ manager.step = "secondary" /\ timers \subseteq {"commit"}
      /\ UNCHANGED <<flash, passive, active, disturbed, powerLosses, reconnects>>
      /\ UNCHANGED <<data, count, validated, digestmatch, digest, read>>
      /\ manager'.session = manager.session
      /\ manager' \in [session : Sessions \cup {0}, step : Steps]
      /\ manager'.step \in {"secondary", "done", "refused"}
      /\ manager'.step = "done" => data.session = manager.session /\ data.commitDone # 0
      /\ todo' \in {<<>>, <<EraseIupPersistData>>}
      /\ timers' \in {timers, {"commit"}}
      /\ commits => manager' = manager
      /\ ~commits => timers' = timers
  BY DEF HandleNmeIupCommit, Asks, Idle, TimersInv, Learns, TypeOK, Steps
<1>2. LastOp(todo') \in {"none", "erase block"}
  BY <1>1, EraseTodo
<1>3. TypeOK' /\ TodoInv' /\ TimersInv' /\ SessionInv'
  BY <1>1 DEF TypeOK, Timers, TodoInv, Idle, ErasesBlock, Busy, TimersInv, SessionInv, Transferring
<1>4. CountInv' /\ ConfirmedInv'
  BY <1>1 DEF CountInv, ConfirmedInv, Transferring
<1>5. DigestInv' /\ ImageInv'
  BY <1>1, <1>2, IdleIs DEF DigestInv, ImageInv
<1>6. ActiveInv'
  BY <1>1, <1>2, IdleIs DEF ActiveInv, DoneMeansActive, Activating, Activated, SwitchingOver
<1> QED
  BY <1>3, <1>4, <1>5, <1>6

LEMMA UnansweredInv == ASSUME IndInv, Unanswered PROVE IndInv'
<1> USE DEF IndInv
<1>1. /\ Idle /\ todo' = todo
      /\ UNCHANGED <<flash, passive, active, disturbed, powerLosses, reconnects>>
      /\ UNCHANGED <<data, count, validated, digestmatch, digest, read, timers>>
      /\ manager'.session = manager.session /\ manager'.step = "refused"
      /\ manager' \in [session : Sessions \cup {0}, step : Steps]
      /\ "switch" \notin timers /\ "commit" \notin timers
  BY DEF Unanswered, Asks, Idle, TypeOK, Steps, TimersInv
<1>2. TypeOK' /\ TodoInv' /\ TimersInv' /\ SessionInv'
  BY <1>1 DEF TypeOK, TodoInv, Idle, TimersInv, SessionInv
<1>3. CountInv' /\ ConfirmedInv'
  BY <1>1 DEF CountInv, ConfirmedInv, Transferring
<1>4. DigestInv' /\ ImageInv' /\ ActiveInv'
  BY <1>1, IdleIs
  DEF DigestInv, ImageInv, ActiveInv, DoneMeansActive, Idle, Activating, Activated, SwitchingOver
<1> QED
  BY <1>2, <1>3, <1>4

-----------------------------------------------------------------------------
(* Timers.                                                                 *)

\* What the start of an update leaves to be done, and what is left of that.
LEMMA InitTodo ==
  /\ LastOp(<<EraseIupPersistData, ErasePartition, WriteInitData>>) = "init data"
  /\ LastOp(<<ErasePartition, WriteInitData>>) = "init data"
  /\ LastOp(<<WriteInitData>>) = "init data"
  /\ LastOp(<<EraseIupPersistData>>) = "erase block"
<1>1. /\ LastOp(<<EraseIupPersistData, ErasePartition, WriteInitData>>) = WriteInitData.op
      /\ LastOp(<<ErasePartition, WriteInitData>>) = WriteInitData.op
      /\ LastOp(<<WriteInitData>>) = WriteInitData.op
      /\ LastOp(<<EraseIupPersistData>>) = EraseIupPersistData.op
  BY FirstAndLast
<1> QED
  BY <1>1, Operations

LEMMA InitUpdateProcessInv == ASSUME IndInv, InitUpdateProcess PROVE IndInv'
<1> USE DEF IndInv
<1>1. /\ Idle /\ "init" \in timers /\ timers' = timers \ {"init"} /\ timers' \subseteq {"switch"}
      /\ UNCHANGED <<flash, passive, active, manager, powerLosses, reconnects>>
      /\ UNCHANGED <<digestmatch, digest, read>>
      /\ count' = 0 /\ validated' = FALSE /\ disturbed' = FALSE
      /\ manager.step \in {"transfer", "refused"}
  BY DEF InitUpdateProcess, Expires, Idle, TimersInv, TypeOK, Steps
<1>2. /\ data' \in [session : Sessions \cup {0}, confirmed : Flags, commitDone : Flags, secondary : Flags]
      /\ data'.session = data.session /\ data'.commitDone = 0 /\ data'.confirmed = 0
  <2>1. data' = NewFlags(data)
    BY DEF InitUpdateProcess
  <2>2. data \in [session : Sessions \cup {0}, confirmed : Flags, commitDone : Flags, secondary : Flags]
    BY DEF TypeOK
  <2> HIDE DEF IndInv
  <2>3. NewFlags(data).session = data.session /\ NewFlags(data).commitDone = 0
          /\ NewFlags(data).confirmed = 0
    BY <2>2 DEF NewFlags
  <2> QED
    BY <2>1, <2>2, <2>3 DEF NewFlags, Flags
<1>3. todo' \in {<<EraseIupPersistData, ErasePartition, WriteInitData>>, <<EraseIupPersistData>>}
  BY DEF InitUpdateProcess, InitOperations
<1>4. LastOp(todo') \in {"init data", "erase block"}
  BY <1>3, InitTodo
<1>5. TypeOK'
  <2>1. 0 <= Cardinality(Packets) + Recounted(reconnects) /\ reconnects \in 0 .. MaxReconnects
    BY Constants, RecountedIs DEF TypeOK
  <2>2. count' \in 0 .. MaxCount
    BY <1>1, <2>1, CountBound
  <2>3. timers' \in SUBSET Timers /\ {validated', digestmatch', disturbed'} \subseteq BOOLEAN
    BY <1>1 DEF TypeOK
  <2> QED
    BY <1>1, <1>2, <2>2, <2>3 DEF TypeOK
<1>6. TodoInv' /\ TimersInv' /\ SessionInv'
  BY <1>1, <1>2, <1>3 DEF TodoInv, Idle, BeginsUpdate, ErasesBlock, Busy, TimersInv, SessionInv
<1>7. CountInv'
  <2>1. 0 <= Cardinality(Packets) + Recounted(reconnects)
    BY Constants, RecountedIs DEF TypeOK
  <2> QED
    BY <1>1, <1>4, <2>1 DEF CountInv, Initialising, Erasing
<1>8. ConfirmedInv' /\ DigestInv'
  BY <1>1, <1>2 DEF ConfirmedInv, DigestInv
<1>9. ImageInv' /\ ActiveInv'
  BY <1>1, <1>2, <1>4, IdleIs
  DEF ImageInv, ActiveInv, DoneMeansActive, Activating, Activated, SwitchingOver
<1> QED
  BY <1>5, <1>6, <1>7, <1>8, <1>9

LEMMA ComputeMD5DigestInv == ASSUME IndInv, ComputeMD5Digest PROVE IndInv'
<1> USE DEF IndInv
<1>1. /\ Idle /\ todo' = todo /\ "validate" \in timers /\ timers' = (timers \ {"validate"}) \cup {"md5"}
      /\ UNCHANGED <<flash, passive, active, manager, powerLosses, reconnects>>
      /\ UNCHANGED <<data, count, digest, disturbed>>
      /\ timers \subseteq {"validate", "md5"} /\ manager.step \in {"confirmed", "refused"}
      /\ read' = <<>>
      /\ validated' \in BOOLEAN /\ digestmatch' \in BOOLEAN
  BY DEF ComputeMD5Digest, Expires, Idle, TimersInv, TypeOK, Steps, MD5Init
<1>2. TypeOK'
  <2>1. <<>> \in Seq(Contents) /\ Len(<<>>) <= Cardinality(Packets)
    BY Constants
  <2> QED
    BY <1>1, <2>1 DEF TypeOK, Timers
<1>3. TodoInv' /\ TimersInv' /\ SessionInv'
  BY <1>1 DEF TodoInv, Idle, TimersInv, SessionInv
<1>4. CountInv' /\ ConfirmedInv'
  BY <1>1 DEF CountInv, ConfirmedInv, Transferring
<1>5. DigestInv' /\ ImageInv'
  BY <1>1, IdleIs DEF DigestInv, ImageInv
<1>6. ActiveInv'
  BY <1>1, IdleIs DEF ActiveInv, DoneMeansActive, Idle, Activating, Activated, SwitchingOver
<1> QED
  BY <1>2, <1>3, <1>4, <1>5, <1>6

\* The digest that is compared is of all that is stored, read piece by piece.
LEMMA CalculateMD5Inv == ASSUME IndInv, CalculateMD5 PROVE IndInv'
<1> USE DEF IndInv
<1>1. /\ Idle /\ todo' = todo /\ "md5" \in timers
      /\ UNCHANGED <<flash, passive, active, manager, powerLosses, reconnects>>
      /\ UNCHANGED <<data, count, digest, disturbed>>
      /\ timers' \in {timers, timers \ {"md5"}}
      /\ timers \subseteq {"validate", "md5"} /\ manager.step \in {"confirmed", "refused"}
  BY DEF CalculateMD5, Expires, Idle, TimersInv, TypeOK, Steps
<1>2. TodoInv' /\ TimersInv' /\ SessionInv'
  BY <1>1 DEF TodoInv, Idle, TimersInv, SessionInv
<1>3. CountInv' /\ ConfirmedInv'
  BY <1>1 DEF CountInv, ConfirmedInv, Transferring
<1>4. ActiveInv'
  BY <1>1, IdleIs DEF ActiveInv, DoneMeansActive, Idle, Activating, Activated, SwitchingOver
<1>5. Packets = 1 .. Cardinality(Packets) /\ Cardinality(Packets) \in Nat
  BY IupAssumption, Constants
<1>6. CASE Len(read) < Cardinality(Packets)
  <2>1. /\ read' = Append(read, passive[Len(read) + 1]) /\ timers' = timers
        /\ UNCHANGED <<validated, digestmatch>>
    BY <1>6 DEF CalculateMD5, MD5Update
  <2>2. /\ read \in Seq(Contents) /\ Len(read) + 1 \in Packets /\ passive[Len(read) + 1] \in Contents
    BY <1>5, <1>6 DEF TypeOK
  <2>3. /\ read' \in Seq(Contents) /\ Len(read') = Len(read) + 1
        /\ \A i \in 1 .. Len(read) : read'[i] = read[i]
        /\ read'[Len(read) + 1] = passive[Len(read) + 1]
    BY <2>1, <2>2
  <2>4. TypeOK'
    BY <1>1, <1>5, <1>6, <2>1, <2>3 DEF TypeOK
  <2>5. DigestInv'
    BY <1>1, <2>1, <2>2, <2>3 DEF DigestInv
  <2>6. ImageInv'
    BY <1>1, <2>1, IdleIs DEF ImageInv
  <2> QED
    BY <1>2, <1>3, <1>4, <2>4, <2>5, <2>6
<1>7. CASE ~(Len(read) < Cardinality(Packets))
  <2>1. /\ digestmatch' = (Image(read) = digest) /\ validated' = TRUE
        /\ read' = <<>> /\ timers' = timers \ {"md5"}
    BY <1>7 DEF CalculateMD5, MD5Final, MD5Init, Validated
  <2>2. TypeOK'
    <3>1. <<>> \in Seq(Contents) /\ Len(<<>>) <= Cardinality(Packets)
      BY <1>5
    <3> QED
      BY <1>1, <2>1, <3>1 DEF TypeOK
  <2>3. Len(read) = Cardinality(Packets)
    BY <1>5, <1>7 DEF TypeOK
  <2>4. manager.step = "confirmed" => Image(read) = Image(passive) /\ digest = manager.session
    BY <1>1, <1>5, <2>3, ImageSame DEF DigestInv
  <2>5. DigestInv'
    BY <1>1, <2>1, <2>4 DEF DigestInv
  <2>6. ImageInv'
    BY <1>1, <2>1, IdleIs DEF ImageInv
  <2> QED
    BY <1>2, <1>3, <1>4, <2>2, <2>5, <2>6
<1> QED
  BY <1>6, <1>7

\* What a switch-over or a commit leaves to be done.
LEMMA SwitchTodo ==
  ASSUME NEW operations,
         operations \in {<<SetActive, Reboot>>, <<SetActive, WriteFlag("commitDone"), Reboot>>}
  PROVE  LastOp(operations) = "reboot" /\ FirstOp(operations) = "set active"
<1>1. /\ LastOp(<<SetActive, Reboot>>) = Reboot.op /\ FirstOp(<<SetActive, Reboot>>) = SetActive.op
      /\ LastOp(<<SetActive, WriteFlag("commitDone"), Reboot>>) = Reboot.op
      /\ FirstOp(<<SetActive, WriteFlag("commitDone"), Reboot>>) = SetActive.op
  BY FirstAndLast
<1> QED
  BY <1>1, Operations

\* The image that is switched over to is still the one that was validated.
LEMMA SwitchOverImageInv == ASSUME IndInv, SwitchOverImage PROVE IndInv'
<1> USE DEF IndInv
<1>1. /\ Idle /\ "switch" \in timers /\ timers' = timers \ {"switch"}
      /\ UNCHANGED <<flash, passive, active, manager, powerLosses, reconnects>>
      /\ UNCHANGED <<data, count, validated, digestmatch, digest, read, disturbed>>
      /\ timers \subseteq {"init", "switch"}
      /\ manager.step \in {"transfer", "refused", "validated", "switched"}
  BY DEF SwitchOverImage, Expires, Idle, TimersInv, TypeOK, Steps
<1>2. \/ todo' = <<>>
      \/ todo' = <<SetActive, Reboot>> /\ validated
  BY DEF SwitchOverImage, StillValidated
<1>3. \/ LastOp(todo') = "none"
      \/ LastOp(todo') = "reboot" /\ FirstOp(todo') = "set active" /\ validated
  BY <1>2, SwitchTodo, FirstAndLast
<1>4. TypeOK' /\ TodoInv' /\ TimersInv' /\ SessionInv'
  BY <1>1, <1>2 DEF TypeOK, TodoInv, Idle, SwitchesOver, Busy, TimersInv, SessionInv
<1>5. CountInv'
  <2>1. CASE LastOp(todo') = "reboot"
    BY <1>1, <2>1 DEF CountInv, SwitchingOver
  <2>2. CASE LastOp(todo') = "none"
    <3>1. ~Writing' /\ ~Writing
      BY <2>2, <1>1, IdleIs DEF Writing
    <3> QED
      BY <1>1, <3>1, IdleIs DEF CountInv, Transferring
  <2> QED
    BY <1>3, <2>1, <2>2
<1>6. ConfirmedInv' /\ DigestInv'
  BY <1>1 DEF ConfirmedInv, DigestInv, Transferring
<1>7. ImageInv'
  BY <1>1, <1>3, IdleIs DEF ImageInv, Activated
<1>8. ActiveInv'
  BY <1>1, <1>3, IdleIs
  DEF ActiveInv, DoneMeansActive, ImageInv, SessionInv, Activating, Activated, SwitchingOver
<1> QED
  BY <1>4, <1>5, <1>7, <1>8, <1>6

LEMMA CommitImageInv == ASSUME IndInv, CommitImage PROVE IndInv'
<1> USE DEF IndInv
<1>1. /\ Idle /\ "commit" \in timers /\ timers' = timers \ {"commit"}
      /\ UNCHANGED <<flash, passive, active, manager, powerLosses, reconnects>>
      /\ UNCHANGED <<count, validated, digestmatch, digest, read, disturbed>>
      /\ timers \subseteq {"commit"}
      /\ manager.step \in {"refused", "secondary", "done"}
  <2>1. /\ Idle /\ "commit" \in timers /\ timers' = timers \ {"commit"}
        /\ UNCHANGED <<flash, passive, active, manager, powerLosses, reconnects>>
        /\ UNCHANGED <<count, validated, digestmatch, digest, read, disturbed>>
    BY DEF CommitImage, Expires, Idle
  <2>2. manager.step \in Steps
    BY DEF TypeOK
  <2> HIDE DEF IndInv
  <2>3. timers \subseteq {"commit"}
    BY <2>1 DEF IndInv, TimersInv
  <2>4. manager.step \in {"refused", "secondary", "done"}
    BY <2>1, <2>2 DEF IndInv, TimersInv, Steps
  <2> QED
    BY <2>1, <2>3, <2>4
<1>2. \/ /\ data.commitDone = 0 /\ data' = [data EXCEPT !.commitDone = 1]
         /\ todo' = <<SetActive, WriteFlag("commitDone"), Reboot>>
      \/ data' = data /\ todo' = <<>>
  BY <1>1 DEF CommitImage, Idle
<1>3. /\ data' \in [session : Sessions \cup {0}, confirmed : Flags, commitDone : Flags, secondary : Flags]
      /\ data'.session = data.session /\ data'.confirmed = data.confirmed
      /\ data'.secondary = data.secondary /\ (data'.commitDone = 0 => data' = data)
      /\ data'.commitDone # data.commitDone => data.commitDone = 0
  BY <1>2 DEF TypeOK, Flags
<1>4. \/ LastOp(todo') = "none" /\ data' = data
      \/ LastOp(todo') = "reboot" /\ FirstOp(todo') = "set active" /\ data.commitDone = 0
  BY <1>2, SwitchTodo, FirstAndLast
<1>5. data.commitDone = 0 => /\ manager.step = "secondary" /\ manager.session # Bad
                             /\ Image(passive) = manager.session
  BY <1>1, IdleIs, Constants DEF ImageInv, TypeOK, SessionInv
<1>6. TypeOK' /\ TodoInv' /\ TimersInv' /\ SessionInv'
  BY <1>1, <1>2, <1>3, <1>5 DEF TypeOK, TodoInv, Idle, SwitchesOver, Busy, TimersInv, SessionInv
<1>7. CountInv' /\ ConfirmedInv' /\ DigestInv'
  BY <1>1, <1>3 DEF CountInv, ConfirmedInv, DigestInv, Transferring
<1>8. ImageInv'
  BY <1>1, <1>3, <1>4, IdleIs DEF ImageInv, Activated
<1>9. ActiveInv'
  BY <1>1, <1>3, <1>4, <1>5, IdleIs
  DEF ActiveInv, DoneMeansActive, Activating, Activated, SwitchingOver
<1> QED
  BY <1>6, <1>7, <1>8, <1>9

-----------------------------------------------------------------------------
(* Starting again, and connecting.                                         *)

\* The block of the update does not say that an image is running that is not.
LEMMA RestartInv ==
  ASSUME IndInv, Restarted, UNCHANGED <<flash, passive, active, manager, reconnects>>,
         powerLosses' \in 0 .. MaxPowerLosses, disturbed' \in BOOLEAN,
         ~disturbed' => /\ manager.step # "done"
                        /\ flash.valid /\ flash.session = manager.session => active = manager.session
  PROVE  IndInv'
<1> USE DEF IndInv
<1>1. /\ data' = IF flash.valid THEN Stored(flash) ELSE NoData
      /\ count' = IF flash.valid THEN Cardinality(flash.marks) ELSE 0
      /\ validated' = FALSE /\ digestmatch' = FALSE /\ digest' = 0 /\ read' = <<>>
      /\ timers' = {} /\ todo' = <<>>
  BY RestartIs
<1>2. /\ data' \in [session : Sessions \cup {0}, confirmed : Flags, commitDone : Flags, secondary : Flags]
      /\ data'.session = IF flash.valid THEN flash.session ELSE 0
      /\ data'.confirmed \in {0, flash.confirmed}
      /\ flash.valid => data'.commitDone # 0
  <2>1. NoData \in [session : Sessions \cup {0}, confirmed : Flags, commitDone : Flags, secondary : Flags]
          /\ NoData.session = 0 /\ NoData.confirmed = 0
    BY DEF NoData, Flags
  <2>2. /\ Stored(flash)
              \in [session : Sessions \cup {0}, confirmed : Flags, commitDone : Flags, secondary : Flags]
        /\ Stored(flash).session = flash.session /\ Stored(flash).confirmed = flash.confirmed
        /\ Stored(flash).commitDone # 0
    BY DEF Stored, TypeOK, Flags
  <2>3. flash.valid \in BOOLEAN
    BY DEF TypeOK
  <2> QED
    BY <1>1, <2>1, <2>2, <2>3
<1>3. /\ Cardinality(flash.marks) \in 0 .. Cardinality(Packets) /\ Cardinality(Packets) \in Nat
      /\ Recounted(reconnects) \in Nat /\ manager.session \in Nat
  <2>1. flash.marks \in SUBSET Packets /\ reconnects \in 0 .. MaxReconnects
          /\ manager.session \in Sessions \cup {0}
    BY DEF TypeOK
  <2>2. Cardinality(flash.marks) \in 0 .. Cardinality(Packets) /\ Cardinality(Packets) \in Nat
    BY <2>1, MarksCount
  <2>3. Recounted(reconnects) \in Nat
    BY <2>1, RecountedIs
  <2>4. manager.session \in Nat
    BY SessionsAreNat
  <2> QED
    BY <2>2, <2>3, <2>4
<1>4. LastOp(todo') = "none"
  BY <1>1, FirstAndLast
<1>5. TypeOK'
  <2>1. count' \in 0 .. MaxCount
    BY <1>1, <1>3, CountBound DEF TypeOK
  <2>2. <<>> \in Seq(Contents) /\ Len(<<>>) <= Cardinality(Packets)
    BY <1>3
  <2>3. read' \in Seq(Contents) /\ Len(read') <= Cardinality(Packets) /\ timers' \subseteq Timers
    BY <1>1, <2>2
  <2>4. {validated', digestmatch', disturbed'} \subseteq BOOLEAN /\ digest' \in Sessions \cup {0}
    BY <1>1
  <2> QED
    BY <1>2, <2>1, <2>3, <2>4 DEF TypeOK
<1>6. TodoInv' /\ TimersInv'
  BY <1>1 DEF TodoInv, Idle, TimersInv
<1>7. SessionInv'
  BY <1>1, <1>2, <1>3 DEF SessionInv
<1>8. CountInv'
  <2>1. ~Writing' /\ count' <= Cardinality(Packets) + Recounted(reconnects)
    BY <1>1, <1>3, <1>4 DEF Writing
  <2>2. Transferring' /\ data'.session = manager'.session => count' = Cardinality(flash.marks)
    BY <1>1, <1>2 DEF SessionInv, Transferring
  <2> QED
    BY <1>3, <2>1, <2>2 DEF CountInv
<1>9. ConfirmedInv' /\ DigestInv'
  BY <1>1, <1>2 DEF ConfirmedInv, DigestInv
<1>10. ImageInv'
  BY <1>1, <1>2 DEF ImageInv, SessionInv
<1>11. ActiveInv'
  BY <1>1, <1>2, <1>4
  DEF ActiveInv, DoneMeansActive, SessionInv, Activating, Activated, SwitchingOver
<1> QED
  BY <1>5, <1>6, <1>7, <1>8, <1>9, <1>10, <1>11

LEMMA PowerLossInv == ASSUME IndInv, PowerLoss PROVE IndInv'
<1>1. powerLosses' \in 0 .. MaxPowerLosses
  BY IupAssumption DEF IndInv, TypeOK, PowerLoss
<1> QED
  BY <1>1, RestartInv DEF PowerLoss

\* The packets are counted once more.
LEMMA EventNormalConnectedInv == ASSUME IndInv, EventNormalConnected PROVE IndInv'
<1> USE DEF IndInv
<1>1. /\ Idle /\ todo' = todo /\ disturbed' = TRUE /\ reconnects' = reconnects + 1
      /\ reconnects' \in 1 .. MaxReconnects
      /\ UNCHANGED <<flash, passive, active, validated, digestmatch, digest, read, timers>>
      /\ UNCHANGED <<manager, powerLosses>>
  BY Constants DEF EventNormalConnected, Idle, TypeOK
<1>2. \/ /\ flash.valid /\ data' = Stored(flash) /\ count' = count + Cardinality(flash.marks)
      \/ data' = data /\ count' = count
  BY DEF EventNormalConnected, readIupPersistData
<1>3. /\ data' \in [session : Sessions \cup {0}, confirmed : Flags, commitDone : Flags, secondary : Flags]
      /\ \/ data' = data
         \/ flash.valid /\ data'.session = flash.session /\ data'.commitDone # 0
  BY <1>2 DEF Stored, TypeOK, Flags
<1>4. /\ Cardinality(flash.marks) \in 0 .. Cardinality(Packets) /\ Cardinality(Packets) \in Nat
      /\ Recounted(reconnects) \in Nat /\ count \in Nat
      /\ Recounted(reconnects') = Recounted(reconnects) + Cardinality(Packets)
  BY <1>1, MarksCount, RecountedIs DEF TypeOK
<1>5. count' \in Nat /\ count' <= Cardinality(Packets) + Recounted(reconnects')
  BY <1>2, <1>4 DEF CountInv
<1>6. TypeOK'
  <2>1. count' \in 0 .. MaxCount
    BY <1>1, <1>5, CountBound
  <2>2. reconnects' \in 0 .. MaxReconnects /\ TRUE \in BOOLEAN
    BY <1>1, Constants
  <2> QED
    BY <1>1, <1>3, <2>1, <2>2 DEF TypeOK
<1>7. TodoInv' /\ TimersInv' /\ SessionInv'
  BY <1>1, <1>3 DEF TodoInv, Idle, TimersInv, SessionInv
<1>8. CountInv'
  <2>1. ~Writing' /\ reconnects' # 0
    BY <1>1, IdleIs DEF Writing
  <2>2. Transferring' /\ data'.session = manager'.session
          => count' <= Cardinality(flash.marks) + Recounted(reconnects')
    <3>1. CASE data' = data /\ count' = count
      BY <1>1, <1>4, <3>1, CountedIs DEF Transferring
    <3>2. CASE count' = count + Cardinality(flash.marks)
      BY <1>4, <3>2 DEF CountInv
    <3> QED
      BY <1>2, <3>1, <3>2
  <2> QED
    BY <1>1, <1>4, <1>5, <2>1, <2>2 DEF CountInv
<1>9. ConfirmedInv' /\ DigestInv'
  BY <1>1 DEF ConfirmedInv, DigestInv, TypeOK
<1>10. ImageInv'
  BY <1>1, <1>3, IdleIs DEF ImageInv
<1>11. ActiveInv'
  BY <1>1, IdleIs DEF ActiveInv, DoneMeansActive, Idle, Activating, Activated, SwitchingOver
<1> QED
  BY <1>6, <1>7, <1>8, <1>9, <1>10, <1>11

-----------------------------------------------------------------------------
(* Operations on flash memory.                                             *)

\* All that a handler has is as it was, but for the operation that is done.
Carried ==
    /\ todo' = Tail(todo)
    /\ UNCHANGED <<data, count, validated, digestmatch, digest, read, timers>>
    /\ UNCHANGED <<manager, disturbed, powerLosses, reconnects>>

LEMMA FlashStepIs ==
  ASSUME FlashStep
  PROVE  /\ Head(todo).op = "erase block" => flash' = ErasedBlock /\ UNCHANGED <<passive, active>>
         /\ Head(todo).op = "erase partition" =>
              passive' = [p \in Packets |-> Erased] /\ UNCHANGED <<flash, active>>
         /\ Head(todo).op = "init data" =>
              /\ flash' = [flash EXCEPT !.valid = TRUE, !.session = data.session]
              /\ UNCHANGED <<passive, active>>
         /\ Head(todo).op = "packet" =>
              /\ passive' = [passive EXCEPT ![Head(todo).packet] =
                                 Overwritten(passive[Head(todo).packet], data.session)]
              /\ UNCHANGED <<flash, active>>
         /\ Head(todo).op = "mark" =>
              /\ flash' = [flash EXCEPT !.marks = flash.marks \cup {Head(todo).packet}]
              /\ UNCHANGED <<passive, active>>
         /\ Head(todo).op = "flag" =>
              flash' = [flash EXCEPT ![Head(todo).flag] = 1] /\ UNCHANGED <<passive, active>>
         /\ Head(todo).op = "set active" => part_set_active_partition /\ UNCHANGED flash
         /\ Head(todo) = Reboot =>
              Restarted /\ UNCHANGED <<manager, disturbed, powerLosses, reconnects>>
         /\ Head(todo) # Reboot => Carried
BY Zenon DEF FlashStep, Carried


\* Beginning an update: what was stored of the one before is erased block first.
LEMMA BeginsUpdateStep == ASSUME IndInv, FlashStep, BeginsUpdate PROVE IndInv'
<1> USE DEF IndInv
<1>1. \/ todo = <<EraseIupPersistData, ErasePartition, WriteInitData>>
      \/ todo = <<ErasePartition, WriteInitData>> /\ flash = ErasedBlock
      \/ todo = <<WriteInitData>> /\ flash = ErasedBlock
  BY DEF BeginsUpdate, Busy
<1>2. \/ /\ Head(todo) = EraseIupPersistData /\ Tail(todo) = <<ErasePartition, WriteInitData>>
      \/ /\ Head(todo) = ErasePartition /\ Tail(todo) = <<WriteInitData>> /\ flash = ErasedBlock
      \/ /\ Head(todo) = WriteInitData /\ Tail(todo) = <<>> /\ flash = ErasedBlock
  <2>1. CASE todo = <<EraseIupPersistData, ErasePartition, WriteInitData>>
    BY <2>1, HeadAndTail
  <2>2. CASE todo = <<ErasePartition, WriteInitData>> /\ flash = ErasedBlock
    BY <2>2, HeadAndTail
  <2>3. CASE todo = <<WriteInitData>> /\ flash = ErasedBlock
    BY <2>3, HeadAndTail
  <2> QED
    BY <1>1, <2>1, <2>2, <2>3
<1>3. Carried
  BY <1>2, FlashStepIs, Operations
<1>4. \/ /\ todo' = <<ErasePartition, WriteInitData>> /\ flash' = ErasedBlock
         /\ UNCHANGED <<passive, active>>
      \/ /\ todo' = <<WriteInitData>> /\ flash' = ErasedBlock
         /\ passive' = [p \in Packets |-> Erased] /\ UNCHANGED active
      \/ /\ todo' = <<>> /\ UNCHANGED <<passive, active>>
         /\ flash' = [ErasedBlock EXCEPT !.valid = TRUE, !.session = data.session]
  BY <1>2, <1>3, FlashStepIs, Operations DEF Carried
<1>5. /\ flash' \in [valid : BOOLEAN, session : Sessions \cup {0}, confirmed : {1, 255},
                     commitDone : {1, 255}, secondary : {1, 255}, marks : SUBSET Packets]
      /\ flash'.marks = {} /\ flash'.confirmed = 255
      /\ flash'.valid => flash'.session = data.session
  <2>1. data.session \in Sessions \cup {0}
    BY DEF TypeOK
  <2>2. CASE flash' = ErasedBlock
    BY <2>2 DEF ErasedBlock
  <2>3. CASE flash' = [ErasedBlock EXCEPT !.valid = TRUE, !.session = data.session]
    <3>1. flash' = [valid |-> TRUE, session |-> data.session, confirmed |-> 255,
                    commitDone |-> 255, secondary |-> 255, marks |-> {}]
      BY <2>3, InitDataIs
    <3> QED
      BY <2>1, <3>1
  <2> QED
    BY <1>4, <2>2, <2>3
<1>6. passive' \in [Packets -> Contents] /\ active' = active
  BY <1>4 DEF TypeOK, Contents
<1>7. LastOp(todo') \in {"none", "init data"} /\ LastOp(todo) = "init data"
  BY <1>1, <1>4, InitTodo, FirstAndLast
<1>8. /\ manager'.step \in {"transfer", "refused"} /\ timers' \subseteq {"switch"}
      /\ count' = 0 /\ ~validated' /\ data'.confirmed = 0 /\ UNCHANGED <<data, timers, manager, disturbed>>
  BY <1>3 DEF BeginsUpdate, Carried
<1>9. TypeOK'
  BY <1>3, <1>5, <1>6 DEF Carried, TypeOK
<1>10. TodoInv'
  BY <1>4, <1>8 DEF TodoInv, Idle, BeginsUpdate, Busy
<1>11. TimersInv' /\ SessionInv'
  BY <1>5, <1>8 DEF TimersInv, SessionInv
<1>12. CountInv'
  <2>1. Cardinality({}) = 0 /\ Recounted(reconnects) \in Nat /\ Cardinality(Packets) \in Nat
          /\ reconnects' = reconnects
    BY <1>3, MarksCount, RecountedIs, Constants DEF TypeOK, Carried
  <2>2. ~Writing'
    BY <1>7 DEF Writing
  <2>3. Cardinality(flash'.marks) = 0
    BY <1>5, <2>1
  <2> QED
    BY <1>5, <1>8, <2>1, <2>2, <2>3 DEF CountInv
<1>13. ConfirmedInv' /\ DigestInv' /\ ImageInv'
  BY <1>5, <1>8 DEF ConfirmedInv, DigestInv, ImageInv
<1>14. ActiveInv'
  BY <1>6, <1>7, <1>8
  DEF ActiveInv, DoneMeansActive, Activating, Activated, SwitchingOver
<1> QED
  BY <1>9, <1>10, <1>11, <1>12, <1>13, <1>14

LEMMA ErasesBlockStep == ASSUME IndInv, FlashStep, ErasesBlock PROVE IndInv'
<1> USE DEF IndInv
<1>1. Head(todo) = EraseIupPersistData /\ Tail(todo) = <<>> /\ todo = <<EraseIupPersistData>>
  BY DEF ErasesBlock, Busy
<1>2. Carried /\ flash' = ErasedBlock /\ UNCHANGED <<passive, active>>
  BY <1>1, FlashStepIs, Operations
<1>3. /\ flash' \in [valid : BOOLEAN, session : Sessions \cup {0}, confirmed : {1, 255},
                     commitDone : {1, 255}, secondary : {1, 255}, marks : SUBSET Packets]
      /\ flash'.marks = {} /\ flash'.confirmed = 255 /\ ~flash'.valid
  BY <1>2 DEF ErasedBlock
<1>4. LastOp(todo') = "none" /\ LastOp(todo) = "erase block" /\ Idle'
  BY <1>1, <1>2, FirstAndLast, Operations DEF Carried, Idle
<1>5. /\ UNCHANGED <<passive, active, data, count, validated, digestmatch, digest, read, timers>>
      /\ UNCHANGED <<manager, disturbed, powerLosses, reconnects>>
      /\ Transferring => count = 0
      /\ manager.step \notin {"confirmed", "validated"}
  BY <1>2 DEF Carried, ErasesBlock
<1>6. TypeOK'
  BY <1>3, <1>5 DEF TypeOK
<1>7. TodoInv' /\ TimersInv' /\ SessionInv'
  BY <1>3, <1>4, <1>5 DEF TodoInv, TimersInv, SessionInv
<1>8. CountInv'
  <2>1. Cardinality({}) = 0 /\ Recounted(reconnects) \in Nat
    BY MarksCount, RecountedIs DEF TypeOK
  <2>2. ~Writing'
    BY <1>4 DEF Writing
  <2>3. Cardinality(flash'.marks) = 0
    BY <1>3, <2>1
  <2> QED
    BY <1>3, <1>5, <2>1, <2>2, <2>3 DEF CountInv, Transferring
<1>9. ConfirmedInv' /\ DigestInv'
  BY <1>3, <1>5 DEF ConfirmedInv, DigestInv
<1>10. ImageInv' /\ ActiveInv'
  BY <1>3, <1>4, <1>5
  DEF ImageInv, ActiveInv, DoneMeansActive, Activating, Activated, SwitchingOver
<1> QED
  BY <1>6, <1>7, <1>8, <1>9, <1>10

\* A packet is written, and then marked.
LEMMA StoresPacketStep ==
  ASSUME IndInv, FlashStep, NEW p \in Packets \ flash.marks, StoresPacket(p)
  PROVE  IndInv'
<1> USE DEF IndInv
<1>1. /\ manager.step = "transfer" /\ Transferring /\ timers = {} /\ data.session \in Sessions
  BY DEF StoresPacket, Transferring, TimersInv
<1>2. /\ LastOp(<<WritePacket(p), MarkPacket(p)>>) = "mark" /\ LastOp(<<MarkPacket(p)>>) = "mark"
      /\ LastOp(<<>>) = "none"
  <2>1. /\ LastOp(<<WritePacket(p), MarkPacket(p)>>) = MarkPacket(p).op
        /\ LastOp(<<MarkPacket(p)>>) = MarkPacket(p).op /\ LastOp(<<>>) = "none"
    BY FirstAndLast
  <2> QED
    BY <2>1, Operations
<1>3. CASE Busy(<<WritePacket(p), MarkPacket(p)>>)
  <2>1. Head(todo) = WritePacket(p) /\ Tail(todo) = <<MarkPacket(p)>>
          /\ todo = <<WritePacket(p), MarkPacket(p)>>
    BY <1>3, HeadAndTail DEF Busy
  <2>2. Head(todo).op = "packet" /\ Head(todo).packet = p /\ Head(todo) # Reboot
    <3>1. WritePacket(p).op = "packet" /\ WritePacket(p).packet = p /\ WritePacket(p) # Reboot
      BY Operations
    <3>2. Head(todo) = WritePacket(p)
      BY <2>1
    <3> QED
      BY <3>1, <3>2
  <2>3. /\ Carried /\ UNCHANGED <<flash, active>> /\ todo' = <<MarkPacket(p)>>
        /\ passive' = [passive EXCEPT ![p] = Overwritten(passive[p], data.session)]
    BY <2>1, <2>2, FlashStepIs DEF Carried
  <2>4. Overwritten(passive[p], data.session) \in Contents \ {Erased}
    BY <1>1, Constants DEF Overwritten, Contents
  <2>5. /\ passive' \in [Packets -> Contents] /\ passive'[p] # Erased
        /\ \A q \in Packets : passive[q] # Erased => passive'[q] # Erased
    BY <2>3, <2>4 DEF TypeOK
  <2>6. LastOp(todo) = "mark" /\ LastOp(todo') = "mark"
    BY <1>2, <2>1, <2>3
  <2>7. /\ UNCHANGED <<flash, active, data, count, validated, digestmatch, digest, read, timers>>
        /\ UNCHANGED <<manager, disturbed, powerLosses, reconnects>>
    BY <2>3 DEF Carried
  <2>8. TypeOK'
    BY <2>5, <2>7 DEF TypeOK
  <2>9. TodoInv' /\ TimersInv' /\ SessionInv'
    <3>1. StoresPacket(p)' /\ p \in Packets \ flash'.marks
      BY <1>1, <2>3, <2>5, <2>7 DEF StoresPacket, Busy, Transferring
    <3> QED
      BY <1>1, <2>7, <3>1 DEF TodoInv, TimersInv, SessionInv
  <2>10. CountInv'
    BY <2>5, <2>6, <2>7
    DEF CountInv, Initialising, Erasing, Writing, SwitchingOver, Transferring, TypeOK
  <2>11. ConfirmedInv' /\ DigestInv' /\ ImageInv'
    BY <1>1, <2>5, <2>7 DEF ConfirmedInv, DigestInv, ImageInv
  <2>12. ActiveInv'
    BY <2>6, <2>7 DEF ActiveInv, DoneMeansActive, Activating, Activated, SwitchingOver
  <2> QED
    BY <2>8, <2>9, <2>10, <2>11, <2>12
<1>4. CASE Busy(<<MarkPacket(p)>>) /\ passive[p] # Erased
  <2>1. Head(todo) = MarkPacket(p) /\ Tail(todo) = <<>> /\ todo = <<MarkPacket(p)>>
    BY <1>4, HeadAndTail DEF Busy
  <2>2. Head(todo).op = "mark" /\ Head(todo).packet = p /\ Head(todo) # Reboot
    <3>1. MarkPacket(p).op = "mark" /\ MarkPacket(p).packet = p /\ MarkPacket(p) # Reboot
      BY Operations
    <3>2. Head(todo) = MarkPacket(p)
      BY <2>1
    <3> QED
      BY <3>1, <3>2
  <2>3. /\ Carried /\ UNCHANGED <<passive, active>> /\ todo' = <<>>
        /\ flash' = [flash EXCEPT !.marks = flash.marks \cup {p}]
    BY <2>1, <2>2, FlashStepIs DEF Carried
  <2>4. /\ flash' \in [valid : BOOLEAN, session : Sessions \cup {0}, confirmed : {1, 255},
                       commitDone : {1, 255}, secondary : {1, 255}, marks : SUBSET Packets]
        /\ flash'.marks = flash.marks \cup {p} /\ flash'.valid = flash.valid
        /\ flash'.session = flash.session /\ flash'.confirmed = flash.confirmed
    BY <2>3 DEF TypeOK
  <2>5. LastOp(todo) = "mark" /\ LastOp(todo') = "none" /\ Idle'
    BY <1>2, <2>1, <2>3 DEF Idle
  <2>6. /\ UNCHANGED <<passive, active, data, count, validated, digestmatch, digest, read, timers>>
        /\ UNCHANGED <<manager, disturbed, powerLosses, reconnects>>
    BY <2>3 DEF Carried
  <2>7. TypeOK'
    BY <2>4, <2>6 DEF TypeOK
  <2>8. TodoInv' /\ TimersInv' /\ SessionInv'
    BY <1>1, <2>4, <2>5, <2>6 DEF TodoInv, TimersInv, SessionInv
  <2>9. CountInv'
    <3>1. /\ Cardinality(flash'.marks) = Cardinality(flash.marks) + 1
          /\ Cardinality(flash.marks) \in Nat
      <4>1. flash.marks \in SUBSET Packets
        BY DEF TypeOK
      <4> QED
        BY <2>4, <4>1, MarksCount
    <3>2. ~Writing' /\ Writing /\ ~Initialising /\ ~Erasing /\ ~SwitchingOver
      BY <2>5 DEF Initialising, Erasing, Writing, SwitchingOver
    <3>3. \A q \in flash'.marks : passive'[q] # Erased
      BY <1>4, <2>4, <2>6 DEF CountInv
    <3> QED
      BY <1>1, <2>6, <3>1, <3>2, <3>3 DEF CountInv, Transferring
  <2>10. ConfirmedInv' /\ DigestInv' /\ ImageInv'
    BY <1>1, <2>4, <2>6 DEF ConfirmedInv, DigestInv, ImageInv
  <2>11. ActiveInv'
    BY <2>5, <2>6 DEF ActiveInv, DoneMeansActive, Activating, Activated, SwitchingOver
  <2> QED
    BY <2>7, <2>8, <2>9, <2>10, <2>11
<1> QED
  BY <1>3, <1>4 DEF StoresPacket

\* A flag is written. The one that confirms is written when all packets are stored.
LEMMA FlagIs ==
  ASSUME TypeOK, NEW f \in {"confirmed", "commitDone", "secondary"},
         flash' = [flash EXCEPT ![f] = 1]
  PROVE  /\ flash' \in [valid : BOOLEAN, session : Sessions \cup {0}, confirmed : {1, 255},
                        commitDone : {1, 255}, secondary : {1, 255}, marks : SUBSET Packets]
         /\ flash'.valid = flash.valid /\ flash'.session = flash.session
         /\ flash'.marks = flash.marks
         /\ f # "confirmed" => flash'.confirmed = flash.confirmed
BY DEF TypeOK

LEMMA FlagStep ==
  ASSUME IndInv, FlashStep, NEW f \in {"confirmed", "secondary"}, Busy(<<WriteFlag(f)>>),
         f = "confirmed" /\ reconnects = 0 => flash.marks = Packets
  PROVE  IndInv'
<1> USE DEF IndInv
<1>1. Head(todo) = WriteFlag(f) /\ Tail(todo) = <<>> /\ todo = <<WriteFlag(f)>>
  BY HeadAndTail DEF Busy
<1>2. Head(todo).op = "flag" /\ Head(todo).flag = f /\ Head(todo) # Reboot
  <2>1. WriteFlag(f).op = "flag" /\ WriteFlag(f).flag = f
    BY Operations
  <2>2. Reboot.op = "reboot"
    BY Operations
  <2> QED
    BY <1>1, <2>1, <2>2
<1>3. Carried /\ UNCHANGED <<passive, active>> /\ todo' = <<>> /\ flash' = [flash EXCEPT ![f] = 1]
  BY <1>1, <1>2, FlashStepIs DEF Carried
<1>4. /\ flash' \in [valid : BOOLEAN, session : Sessions \cup {0}, confirmed : {1, 255},
                     commitDone : {1, 255}, secondary : {1, 255}, marks : SUBSET Packets]
      /\ flash'.valid = flash.valid /\ flash'.session = flash.session
      /\ flash'.marks = flash.marks
      /\ f # "confirmed" => flash'.confirmed = flash.confirmed
  BY <1>3, FlagIs
<1>5. LastOp(todo) = "flag" /\ LastOp(todo') = "none" /\ Idle'
  <2>1. LastOp(<<WriteFlag(f)>>) = WriteFlag(f).op /\ LastOp(<<>>) = "none"
    BY FirstAndLast
  <2> QED
    BY <1>1, <1>3, <2>1, Operations DEF Idle
<1>6. /\ UNCHANGED <<passive, active, data, count, validated, digestmatch, digest, read, timers>>
      /\ UNCHANGED <<manager, disturbed, powerLosses, reconnects>>
  BY <1>3 DEF Carried
<1>7. TypeOK'
  BY <1>4, <1>6 DEF TypeOK
<1>8. TodoInv' /\ TimersInv' /\ SessionInv'
  BY <1>4, <1>5, <1>6 DEF TodoInv, TimersInv, SessionInv
<1>9. CountInv'
  BY <1>4, <1>5, <1>6
  DEF CountInv, Transferring, Initialising, Erasing, Writing, SwitchingOver
<1>10. ConfirmedInv'
  BY <1>4, <1>6 DEF ConfirmedInv, CountInv
<1>11. DigestInv' /\ ImageInv' /\ ActiveInv'
  BY <1>4, <1>5, <1>6
  DEF DigestInv, ImageInv, ActiveInv, DoneMeansActive, Activating, Activated, SwitchingOver
<1> QED
  BY <1>7, <1>8, <1>9, <1>10, <1>11

\* Switching over: the partitions change places, and the node starts again.
LEMMA SwitchTodoEnds ==
  /\ LastOp(<<SetActive, Reboot>>) = "reboot" /\ FirstOp(<<SetActive, Reboot>>) = "set active"
  /\ LastOp(<<SetActive, WriteFlag("commitDone"), Reboot>>) = "reboot"
  /\ FirstOp(<<SetActive, WriteFlag("commitDone"), Reboot>>) = "set active"
  /\ LastOp(<<WriteFlag("commitDone"), Reboot>>) = "reboot"
  /\ FirstOp(<<WriteFlag("commitDone"), Reboot>>) = "flag"
  /\ LastOp(<<Reboot>>) = "reboot" /\ FirstOp(<<Reboot>>) = "reboot"
<1>1. /\ LastOp(<<WriteFlag("commitDone"), Reboot>>) = Reboot.op
      /\ FirstOp(<<WriteFlag("commitDone"), Reboot>>) = WriteFlag("commitDone").op
      /\ LastOp(<<Reboot>>) = Reboot.op /\ FirstOp(<<Reboot>>) = Reboot.op
  BY FirstAndLast
<1> QED
  BY <1>1, SwitchTodo, Operations

LEMMA PartitionsType ==
  ASSUME TypeOK, active' \in Contents, passive' \in [Packets -> Contents],
         UNCHANGED <<flash, data, count, validated, digestmatch, digest, read, timers>>,
         UNCHANGED <<manager, disturbed, powerLosses, reconnects>>
  PROVE  TypeOK'
BY DEF TypeOK

LEMMA SetActiveStep ==
  ASSUME IndInv, FlashStep, SwitchesOver, NEW rest \in {<<Reboot>>, <<WriteFlag("commitDone"), Reboot>>},
         Head(todo) = SetActive, Tail(todo) = rest,
         FirstOp(todo) = "set active", LastOp(todo) = "reboot"
  PROVE  IndInv'
<1> USE DEF IndInv
<1>1. Carried /\ todo' = rest /\ part_set_active_partition /\ UNCHANGED flash
  BY FlashStepIs, Operations DEF Carried
<1>2. LastOp(todo') = "reboot" /\ FirstOp(todo') # "set active"
  BY <1>1, SwitchTodoEnds
<1>3. /\ UNCHANGED <<flash, data, count, validated, digestmatch, digest, read, timers>>
      /\ UNCHANGED <<manager, disturbed, powerLosses, reconnects>>
  BY <1>1 DEF Carried
<1>4. /\ active' = Image(passive) /\ Image(passive) \in Sessions
      /\ flash.valid /\ flash.session = manager.session => active' = manager.session
  BY <1>1, ImageType
  DEF part_set_active_partition, ActiveInv, Activating, SwitchingOver
<1>5. active' \notin {Bad, Erased} /\ active' \in Contents
  BY <1>4, Constants DEF Contents
<1>6. passive' \in [Packets -> Contents] /\ \A q \in Packets : passive'[q] # Erased
  BY <1>1 DEF part_set_active_partition, ActiveInv, TypeOK
<1>7. TypeOK'
  <2>1. active' \in Contents /\ passive' \in [Packets -> Contents]
    BY <1>5, <1>6
  <2> QED
    BY <1>3, <2>1, PartitionsType
<1>8. TodoInv'
  <2>1. todo' = <<Reboot>> \/ todo' = <<WriteFlag("commitDone"), Reboot>>
    BY <1>1
  <2>2. SwitchesOver'
    BY <1>3, <2>1 DEF SwitchesOver, Busy
  <2> QED
    BY <2>2 DEF TodoInv
<1>9. TimersInv' /\ SessionInv'
  <2>1. timers \cap {"validate", "md5"} = {}
    BY FirstAndLast DEF TimersInv, Idle
  <2> QED
    BY <1>3, <2>1 DEF TimersInv, SessionInv
<1>10. CountInv' /\ ConfirmedInv'
  BY <1>2, <1>3, <1>6 DEF CountInv, ConfirmedInv, SwitchingOver, TypeOK
<1>11. DigestInv'
  BY <1>3 DEF DigestInv, SwitchesOver
<1>12. ImageInv'
  BY <1>2, <1>3 DEF ImageInv, Activated, SwitchingOver
<1>13. ActiveInv'
  BY <1>2, <1>3, <1>4, <1>5
  DEF ActiveInv, DoneMeansActive, SwitchesOver, Activating, Activated, SwitchingOver
<1> QED
  BY <1>7, <1>8, <1>9, <1>10, <1>11, <1>12, <1>13

LEMMA CommitDoneStep ==
  ASSUME IndInv, FlashStep, SwitchesOver, Busy(<<WriteFlag("commitDone"), Reboot>>)
  PROVE  IndInv'
<1> USE DEF IndInv
<1>1. /\ Head(todo) = WriteFlag("commitDone") /\ Tail(todo) = <<Reboot>>
      /\ todo = <<WriteFlag("commitDone"), Reboot>>
  BY HeadAndTail DEF Busy
<1>2. Head(todo).op = "flag" /\ Head(todo).flag = "commitDone" /\ Head(todo) # Reboot
  <2>1. WriteFlag("commitDone").op = "flag" /\ WriteFlag("commitDone").flag = "commitDone"
          /\ WriteFlag("commitDone") # Reboot
    BY Operations
  <2>2. Head(todo) = WriteFlag("commitDone")
    BY <1>1
  <2> QED
    BY <2>1, <2>2
<1>3. /\ Carried /\ UNCHANGED <<passive, active>> /\ todo' = <<Reboot>>
      /\ flash' = [flash EXCEPT !["commitDone"] = 1]
  BY <1>1, <1>2, FlashStepIs DEF Carried
<1>4. /\ flash' \in [valid : BOOLEAN, session : Sessions \cup {0}, confirmed : {1, 255},
                     commitDone : {1, 255}, secondary : {1, 255}, marks : SUBSET Packets]
      /\ flash'.valid = flash.valid /\ flash'.session = flash.session
      /\ flash'.marks = flash.marks /\ flash'.confirmed = flash.confirmed
  BY <1>3, FlagIs
<1>5. /\ LastOp(todo) = "reboot" /\ FirstOp(todo) = "flag"
      /\ LastOp(todo') = "reboot" /\ FirstOp(todo') = "reboot"
  BY <1>1, <1>3, SwitchTodoEnds
<1>6. /\ UNCHANGED <<passive, active, data, count, validated, digestmatch, digest, read, timers>>
      /\ UNCHANGED <<manager, disturbed, powerLosses, reconnects>>
  BY <1>3 DEF Carried
<1>7. TypeOK'
  BY <1>4, <1>6 DEF TypeOK
<1>8. TodoInv'
  BY <1>3, <1>6 DEF TodoInv, SwitchesOver, Busy
<1>9. TimersInv' /\ SessionInv'
  <2>1. timers \cap {"validate", "md5"} = {}
    BY <1>1 DEF TimersInv, Idle
  <2> QED
    BY <1>4, <1>6, <2>1 DEF TimersInv, SessionInv
<1>10. CountInv' /\ ConfirmedInv'
  BY <1>4, <1>5, <1>6 DEF CountInv, ConfirmedInv, SwitchingOver
<1>11. DigestInv' /\ ImageInv' /\ ActiveInv'
  BY <1>4, <1>5, <1>6
  DEF DigestInv, ImageInv, ActiveInv, DoneMeansActive, Activating, Activated, SwitchingOver
<1> QED
  BY <1>7, <1>8, <1>9, <1>10, <1>11

LEMMA SwitchesOverStep == ASSUME IndInv, FlashStep, SwitchesOver PROVE IndInv'
<1>1. CASE todo = <<SetActive, Reboot>>
  <2>1. /\ Head(todo) = SetActive /\ Tail(todo) = <<Reboot>>
        /\ FirstOp(todo) = "set active" /\ LastOp(todo) = "reboot"
    BY <1>1, HeadAndTail, SwitchTodoEnds
  <2> QED
    BY <2>1, SetActiveStep
<1>2. CASE todo = <<SetActive, WriteFlag("commitDone"), Reboot>>
  <2>1. Head(todo) = SetActive /\ Tail(todo) = <<WriteFlag("commitDone"), Reboot>>
    BY <1>2, HeadAndTail
  <2>2. FirstOp(todo) = "set active" /\ LastOp(todo) = "reboot"
    BY <1>2, SwitchTodoEnds
  <2> QED
    BY <2>1, <2>2, SetActiveStep
<1>3. CASE Busy(<<WriteFlag("commitDone"), Reboot>>)
  BY <1>3, CommitDoneStep
<1>4. CASE todo = <<Reboot>>
  <2>1. Head(todo) = Reboot /\ Head(todo).op = "reboot" /\ LastOp(todo) = "reboot"
          /\ FirstOp(todo) = "reboot"
    BY <1>4, HeadAndTail, SwitchTodoEnds, Operations
  <2>2. /\ Restarted /\ UNCHANGED <<manager, disturbed, powerLosses, reconnects>>
        /\ UNCHANGED <<flash, passive, active>>
    BY <2>1, FlashStepIs DEF FlashStep
  <2>3. /\ manager.step # "done"
        /\ flash.valid /\ flash.session = manager.session => active = manager.session
    BY <2>1 DEF SwitchesOver, IndInv, ActiveInv, Activated, SwitchingOver
  <2>4. powerLosses' \in 0 .. MaxPowerLosses /\ disturbed' \in BOOLEAN
    BY <2>2 DEF IndInv, TypeOK
  <2> QED
    BY <2>2, <2>3, <2>4, RestartInv
<1> QED
  BY <1>1, <1>2, <1>3, <1>4 DEF SwitchesOver, Busy

LEMMA FlashStepInv == ASSUME IndInv, FlashStep PROVE IndInv'
<1>1. ~Idle /\ TodoInv
  BY DEF FlashStep, Idle, IndInv
<1>2. CASE Confirms
  BY <1>2, FlagStep DEF Confirms
<1>3. CASE IsSecondary
  BY <1>3, FlagStep DEF IsSecondary
<1> QED
  BY <1>1, <1>2, <1>3, BeginsUpdateStep, ErasesBlockStep, StoresPacketStep, SwitchesOverStep
  DEF TodoInv

-----------------------------------------------------------------------------
(* The theorems.                                                           *)

LEMMA NextInv == ASSUME IndInv, [Next]_vars PROVE IndInv'
<1>1. CASE Message
  BY <1>1, HandleNmeIupInitInv, HandleNmeIupTransferInv, HandleNmeIupConfirmInv,
     HandleNmeIupValidateInv, HandleNmeIupSwitchOverInv, HandleNmeIupStatusInv,
     HandleNmeIupCommitInv, UnansweredInv
  DEF Message
<1>2. CASE Timer
  BY <1>2, InitUpdateProcessInv, ComputeMD5DigestInv, CalculateMD5Inv, SwitchOverImageInv,
     CommitImageInv
  DEF Timer
<1>3. CASE UNCHANGED vars
  <2>1. TypeOK' /\ TimersInv' /\ SessionInv' /\ ConfirmedInv' /\ DigestInv'
    BY <1>3 DEF vars, IndInv, TypeOK, TimersInv, Idle, SessionInv, ConfirmedInv, DigestInv
  <2>2. TodoInv'
    BY <1>3
    DEF vars, IndInv, TodoInv, Idle, BeginsUpdate, ErasesBlock, StoresPacket, Confirms,
        IsSecondary, SwitchesOver, Busy, Transferring
  <2>3. CountInv'
    BY <1>3
    DEF vars, IndInv, CountInv, Transferring, Initialising, Erasing, Writing, SwitchingOver
  <2>4. ImageInv' /\ ActiveInv'
    BY <1>3
    DEF vars, IndInv, ImageInv, ActiveInv, DoneMeansActive, Activating, Activated, SwitchingOver
  <2> QED
    BY <2>1, <2>2, <2>3, <2>4 DEF IndInv
<1> QED
  BY <1>1, <1>2, <1>3, FlashStepInv, PowerLossInv, EventNormalConnectedInv DEF Next

LEMMA Invariance == Spec => []IndInv
<1>1. IndInv /\ [Next]_vars => IndInv'
  BY NextInv
<1> QED
  BY <1>1, InitInv, PTL DEF Spec

\* Every variable of an update keeps to its type, also the count of packets, which
\* connections to the network inflate (IzotCal.c, lcs_iup.c).
THEOREM TypeCorrect == Spec => []TypeOK
<1>1. IndInv => TypeOK
  BY DEF IndInv
<1> QED
  BY <1>1, Invariance, PTL

-----------------------------------------------------------------------------
(* Confirmed images.                                                       *)

\* What is stored is of the session that the block of the update names, which is the node's.
StoredInv ==
    /\ flash.valid /\ "init" \notin timers /\ FirstOp(todo) # "erase block"
       => data.session = flash.session
    /\ flash.valid => \/ active = flash.session
                      \/ \A p \in Packets : passive[p] \in {Erased, flash.session}
    /\ Busy(<<WriteInitData>>) => \A p \in Packets : passive[p] = Erased

\* Everything StoredInv speaks of, but for the operations to come.
Kept == UNCHANGED <<flash, passive, active>>

\* The operation each handler begins with.
LEMMA BeginsWith ==
  /\ FirstOp(<<EraseIupPersistData, ErasePartition, WriteInitData>>) = "erase block"
  /\ FirstOp(<<EraseIupPersistData>>) = "erase block"
  /\ \A p : FirstOp(<<WritePacket(p), MarkPacket(p)>>) = "packet" /\ FirstOp(<<MarkPacket(p)>>) = "mark"
  /\ \A f : FirstOp(<<WriteFlag(f)>>) = "flag"
<1>1. /\ FirstOp(<<EraseIupPersistData, ErasePartition, WriteInitData>>) = EraseIupPersistData.op
      /\ FirstOp(<<EraseIupPersistData>>) = EraseIupPersistData.op
  BY FirstAndLast
<1>2. ASSUME NEW p
      PROVE  /\ FirstOp(<<WritePacket(p), MarkPacket(p)>>) = "packet"
             /\ FirstOp(<<MarkPacket(p)>>) = "mark" /\ FirstOp(<<WriteFlag(p)>>) = "flag"
  <2>1. /\ FirstOp(<<WritePacket(p), MarkPacket(p)>>) = WritePacket(p).op
        /\ FirstOp(<<MarkPacket(p)>>) = MarkPacket(p).op
        /\ FirstOp(<<WriteFlag(p)>>) = WriteFlag(p).op
    BY FirstAndLast
  <2> QED
    BY <2>1, Operations
<1> QED
  BY <1>1, <1>2, Operations

LEMMA StoredStart == Init => StoredInv
BY DEF Init, StoredInv, ErasedBlock, Busy

LEMMA StoredMessage == ASSUME IndInv, StoredInv, Message PROVE StoredInv'
<1>1. Idle /\ Kept /\ todo' # <<WriteInitData>>
  <2>1. EraseIupPersistData # WriteInitData
    BY Operations
  <2>2. \A f : WriteFlag(f) # WriteInitData
    BY Operations
  <2>3. \A a, b : <<a, b>> # <<WriteInitData>>
    OBVIOUS
  <2> QED
    BY <2>1, <2>2, <2>3
    DEF Message, HandleNmeIupInit, HandleNmeIupTransfer, HandleNmeIupConfirm, HandleNmeIupValidate,
        HandleNmeIupSwitchOver, HandleNmeIupStatus, HandleNmeIupCommit, Unanswered, Asks, Idle, Kept
<1>2. "init" \in timers' \/ ("init" \notin timers /\ data'.session = data.session)
  BY DEF Message, HandleNmeIupInit, HandleNmeIupTransfer, HandleNmeIupConfirm, HandleNmeIupValidate,
         HandleNmeIupSwitchOver, HandleNmeIupStatus, HandleNmeIupCommit, Unanswered, Asks,
         IndInv, TypeOK
<1>3. FirstOp(todo) # "erase block"
  BY <1>1, FirstAndLast DEF Idle
<1> QED
  BY <1>1, <1>2, <1>3 DEF StoredInv, Kept, Busy

LEMMA StoredTimer == ASSUME IndInv, StoredInv, Timer PROVE StoredInv'
<1>1. Idle /\ Kept
  BY DEF Timer, InitUpdateProcess, ComputeMD5Digest, CalculateMD5, SwitchOverImage, CommitImage,
         Expires, Idle, Kept
<1>2. FirstOp(todo) # "erase block"
  BY <1>1, FirstAndLast DEF Idle
<1>3. todo' # <<WriteInitData>>
  <2>1. EraseIupPersistData # WriteInitData
    BY Operations
  <2>2. /\ \A a, b : <<a, b>> # <<WriteInitData>>
        /\ \A a, b, c : <<a, b, c>> # <<WriteInitData>>
        /\ <<>> # <<WriteInitData>>
    OBVIOUS
  <2> QED
    BY <1>1, <2>1, <2>2
    DEF Timer, InitUpdateProcess, InitOperations, ComputeMD5Digest, CalculateMD5, SwitchOverImage,
        CommitImage, Idle
<1>4. CASE InitUpdateProcess
  <2>1. FirstOp(todo') = "erase block"
    BY <1>4, BeginsWith DEF InitUpdateProcess, InitOperations
  <2> QED
    BY <1>1, <1>3, <2>1 DEF StoredInv, Kept, Busy
<1>5. CASE ~InitUpdateProcess
  <2>1. data'.session = data.session /\ ("init" \in timers <=> "init" \in timers')
    BY <1>5 DEF Timer, ComputeMD5Digest, CalculateMD5, SwitchOverImage, CommitImage, IndInv, TypeOK
  <2> QED
    BY <1>1, <1>2, <1>3, <2>1 DEF StoredInv, Kept, Busy
<1> QED
  BY <1>4, <1>5

LEMMA StoredRestart ==
  ASSUME IndInv, StoredInv, Kept, Restarted
  PROVE  StoredInv'
<1>1. todo' = <<>> /\ (flash.valid => data'.session = flash.session)
  BY RestartIs DEF IndInv, Stored
<1> QED
  BY <1>1 DEF StoredInv, Kept, Busy

LEMMA StoredConnected == ASSUME IndInv, StoredInv, EventNormalConnected PROVE StoredInv'
<1>1. todo' = <<>> /\ Kept /\ (flash.valid => data'.session = flash.session)
  BY DEF EventNormalConnected, readIupPersistData, Stored, Kept
<1> QED
  BY <1>1 DEF StoredInv, Kept, Busy

\* An operation that leaves alone what the block says of the session.
LEMMA StoredSession ==
  ASSUME StoredInv, Carried, FirstOp(todo) # "erase block",
         flash'.valid = flash.valid, flash'.session = flash.session
  PROVE  flash'.valid /\ "init" \notin timers' => data'.session = flash'.session
BY DEF StoredInv, Carried

LEMMA StoredBegins == ASSUME IndInv, StoredInv, FlashStep, BeginsUpdate PROVE StoredInv'
<1>1. CASE Busy(<<EraseIupPersistData, ErasePartition, WriteInitData>>)
  <2>1. Head(todo) = EraseIupPersistData /\ Tail(todo) = <<ErasePartition, WriteInitData>>
    BY <1>1, HeadAndTail DEF Busy
  <2>2. Carried /\ flash' = ErasedBlock
    BY <2>1, FlashStepIs, Operations
  <2>3. ~flash'.valid /\ todo' = <<ErasePartition, WriteInitData>>
    BY <2>1, <2>2 DEF Carried, ErasedBlock
  <2>4. todo' # <<WriteInitData>>
    BY <2>3
  <2> QED
    BY <2>3, <2>4 DEF StoredInv, Busy
<1>2. CASE Busy(<<ErasePartition, WriteInitData>>) /\ flash = ErasedBlock
  <2>1. Head(todo) = ErasePartition
    BY <1>2, HeadAndTail DEF Busy
  <2>2. UNCHANGED flash /\ passive' = [p \in Packets |-> Erased]
    BY <2>1, FlashStepIs, Operations
  <2>3. ~flash'.valid /\ \A p \in Packets : passive'[p] = Erased
    BY <1>2, <2>2 DEF ErasedBlock
  <2> QED
    BY <2>3 DEF StoredInv
<1>3. CASE Busy(<<WriteInitData>>) /\ flash = ErasedBlock
  <2>1. Head(todo) = WriteInitData /\ Tail(todo) = <<>>
    BY <1>3, HeadAndTail DEF Busy
  <2>2. Carried /\ flash' = [flash EXCEPT !.valid = TRUE, !.session = data.session]
          /\ UNCHANGED <<passive, active>>
    BY <2>1, FlashStepIs, Operations
  <2>3. /\ flash' = [flash EXCEPT !.valid = TRUE, !.session = data.session]
        /\ UNCHANGED <<passive, active>> /\ todo' = <<>> /\ data' = data
    BY <2>1, <2>2 DEF Carried
  <2>4. flash'.session = data.session
    BY <2>3, <1>3 DEF ErasedBlock
  <2>5. todo' # <<WriteInitData>>
    BY <2>3
  <2> QED
    BY <1>3, <2>3, <2>4, <2>5 DEF StoredInv, Busy
<1> QED
  BY <1>1, <1>2, <1>3 DEF BeginsUpdate

LEMMA StoredErases == ASSUME IndInv, StoredInv, FlashStep, ErasesBlock PROVE StoredInv'
<1>1. Head(todo) = EraseIupPersistData /\ Tail(todo) = <<>>
  BY HeadAndTail DEF ErasesBlock, Busy
<1>2. Carried /\ flash' = ErasedBlock
  BY <1>1, FlashStepIs, Operations
<1>3. ~flash'.valid /\ todo' = <<>>
  BY <1>1, <1>2 DEF Carried, ErasedBlock
<1>4. todo' # <<WriteInitData>>
  BY <1>3
<1> QED
  BY <1>3, <1>4 DEF StoredInv, Busy

LEMMA StoredPacket ==
  ASSUME IndInv, StoredInv, FlashStep, NEW p \in Packets, StoresPacket(p)
  PROVE  StoredInv'
<1>1. CASE Busy(<<WritePacket(p), MarkPacket(p)>>)
  <2>1. Head(todo) = WritePacket(p) /\ Tail(todo) = <<MarkPacket(p)>> /\ FirstOp(todo) = "packet"
    BY <1>1, HeadAndTail, BeginsWith DEF Busy
  <2>2. Head(todo).op = "packet" /\ Head(todo).packet = p /\ Head(todo) # Reboot
    <3>1. WritePacket(p).op = "packet" /\ WritePacket(p).packet = p /\ WritePacket(p) # Reboot
      BY Operations
    <3>2. Head(todo) = WritePacket(p)
      BY <2>1
    <3> QED
      BY <3>1, <3>2
  <2>3. /\ passive' = [passive EXCEPT ![p] = Overwritten(passive[p], data.session)]
        /\ UNCHANGED <<flash, active>> /\ Carried /\ todo' = <<MarkPacket(p)>>
    BY <2>1, <2>2, FlashStepIs DEF Carried
  <2>4. flash.valid => data.session = flash.session
    BY <2>1 DEF StoredInv, StoresPacket, Transferring
  <2>5. \A q \in Packets : passive'[q] = IF q = p THEN Overwritten(passive[p], data.session)
                                          ELSE passive[q]
    BY <2>3 DEF IndInv, TypeOK
  <2>6. MarkPacket(p) # WriteInitData
    <3>1. MarkPacket(p).op = "mark" /\ WriteInitData.op = "init data"
      BY Operations
    <3> QED
      BY <3>1
  <2>7. todo' # <<WriteInitData>>
    BY <2>3, <2>6
  <2>8. flash'.valid => \/ active' = flash'.session
                        \/ \A q \in Packets : passive'[q] \in {Erased, flash'.session}
    BY <2>3, <2>4, <2>5 DEF StoredInv, Overwritten
  <2> QED
    BY <2>1, <2>3, <2>7, <2>8, StoredSession DEF StoredInv, Busy
<1>2. CASE Busy(<<MarkPacket(p)>>)
  <2>1. Head(todo) = MarkPacket(p) /\ Tail(todo) = <<>> /\ FirstOp(todo) = "mark"
    BY <1>2, HeadAndTail, BeginsWith DEF Busy
  <2>2. Head(todo).op = "mark" /\ Head(todo).packet = p /\ Head(todo) # Reboot
    <3>1. MarkPacket(p).op = "mark" /\ MarkPacket(p).packet = p /\ MarkPacket(p) # Reboot
      BY Operations
    <3>2. Head(todo) = MarkPacket(p)
      BY <2>1
    <3> QED
      BY <3>1, <3>2
  <2>3. /\ flash' = [flash EXCEPT !.marks = flash.marks \cup {p}]
        /\ UNCHANGED <<passive, active>> /\ Carried /\ todo' = <<>>
    BY <2>1, <2>2, FlashStepIs DEF Carried
  <2>4. flash'.valid = flash.valid /\ flash'.session = flash.session
    BY <2>3 DEF IndInv, TypeOK
  <2>5. todo' # <<WriteInitData>>
    BY <2>3
  <2> QED
    BY <2>1, <2>3, <2>4, <2>5, StoredSession DEF StoredInv, Busy
<1> QED
  BY <1>1, <1>2 DEF StoresPacket

LEMMA StoredFlag ==
  ASSUME IndInv, StoredInv, FlashStep, NEW f \in {"confirmed", "secondary", "commitDone"},
         Head(todo) = WriteFlag(f), Tail(todo) # <<WriteInitData>>, FirstOp(todo) = "flag"
  PROVE  StoredInv'
<1>1. Head(todo).op = "flag" /\ Head(todo).flag = f /\ Head(todo) # Reboot
  <2>1. WriteFlag(f).op = "flag" /\ WriteFlag(f).flag = f /\ WriteFlag(f) # Reboot
    BY Operations
  <2> QED
    BY <2>1
<1>2. /\ flash' = [flash EXCEPT ![f] = 1]
      /\ UNCHANGED <<passive, active>> /\ Carried /\ todo' = Tail(todo)
  BY <1>1, FlashStepIs DEF Carried
<1>3. flash'.valid = flash.valid /\ flash'.session = flash.session
  BY <1>2 DEF IndInv, TypeOK
<1> QED
  BY <1>2, <1>3, StoredSession DEF StoredInv, Busy, Carried

\* The partitions change places: what was stored runs, and what ran is stored.
LEMMA StoredSetActive ==
  ASSUME IndInv, StoredInv, FlashStep, Head(todo) = SetActive, Tail(todo) # <<WriteInitData>>,
         FirstOp(todo) = "set active", LastOp(todo) = "reboot"
  PROVE  StoredInv'
<1>1. Carried /\ todo' = Tail(todo) /\ part_set_active_partition /\ UNCHANGED flash
  BY FlashStepIs, Operations DEF Carried
<1>2. Image(passive) # Bad
  BY DEF IndInv, ActiveInv, Activating, SwitchingOver
<1>3. PICK s \in Sessions : (\A p \in Packets : passive[p] = s) /\ Image(passive) = passive[1]
  BY <1>2 DEF Image
<1>4. 1 \in Packets
  BY FirstPacket
<1>5. Image(passive) = s /\ s # Erased
  BY <1>3, <1>4, Constants
<1>6. CASE flash.valid /\ active = flash.session
  <2>1. \A p \in Packets : passive'[p] = flash'.session
    BY <1>1, <1>6 DEF part_set_active_partition
  <2> QED
    BY <1>1, <2>1, StoredSession DEF StoredInv, Busy
<1>7. CASE flash.valid /\ \A p \in Packets : passive[p] \in {Erased, flash.session}
  <2>1. s = flash.session
    BY <1>3, <1>4, <1>5, <1>7
  <2>2. active' = flash'.session
    BY <1>1, <1>5, <2>1 DEF part_set_active_partition
  <2> QED
    BY <1>1, <2>2, StoredSession DEF StoredInv, Busy
<1>8. CASE ~flash.valid
  BY <1>1, <1>8 DEF StoredInv, Busy
<1> QED
  BY <1>6, <1>7, <1>8 DEF StoredInv

LEMMA StoredSwitches == ASSUME IndInv, StoredInv, FlashStep, SwitchesOver PROVE StoredInv'
<1>1. <<>> # <<WriteInitData>> /\ \A a, b : <<a, b>> # <<WriteInitData>>
  OBVIOUS
<1>2. Reboot # WriteInitData
  BY Operations
<1>3. <<Reboot>> # <<WriteInitData>>
  BY <1>2
<1>4. CASE Busy(<<SetActive, Reboot>>)
  <2>1. Head(todo) = SetActive /\ Tail(todo) = <<Reboot>> /\ FirstOp(todo) = "set active"
          /\ LastOp(todo) = "reboot"
    BY <1>4, HeadAndTail, SwitchTodoEnds DEF Busy
  <2> QED
    BY <1>3, <2>1, StoredSetActive
<1>5. CASE Busy(<<SetActive, WriteFlag("commitDone"), Reboot>>)
  <2>1. Head(todo) = SetActive /\ Tail(todo) = <<WriteFlag("commitDone"), Reboot>>
          /\ FirstOp(todo) = "set active" /\ LastOp(todo) = "reboot"
    BY <1>5, HeadAndTail, SwitchTodoEnds DEF Busy
  <2> QED
    BY <1>1, <2>1, StoredSetActive
<1>6. CASE Busy(<<WriteFlag("commitDone"), Reboot>>)
  <2>1. Head(todo) = WriteFlag("commitDone") /\ Tail(todo) = <<Reboot>> /\ FirstOp(todo) = "flag"
    BY <1>6, HeadAndTail, SwitchTodoEnds DEF Busy
  <2> QED
    BY <1>3, <2>1, StoredFlag
<1>7. CASE Busy(<<Reboot>>)
  <2>1. Head(todo) = Reboot
    BY <1>7, HeadAndTail DEF Busy
  <2>2. Restarted /\ Reboot.op = "reboot"
    BY <2>1, FlashStepIs, Operations
  <2>3. Kept
    BY <2>1, <2>2, Zenon DEF FlashStep, Kept
  <2> QED
    BY <2>2, <2>3, StoredRestart
<1> QED
  BY <1>4, <1>5, <1>6, <1>7 DEF SwitchesOver

LEMMA StoredFlashStep == ASSUME IndInv, StoredInv, FlashStep PROVE StoredInv'
<1>1. ~Idle /\ TodoInv
  BY DEF FlashStep, Idle, IndInv
<1>2. ASSUME NEW f \in {"confirmed", "secondary"}, Busy(<<WriteFlag(f)>>)
      PROVE  StoredInv'
  <2>1. Head(todo) = WriteFlag(f) /\ Tail(todo) = <<>> /\ FirstOp(todo) = "flag"
    BY <1>2, HeadAndTail, BeginsWith DEF Busy
  <2>2. Tail(todo) # <<WriteInitData>>
    BY <2>1
  <2> QED
    BY <2>1, <2>2, StoredFlag
<1> QED
  BY <1>1, <1>2, StoredBegins, StoredErases, StoredPacket, StoredSwitches
  DEF TodoInv, Confirms, IsSecondary

LEMMA StoredNext == ASSUME IndInv, StoredInv, [Next]_vars PROVE StoredInv'
<1>1. CASE PowerLoss
  <2>1. Restarted /\ Kept
    BY <1>1 DEF PowerLoss, Kept
  <2> QED
    BY <2>1, StoredRestart
<1>2. CASE UNCHANGED vars
  BY <1>2 DEF vars, StoredInv, Busy
<1> QED
  BY <1>1, <1>2, StoredMessage, StoredTimer, StoredFlashStep, StoredConnected DEF Next

\* HandleNmeIupConfirm confirms an image of which every packet is stored, unmixed with what
\* was there before, or that was switched over to, whatever was lost, came twice or was
\* interrupted by a loss of power, if InitUpdateProcess could erase the partition (lcs_iup.c).
THEOREM ConfirmedStaysStored == Spec => []ConfirmedIsStored
<1>1. IndInv /\ StoredInv => ConfirmedIsStored
  <2> SUFFICES ASSUME IndInv, StoredInv, Confirmed, PartitionWasErased, reconnects = 0
               PROVE  ImageIsStored
    BY DEF ConfirmedIsStored
  <2>1. data.session = flash.session /\ \A p \in Packets : passive[p] # Erased
    BY IdleIs, FirstAndLast DEF Confirmed, PartitionWasErased, StoredInv, IndInv, ConfirmedInv
  <2> QED
    BY <2>1 DEF ImageIsStored, StoredInv, PartitionWasErased
<1>2. IndInv /\ StoredInv /\ [Next]_vars => StoredInv'
  BY StoredNext
<1> QED
  BY <1>1, <1>2, StoredStart, Invariance, PTL DEF Spec

\* SwitchOverImage and CommitImage never make a partition active that holds no whole
\* image, although a new update does not stop their timers (lcs_iup.c).
THEOREM ActiveStaysWhole == Spec => []ActiveIsWhole
<1>1. IndInv => ActiveIsWhole
  BY DEF IndInv, ActiveInv, ActiveIsWhole
<1> QED
  BY <1>1, Invariance, PTL

\* A manager that HandleNmeIupStatus or HandleNmeIupCommit told that the update is done
\* has its image running, if neither power nor the network failed since it began.
THEOREM DoneStaysActive == Spec => []DoneMeansActive
<1>1. IndInv => DoneMeansActive
  BY DEF IndInv, ActiveInv
<1> QED
  BY <1>1, Invariance, PTL
=============================================================================
