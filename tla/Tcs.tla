-------------------------------- MODULE Tcs --------------------------------
(***************************************************************************)
(* The transaction control sublayer (lcs/lcs_tcs.c): it hands out the      *)
(* transaction numbers (TIDs) of the transport and session layers, one     *)
(* transaction at a time per priority, and remembers in a table the last   *)
(* TID used for each destination, so that a receiver never takes a new     *)
(* message for a retry of the previous one.                                *)
(*                                                                         *)
(* The message at the head of tsaOutQ or tsaOutPriQ is the only one that   *)
(* asks for a TID (SendNewMsg in lcs/lcs_tsa.c): request holds its         *)
(* destination until the transaction ends and the message is dropped. A    *)
(* table entry's timer is the time left of MIN_TABLE_TIME; what happens    *)
(* when the tick counter wraps is the subject of LonTimer.                 *)
(***************************************************************************)
EXTENDS Integers

CONSTANTS
    Priority,       \* "pri" and "nonpri": one control record and table each
    Dest,           \* destinations: records of a domain and an address in it
    DomainLen,      \* the domain id length of each domain
    MaxTid,         \* the largest TID, 15
    TableSize,      \* TID_TABLE_SIZE, 10
    MinTableTime,   \* MIN_TABLE_TIME, 24 seconds
    InheritedTids,  \* TIDs that proxied messages inherit
    NoDest          \* no message waits, and an address no destination has

Domain == {d.domain : d \in Dest}

Address == {d.addr : d \in Dest}

ASSUME TcsAssumption ==
    /\ MaxTid \in Nat \ {0, 1}
    /\ TableSize \in Nat \ {0}
    /\ MinTableTime \in Nat \ {0}
    /\ InheritedTids \subseteq 0 .. MaxTid
    /\ Dest \subseteq [domain : Domain, addr : Address]
    /\ DomainLen \in [Domain -> Nat]
    /\ \A a, b \in Domain : DomainLen[a] = 0 /\ DomainLen[b] = 0 => a = b
    /\ NoDest \notin Dest \union Domain \union Address

VARIABLES
    inProgress,  \* transCtrlRec.inProgress, per priority
    transNum,    \* transCtrlRec.transNum
    transID,     \* priTransID or nonpriTransID, the next TID to try
    tbl,         \* priTbl or nonpriTbl
    tblSize,     \* number of entries of tbl in use
    request,     \* the destination of the message at the head of the queue
    lastUse,     \* history: TID last used per destination, while recent
    inherited,   \* history: the current TID was set by OverrideTrans
    previous,    \* history: what was last used for the current destination
    misfiled     \* history: an entry was given a length that is not its own

tcsVars == <<inProgress, transNum, transID, tbl, tblSize>>
history == <<lastUse, inherited, previous, misfiled>>
vars == <<tcsVars, request, history>>

Tid == 0 .. MaxTid
NoTid == -1
Slot == 0 .. TableSize - 1

Entry == [domain : Domain \union {NoDest}, len : Nat,
          addr : Address \union {NoDest}, tid : Tid, timer : 0 .. MinTableTime]

\* The tables are zero-filled memory when the stack starts.
BlankEntry == [domain |-> NoDest, len |-> 0, addr |-> NoDest, tid |-> 0, timer |-> 0]

NeverUsed == [tid |-> NoTid, recent |-> 0, inherited |-> FALSE]

NoPrevious == [tid |-> NoTid, inherited |-> FALSE]

-----------------------------------------------------------------------------

\* Faulty variant: the TID is not wrapped to 4 bits.
BumpUnwrapped(t) == t + 1

\* The next TID; zero is used only right after a reset.
Bump(t) == IF t + 1 = MaxTid + 1 THEN 1 ELSE t + 1

\* Does table entry e stand for destination d? Domain ids are compared over
\* the length of d's domain id, so the empty id equals every id.
Match(e, d) ==
    /\ e.len = DomainLen[d.domain]
    /\ DomainLen[d.domain] = 0 \/ e.domain = d.domain
    /\ e.addr = d.addr

\* Where a search through S in increasing order stops: the least element.
First(S) == {i \in S : \A j \in S : i <= j}

Hits(p, d) == {i \in Slot : i < tblSize[p] /\ Match(tbl[p][i], d)}

\* Entries that LonTimerExpired lets go.
Replaceable(p) == {i \in Slot : i < tblSize[p] /\ tbl[p][i].timer = 0}

-----------------------------------------------------------------------------

Init ==
    /\ inProgress = [p \in Priority |-> FALSE]
    /\ transNum = [p \in Priority |-> 0]
    /\ transID = [p \in Priority |-> 0]
    /\ tbl = [p \in Priority |-> [i \in Slot |-> BlankEntry]]
    /\ tblSize = [p \in Priority |-> 0]
    /\ request = [p \in Priority |-> NoDest]
    /\ lastUse = [p \in Priority |-> [d \in Dest |-> NeverUsed]]
    /\ inherited = [p \in Priority |-> FALSE]
    /\ previous = [p \in Priority |-> NoPrevious]
    /\ misfiled = FALSE

\* A message to d reaches the head of the output queue.
Submit(p, d) ==
    /\ request[p] = NoDest
    /\ request' = [request EXCEPT ![p] = d]
    /\ UNCHANGED <<tcsVars, history>>

\* OverrideTrans right after NewTrans: a proxied message keeps the TID n of
\* the transaction that it is relayed for.
TidOrInherited(t, n) == IF n = NoTid THEN t ELSE n

\* The control record of a transaction to d that gets TID t, or inherits n. The
\* history remembers the TID that the messages to d really carry.
Begin(p, d, t, n) ==
    LET used == TidOrInherited(t, n)
    IN  /\ inProgress' = [inProgress EXCEPT ![p] = TRUE]
        /\ transNum' = [transNum EXCEPT ![p] = used]
        /\ transID' = [transID EXCEPT ![p] = used]
        /\ inherited' = [inherited EXCEPT ![p] = n # NoTid]
        /\ previous' = [previous EXCEPT ![p] = [tid |-> lastUse[p][d].tid,
                                                inherited |-> lastUse[p][d].inherited]]
        /\ lastUse' = [lastUse EXCEPT ![p][d] = [tid |-> used, recent |-> MinTableTime,
                                                 inherited |-> n # NoTid]]

\* Faulty variant: the TID is not compared with the last one.
NewTransFoundUnchecked(p, d, n) ==
    /\ ~inProgress[p] /\ request[p] = d
    /\ \E i \in First(Hits(p, d)) :
           /\ tbl' = [tbl EXCEPT ![p][i].tid = transID[p],
                                 ![p][i].timer = MinTableTime]
           /\ Begin(p, d, transID[p], n)
    /\ UNCHANGED <<tblSize, request, misfiled>>

\* NewTrans, destination in the table: a TID other than the last one.
NewTransFound(p, d, n) ==
    /\ ~inProgress[p] /\ request[p] = d
    /\ \E i \in First(Hits(p, d)) :
       LET t == IF tbl[p][i].tid = transID[p] THEN Bump(transID[p]) ELSE transID[p]
       IN  /\ tbl' = [tbl EXCEPT ![p][i].tid = t, ![p][i].timer = MinTableTime]
           /\ Begin(p, d, t, n)
    /\ UNCHANGED <<tblSize, request, misfiled>>

\* The table after an entry for d is written to place k of t. The length goes
\* to place i, where the search ended, as the code has it.
WithEntry(t, i, k, d, tid) ==
    [j \in Slot |->
        [domain |-> IF j = k /\ DomainLen[d.domain] # 0 THEN d.domain ELSE t[j].domain,
         len    |-> IF j = i THEN DomainLen[d.domain] ELSE t[j].len,
         addr   |-> IF j = k THEN d.addr ELSE t[j].addr,
         tid    |-> IF j = k THEN tid ELSE t[j].tid,
         timer  |-> IF j = k THEN MinTableTime ELSE t[j].timer]]

\* NewTrans, destination not in the table and there is room: the search ended
\* at i = tblSize, the place of the new entry.
NewTransAdd(p, d, n) ==
    /\ ~inProgress[p] /\ request[p] = d /\ Hits(p, d) = {}
    /\ tblSize[p] < TableSize
    /\ tbl' = [tbl EXCEPT ![p] = WithEntry(@, tblSize[p], tblSize[p], d, transID[p])]
    /\ tblSize' = [tblSize EXCEPT ![p] = @ + 1]
    /\ Begin(p, d, transID[p], n)
    /\ UNCHANGED <<request, misfiled>>

\* NewTrans, table full: the first entry that is old enough makes room, by
\* the last entry taking its place i. The entry that moves then has the length of
\* d's domain id, which may be another than its own (lcs_tcs.c:250).
NewTransReplace(p, d, n) ==
    /\ ~inProgress[p] /\ request[p] = d /\ Hits(p, d) = {}
    /\ tblSize[p] = TableSize
    /\ \E i \in First(Replaceable(p)) :
       LET k == TableSize - 1
       IN  /\ tbl' = [tbl EXCEPT ![p] =
                          WithEntry([@ EXCEPT ![i] = tbl[p][k]], i, k, d, transID[p])]
           /\ misfiled' = (misfiled \/ (i # k /\ tbl[p][k].len # DomainLen[d.domain]))
    /\ Begin(p, d, transID[p], n)
    /\ UNCHANGED <<tblSize, request>>

\* Faulty variant: looking for an entry to replace starts the timers again.
NewTransRefusedRefreshing(p, d) ==
    /\ ~inProgress[p] /\ request[p] = d /\ Hits(p, d) = {}
    /\ tblSize[p] = TableSize /\ Replaceable(p) = {}
    /\ transNum' = [transNum EXCEPT ![p] = transID[p]]
    /\ tbl' = [tbl EXCEPT ![p] =
                  [i \in Slot |-> [tbl[p][i] EXCEPT !.timer = MinTableTime]]]
    /\ UNCHANGED <<inProgress, transID, tblSize, request, history>>

\* NewTrans, table full and no entry old enough: LonStatusTransactionNotAvailable,
\* and the caller tries again later. Only transNum has changed.
NewTransRefused(p, d) ==
    /\ ~inProgress[p] /\ request[p] = d /\ Hits(p, d) = {}
    /\ tblSize[p] = TableSize /\ Replaceable(p) = {}
    /\ transNum' = [transNum EXCEPT ![p] = transID[p]]
    /\ UNCHANGED <<inProgress, transID, tbl, tblSize, request, history>>

\* TerminateTrans ends the transaction and drops the message it was for.
TransDone(p) ==
    /\ inProgress[p]
    /\ inProgress' = [inProgress EXCEPT ![p] = FALSE]
    /\ transID' = [transID EXCEPT ![p] = Bump(@)]
    /\ request' = [request EXCEPT ![p] = NoDest]
    /\ inherited' = [inherited EXCEPT ![p] = FALSE]
    /\ previous' = [previous EXCEPT ![p] = NoPrevious]
    /\ UNCHANGED <<transNum, tbl, tblSize, lastUse, misfiled>>

\* Node reset. The tables survive all but a power-up or external reset, after
\* which the transport layer waits until no receiver can remember a TID.
TransactionControlSublayerReset(cold) ==
    /\ transID' = [p \in Priority |-> 0]
    /\ inProgress' = [p \in Priority |-> FALSE]
    /\ tblSize' = IF cold THEN [p \in Priority |-> 0] ELSE tblSize
    /\ lastUse' = IF cold THEN [p \in Priority |-> [d \in Dest |-> NeverUsed]]
                          ELSE lastUse
    /\ request' = [p \in Priority |-> NoDest]
    /\ inherited' = [p \in Priority |-> FALSE]
    /\ previous' = [p \in Priority |-> NoPrevious]
    /\ misfiled' = (misfiled /\ ~cold)
    /\ UNCHANGED <<transNum, tbl>>

\* One unit of time less.
Elapse(t) == IF t = 0 THEN 0 ELSE t - 1

\* Time passes.
Tick ==
    /\ tbl' = [p \in Priority |-> [i \in Slot |->
                  [tbl[p][i] EXCEPT !.timer = Elapse(@)]]]
    /\ lastUse' = [p \in Priority |-> [d \in Dest |->
                  IF lastUse[p][d].recent <= 1 THEN NeverUsed
                  ELSE [lastUse[p][d] EXCEPT !.recent = Elapse(@)]]]
    /\ UNCHANGED <<inProgress, transNum, transID, tblSize, request, inherited, previous,
                   misfiled>>

\* One call of NewTrans for the message that waits.
NewTrans(p) ==
    \E d \in Dest :
        \/ \E n \in InheritedTids \union {NoTid} :
              NewTransFound(p, d, n) \/ NewTransAdd(p, d, n) \/ NewTransReplace(p, d, n)
        \/ NewTransRefused(p, d)

Next ==
    \/ \E p \in Priority : \/ \E d \in Dest : Submit(p, d)
                           \/ NewTrans(p)
                           \/ TransDone(p)
    \/ \E cold \in BOOLEAN : TransactionControlSublayerReset(cold)
    \/ Tick

Spec == Init /\ [][Next]_vars

\* The service loop keeps calling SendNewMsg for the head of the queue, time
\* passes, and a transaction ends by its last acknowledgement or retry.
Fairness ==
    /\ WF_vars(Tick)
    /\ \A p \in Priority : WF_vars(NewTrans(p)) /\ WF_vars(TransDone(p))

FairSpec == Spec /\ Fairness

-----------------------------------------------------------------------------

\* TIDs stay within 4 bits, the control records and tables well formed.
TypeOK ==
    /\ inProgress \in [Priority -> BOOLEAN]
    /\ transNum \in [Priority -> Tid]
    /\ transID \in [Priority -> Tid]
    /\ tbl \in [Priority -> [Slot -> Entry]]
    /\ tblSize \in [Priority -> 0 .. TableSize]
    /\ request \in [Priority -> Dest \union {NoDest}]
    /\ lastUse \in [Priority -> [Dest -> [tid : Tid \union {NoTid},
                                          recent : 0 .. MinTableTime,
                                          inherited : BOOLEAN]]]
    /\ inherited \in [Priority -> BOOLEAN]
    /\ previous \in [Priority -> [tid : Tid \union {NoTid}, inherited : BOOLEAN]]
    /\ misfiled \in BOOLEAN

\* No transaction in progress uses the TID that NewTrans last gave its destination.
NoTidRepeats ==
    \A p \in Priority :
        inProgress[p] /\ ~inherited[p] /\ ~previous[p].inherited
        => transNum[p] # previous[p].tid

\* "If found, a different TID is assigned for that destination" (lcs_tcs.c:100): a
\* transaction never uses the TID that its destination was last given less than
\* MIN_TABLE_TIME ago, also across a software reset, when the table is full, and
\* when proxied messages to other destinations move the TIDs about. Against that
\* comment it may, but only in two cases: the last messages to the destination
\* carried an inherited TID, which OverrideTrans enters in no table, or an
\* entry was given the wrong length when another was replaced (lcs_tcs.c:250).
TidDiffersFromPrevious == misfiled \/ NoTidRepeats

\* A message that waits because the table is full is not blocked for ever:
\* entries age while it waits, and it gets a TID, or a reset discards it.
WaitingMessageIsServed ==
    \A p \in Priority :
        (request[p] # NoDest) ~> (inProgress[p] \/ request[p] = NoDest)
=============================================================================
