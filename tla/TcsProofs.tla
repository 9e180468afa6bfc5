----------------------------- MODULE TcsProofs -----------------------------
(***************************************************************************)
(* For every number of TIDs, table size and set of destinations: the       *)
(* transaction control sublayer stays well formed, and it never gives a    *)
(* destination the TID it was given last, but in the two cases that        *)
(* TidDiffersFromPrevious names.                                           *)
(***************************************************************************)
EXTENDS Tcs, TLAPS

-----------------------------------------------------------------------------

\* The next TID is a TID, and another one.
LEMMA BumpChanges ==
  ASSUME NEW t \in Tid
  PROVE  Bump(t) \in Tid /\ Bump(t) # t
BY TcsAssumption DEF Tid, Bump

\* Writing an entry keeps a table of entries.
LEMMA WithEntryType ==
  ASSUME NEW t \in [Slot -> Entry], NEW i \in Slot, NEW k \in Slot,
         NEW d \in Dest, NEW tid \in Tid
  PROVE  WithEntry(t, i, k, d, tid) \in [Slot -> Entry]
<1>1. /\ d.domain \in Domain /\ d.addr \in Address
      /\ DomainLen[d.domain] \in Nat
      /\ MinTableTime \in 0 .. MinTableTime
  BY TcsAssumption
<1>2. \A j \in Slot : t[j] \in Entry
  OBVIOUS
<1> QED
  BY <1>1, <1>2 DEF WithEntry, Entry

\* Starting a transaction keeps the control record and the history well formed.
LEMMA BeginType ==
  ASSUME TypeOK, NEW p \in Priority, NEW d \in Dest, NEW t \in Tid,
         NEW n \in InheritedTids \union {NoTid},
         Begin(p, d, t, n)
  PROVE  /\ inProgress' \in [Priority -> BOOLEAN]
         /\ transNum' \in [Priority -> Tid]
         /\ transID' \in [Priority -> Tid]
         /\ lastUse' \in [Priority -> [Dest -> [tid : Tid \union {NoTid}, recent : 0 .. MinTableTime,
                                          inherited : BOOLEAN]]]
         /\ inherited' \in [Priority -> BOOLEAN]
         /\ previous' \in [Priority -> [tid : Tid \union {NoTid}, inherited : BOOLEAN]]
<1>1. TidOrInherited(t, n) \in Tid /\ (n # NoTid) \in BOOLEAN
  BY TcsAssumption DEF Tid, TidOrInherited
<1>2. MinTableTime \in 0 .. MinTableTime
  BY TcsAssumption
<1>3. inProgress' \in [Priority -> BOOLEAN]
  BY DEF TypeOK, Begin
<1>4. inherited' \in [Priority -> BOOLEAN]
  BY DEF TypeOK, Begin
<1>5. transNum' \in [Priority -> Tid] /\ transID' \in [Priority -> Tid]
  BY <1>1 DEF TypeOK, Begin
<1>6. previous' \in [Priority -> [tid : Tid \union {NoTid}, inherited : BOOLEAN]]
  BY DEF TypeOK, Begin
<1>7. lastUse' \in [Priority -> [Dest -> [tid : Tid \union {NoTid}, recent : 0 .. MinTableTime,
                                          inherited : BOOLEAN]]]
  BY <1>1, <1>2 DEF TypeOK, Begin
<1> QED
  BY <1>3, <1>4, <1>5, <1>6, <1>7

\* A sublayer that has just started is well formed.
LEMMA InitTypeOK == Init => TypeOK
<1>1. /\ 0 \in Tid /\ 0 \in 0 .. TableSize /\ 0 \in 0 .. MinTableTime /\ 0 \in Nat
  BY TcsAssumption DEF Tid
<1>2. BlankEntry \in Entry
  BY <1>1 DEF BlankEntry, Entry
<1>3. Init => misfiled \in BOOLEAN
  BY Zenon DEF Init
<1> QED
  BY <1>1, <1>2, <1>3 DEF Init, TypeOK, NeverUsed, NoPrevious

\* Every step keeps the sublayer well formed.
LEMMA NextTypeOK == TypeOK /\ [Next]_vars => TypeOK'
<1> SUFFICES ASSUME TypeOK, [Next]_vars PROVE TypeOK'
  OBVIOUS
<1>1. ASSUME NEW p \in Priority, NEW d \in Dest, Submit(p, d) PROVE TypeOK'
  BY <1>1 DEF TypeOK, Submit, tcsVars, history
<1>2. ASSUME NEW p \in Priority, NEW d \in Dest,
             NEW n \in InheritedTids \union {NoTid}, NewTransFound(p, d, n)
      PROVE  TypeOK'
  <2>1. PICK i \in First(Hits(p, d)), t \in Tid :
            /\ tbl' = [tbl EXCEPT ![p][i].tid = t, ![p][i].timer = MinTableTime]
            /\ Begin(p, d, t, n)
    <3>1. transID[p] \in Tid
      BY DEF TypeOK
    <3> QED
      BY <1>2, <3>1, BumpChanges DEF NewTransFound
  <2>2. i \in Slot /\ MinTableTime \in 0 .. MinTableTime
    BY TcsAssumption DEF First, Hits
  <2>3. tbl[p][i] \in Entry
    BY <2>2 DEF TypeOK
  <2>4. [[tbl[p][i] EXCEPT !.tid = t] EXCEPT !.timer = MinTableTime] \in Entry
    BY <2>2, <2>3 DEF Entry
  <2>5. tbl' \in [Priority -> [Slot -> Entry]]
    BY <2>1, <2>2, <2>3, <2>4 DEF TypeOK, Entry
  <2> QED
    BY <1>2, <2>1, <2>5, BeginType DEF TypeOK, NewTransFound
<1>3. ASSUME NEW p \in Priority, NEW d \in Dest,
             NEW n \in InheritedTids \union {NoTid}, NewTransAdd(p, d, n)
      PROVE  TypeOK'
  <2>1. transID[p] \in Tid /\ tblSize[p] \in Slot
    BY <1>3, TcsAssumption DEF TypeOK, NewTransAdd, Slot
  <2>2. tbl' \in [Priority -> [Slot -> Entry]]
    BY <1>3, <2>1, WithEntryType DEF TypeOK, NewTransAdd
  <2>3. tblSize' \in [Priority -> 0 .. TableSize]
    BY <1>3, <2>1, TcsAssumption DEF TypeOK, NewTransAdd, Slot
  <2> QED
    BY <1>3, <2>1, <2>2, <2>3, BeginType DEF TypeOK, NewTransAdd
<1>4. ASSUME NEW p \in Priority, NEW d \in Dest,
             NEW n \in InheritedTids \union {NoTid}, NewTransReplace(p, d, n)
      PROVE  TypeOK'
  <2>1. transID[p] \in Tid /\ TableSize - 1 \in Slot
    BY TcsAssumption DEF TypeOK, Slot
  <2>2. PICK i \in First(Replaceable(p)) :
            tbl' = [tbl EXCEPT ![p] =
                       WithEntry([tbl[p] EXCEPT ![i] = tbl[p][TableSize - 1]],
                                 i, TableSize - 1, d, transID[p])]
    BY <1>4 DEF NewTransReplace, TypeOK
  <2>3. i \in Slot
    BY DEF First, Replaceable
  <2>4. [tbl[p] EXCEPT ![i] = tbl[p][TableSize - 1]] \in [Slot -> Entry]
    BY <2>1, <2>3 DEF TypeOK
  <2>5. tbl' \in [Priority -> [Slot -> Entry]]
    BY <2>1, <2>2, <2>3, <2>4, WithEntryType DEF TypeOK
  <2> QED
    BY <1>4, <2>1, <2>5, BeginType DEF TypeOK, NewTransReplace
<1>5. ASSUME NEW p \in Priority, NEW d \in Dest, NewTransRefused(p, d) PROVE TypeOK'
  BY <1>5 DEF TypeOK, NewTransRefused, history
<1>6. ASSUME NEW p \in Priority, TransDone(p) PROVE TypeOK'
  BY <1>6, BumpChanges DEF TypeOK, TransDone, NoPrevious
<1>7. ASSUME NEW cold \in BOOLEAN, TransactionControlSublayerReset(cold)
      PROVE  TypeOK'
  <2>1. 0 \in Tid /\ 0 \in 0 .. TableSize /\ 0 \in 0 .. MinTableTime
    BY TcsAssumption DEF Tid
  <2>2. tblSize' \in [Priority -> 0 .. TableSize]
    BY <1>7, <2>1 DEF TypeOK, TransactionControlSublayerReset
  <2>3. lastUse' \in [Priority -> [Dest -> [tid : Tid \union {NoTid}, recent : 0 .. MinTableTime,
                                          inherited : BOOLEAN]]]
    BY <1>7, <2>1 DEF TypeOK, TransactionControlSublayerReset, NeverUsed
  <2> QED
    BY <1>7, <2>1, <2>2, <2>3 DEF TypeOK, TransactionControlSublayerReset, NoPrevious
<1>8. CASE Tick
  <2>1. \A t \in 0 .. MinTableTime : Elapse(t) \in 0 .. MinTableTime
    BY TcsAssumption DEF Elapse
  <2>2. ASSUME NEW p \in Priority, NEW i \in Slot
        PROVE  [tbl[p][i] EXCEPT !.timer = Elapse(@)] \in Entry
    <3>1. tbl[p][i] \in Entry
      BY DEF TypeOK
    <3>2. Elapse(tbl[p][i].timer) \in 0 .. MinTableTime
      BY <2>1, <3>1 DEF Entry
    <3> QED
      BY <3>1, <3>2 DEF Entry
  <2>3. tbl' \in [Priority -> [Slot -> Entry]]
    BY <1>8, <2>2 DEF Tick
  <2>4. 0 \in 0 .. MinTableTime
    BY TcsAssumption
  <2>5. lastUse' \in [Priority -> [Dest -> [tid : Tid \union {NoTid}, recent : 0 .. MinTableTime,
                                          inherited : BOOLEAN]]]
    <3>1. ASSUME NEW p \in Priority, NEW d \in Dest
          PROVE  (IF lastUse[p][d].recent <= 1 THEN NeverUsed
                  ELSE [lastUse[p][d] EXCEPT !.recent = Elapse(@)])
                 \in [tid : Tid \union {NoTid}, recent : 0 .. MinTableTime,
                                          inherited : BOOLEAN]
      <4>1. lastUse[p][d] \in [tid : Tid \union {NoTid}, recent : 0 .. MinTableTime,
                                          inherited : BOOLEAN]
        BY DEF TypeOK
      <4>2. Elapse(lastUse[p][d].recent) \in 0 .. MinTableTime
        BY <2>1, <4>1
      <4> QED
        BY <2>4, <4>1, <4>2 DEF NeverUsed
    <3> QED
      BY <1>8, <3>1 DEF Tick
  <2> QED
    BY <1>8, <2>3, <2>5 DEF TypeOK, Tick
<1>9. CASE UNCHANGED vars
  BY <1>9 DEF TypeOK, vars, tcsVars, history
<1> QED
  BY <1>1, <1>2, <1>3, <1>4, <1>5, <1>6, <1>7, <1>8, <1>9 DEF Next, NewTrans

\* TIDs stay within 4 bits and the tables within their size, also when TIDs
\* are inherited, entries replaced and the sublayer reset.
THEOREM TcsTypeCorrect == Spec => []TypeOK
BY InitTypeOK, NextTypeOK, PTL DEF Spec

-----------------------------------------------------------------------------

\* A destination has at most one entry.
OneEntryPerDest ==
    \A p \in Priority, d \in Dest : \A i, j \in Hits(p, d) : i = j

\* A TID that NewTrans gave less than MIN_TABLE_TIME ago, and that no proxied
\* message overrode, is in the entry of its destination, and that entry is not
\* older than the use of the TID.
LastTidRecorded ==
    \A p \in Priority, d \in Dest :
        lastUse[p][d].tid # NoTid /\ ~lastUse[p][d].inherited =>
            /\ lastUse[p][d].recent > 0
            /\ \E i \in Hits(p, d) : /\ tbl[p][i].tid = lastUse[p][d].tid
                                     /\ tbl[p][i].timer >= lastUse[p][d].recent

\* What holds while every entry has the length of its own domain id.
TidInv == TypeOK /\ OneEntryPerDest /\ LastTidRecorded /\ NoTidRepeats

\* The inductive invariant. A replacement writes the length of the new entry's
\* domain id to the place that was freed, not to the place of the new entry
\* (lcs_tcs.c:250): when the two lengths differ, nothing is known of the table from
\* there on until a reset clears it.
TcsInv == TypeOK /\ (~misfiled => TidInv)

\* An entry stands for one destination, since lengths are compared as well.
LEMMA MatchOneDest ==
  ASSUME NEW e, NEW a \in Dest, NEW b \in Dest, Match(e, a), Match(e, b)
  PROVE  a = b
<1>1. a \in [domain : Domain, addr : Address] /\ b \in [domain : Domain, addr : Address]
  BY TcsAssumption
<1>2. a.addr = b.addr
  BY DEF Match
<1>3. a.domain = b.domain
  BY <1>1, TcsAssumption DEF Match
<1> QED
  BY <1>1, <1>2, <1>3

\* What an entry written for d at place k, where the length is right, holds.
LEMMA EntryWritten ==
  ASSUME NEW t \in [Slot -> Entry], NEW i \in Slot, NEW k \in Slot,
         NEW d \in Dest, NEW tid \in Tid,
         i = k \/ t[k].len = DomainLen[d.domain]
  PROVE  LET T == WithEntry(t, i, k, d, tid)
         IN  /\ Match(T[k], d) /\ T[k].tid = tid /\ T[k].timer = MinTableTime
             /\ T[k].len = DomainLen[d.domain]
BY DEF WithEntry, Match

\* The other entries are what they were, when the length at place i was right.
LEMMA EntriesKept ==
  ASSUME NEW t \in [Slot -> Entry], NEW i \in Slot, NEW k \in Slot,
         NEW d \in Dest, NEW tid \in Tid,
         i = k \/ t[i].len = DomainLen[d.domain],
         NEW j \in Slot, j # k
  PROVE  LET T == WithEntry(t, i, k, d, tid)
         IN  /\ T[j].len = t[j].len /\ T[j].domain = t[j].domain
             /\ T[j].addr = t[j].addr /\ T[j].tid = t[j].tid
             /\ T[j].timer = t[j].timer
BY DEF WithEntry

\* A sublayer that has just started has assigned no TID.
LEMMA InitTidInv == Init => TidInv
<1>1. Init => OneEntryPerDest
  BY TcsAssumption DEF Init, OneEntryPerDest, Hits, Slot
<1>2. Init => LastTidRecorded
  BY DEF Init, LastTidRecorded, NeverUsed
<1>3. Init => NoTidRepeats
  BY DEF Init, NoTidRepeats
<1> QED
  BY <1>1, <1>2, <1>3, InitTypeOK DEF TidInv

\* A destination without an entry has no TID that must be avoided.
LEMMA NoEntryNoTid ==
  ASSUME TidInv, NEW p \in Priority, NEW d \in Dest, Hits(p, d) = {}
  PROVE  lastUse[p][d].inherited \/ lastUse[p][d].tid = NoTid
BY DEF TidInv, LastTidRecorded

\* Beginning a transaction with a TID other than the last one keeps TIDs apart.
LEMMA BeginDiffers ==
  ASSUME TidInv, NEW p \in Priority, NEW d \in Dest, NEW t \in Tid,
         NEW n \in InheritedTids \union {NoTid},
         Begin(p, d, t, n), lastUse[p][d].inherited \/ t # lastUse[p][d].tid
  PROVE  NoTidRepeats'
<1> SUFFICES ASSUME NEW q \in Priority, inProgress'[q], ~inherited'[q],
                    ~previous'[q].inherited
             PROVE  transNum'[q] # previous'[q].tid
  BY DEF NoTidRepeats
<1> USE DEF TidInv, TypeOK, Begin, TidOrInherited
<1>1. CASE q = p
  BY <1>1
<1>2. CASE q # p
  BY <1>2 DEF NoTidRepeats
<1> QED
  BY <1>1, <1>2

\* Beginning a transaction changes the history of its own destination only.
LEMMA BeginLastUse ==
  ASSUME TypeOK, NEW p \in Priority, NEW d \in Dest, NEW t \in Tid,
         NEW n \in InheritedTids \union {NoTid}, Begin(p, d, t, n)
  PROVE  /\ lastUse'[p][d].recent = MinTableTime
         /\ ~lastUse'[p][d].inherited => lastUse'[p][d].tid = t
         /\ \A q \in Priority, b \in Dest :
                ~(q = p /\ b = d) => lastUse'[q][b] = lastUse[q][b]
BY DEF TypeOK, Begin, TidOrInherited

\* NewTrans for a destination in the table keeps the invariant.
LEMMA FoundTidInv ==
  ASSUME TidInv, NEW p \in Priority, NEW d \in Dest,
         NEW n \in InheritedTids \union {NoTid}, NewTransFound(p, d, n)
  PROVE  /\ OneEntryPerDest' /\ LastTidRecorded'
         /\ NoTidRepeats'
<1>1. PICK i \in First(Hits(p, d)), t \in Tid :
          /\ t # tbl[p][i].tid
          /\ tbl' = [tbl EXCEPT ![p][i].tid = t, ![p][i].timer = MinTableTime]
          /\ Begin(p, d, t, n)
  <2>1. transID[p] \in Tid
    BY DEF TidInv, TypeOK
  <2> QED
    BY <2>1, BumpChanges DEF NewTransFound
<1>2. i \in Slot /\ i < tblSize[p] /\ Match(tbl[p][i], d) /\ i \in Hits(p, d)
  BY DEF First, Hits
<1>3. tblSize' = tblSize
  BY DEF NewTransFound
<1>4. ASSUME NEW q \in Priority, NEW j \in Slot
      PROVE  /\ tbl'[q][j].len = tbl[q][j].len
             /\ tbl'[q][j].domain = tbl[q][j].domain
             /\ tbl'[q][j].addr = tbl[q][j].addr
             /\ ~(q = p /\ j = i) => tbl'[q][j] = tbl[q][j]
  BY <1>1, <1>2 DEF TidInv, TypeOK, Entry
<1>5. tbl'[p][i].tid = t /\ tbl'[p][i].timer = MinTableTime
  BY <1>1, <1>2 DEF TidInv, TypeOK, Entry
<1>6. ASSUME NEW q \in Priority, NEW b \in Dest PROVE Hits(q, b)' = Hits(q, b)
  BY <1>3, <1>4 DEF Hits, Match
<1>8. OneEntryPerDest'
  BY <1>6 DEF OneEntryPerDest, TidInv
<1>9. /\ lastUse'[p][d].recent = MinTableTime
      /\ ~lastUse'[p][d].inherited => lastUse'[p][d].tid = t
      /\ \A q \in Priority, b \in Dest :
              ~(q = p /\ b = d) => lastUse'[q][b] = lastUse[q][b]
  BY <1>1, BeginLastUse DEF TidInv
<1>10. LastTidRecorded'
  <2> SUFFICES ASSUME NEW q \in Priority, NEW b \in Dest, lastUse'[q][b].tid # NoTid,
                      ~lastUse'[q][b].inherited
               PROVE  /\ lastUse'[q][b].recent > 0
                      /\ \E j \in Hits(q, b)' :
                            /\ tbl'[q][j].tid = lastUse'[q][b].tid
                            /\ tbl'[q][j].timer >= lastUse'[q][b].recent
    BY DEF LastTidRecorded
  <2>1. CASE q = p /\ b = d
    <3>1. lastUse'[q][b].tid = t /\ lastUse'[q][b].recent = MinTableTime
      BY <2>1, <1>9
    <3>2. i \in Hits(q, b)'
      BY <2>1, <1>2, <1>6
    <3> QED
      BY <2>1, <3>1, <3>2, <1>5, TcsAssumption
  <2>2. CASE ~(q = p /\ b = d)
    <3>1. lastUse'[q][b] = lastUse[q][b]
      BY <2>2, <1>9
    <3>2. PICK j \in Hits(q, b) : /\ tbl[q][j].tid = lastUse[q][b].tid
                                  /\ tbl[q][j].timer >= lastUse[q][b].recent
      BY <3>1 DEF TidInv, LastTidRecorded
    <3>3. j \in Slot /\ Match(tbl[q][j], b)
      BY DEF Hits
    <3>4. ~(q = p /\ j = i)
      BY <2>2, <3>3, <1>2, MatchOneDest
    <3>5. tbl'[q][j] = tbl[q][j]
      BY <3>3, <3>4, <1>4
    <3>6. lastUse[q][b].recent > 0
      BY <3>1 DEF TidInv, LastTidRecorded
    <3> QED
      BY <3>1, <3>2, <3>5, <3>6, <1>6
  <2> QED
    BY <2>1, <2>2
<1>11. lastUse[p][d].inherited \/ t # lastUse[p][d].tid
  <2>1. CASE lastUse[p][d].tid = NoTid
    BY <2>1, TcsAssumption DEF Tid, NoTid
  <2>2. CASE lastUse[p][d].tid # NoTid /\ ~lastUse[p][d].inherited
    <3>1. PICK j \in Hits(p, d) : tbl[p][j].tid = lastUse[p][d].tid
      BY <2>2 DEF TidInv, LastTidRecorded
    <3>2. j = i
      BY <1>2 DEF TidInv, OneEntryPerDest
    <3> QED
      BY <3>1, <3>2, <1>1
  <2> QED
    BY <2>1, <2>2
<1>12. NoTidRepeats'
  BY <1>1, <1>11, BeginDiffers
<1> QED
  BY <1>8, <1>10, <1>12

\* In the step, an entry for d with TID t is written to place k of p's table;
\* the other entries come from places src of the old table, each from another
\* one, and no entry whose time is not over is lost.
EntryAddedAt(p, d, t, k, src) ==
    /\ k < tblSize'[p]
    /\ \A q \in Priority : q # p => tbl'[q] = tbl[q] /\ tblSize'[q] = tblSize[q]
    /\ Match(tbl'[p][k], d) /\ tbl'[p][k].tid = t
    /\ tbl'[p][k].timer = MinTableTime
    /\ \A j \in Slot : j < tblSize'[p] /\ j # k =>
          /\ src[j] < tblSize[p]
          /\ tbl'[p][j].len = tbl[p][src[j]].len
          /\ tbl'[p][j].domain = tbl[p][src[j]].domain
          /\ tbl'[p][j].addr = tbl[p][src[j]].addr
          /\ tbl'[p][j].tid = tbl[p][src[j]].tid
          /\ tbl'[p][j].timer = tbl[p][src[j]].timer
    /\ \A i, j \in Slot :
          i < tblSize'[p] /\ i # k /\ j < tblSize'[p] /\ j # k /\ src[i] = src[j]
          => i = j
    /\ \A i \in Slot : i < tblSize[p] /\ tbl[p][i].timer > 0 =>
          \E j \in Slot : j < tblSize'[p] /\ j # k /\ src[j] = i

\* Such a step keeps the invariant when d had no entry.
LEMMA WriteTidInv ==
  ASSUME TidInv, NEW p \in Priority, NEW d \in Dest, NEW t \in Tid,
         NEW n \in InheritedTids \union {NoTid}, NEW k \in Slot, NEW src \in [Slot -> Slot],
         Hits(p, d) = {}, Begin(p, d, t, n), EntryAddedAt(p, d, t, k, src)
  PROVE  OneEntryPerDest' /\ LastTidRecorded'
<1> USE DEF EntryAddedAt
<1>1. ASSUME NEW q \in Priority, q # p, NEW b \in Dest PROVE Hits(q, b)' = Hits(q, b)
  BY <1>1 DEF Hits, Match
<1>2. ASSUME NEW b \in Dest, NEW j \in Hits(p, b)', j # k
      PROVE  j \in Slot /\ j < tblSize'[p] /\ src[j] \in Hits(p, b)
  BY <1>2 DEF Hits, Match
<1>3. ASSUME NEW b \in Dest, k \in Hits(p, b)' PROVE b = d
  <2>1. Match(tbl'[p][k], b)
    BY <1>3 DEF Hits, Match
  <2> QED
    BY <2>1, MatchOneDest
<1>4. k \in Hits(p, d)'
  BY DEF Hits, Match
<1>6. OneEntryPerDest'
  <2> SUFFICES ASSUME NEW q \in Priority, NEW b \in Dest,
                      NEW i \in Hits(q, b)', NEW j \in Hits(q, b)'
               PROVE  i = j
    BY DEF OneEntryPerDest
  <2>1. CASE q # p
    BY <2>1, <1>1 DEF TidInv, OneEntryPerDest
  <2>2. CASE q = p /\ b # d
    <3>1. i # k /\ j # k
      BY <2>2, <1>3
    <3>2. src[i] = src[j]
      BY <2>2, <3>1, <1>2 DEF TidInv, OneEntryPerDest
    <3>3. i \in Slot /\ i < tblSize'[p] /\ j \in Slot /\ j < tblSize'[p]
      BY <2>2, <3>1, <1>2
    <3> QED
      BY <3>1, <3>2, <3>3
  <2>3. CASE q = p /\ b = d
    BY <2>3, <1>2
  <2> QED
    BY <2>1, <2>2, <2>3
<1>7. /\ lastUse'[p][d].recent = MinTableTime
      /\ ~lastUse'[p][d].inherited => lastUse'[p][d].tid = t
      /\ \A q \in Priority, b \in Dest :
             ~(q = p /\ b = d) => lastUse'[q][b] = lastUse[q][b]
  BY BeginLastUse DEF TidInv
<1>8. LastTidRecorded'
  <2> SUFFICES ASSUME NEW q \in Priority, NEW b \in Dest, lastUse'[q][b].tid # NoTid,
                      ~lastUse'[q][b].inherited
               PROVE  /\ lastUse'[q][b].recent > 0
                      /\ \E j \in Hits(q, b)' :
                            /\ tbl'[q][j].tid = lastUse'[q][b].tid
                            /\ tbl'[q][j].timer >= lastUse'[q][b].recent
    BY DEF LastTidRecorded
  <2>1. CASE q = p /\ b = d
    BY <2>1, <1>4, <1>7, TcsAssumption
  <2>2. CASE ~(q = p /\ b = d)
    <3>1. lastUse'[q][b] = lastUse[q][b]
      BY <2>2, <1>7
    <3>2. lastUse[q][b].recent > 0
      BY <3>1 DEF TidInv, LastTidRecorded
    <3>3. PICK i \in Hits(q, b) : /\ tbl[q][i].tid = lastUse[q][b].tid
                                  /\ tbl[q][i].timer >= lastUse[q][b].recent
      BY <3>1 DEF TidInv, LastTidRecorded
    <3>4. CASE q # p
      BY <3>1, <3>2, <3>3, <3>4, <1>1
    <3>5. CASE q = p
      <4>1. i \in Slot /\ i < tblSize[p] /\ Match(tbl[p][i], b)
        BY <3>5 DEF Hits
      <4>2. tbl[p][i].timer > 0
        <5>1. tbl[p][i].timer \in Nat /\ lastUse[p][b].recent \in Nat
          BY <4>1 DEF TidInv, TypeOK, Entry
        <5> QED
          BY <5>1, <3>2, <3>3, <3>5
      <4>3. PICK j \in Slot : j < tblSize'[p] /\ j # k /\ src[j] = i
        BY <4>1, <4>2
      <4>4. j \in Hits(p, b)'
        BY <4>1, <4>3 DEF Hits, Match
      <4>5. tbl'[p][j].tid = tbl[p][i].tid /\ tbl'[p][j].timer = tbl[p][i].timer
        BY <4>3
      <4> QED
        BY <3>1, <3>2, <3>3, <3>5, <4>4, <4>5
    <3> QED
      BY <3>4, <3>5
  <2> QED
    BY <2>1, <2>2
<1> QED
  BY <1>6, <1>8

\* NewTrans for a new destination, with room in the table, keeps the invariant.
LEMMA AddTidInv ==
  ASSUME TidInv, NEW p \in Priority, NEW d \in Dest,
         NEW n \in InheritedTids \union {NoTid}, NewTransAdd(p, d, n)
  PROVE  /\ OneEntryPerDest' /\ LastTidRecorded'
         /\ NoTidRepeats'
<1> DEFINE k == tblSize[p]
           T == WithEntry(tbl[p], k, k, d, transID[p])
           src == [j \in Slot |-> j]
<1>1. k \in Slot /\ k \in Nat /\ transID[p] \in Tid /\ tbl[p] \in [Slot -> Entry]
  BY TcsAssumption DEF NewTransAdd, TidInv, TypeOK, Slot
<1>2. /\ tbl'[p] = T /\ tblSize'[p] = k + 1
      /\ \A q \in Priority : q # p => tbl'[q] = tbl[q] /\ tblSize'[q] = tblSize[q]
  BY DEF NewTransAdd, TidInv, TypeOK
<1>3. /\ Match(T[k], d) /\ T[k].tid = transID[p] /\ T[k].timer = MinTableTime
      /\ T[k].len = DomainLen[d.domain]
  BY <1>1, EntryWritten
<1>4. \A j \in Slot : j # k =>
         /\ T[j].len = tbl[p][j].len /\ T[j].domain = tbl[p][j].domain
         /\ T[j].addr = tbl[p][j].addr /\ T[j].tid = tbl[p][j].tid
         /\ T[j].timer = tbl[p][j].timer
  BY <1>1, EntriesKept
<1>5. \A j \in Slot : (j < tblSize'[p] /\ j # k) <=> j < tblSize[p]
  BY <1>1, <1>2 DEF Slot
<1>6. Hits(p, d) = {} /\ Begin(p, d, transID[p], n)
  BY DEF NewTransAdd
<1>7. OneEntryPerDest' /\ LastTidRecorded'
  <2>1. src \in [Slot -> Slot] /\ \A j \in Slot : src[j] = j
    OBVIOUS
  <2>2. k < tblSize'[p]
    BY <1>1, <1>2
  <2>3. /\ Match(tbl'[p][k], d) /\ tbl'[p][k].tid = transID[p]
        /\ tbl'[p][k].timer = MinTableTime
    BY <1>2, <1>3
  <2> HIDE DEF src, k
  <2>4. \A j \in Slot : j < tblSize'[p] /\ j # k =>
            /\ src[j] < tblSize[p]
            /\ tbl'[p][j].len = tbl[p][src[j]].len
            /\ tbl'[p][j].domain = tbl[p][src[j]].domain
            /\ tbl'[p][j].addr = tbl[p][src[j]].addr
            /\ tbl'[p][j].tid = tbl[p][src[j]].tid
            /\ tbl'[p][j].timer = tbl[p][src[j]].timer
    BY <1>2, <1>4, <1>5, <2>1
  <2>5. \A i, j \in Slot :
          i < tblSize'[p] /\ i # k /\ j < tblSize'[p] /\ j # k /\ src[i] = src[j]
          => i = j
    BY <2>1
  <2>6. \A i \in Slot : i < tblSize[p] /\ tbl[p][i].timer > 0 =>
            \E j \in Slot : j < tblSize'[p] /\ j # k /\ src[j] = i
    BY <1>5, <2>1
  <2> HIDE DEF T
  <2>7. EntryAddedAt(p, d, transID[p], k, src)
    BY <1>2, <2>2, <2>3, <2>4, <2>5, <2>6 DEF EntryAddedAt
  <2> QED
    BY <1>1, <1>6, <2>1, <2>7, WriteTidInv
<1>8. lastUse[p][d].inherited \/ transID[p] # lastUse[p][d].tid
  BY <1>1, <1>6, NoEntryNoTid, TcsAssumption DEF Tid, NoTid
<1> QED
  BY <1>1, <1>6, <1>7, <1>8, BeginDiffers

\* NewTrans that replaces an old entry keeps the invariant: the entry that
\* goes is no longer needed, and the last one, moved to its place, is kept.
LEMMA ReplaceTidInv ==
  ASSUME TidInv, NEW p \in Priority, NEW d \in Dest,
         NEW n \in InheritedTids \union {NoTid}, NewTransReplace(p, d, n), ~misfiled'
  PROVE  /\ OneEntryPerDest' /\ LastTidRecorded'
         /\ NoTidRepeats'
<1> DEFINE k == TableSize - 1
<1>1. /\ k \in Slot /\ k \in Nat /\ transID[p] \in Tid
      /\ tbl[p] \in [Slot -> Entry] /\ tblSize[p] = k + 1
  BY TcsAssumption DEF NewTransReplace, TidInv, TypeOK, Slot
<1>2. PICK i \in First(Replaceable(p)) :
          /\ tbl' = [tbl EXCEPT ![p] = WithEntry([tbl[p] EXCEPT ![i] = tbl[p][k]],
                                                 i, k, d, transID[p])]
          /\ i = k \/ tbl[p][k].len = DomainLen[d.domain]
  <2>1. PICK i \in First(Replaceable(p)) :
          /\ tbl' = [tbl EXCEPT ![p] = WithEntry([tbl[p] EXCEPT ![i] = tbl[p][k]],
                                                 i, k, d, transID[p])]
          /\ misfiled' = (misfiled \/ (i # k /\ tbl[p][k].len # DomainLen[d.domain]))
    BY Zenon DEF NewTransReplace
  <2>2. i = k \/ tbl[p][k].len = DomainLen[d.domain]
    BY <2>1, Zenon
  <2> QED
    BY <2>1, <2>2, Zenon
<1>3. i \in Slot /\ tbl[p][i].timer = 0 /\ (i = k \/ tbl[p][k].len = DomainLen[d.domain])
  BY <1>2 DEF First, Replaceable
<1> DEFINE old == [tbl[p] EXCEPT ![i] = tbl[p][k]]
           T == WithEntry(old, i, k, d, transID[p])
           src == [j \in Slot |-> IF j = i THEN k ELSE j]
<1>4. /\ tbl'[p] = T /\ tblSize' = tblSize
      /\ \A q \in Priority : q # p => tbl'[q] = tbl[q]
  BY <1>2 DEF NewTransReplace, TidInv, TypeOK
<1>5. /\ old \in [Slot -> Entry]
      /\ \A j \in Slot : old[j] = tbl[p][src[j]]
      /\ i = k \/ (old[i].len = DomainLen[d.domain] /\ old[k].len = DomainLen[d.domain])
  <2>1. old \in [Slot -> Entry] /\ \A j \in Slot : old[j] = tbl[p][src[j]]
    BY <1>1, <1>3
  <2> QED
    BY <1>1, <1>3, <2>1
<1> HIDE DEF old
<1>6. /\ Match(T[k], d) /\ T[k].tid = transID[p] /\ T[k].timer = MinTableTime
      /\ T[k].len = DomainLen[d.domain]
  BY <1>1, <1>3, <1>5, EntryWritten
<1>7. \A j \in Slot : j # k =>
         /\ T[j].len = old[j].len /\ T[j].domain = old[j].domain
         /\ T[j].addr = old[j].addr /\ T[j].tid = old[j].tid
         /\ T[j].timer = old[j].timer
  BY <1>1, <1>3, <1>5, EntriesKept
<1>8. \A j \in Slot : j < tblSize[p]
  BY <1>1 DEF Slot
<1>9. Hits(p, d) = {} /\ Begin(p, d, transID[p], n)
  BY DEF NewTransReplace
<1>10. OneEntryPerDest' /\ LastTidRecorded'
  <2>1. /\ src \in [Slot -> Slot]
        /\ \A a, b \in Slot : a # k /\ b # k /\ src[a] = src[b] => a = b
    BY <1>1
  <2>2. \A a \in Slot : tbl[p][a].timer > 0 =>
            \E j \in Slot : j # k /\ src[j] = a
    BY <1>1, <1>3
  <2>3. k < tblSize'[p]
    BY <1>1, <1>4
  <2>4. /\ Match(tbl'[p][k], d) /\ tbl'[p][k].tid = transID[p]
        /\ tbl'[p][k].timer = MinTableTime
    BY <1>4, <1>6
  <2> HIDE DEF src, k
  <2>5. \A j \in Slot : j < tblSize'[p] /\ j # k =>
            /\ src[j] < tblSize[p]
            /\ tbl'[p][j].len = tbl[p][src[j]].len
            /\ tbl'[p][j].domain = tbl[p][src[j]].domain
            /\ tbl'[p][j].addr = tbl[p][src[j]].addr
            /\ tbl'[p][j].tid = tbl[p][src[j]].tid
            /\ tbl'[p][j].timer = tbl[p][src[j]].timer
    BY <1>4, <1>5, <1>7, <1>8, <2>1
  <2>6. \A a, b \in Slot :
          a < tblSize'[p] /\ a # k /\ b < tblSize'[p] /\ b # k /\ src[a] = src[b]
          => a = b
    BY <2>1
  <2>7. \A a \in Slot : a < tblSize[p] /\ tbl[p][a].timer > 0 =>
            \E j \in Slot : j < tblSize'[p] /\ j # k /\ src[j] = a
    BY <1>4, <1>8, <2>2
  <2>8. \A q \in Priority : q # p => tbl'[q] = tbl[q] /\ tblSize'[q] = tblSize[q]
    BY <1>4
  <2> HIDE DEF T
  <2>9. EntryAddedAt(p, d, transID[p], k, src)
    BY <2>3, <2>4, <2>5, <2>6, <2>7, <2>8 DEF EntryAddedAt
  <2> QED
    BY <1>1, <1>9, <2>1, <2>9, WriteTidInv
<1>11. lastUse[p][d].inherited \/ transID[p] # lastUse[p][d].tid
  BY <1>1, <1>9, NoEntryNoTid, TcsAssumption DEF Tid, NoTid
<1> QED
  BY <1>1, <1>9, <1>10, <1>11, BeginDiffers

\* The steps that leave the table and its history alone.
LEMMA SameTable ==
  ASSUME TidInv, UNCHANGED <<tbl, tblSize, lastUse>>
  PROVE  OneEntryPerDest' /\ LastTidRecorded'
BY DEF TidInv, OneEntryPerDest, LastTidRecorded, Hits, Match

\* A reset that clears the table clears what it must remember.
LEMMA ColdReset ==
  ASSUME TransactionControlSublayerReset(TRUE)
  PROVE  OneEntryPerDest' /\ LastTidRecorded'
<1>1. \A p \in Priority : /\ tblSize'[p] = 0
                          /\ \A d \in Dest : lastUse'[p][d] = NeverUsed
  BY DEF TransactionControlSublayerReset
<1>2. \A i \in Slot : ~(i < 0)
  BY TcsAssumption DEF Slot
<1>3. OneEntryPerDest'
  BY <1>1, <1>2 DEF OneEntryPerDest, Hits
<1>4. LastTidRecorded'
  BY <1>1 DEF LastTidRecorded, NeverUsed
<1> QED
  BY <1>3, <1>4

\* Any reset keeps what the table holds, or clears it.
LEMMA ResetTidInv ==
  ASSUME TidInv, NEW cold \in BOOLEAN, TransactionControlSublayerReset(cold)
  PROVE  /\ OneEntryPerDest' /\ LastTidRecorded'
         /\ NoTidRepeats'
<1>1. NoTidRepeats'
  BY DEF TransactionControlSublayerReset, NoTidRepeats
<1>2. CASE ~cold
  <2>1. UNCHANGED <<tbl, tblSize, lastUse>>
    BY <1>2 DEF TransactionControlSublayerReset
  <2> QED
    BY <1>1, <2>1, SameTable
<1>3. CASE cold
  <2>1. TransactionControlSublayerReset(TRUE)
    BY <1>3, Zenon
  <2> QED
    BY <1>1, <2>1, ColdReset
<1> QED
  BY <1>2, <1>3

\* Time ages a table entry no faster than the use of its TID.
LEMMA TickTidInv ==
  ASSUME TidInv, Tick
  PROVE  /\ OneEntryPerDest' /\ LastTidRecorded'
         /\ NoTidRepeats'
<1>1. ASSUME NEW p \in Priority, NEW i \in Slot
      PROVE  /\ tbl'[p][i].len = tbl[p][i].len
             /\ tbl'[p][i].domain = tbl[p][i].domain
             /\ tbl'[p][i].addr = tbl[p][i].addr
             /\ tbl'[p][i].tid = tbl[p][i].tid
             /\ tbl'[p][i].timer = Elapse(tbl[p][i].timer)
             /\ tbl[p][i].timer \in Nat
  <2>1. tbl[p][i] \in Entry
    BY DEF TidInv, TypeOK
  <2>2. tbl'[p][i] = [tbl[p][i] EXCEPT !.timer = Elapse(tbl[p][i].timer)]
    BY DEF Tick
  <2> QED
    BY <2>1, <2>2 DEF Entry
<1>2. tblSize' = tblSize
  BY DEF Tick
<1>3. ASSUME NEW p \in Priority, NEW d \in Dest PROVE Hits(p, d)' = Hits(p, d)
  BY <1>1, <1>2 DEF Hits, Match
<1>4. OneEntryPerDest'
  BY <1>1, <1>2, <1>3 DEF TidInv, OneEntryPerDest
<1>5. LastTidRecorded'
  <2> SUFFICES ASSUME NEW p \in Priority, NEW d \in Dest, lastUse'[p][d].tid # NoTid,
                      ~lastUse'[p][d].inherited
               PROVE  /\ lastUse'[p][d].recent > 0
                      /\ \E j \in Hits(p, d)' :
                            /\ tbl'[p][j].tid = lastUse'[p][d].tid
                            /\ tbl'[p][j].timer >= lastUse'[p][d].recent
    BY DEF LastTidRecorded
  <2>1. lastUse[p][d] \in [tid : Tid \union {NoTid}, recent : 0 .. MinTableTime,
                                          inherited : BOOLEAN]
    BY DEF TidInv, TypeOK
  <2>2. lastUse[p][d].recent \in Nat /\ ~(lastUse[p][d].recent <= 1)
    BY <2>1, TcsAssumption DEF Tick, NeverUsed
  <2>3. /\ lastUse'[p][d].tid = lastUse[p][d].tid
        /\ lastUse'[p][d].inherited = lastUse[p][d].inherited
        /\ lastUse'[p][d].recent = lastUse[p][d].recent - 1
    BY <2>1, <2>2 DEF Tick, Elapse
  <2>4. PICK i \in Hits(p, d) : /\ tbl[p][i].tid = lastUse[p][d].tid
                                /\ tbl[p][i].timer >= lastUse[p][d].recent
    BY <2>3 DEF TidInv, LastTidRecorded
  <2>5. i \in Slot
    BY DEF Hits
  <2>6. tbl'[p][i].tid = tbl[p][i].tid /\ tbl'[p][i].timer >= lastUse'[p][d].recent
    BY <1>1, <2>2, <2>3, <2>4, <2>5 DEF Elapse
  <2> QED
    BY <1>3, <2>2, <2>3, <2>4, <2>6
<1>6. NoTidRepeats'
  BY DEF Tick, TidInv, NoTidRepeats
<1> QED
  BY <1>4, <1>5, <1>6

\* Every step after which no entry is known to have the wrong length.
LEMMA NextTidInv ==
  TidInv /\ [Next]_vars /\ ~misfiled' => TidInv'
<1> SUFFICES ASSUME TidInv, [Next]_vars, ~misfiled' PROVE TidInv'
  OBVIOUS
<1>0. TypeOK'
  BY NextTypeOK DEF TidInv
<1>1. ASSUME NEW p \in Priority, NEW d \in Dest, Submit(p, d) PROVE TidInv'
  <2>1. UNCHANGED <<tbl, tblSize, lastUse>>
    BY <1>1 DEF Submit, tcsVars, history
  <2>2. NoTidRepeats'
    BY <1>1 DEF Submit, tcsVars, history, TidInv, NoTidRepeats
  <2> QED
    BY <1>0, <2>1, <2>2, SameTable DEF TidInv
<1>2. ASSUME NEW p \in Priority, NEW d \in Dest,
             NEW n \in InheritedTids \union {NoTid},
             NewTransFound(p, d, n) \/ NewTransAdd(p, d, n) \/ NewTransReplace(p, d, n)
      PROVE  TidInv'
  BY <1>0, <1>2, FoundTidInv, AddTidInv, ReplaceTidInv DEF TidInv
<1>3. ASSUME NEW p \in Priority, NEW d \in Dest, NewTransRefused(p, d) PROVE TidInv'
  <2>1. UNCHANGED <<tbl, tblSize, lastUse>>
    BY <1>3 DEF NewTransRefused, history
  <2>2. NoTidRepeats'
    BY <1>3 DEF NewTransRefused, history, TidInv, TypeOK, NoTidRepeats
  <2> QED
    BY <1>0, <2>1, <2>2, SameTable DEF TidInv
<1>4. ASSUME NEW p \in Priority, TransDone(p) PROVE TidInv'
  <2>1. UNCHANGED <<tbl, tblSize, lastUse>>
    BY <1>4 DEF TransDone
  <2>2. NoTidRepeats'
    BY <1>4 DEF TransDone, TidInv, TypeOK, NoTidRepeats
  <2> QED
    BY <1>0, <2>1, <2>2, SameTable DEF TidInv
<1>5. ASSUME NEW cold \in BOOLEAN, TransactionControlSublayerReset(cold) PROVE TidInv'
  BY <1>0, <1>5, ResetTidInv DEF TidInv
<1>6. CASE Tick
  BY <1>0, <1>6, TickTidInv DEF TidInv
<1>7. CASE UNCHANGED vars
  <2>1. UNCHANGED <<tbl, tblSize, lastUse>>
    BY <1>7 DEF vars, tcsVars, history
  <2>2. NoTidRepeats'
    BY <1>7 DEF vars, tcsVars, history, TidInv, NoTidRepeats
  <2> QED
    BY <1>0, <2>1, <2>2, SameTable DEF TidInv
<1> QED
  BY <1>1, <1>2, <1>3, <1>4, <1>5, <1>6, <1>7 DEF Next, NewTrans

\* Only a reset that clears the table makes good for an entry misfiled.
LEMMA ClearedTidInv ==
  ASSUME TypeOK, misfiled, [Next]_vars, ~misfiled'
  PROVE  TidInv'
<1>1. TransactionControlSublayerReset(TRUE)
  <2>1. ASSUME NEW p \in Priority, NEW d \in Dest, Submit(p, d) PROVE FALSE
    BY <2>1, Zenon DEF Submit, history
  <2>2. ASSUME NEW p \in Priority, NewTrans(p) PROVE FALSE
    BY <2>2, Zenon DEF NewTrans, NewTransFound, NewTransAdd, NewTransReplace,
                       NewTransRefused, history
  <2>3. ASSUME NEW p \in Priority, TransDone(p) PROVE FALSE
    BY <2>3, Zenon DEF TransDone
  <2>4. CASE Tick
    BY <2>4, Zenon DEF Tick
  <2>5. CASE UNCHANGED vars
    BY <2>5, Zenon DEF vars, history
  <2>6. ASSUME NEW cold \in BOOLEAN, TransactionControlSublayerReset(cold) PROVE cold
    BY <2>6, Zenon DEF TransactionControlSublayerReset
  <2>7. PICK cold \in BOOLEAN : TransactionControlSublayerReset(cold)
    BY <2>1, <2>2, <2>3, <2>4, <2>5, Zenon DEF Next
  <2>8. cold = TRUE
    BY <2>6, <2>7, Zenon
  <2> QED
    BY <2>7, <2>8, Zenon
<1>2. TypeOK'
  BY NextTypeOK
<1>3. NoTidRepeats'
  BY <1>1 DEF TransactionControlSublayerReset, NoTidRepeats
<1> QED
  BY <1>1, <1>2, <1>3, ColdReset DEF TidInv

\* Every step keeps the inductive invariant.
LEMMA NextTcsInv == TcsInv /\ [Next]_vars => TcsInv'
<1>1. TcsInv /\ [Next]_vars => TypeOK'
  BY NextTypeOK DEF TcsInv
<1> QED
  BY <1>1, NextTidInv, ClearedTidInv, Zenon DEF TcsInv

\* No transaction uses the TID that its destination was last given less than
\* MIN_TABLE_TIME ago, whatever the lengths of the domain ids, the table size, the
\* order of messages, the TIDs proxied messages inherit, and the resets in between,
\* but for the cases of an inherited TID and of an entry misfiled by a replacement
\* (NewTrans in lcs_tcs.c).
THEOREM NewTidDiffers == Spec => []TidDiffersFromPrevious
<1>1. Init => TcsInv
  BY InitTidInv DEF TcsInv, TidInv
<1>2. TcsInv => TidDiffersFromPrevious
  BY Zenon DEF TcsInv, TidInv, TidDiffersFromPrevious
<1> QED
  BY <1>1, <1>2, NextTcsInv, PTL DEF Spec
=============================================================================
