----------------------------- MODULE NodeProofs -----------------------------
(***************************************************************************)
(* For one domain or two, every set of values and every set of messages:   *)
(* the configuration of a node matches its checksum wherever the code has  *)
(* taken care of it, the image in persistent memory is current when none   *)
(* is scheduled, and a locked node stays as it is.                         *)
(***************************************************************************)
EXTENDS Node, FiniteSetTheorems, TLAPS

Structures ==
    [state : States, config : Configurations, checksum : Configurations,
     errorLog : Errors, nodeState : States]
Data ==
    [mode : {"on", "off", "stopped"}, resetNode : BOOLEAN, selected : BOOLEAN,
     do_reset : BOOLEAN]
Responses == {None} \cup [code : {"success", "failure", "null"}, done : BOOLEAN]

\* What every handler makes of the EEPROM structure: one with its checksum up to date,
\* one whose configuration and checksum are as they were, or, with 'writes', any.
Made(e, writes) ==
    /\ e \in Structures
    /\ \/ e.checksum = e.config
       \/ e.config = eep.config /\ e.checksum = eep.checksum
       \/ writes

\* The handler of m ends as handlers do.
EndsWell(m) ==
    \E e \in Structures, g \in Data, answer \in Responses, writes \in BOOLEAN :
        Made(e, writes) /\ Ended(m, e, g, answer, writes)

-----------------------------------------------------------------------------
(* The operators the handlers are made of.                                 *)

\* TypeOK in terms of the sets above.
LEMMA TypeParts ==
  TypeOK <=> /\ eep \in Structures /\ gp \in Data /\ response \in Responses
             /\ image \in {None} \cup Images
             /\ {scheduled, unchecked, failed, open} \subseteq BOOLEAN
             /\ commands \in 0 .. MaxCommands /\ restarts \in 0 .. MaxRestarts
BY DEF TypeOK, Structures, Data, Responses

\* The checksum of a configuration that was changed is computed anew.
LEMMA Recomputed ==
  ASSUME NEW e \in Structures, NEW config \in Configurations
  PROVE  LET r == RecomputeChecksum([e EXCEPT !.config = config])
         IN  /\ r \in Structures
             /\ r.checksum = config /\ r.config = config /\ r.state = e.state
BY DEF RecomputeChecksum, Structures

\* Logging an error changes neither configuration nor state.
LEMMA Logs ==
  ASSUME NEW e \in Structures, NEW error \in {"checksum", "other"}
  PROVE  /\ OsalPrintLog(e, error) \in Structures
         /\ OsalPrintLog(e, error).config = e.config
         /\ OsalPrintLog(e, error).checksum = e.checksum
         /\ OsalPrintLog(e, error).state = e.state
BY DEF OsalPrintLog, LCS_WritePersistentNetworkImage, Structures, Errors

\* Every answer is one.
LEMMA Answers ==
  ASSUME TypeOK, NEW m \in Messages, NEW done \in BOOLEAN
  PROVE  /\ NMNDRespond(m, done) \in Responses /\ SendResponse(done) \in Responses
         /\ SendNullResponse \in Responses
BY TypeParts DEF NMNDRespond, SendResponse, SendNullResponse, Says, Responses, Messages

\* A handler that makes e of the structure, or refuses the message with it, ends as it
\* should.
LEMMA HandledEnds ==
  ASSUME TypeOK, NEW m \in Messages, NEW e, NEW g \in Data, NEW answer \in Responses,
         Made(e, FALSE), Handled(m, e, g, answer)
  PROVE  EndsWell(m)
BY DEF Handled, EndsWell, Made

LEMMA RefusedEnds ==
  ASSUME TypeOK, NEW m \in Messages, NEW e, Made(e, FALSE), Refused(m, e)
  PROVE  EndsWell(m)
BY TypeParts, Answers DEF Refused, Handled, EndsWell, Made

LEMMA LoggedEnds ==
  ASSUME TypeOK, NEW m \in Messages, Logged(m)
  PROVE  EndsWell(m)
BY TypeParts, Logs, RefusedEnds DEF Logged, Made

LEMMA UpdatedEnds ==
  ASSUME TypeOK, NEW m \in Messages, NEW config \in Configurations, Updated(m, config)
  PROVE  EndsWell(m)
<1> DEFINE e == RecomputeChecksum([eep EXCEPT !.config = config])
<1>1. e \in Structures /\ e.checksum = e.config
  BY TypeParts, Recomputed
<1>2. Ended(m, e, gp, NMNDRespond(m, TRUE), FALSE)
  BY DEF Updated, Handled
<1> HIDE DEF e
<1> QED
  BY <1>1, <1>2, TypeParts, Answers DEF EndsWell, Made

LEMMA QueriedEnds ==
  ASSUME TypeOK, NEW m \in Messages, NEW done \in BOOLEAN, Queried(m, done)
  PROVE  EndsWell(m)
BY TypeParts, Answers DEF Queried, Handled, EndsWell, Made

-----------------------------------------------------------------------------
(* The configurations that handlers and calls make.                        *)

\* Adding keys wraps.
LEMMA PlusType ==
  ASSUME NEW a \in Values, NEW b \in Values
  PROVE  Plus(a, b) \in Values
<1>1. Cardinality(Values) \in Nat /\ Cardinality(Values) > 1
  BY NodeAssumption, FS_CardinalityType
<1>2. Values = 0 .. Cardinality(Values) - 1
  BY NodeAssumption
<1>3. \A n \in Nat, k \in Nat : k > 1 => n % k \in 0 .. k - 1
  OBVIOUS
<1>4. a + b \in Nat
  BY <1>1, <1>2
<1> QED
  BY <1>1, <1>2, <1>3, <1>4 DEF Plus

\* An entry of the domain table, the lock and the tables are written as a whole.
LEMMA ConfigurationUpdates ==
  ASSUME NEW c \in Configurations
  PROVE  /\ \A v \in Values : [c EXCEPT !.tables = v] \in Configurations
         /\ \A b \in BOOLEAN : [c EXCEPT !.lock = b] \in Configurations
         /\ \A d \in Domains, x \in [valid : BOOLEAN, key : Values] :
               [c EXCEPT !.domain[d] = x] \in Configurations
         /\ \A d \in Domains : c.domain[d] \in [valid : BOOLEAN, key : Values]
BY DEF Configurations

LEMMA UpdateDomainType ==
  ASSUME TypeOK, NEW d \in Domains, NEW key \in Values
  PROVE  UpdateDomain(d, key) \in Configurations
<1>1. eep.config \in Configurations
  BY TypeParts DEF Structures
<1> QED
  BY <1>1, ConfigurationUpdates DEF UpdateDomain

\* A new key goes into the entry it belongs to.
LEMMA UpdateKeyType ==
  ASSUME TypeOK, NEW d \in Domains, NEW increment \in Values
  PROVE  [eep.config EXCEPT !.domain[d].key = Plus(@, increment)] \in Configurations
<1>1. eep.config \in Configurations /\ eep.config.domain[d].key \in Values
  BY TypeParts, ConfigurationUpdates DEF Structures, Configurations
<1>2. Plus(eep.config.domain[d].key, increment) \in Values
  BY <1>1, PlusType
<1> QED
  BY <1>1, <1>2 DEF Configurations

-----------------------------------------------------------------------------
(* The handlers.                                                           *)

\* How a message is judged.
LEMMA JudgedEnds ==
  ASSUME TypeOK, NEW m \in Messages, NEW accepted, NEW unknown,
         Judged(m, accepted, unknown),
         accepted => EndsWell(m), unknown => EndsWell(m)
  PROVE  EndsWell(m)
<1>1. Made(eep, FALSE)
  BY TypeParts DEF Made
<1> QED
  BY <1>1, RefusedEnds DEF Judged, Messages

\* The checksum is computed again when an index is refused.
LEMMA RefusedAndRecomputedEnds ==
  ASSUME TypeOK, NEW m \in Messages,
         Refused(m, RecomputeChecksum(OsalPrintLog(eep, "other")))
  PROVE  EndsWell(m)
<1> DEFINE l == OsalPrintLog(eep, "other")
<1>1. l \in Structures
  BY TypeParts, Logs
<1>2. Made(RecomputeChecksum(l), FALSE)
  <2> HIDE DEF l
  <2> QED
    BY <1>1 DEF Made, RecomputeChecksum, Structures
<1> QED
  BY <1>2, RefusedEnds

\* The handlers of domains and keys.
LEMMA DomainHandlers ==
  ASSUME TypeOK, NEW m \in Messages, NEW d \in Domains, NEW source \in Domains,
         NEW v \in Values,
         \/ HandleNMUpdateDomain(m, d, v) \/ HandleNmeUpdateDomain(m, d)
         \/ HandleNMLeaveDomain(m, d, source) \/ HandleNMUpdateKey(m, d, v)
  PROVE  EndsWell(m)
<1>1. eep.config \in Configurations /\ eep.config.domain[d].key \in Values
  BY TypeParts, ConfigurationUpdates DEF Structures, Configurations
<1>2. CASE HandleNMUpdateDomain(m, d, v)
  BY <1>2, JudgedEnds, UpdatedEnds, UpdateDomainType, RefusedAndRecomputedEnds
     DEF HandleNMUpdateDomain
<1>3. CASE HandleNmeUpdateDomain(m, d)
  BY <1>1, <1>3, JudgedEnds, UpdatedEnds, UpdateDomainType, RefusedAndRecomputedEnds
     DEF HandleNmeUpdateDomain
<1>4. CASE HandleNMUpdateKey(m, d, v)
  BY <1>4, JudgedEnds, UpdatedEnds, UpdateKeyType, LoggedEnds DEF HandleNMUpdateKey
<1>5. CASE HandleNMLeaveDomain(m, d, source)
  <2> DEFINE left == RecomputeChecksum([eep EXCEPT !.config.domain[d] = LeftDomain])
             none == \A x \in Domains : ~left.config.domain[x].valid
             e == IF none THEN [left EXCEPT !.state = "unconfigured"] ELSE left
             g == IF none THEN Reset ELSE gp
             answer == IF d = source THEN response ELSE NMNDRespond(m, TRUE)
  <2>1. LeftDomain \in [valid : BOOLEAN, key : Values]
    BY NodeAssumption DEF LeftDomain
  <2>2. [eep.config EXCEPT !.domain[d] = LeftDomain] \in Configurations
    BY <1>1, <2>1, ConfigurationUpdates
  <2>3. left \in Structures /\ left.checksum = left.config
    BY <2>2, TypeParts, Recomputed
  <2>4. e \in Structures /\ e.checksum = e.config
    <3> HIDE DEF left, none
    <3> QED
      BY <2>3 DEF Structures, States
  <2>5. g \in Data /\ answer \in Responses
    BY TypeParts, Answers DEF Reset, Data
  <2>6. Judged(m, Handled(m, e, g, answer), Logged(m))
    BY <1>5 DEF HandleNMLeaveDomain
  <2>7. Handled(m, e, g, answer) => EndsWell(m)
    <3> HIDE DEF e, g, answer
    <3> QED
      BY <2>4, <2>5 DEF Handled, EndsWell, Made
  <2> HIDE DEF e, g, answer
  <2> QED
    BY <2>6, <2>7, JudgedEnds, LoggedEnds
<1> QED
  BY <1>2, <1>3, <1>4, <1>5

\* The handler of both keys.
LEMMA KeysHandler ==
  ASSUME TypeOK, NEW m \in Messages, NEW increments \in [Domains -> Values],
         NEW replaces \in BOOLEAN, HandleNmeUpdateKey(m, increments, replaces)
  PROVE  EndsWell(m)
<1>1. eep.config \in Configurations
  BY TypeParts DEF Structures
<1>2. \A d \in Domains : eep.config.domain[d] \in [valid : BOOLEAN, key : Values]
  BY <1>1, ConfigurationUpdates
<1>3. \A d \in Domains : Plus(eep.config.domain[d].key, increments[d]) \in Values
  BY <1>2, PlusType
<1>4. NewKeys(increments, replaces) \in [Domains -> [valid : BOOLEAN, key : Values]]
  BY <1>2, <1>3 DEF NewKeys
<1>5. [eep.config EXCEPT !.domain = NewKeys(increments, replaces)] \in Configurations
  BY <1>1, <1>4 DEF Configurations
<1>6. CASE m.form = "misfit"
  BY <1>6, TypeParts, RefusedEnds DEF HandleNmeUpdateKey, Made
<1>7. CASE m.form # "misfit" /\ 1 \notin Domains
  BY <1>7, LoggedEnds DEF HandleNmeUpdateKey
<1>8. CASE m.form # "misfit" /\ 1 \in Domains
  BY <1>5, <1>8, UpdatedEnds DEF HandleNmeUpdateKey
<1> QED
  BY <1>6, <1>7, <1>8

\* The handlers of the other tables.
LEMMA TableHandlers ==
  ASSUME TypeOK, NEW m \in Messages, NEW v \in Values,
         \/ HandleNMUpdateAddr(m, v) \/ HandleNMUpdateGroupAddr(m, v)
         \/ HandleNMUpdateNvConfig(m, v) \/ HandleNmeUpdateNvCnfg(m, v)
         \/ HandleNmeUpdateNvAliasCnfg(m, v) \/ HandleNmeInitConfig(m)
         \/ HandleNMChecksumRecalc(m)
  PROVE  EndsWell(m)
<1>1. eep.config \in Configurations /\ 0 \in Values
  BY NodeAssumption, TypeParts DEF Structures
<1>2. /\ [eep.config EXCEPT !.tables = v] \in Configurations
      /\ Unconnected(eep.config) \in Configurations
  BY <1>1, ConfigurationUpdates DEF Unconnected
<1>3. Made(eep, FALSE)
  BY TypeParts DEF Made
<1>4. Refused(m, eep) \/ Logged(m) \/ Updated(m, [eep.config EXCEPT !.tables = v])
        \/ Updated(m, Unconnected(eep.config)) \/ Updated(m, eep.config) => EndsWell(m)
  BY <1>1, <1>2, <1>3, RefusedEnds, LoggedEnds, UpdatedEnds
<1>5. CASE HandleNMUpdateAddr(m, v)
  BY <1>4, <1>5, JudgedEnds, RefusedAndRecomputedEnds DEF HandleNMUpdateAddr
<1>6. CASE \/ HandleNMUpdateNvConfig(m, v) \/ HandleNmeUpdateNvCnfg(m, v)
           \/ HandleNmeUpdateNvAliasCnfg(m, v)
  BY <1>4, <1>6, JudgedEnds
     DEF HandleNMUpdateNvConfig, HandleNmeUpdateNvCnfg, HandleNmeUpdateNvAliasCnfg
<1> QED
  BY <1>4, <1>5, <1>6 DEF HandleNMUpdateGroupAddr, HandleNmeInitConfig, HandleNMChecksumRecalc

\* The handlers that report something.
LEMMA QueryHandlers ==
  ASSUME TypeOK, NEW m \in Messages,
         \/ HandleNMQueryDomain(m) \/ HandleNmeReportDomain(m) \/ HandleNmeReportKey(m)
         \/ HandleNMQueryAddr(m) \/ HandleNMQueryNvCnfg(m) \/ HandleNmeQueryNvCnfg(m)
         \/ HandleNmeQueryNvAliasCnfg(m) \/ HandleNMNVFetch(m) \/ HandleNMQuerySIData(m)
         \/ HandleNMReadMemory(m) \/ HandleNMRefresh(m) \/ HandleNmeUpdateNvByIndex(m)
         \/ HandleNmeQueryVersion(m) \/ HandleNmeQueryIpAddress(m)
         \/ HandleNmeQueryLonUdpAddrMapping(m)
         \/ HandleNDQueryStatus(m) \/ HandleNDTransceiverStatus(m)
         \/ HandleNDQueryUnconfig(m) \/ HandleNDQueryXcvrBidir(m) \/ HandleNDGetFullVersion(m)
  PROVE  EndsWell(m)
<1>1. Made(eep, FALSE)
  BY TypeParts DEF Made
<1>2. /\ Refused(m, eep) => EndsWell(m)
      /\ Logged(m) => EndsWell(m)
      /\ \A done \in BOOLEAN : Queried(m, done) => EndsWell(m)
  BY <1>1, RefusedEnds, LoggedEnds, QueriedEnds
<1>3. Handled(m, OsalPrintLog(eep, "other"), gp, SendResponse(FALSE)) => EndsWell(m)
  <2>1. Made(OsalPrintLog(eep, "other"), FALSE)
    BY TypeParts, Logs DEF Made
  <2> QED
    BY <2>1, TypeParts, Answers, HandledEnds
<1>4. Handled(m, eep, gp, SendNullResponse) => EndsWell(m)
  BY <1>1, TypeParts, Answers, HandledEnds
<1>5. CASE \/ HandleNMQueryDomain(m) \/ HandleNmeReportDomain(m) \/ HandleNMQueryAddr(m)
           \/ HandleNmeQueryNvCnfg(m) \/ HandleNmeQueryNvAliasCnfg(m)
  BY <1>2, <1>5
     DEF HandleNMQueryDomain, HandleNmeReportDomain, HandleNMQueryAddr,
         HandleNmeQueryNvCnfg, HandleNmeQueryNvAliasCnfg, Judged, Messages
<1>6. CASE \/ HandleNMQueryNvCnfg(m) \/ HandleNmeUpdateNvByIndex(m)
           \/ HandleNDQueryUnconfig(m)
  BY <1>2, <1>3, <1>4, <1>6
     DEF HandleNMQueryNvCnfg, Judged, HandleNmeUpdateNvByIndex, HandleNDQueryUnconfig, Messages
<1> QED
  BY <1>2, <1>5, <1>6
     DEF HandleNmeReportKey, HandleNMNVFetch, HandleNMQuerySIData, HandleNMReadMemory,
         HandleNMRefresh, HandleNmeQueryVersion, HandleNmeQueryIpAddress,
         HandleNmeQueryLonUdpAddrMapping, HandleNDQueryStatus, HandleNDTransceiverStatus,
         HandleNDQueryXcvrBidir, HandleNDGetFullVersion

\* The handlers of the node's mode and state.
LEMMA ModeHandlers ==
  ASSUME TypeOK, NEW m \in Messages, NEW mode \in NodeModes, NEW state \in States,
         HandleNMSetNodeMode(m, mode) \/ ChangeState(m, state)
  PROVE  EndsWell(m)
<1>1. Made(eep, FALSE) /\ gp \in Data /\ response \in Responses
  BY TypeParts DEF Made
<1>2. /\ Mode("off") \in Data /\ Mode("on") \in Data /\ Mode("stopped") \in Data
      /\ Reset \in Data /\ [gp EXCEPT !.do_reset = TRUE] \in Data
  BY <1>1 DEF Mode, Reset, Data
<1>3. CASE HandleNMSetNodeMode(m, mode)
  BY <1>1, <1>2, <1>3, HandledEnds, RefusedEnds DEF HandleNMSetNodeMode, Messages, NodeModes
<1>4. CASE ChangeState(m, state)
  <2>1. Made(RecomputeChecksum([eep EXCEPT !.state = state]), FALSE)
    BY <1>1 DEF Made, RecomputeChecksum, Structures
  <2>2. \A g \in Data : Handled(m, RecomputeChecksum([eep EXCEPT !.state = state]), g,
                                NMNDRespond(m, TRUE)) => EndsWell(m)
    BY <2>1, Answers, HandledEnds
  <2>3. Refused(m, eep) => EndsWell(m)
    BY <1>1, RefusedEnds
  <2> QED
    BY <1>1, <1>2, <1>4, <2>2, <2>3 DEF ChangeState, Judged, Messages
<1> QED
  BY <1>3, <1>4

\* The handler that writes memory may leave the checksum as it is.
LEMMA WriteMemoryHandler ==
  ASSUME TypeOK, NEW m \in Messages, NEW e \in Written(m), NEW recalculates \in BOOLEAN,
         NEW resets \in BOOLEAN, HandleNMWriteMemory(m, e, recalculates, resets)
  PROVE  EndsWell(m)
<1>1. CASE m.form # "fits"
  BY <1>1, TypeParts, RefusedEnds DEF HandleNMWriteMemory, Made
<1>2. CASE m.form = "fits"
  <2> DEFINE w == IF recalculates THEN RecomputeChecksum(e) ELSE e
             g == IF resets THEN Reset ELSE gp
  <2>1. eep \in Structures /\ eep.config \in Configurations
    BY TypeParts DEF Structures
  <2>2. e \in Structures
    <3>1. CASE \E b \in BOOLEAN : e = [eep EXCEPT !.config.lock = b]
      BY <2>1, <3>1, ConfigurationUpdates DEF Structures
    <3>2. CASE \E v \in Values : e = [eep EXCEPT !.config.tables = v]
      BY <2>1, <3>2, ConfigurationUpdates DEF Structures
    <3>3. CASE \E s \in States : e = [eep EXCEPT !.state = s]
      BY <2>1, <3>3 DEF Structures
    <3> QED
      BY <1>2, <3>1, <3>2, <3>3 DEF Written
  <2>3. Made(w, ~recalculates) /\ g \in Data
    BY <2>2, TypeParts DEF Made, RecomputeChecksum, Structures, Reset, Data
  <2>4. Ended(m, w, g, NMNDRespond(m, TRUE), ~recalculates)
    BY <1>2 DEF HandleNMWriteMemory
  <2> HIDE DEF w, g
  <2> QED
    BY <2>3, <2>4, Answers DEF EndsWell, Made
<1> QED
  BY <1>1, <1>2

\* The handlers of identification and the rest of diagnostics.
LEMMA OtherHandlers ==
  ASSUME TypeOK, NEW m \in Messages, NEW a \in BOOLEAN, NEW b \in BOOLEAN,
         \/ HandleNMQueryId(m, a, b) \/ RespondToQuery(m, a) \/ HandleNMWink(m, a)
         \/ HandleNDProxyCommand(m) \/ HandleNDClearStatus(m)
  PROVE  EndsWell(m)
<1>1. Made(eep, FALSE) /\ gp \in Data /\ response \in Responses
  BY TypeParts DEF Made
<1>2. /\ Refused(m, eep) => EndsWell(m)
      /\ \A done \in BOOLEAN : Queried(m, done) => EndsWell(m)
      /\ Handled(m, eep, gp, SendNullResponse) => EndsWell(m)
      /\ Handled(m, eep, gp, response) => EndsWell(m)
  BY <1>1, Answers, RefusedEnds, QueriedEnds, HandledEnds
<1>3. CASE HandleNMQueryId(m, a, b) \/ HandleNMWink(m, a)
  BY <1>2, <1>3 DEF HandleNMQueryId, HandleNMWink, Messages
<1>4. CASE RespondToQuery(m, a)
  <2>1. [gp EXCEPT !.selected = a] \in Data
    BY <1>1 DEF Data
  <2> QED
    BY <1>1, <1>2, <1>4, <2>1, Answers, HandledEnds DEF RespondToQuery
<1>5. CASE HandleNDProxyCommand(m)
  BY <1>2, <1>5, QueryHandlers DEF HandleNDProxyCommand
<1>6. CASE HandleNDClearStatus(m)
  <2>1. Made([eep EXCEPT !.errorLog = "none"], FALSE)
    BY <1>1 DEF Made, Structures, Errors
  <2> QED
    BY <1>1, <1>6, <2>1, Answers, HandledEnds DEF HandleNDClearStatus
<1> QED
  BY <1>3, <1>4, <1>5, <1>6

\* Every handler ends well.
LEMMA HandlersEnd ==
  ASSUME TypeOK, NEW m \in Messages, HandleNM(m) \/ HandleND(m)
  PROVE  EndsWell(m)
<1>1. Made(eep, FALSE) /\ 0 \in Domains
  BY TypeParts, NodeAssumption DEF Made
<1>2. CASE HandleNMExpanded(m)
  BY <1>1, <1>2, RefusedEnds, DomainHandlers, KeysHandler, TableHandlers, QueryHandlers,
     NodeAssumption DEF HandleNMExpanded
<1>3. CASE HandleNMUnlocked(m)
  <2>1. CASE \E d \in Domains, v \in Values :
               HandleNMUpdateDomain(m, d, v) \/ HandleNMUpdateKey(m, d, v)
    BY <2>1, DomainHandlers
  <2>2. CASE \E d \in Domains, source \in Domains : HandleNMLeaveDomain(m, d, source)
    BY <2>2, DomainHandlers, NodeAssumption
  <2>3. CASE \/ HandleNMQueryDomain(m) \/ HandleNMQueryAddr(m) \/ HandleNMQueryNvCnfg(m)
             \/ HandleNMNVFetch(m) \/ HandleNMQuerySIData(m)
             \/ HandleNMReadMemory(m) \/ HandleNMRefresh(m)
    BY <2>3, QueryHandlers
  <2>4. CASE \/ HandleNMChecksumRecalc(m)
             \/ \E v \in Values : \/ HandleNMUpdateAddr(m, v) \/ HandleNMUpdateGroupAddr(m, v)
                                  \/ HandleNMUpdateNvConfig(m, v)
    BY <2>4, TableHandlers, NodeAssumption
  <2>5. CASE \/ \E mode \in NodeModes : HandleNMSetNodeMode(m, mode)
             \/ \E s \in States : ChangeState(m, s)
    BY <2>5, ModeHandlers DEF NodeModes, States
  <2>6. CASE \E e \in Written(m), recalculates, resets \in BOOLEAN :
               HandleNMWriteMemory(m, e, recalculates, resets)
    BY <2>6, WriteMemoryHandler
  <2>7. CASE \E simple \in BOOLEAN : HandleNMWink(m, simple)
    BY <2>7, OtherHandlers
  <2> QED
    BY <1>2, <1>3, <2>1, <2>2, <2>3, <2>4, <2>5, <2>6, <2>7 DEF HandleNMUnlocked
<1>4. CASE HandleNM(m)
  BY <1>3, <1>4, QueryHandlers, OtherHandlers, LoggedEnds DEF HandleNM
<1>5. CASE HandleND(m)
  BY <1>1, <1>5, QueryHandlers, OtherHandlers, LoggedEnds, RefusedEnds DEF HandleND
<1> QED
  BY <1>4, <1>5

-----------------------------------------------------------------------------
(* The invariant.                                                          *)

\* Which state of the node was scheduled last, and that a stored image is the one
\* scheduled.
StateInv == eep.nodeState = eep.state \/ failed

StoredInv ==
    ~scheduled =>
        /\ image # None
        /\ image.config = eep.config /\ image.errorLog = eep.errorLog
        /\ image.nodeState = eep.nodeState

IndInv == TypeOK /\ ConfigurationIsChecked /\ StateInv /\ StoredInv

\* A node that is new is not yet stored.
LEMMA DefaultType == DefaultConfig \in Configurations /\ NewNode \in Structures
<1>1. 0 \in Values /\ 1 \in Values
  BY NodeAssumption
<1>2. DefaultConfig \in Configurations
  BY <1>1 DEF DefaultConfig, Configurations
<1>3. AddNV(DefaultConfig) \in Configurations
  BY <1>1, <1>2, ConfigurationUpdates DEF AddNV
<1> QED
  BY <1>2, <1>3 DEF NewNode, Structures, States, Errors

LEMMA StartDataType == ASSUME NEW state \in States PROVE StartData(state) \in Data
BY DEF StartData, ResetMode, Data, States

LEMMA InitInv == Init => IndInv
<1> SUFFICES ASSUME Init PROVE IndInv
  OBVIOUS
<1>1. eep \in Structures /\ gp \in Data /\ eep.nodeState = eep.state
  BY DefaultType, StartDataType DEF Init, NewNode, States
<1>2. commands \in 0 .. MaxCommands /\ restarts \in 0 .. MaxRestarts
  BY NodeAssumption DEF Init
<1> QED
  BY <1>1, <1>2, TypeParts
     DEF Init, IndInv, ConfigurationIsChecked, StateInv, StoredInv, Responses

\* The end of a handler, or of a call of the application: what e says is scheduled.
LEMMA EndedInv ==
  ASSUME IndInv, NEW m \in Messages, NEW e \in Structures, NEW g \in Data,
         NEW answer \in Responses, NEW writes \in BOOLEAN,
         Made(e, writes), Ended(m, e, g, answer, writes)
  PROVE  IndInv'
<1> USE DEF IndInv
<1>1. eep' \in Structures /\ eep'.config = e.config /\ eep'.checksum = e.checksum
        /\ eep'.state = e.state
  BY TypeParts DEF Ended, SaveIfChanged, LCS_WritePersistentNetworkImage, Structures
<1>2. /\ scheduled' \in BOOLEAN /\ unchecked' \in BOOLEAN /\ failed' \in BOOLEAN
      /\ open' \in BOOLEAN
  BY TypeParts DEF Ended, SaveIfChanged, Messages
<1>3. commands' \in 0 .. MaxCommands
  BY TypeParts, NodeAssumption DEF Ended, Count
<1>4. TypeOK'
  BY <1>1, <1>2, <1>3, TypeParts DEF Ended, Responses, Data, Structures, TypeOK
<1>5. ConfigurationIsChecked'
  BY <1>1 DEF Ended, Made, ConfigurationIsChecked
<1>6. CASE e = eep
  BY <1>4, <1>5, <1>6 DEF Ended, SaveIfChanged, StateInv, StoredInv
<1>7. CASE e # eep
  <2>1. scheduled' /\ eep'.nodeState = eep'.state
    BY <1>7 DEF Ended, SaveIfChanged, LCS_WritePersistentNetworkImage, Structures
  <2> QED
    BY <1>4, <1>5, <2>1 DEF StateInv, StoredInv
<1> QED
  BY <1>6, <1>7

LEMMA HandlerInv ==
  ASSUME IndInv, NEW m \in Messages, HandleNM(m) \/ HandleND(m)
  PROVE  IndInv'
<1>1. PICK e \in Structures, g \in Data, answer \in Responses, writes \in BOOLEAN :
         Made(e, writes) /\ Ended(m, e, g, answer, writes)
  BY HandlersEnd DEF IndInv, EndsWell
<1> QED
  BY <1>1, EndedInv

LEMMA CalledInv ==
  ASSUME IndInv, NEW e \in Structures, NEW g \in Data, Made(e, FALSE), Called(e, g)
  PROVE  IndInv'
<1> USE DEF IndInv
<1>1. eep' \in Structures /\ eep'.config = e.config /\ eep'.checksum = e.checksum
        /\ eep'.nodeState = eep'.state
  BY DEF Called, LCS_WritePersistentNetworkImage, Structures
<1>2. commands' \in 0 .. MaxCommands
  BY TypeParts, NodeAssumption DEF Called, Count
<1>3. scheduled' = TRUE /\ unchecked' \in BOOLEAN /\ failed' \in BOOLEAN /\ open' = FALSE
  BY TypeParts DEF Called
<1>4. TypeOK'
  BY <1>1, <1>2, <1>3, TypeParts DEF Called, Responses, Data, Structures, TypeOK
<1>5. ConfigurationIsChecked'
  BY <1>1 DEF Called, Made, ConfigurationIsChecked
<1> QED
  BY <1>1, <1>3, <1>4, <1>5 DEF StateInv, StoredInv

\* A change of the mode leaves what is stored alone.
LEMMA ModeChangedInv ==
  ASSUME IndInv, NEW g \in Data, ModeChanged(g)
  PROVE  IndInv'
<1>1. commands' \in 0 .. MaxCommands
  BY NodeAssumption DEF ModeChanged, Count, IndInv, TypeOK
<1>2. TypeOK'
  BY <1>1 DEF ModeChanged, IndInv, TypeOK, Data
<1> QED
  BY <1>2 DEF ModeChanged, IndInv, ConfigurationIsChecked, StateInv, StoredInv

\* The calls of the application.
LEMMA CallInv == ASSUME IndInv, Call PROVE IndInv'
<1>1. TypeOK
  BY DEF IndInv
<1>2. /\ eep \in Structures /\ gp \in Data /\ eep.config \in Configurations
      /\ 0 \in Domains
      /\ \A d \in Domains : eep.config.domain[d].key \in Values
  BY <1>1, TypeParts, NodeAssumption, ConfigurationUpdates DEF Structures
<1>3. /\ Mode("off") \in Data /\ Mode("on") \in Data /\ Mode("stopped") \in Data
      /\ Reset \in Data /\ [gp EXCEPT !.do_reset = TRUE] \in Data
  BY <1>2 DEF Mode, Reset, Data
<1>4. \A c \in Configurations :
         Configured(c) \in Structures /\ Made(Configured(c), FALSE)
  BY <1>2, Recomputed DEF Configured, Made
<1>5. CASE IzotUpdateConfigData
  BY <1>2, <1>4, <1>5, CalledInv, ConfigurationUpdates DEF IzotUpdateConfigData
<1>6. CASE IzotUpdateDomainConfig
  BY <1>1, <1>2, <1>4, <1>6, CalledInv, UpdateDomainType DEF IzotUpdateDomainConfig
<1>7. CASE IzotUpdateDomain
  <2>1. PICK d \in Domains :
          LET e == Configured(UpdateDomain(d, eep.config.domain[d].key))
          IN  IF d = 0 THEN Called([e EXCEPT !.state = "online"], Mode("on"))
              ELSE Called(e, gp)
    BY <1>7 DEF IzotUpdateDomain
  <2> DEFINE e == Configured(UpdateDomain(d, eep.config.domain[d].key))
  <2>2. e \in Structures /\ Made(e, FALSE) /\ e.checksum = e.config
    BY <1>1, <1>2, <1>4, UpdateDomainType, Recomputed DEF Configured
  <2> HIDE DEF e
  <2>3. [e EXCEPT !.state = "online"] \in Structures /\ Made([e EXCEPT !.state = "online"], FALSE)
    BY <2>2 DEF Made, Structures, States
  <2>4. CASE d = 0
    BY <1>3, <2>1, <2>3, <2>4, CalledInv DEF e
  <2>5. CASE d # 0
    BY <1>2, <2>1, <2>2, <2>5, CalledInv DEF e
  <2> QED
    BY <2>4, <2>5
<1>8. CASE IzotUpdateAddressConfig \/ IzotUpdateDpConfig \/ IzotUpdateAliasConfig
  BY <1>2, <1>4, <1>8, CalledInv, ConfigurationUpdates
     DEF IzotUpdateAddressConfig, IzotUpdateDpConfig, IzotUpdateAliasConfig
<1>9. CASE IzotClearStatus
  <2>1. LET e == [eep EXCEPT !.errorLog = "none"] IN e \in Structures /\ Made(e, FALSE)
    BY <1>2 DEF Made, Structures, Errors
  <2> QED
    BY <1>2, <1>9, <2>1, CalledInv DEF IzotClearStatus
<1>10. CASE IzotSetNodeMode
  <2>1. \A s \in States : LET e == RecomputeChecksum([eep EXCEPT !.state = s])
                          IN  e \in Structures /\ Made(e, FALSE)
    BY <1>2 DEF Made, RecomputeChecksum, Structures
  <2>2. CASE \E s \in States :
               Called(RecomputeChecksum([eep EXCEPT !.state = s]),
                      IF s = "applicationless" THEN Mode("stopped") ELSE gp)
    BY <1>2, <1>3, <2>1, <2>2, CalledInv
  <2> QED
    BY <1>3, <1>10, <2>2, ModeChangedInv DEF IzotSetNodeMode
<1> QED
  BY <1>5, <1>6, <1>7, <1>8, <1>9, <1>10 DEF Call

\* The reset of the node, and sending a response, change nothing that is stored.
LEMMA ServiceInv == ASSUME IndInv, NodeReset \/ SendToTsa PROVE IndInv'
<1> USE DEF IndInv
<1>1. gp' \in Data
  BY TypeParts DEF NodeReset, SendToTsa, ResetMode, Data, Structures, States
<1>2. TypeOK'
  BY <1>1 DEF NodeReset, SendToTsa, TypeOK, Data
<1> QED
  BY <1>2 DEF NodeReset, SendToTsa, ConfigurationIsChecked, StateInv, StoredInv

\* The check changes the state, and the history says so.
LEMMA CheckConfigurationInv == ASSUME IndInv, CheckConfiguration PROVE IndInv'
<1> USE DEF IndInv
<1> DEFINE e == [eep EXCEPT !.state = "unconfigured"]
<1>1. e \in Structures /\ e.config = eep.config /\ e.checksum = eep.checksum
  BY TypeParts DEF Structures, States
<1>2. eep' = OsalPrintLog(e, "checksum") /\ failed' = TRUE /\ gp' \in Data
  BY TypeParts DEF CheckConfiguration, Unconfigure, Data
<1>3. eep' \in Structures /\ eep'.config = eep.config /\ eep'.checksum = eep.checksum
  <2> HIDE DEF e
  <2> QED
    BY <1>1, <1>2, Logs
<1>4. TypeOK'
  BY <1>2, <1>3 DEF CheckConfiguration, Unconfigure, TypeOK, Structures, Data
<1>5. eep.errorLog = "checksum" => eep'.errorLog = eep.errorLog /\ eep'.nodeState = eep.nodeState
  BY <1>2, TypeParts DEF OsalPrintLog, Structures
<1>6. StoredInv'
  BY <1>3, <1>5 DEF CheckConfiguration, Unconfigure, StoredInv, TypeOK
<1> QED
  BY <1>2, <1>3, <1>4, <1>6 DEF CheckConfiguration, Unconfigure, ConfigurationIsChecked, StateInv

\* Storing the image.
LEMMA CommitInv == ASSUME IndInv, Commit PROVE IndInv'
<1> USE DEF IndInv
<1>1. image' \in Images /\ image' # None
  BY TypeParts, NodeAssumption DEF Commit, Structures, Images
<1>2. TypeOK'
  BY <1>1 DEF Commit, TypeOK
<1> QED
  BY <1>1, <1>2 DEF Commit, ConfigurationIsChecked, StateInv, StoredInv

\* Starting, from the image or as a new node.
LEMMA StartInv == ASSUME IndInv, PhysicalReset \/ PowerLoss PROVE IndInv'
<1> USE DEF IndInv
<1>1. LCS_Init /\ restarts' \in 0 .. MaxRestarts
  BY NodeAssumption DEF PhysicalReset, PowerLoss, TypeOK
<1>2. CASE image = None
  <2>1. eep' = NewNode /\ eep' \in Structures /\ eep'.state = eep'.nodeState
    BY <1>1, <1>2, DefaultType DEF LCS_Init, NewNode
  <2>2. gp' \in Data
    BY <1>1, <2>1, StartDataType DEF LCS_Init, Structures
  <2>3. TypeOK'
    BY <1>1, <1>2, <2>1, <2>2 DEF LCS_Init, TypeOK, Structures, Data
  <2> QED
    BY <1>1, <1>2, <2>1, <2>3 DEF LCS_Init, ConfigurationIsChecked, StateInv, StoredInv
<1>3. CASE image # None
  <2>1. image \in Images
    BY <1>3 DEF TypeOK
  <2>2. /\ eep' = Restored /\ eep' \in Structures /\ eep'.state = image.nodeState
        /\ eep'.nodeState = image.nodeState /\ eep'.config = image.config
        /\ eep'.checksum = image.config /\ eep'.errorLog = image.errorLog
    BY <1>1, <1>3, <2>1 DEF LCS_Init, Restored, Structures, Images
  <2>3. gp' \in Data
    BY <1>1, <2>2, StartDataType DEF LCS_Init, Structures
  <2>4. TypeOK'
    BY <1>1, <1>3, <2>2, <2>3 DEF LCS_Init, TypeOK, Structures, Data
  <2> QED
    BY <1>1, <1>3, <2>2, <2>4 DEF LCS_Init, ConfigurationIsChecked, StateInv, StoredInv
<1> QED
  BY <1>2, <1>3

LEMMA NextInv == IndInv /\ [Next]_vars => IndInv'
<1> SUFFICES ASSUME IndInv, [Next]_vars PROVE IndInv'
  OBVIOUS
<1>1. CASE \E m \in Received : HandleNM(m) \/ HandleND(m)
  BY <1>1, HandlerInv, NodeAssumption
<1>2. CASE UNCHANGED vars
  BY <1>2 DEF vars, IndInv, TypeOK, ConfigurationIsChecked, StateInv, StoredInv
<1> QED
  BY <1>1, <1>2, CallInv, ServiceInv, CheckConfigurationInv, CommitInv, StartInv DEF Next

\* The EEPROM structure, the mode, the image and the response are what they can be,
\* also after adding keys, which wrap, and leaving domains (lcs_netmgmt.c).
THEOREM TypeCorrect == Spec => []TypeOK
<1>1. IndInv => TypeOK
  BY DEF IndInv
<1> QED
  BY <1>1, InitInv, NextInv, PTL DEF Spec

\* The service loop never takes a change made by a handler or a call for damage:
\* when the configuration does not match its checksum, memory was written without
\* the checksum or the node is new (lcs.c:232).
THEOREM ConfigurationStaysChecked == Spec => []ConfigurationIsChecked
<1>1. IndInv => ConfigurationIsChecked
  BY DEF IndInv
<1> QED
  BY <1>1, InitInv, NextInv, PTL DEF Spec

\* When no store is scheduled a restart finds the configuration and the last error
\* as they are, and the state of the node unless the check changed it (HandleNM,
\* HandleND and the calls of IzotApi.c).
THEOREM ImageStaysCurrent == Spec => []ImageIsCurrent
<1>1. IndInv => ImageIsCurrent
  BY DEF IndInv, StateInv, StoredInv, ImageIsCurrent
<1> QED
  BY <1>1, InitInv, NextInv, PTL DEF Spec

-----------------------------------------------------------------------------
(* Network management authentication.                                      *)

\* What a message leaves as it is.
Keeps ==
    /\ eep'.config = eep.config /\ eep'.state = eep.state
    /\ gp' \in {gp, [gp EXCEPT !.selected = ~@]}

LEMMA HandledKeeps ==
  ASSUME TypeOK, NEW m \in Messages, NEW e \in Structures,
         NEW g \in {gp, [gp EXCEPT !.selected = ~@]}, NEW answer, Handled(m, e, g, answer),
         e.config = eep.config, e.state = eep.state
  PROVE  Keeps
BY TypeParts
   DEF Handled, Ended, SaveIfChanged, LCS_WritePersistentNetworkImage, Keeps, Structures

\* Refusing a message, reporting something and answering with nothing keep it.
LEMMA RefusedKeeps ==
  ASSUME TypeOK, NEW m \in Messages, NEW answer,
         \/ Refused(m, eep) \/ Logged(m) \/ Queried(m, TRUE) \/ Queried(m, FALSE)
         \/ Handled(m, eep, gp, answer)
  PROVE  Keeps
<1>1. eep \in Structures
  BY TypeParts
<1>2. CASE Logged(m)
  BY <1>1, <1>2, Logs, HandledKeeps DEF Logged, Refused
<1> QED
  BY <1>1, <1>2, HandledKeeps DEF Refused, Queried

\* Selecting the node changes the selection only.
LEMMA SelectionKeeps ==
  ASSUME TypeOK, NEW m \in Messages, NEW on \in BOOLEAN, RespondToQuery(m, on)
  PROVE  Keeps
<1>1. CASE m.form # "fits"
  BY <1>1, RefusedKeeps DEF RespondToQuery
<1>2. CASE m.form = "fits"
  <2>1. [gp EXCEPT !.selected = on] \in {gp, [gp EXCEPT !.selected = ~@]}
    BY TypeParts DEF Data
  <2> QED
    BY <1>2, <2>1, TypeParts, HandledKeeps DEF RespondToQuery
<1> QED
  BY <1>1, <1>2

\* The handlers that a locked node runs for anybody.
LEMMA LockedHandlersKeep ==
  ASSUME TypeOK, NEW m \in Messages, Locked(m), HandleNM(m) \/ HandleND(m)
  PROVE  Keeps
<1>1. /\ Refused(m, eep) => Keeps
      /\ Logged(m) => Keeps
      /\ Queried(m, TRUE) => Keeps
      /\ Queried(m, FALSE) => Keeps
      /\ Handled(m, eep, gp, SendNullResponse) => Keeps
  BY RefusedKeeps
<1>2. CASE \E a, b \in BOOLEAN : HandleNMQueryId(m, a, b)
  BY <1>1, <1>2 DEF HandleNMQueryId, Messages
<1>3. CASE HandleNmeQueryVersion(m) \/ HandleNmeQueryIpAddress(m)
  BY <1>1, <1>3 DEF HandleNmeQueryVersion, HandleNmeQueryIpAddress
<1>4. CASE HandleNDQueryStatus(m) \/ HandleNDProxyCommand(m) \/ HandleNDQueryXcvrBidir(m)
             \/ HandleNDGetFullVersion(m)
  BY <1>1, <1>4 DEF HandleNDQueryStatus, HandleNDProxyCommand, HandleNDQueryUnconfig,
                    HandleNDTransceiverStatus, HandleNDQueryXcvrBidir, HandleNDGetFullVersion
<1> QED
  BY <1>1, <1>2, <1>3, <1>4, SelectionKeeps DEF HandleNM, HandleND

\* A message that is not authenticated changes nothing of a configured node with
\* network management authentication but the selection and the last error,
\* whatever was done to the node before (HandleNM, HandleND).
THEOREM LockedStaysLocked == Spec => StaysLocked
<1> DEFINE Step == NodeConfigured /\ eep.config.lock /\ open' => Keeps
<1>1. IndInv /\ [Next]_vars => [Step]_vars
  <2> SUFFICES ASSUME IndInv, Next, NodeConfigured, eep.config.lock, open'
               PROVE  Keeps
    OBVIOUS
  <2>1. TypeOK /\ TypeOK'
    BY NextInv DEF IndInv
  <2>2. CASE \E m \in Received : HandleNM(m) \/ HandleND(m)
    <3>1. PICK m \in Messages : HandleNM(m) \/ HandleND(m)
      BY <2>2, NodeAssumption
    <3>2. \E e, g, answer, writes : Ended(m, e, g, answer, writes)
      BY <2>1, <3>1, HandlersEnd DEF EndsWell
    <3>3. Locked(m)
      BY <3>2 DEF Ended, Locked
    <3> QED
      BY <2>1, <3>1, <3>3, LockedHandlersKeep
  <2>3. CASE Call
    BY <2>3 DEF Call, IzotUpdateConfigData, IzotUpdateDomainConfig, IzotUpdateDomain,
                IzotUpdateAddressConfig, IzotUpdateDpConfig, IzotUpdateAliasConfig,
                IzotClearStatus, IzotSetNodeMode, Called, ModeChanged
  <2>4. CASE NodeReset \/ CheckConfiguration \/ SendToTsa \/ Commit
               \/ PhysicalReset \/ PowerLoss
    BY <2>4 DEF NodeReset, CheckConfiguration, Unconfigure, SendToTsa, Commit,
                PhysicalReset, PowerLoss, LCS_Init
  <2> QED
    BY <2>2, <2>3, <2>4 DEF Next
<1> QED
  BY <1>1, InitInv, NextInv, PTL DEF Spec, StaysLocked, Keeps
=============================================================================
