-------------------------------- MODULE Node --------------------------------
(***************************************************************************)
(* The node: its configuration, state and mode, the network management     *)
(* and diagnostic messages that change them (lcs/lcs_netmgmt.c), the calls *)
(* of the application that do (IzotApi.c), the check of the configuration  *)
(* and the reset in the service loop (lcs/lcs.c, lcs/lcs_node.c), and the  *)
(* image of all of it in persistent memory (lcs/lcs_eeprom.c).             *)
(*                                                                         *)
(* A handler is described by what it makes of the EEPROM structure, of the *)
(* rest of the node's data and of the queue of responses. Every handler    *)
(* ends like HandleNM and HandleND do: an EEPROM structure that was        *)
(* changed is scheduled to be stored.                                      *)
(*                                                                         *)
(* The checksum is represented by the configuration it was computed of.    *)
(***************************************************************************)
EXTENDS Integers, FiniteSets

CONSTANTS
    Domains,        \* indices of the domain table: 0 .. 1, or {0} on a node of one domain
    Values,         \* contents of a table, and differences between keys: 0 .. n - 1
    Received,       \* the messages that arrive, of Messages below
    MaxCommands,    \* bound on messages and calls of the application
    MaxRestarts,    \* bound on losses of power
    None

\* IzotNodeState, without the invalid ones.
States == {"unconfigured", "applicationless", "online", "offline"}

\* What a handler gets: whether it is a request, whether it was authenticated, and whether its
\* length is right, or its length is right but not the index or the selector it names.
Messages == [asks : BOOLEAN, auth : BOOLEAN, form : {"fits", "misfit", "unknown"}]

Configurations ==
    [domain : [Domains -> [valid : BOOLEAN, key : Values]], lock : BOOLEAN,
     tables : Values]      \* of addresses, of variables and of aliases

Errors == {"none", "checksum", "other"}

\* What is stored of the EEPROM structure.
Images == [config : Configurations, nodeState : States, errorLog : Errors]

ASSUME NodeAssumption ==
    /\ Domains \in {{0}, {0, 1}}
    /\ IsFiniteSet(Values)
    /\ {0, 1} \subseteq Values /\ Values = 0 .. Cardinality(Values) - 1
    /\ Received \subseteq Messages
    /\ MaxCommands \in Nat /\ MaxRestarts \in Nat
    /\ None \notin Images

VARIABLES
    eep,        \* eeprom[0]: state, config, checksum, errorLog, and nodeState as last scheduled
    gp,         \* mode (appPgmMode), resetNode, selected (selectQueryFlag), and do_reset
    scheduled,  \* persistence_list[IzotPersistentSegNetworkImage]
    image,      \* the network image in persistent memory
    response,   \* tsaRespQ, for one response: what it says and, as history, what was done
    unchecked,  \* history: the configuration was written and no checksum asked for since
    failed,     \* history: the check made the node unconfigured, and it still is for no other reason
    open,       \* history: the last step was that of a message that was not authenticated
    commands, restarts

vars == <<eep, gp, scheduled, image, response, unchecked, failed, open, commands, restarts>>

----------------------------------------------------------------------------
(* The state of the node.                                                  *)

NodeConfigured == eep.state \in {"online", "offline"}
NodeUnConfigured == eep.state # "online"
AppPgmRuns == eep.state = "online" /\ gp.mode = "on"

RecomputeChecksum(e) == [e EXCEPT !.checksum = e.config]
LCS_WritePersistentNetworkImage(e) == [e EXCEPT !.nodeState = e.state]

\* OsalPrintLog stores an error that is not the last one.
OsalPrintLog(e, error) ==
    IF e.errorLog = error THEN e
    ELSE LCS_WritePersistentNetworkImage([e EXCEPT !.errorLog = error])

\* A comparison of the tables alone.
SaveIfConfigured(e) ==
    /\ eep' = IF e.config = eep.config THEN e ELSE LCS_WritePersistentNetworkImage(e)
    /\ scheduled' = (scheduled \/ e.config # eep.config)

\* What was changed is scheduled.
SaveIfChanged(e) ==
    /\ eep' = IF e = eep THEN eep ELSE LCS_WritePersistentNetworkImage(e)
    /\ scheduled' = (scheduled \/ e # eep)

Mode(m) == [gp EXCEPT !.mode = m]
Reset == [gp EXCEPT !.resetNode = TRUE]

----------------------------------------------------------------------------
(* Responses. NMNDRespond takes the code of a status the wrong way round;  *)
(* handlers that have data to send call SendResponse, for which the caller *)
(* has not checked that there is a request unless the message is one.      *)

Says(code, done) == [code |-> code, done |-> done]
NMNDRespond(m, done) ==
    IF m.asks THEN Says(IF done THEN "failure" ELSE "success", done) ELSE response
SendResponse(done) ==
    IF response = None THEN Says(IF done THEN "success" ELSE "failure", done) ELSE response
SendNullResponse == IF response = None THEN Says("null", TRUE) ELSE response

Count == commands < MaxCommands /\ commands' = commands + 1

\* The end of a handler; 'writes': it wrote the configuration and was not asked for the checksum.
Ended(m, e, g, answer, writes) ==
    /\ SaveIfChanged(e) /\ Count
    /\ gp' = g /\ response' = answer
    /\ unchecked' = ((unchecked \/ writes) /\ e.checksum # e.config)
    /\ open' = ~m.auth
    /\ failed' = (failed /\ e.state = eep.state)
    /\ UNCHANGED <<image, restarts>>

Handled(m, e, g, answer) == Ended(m, e, g, answer, FALSE)

Refused(m, e) == Handled(m, e, gp, NMNDRespond(m, FALSE))

\* The handlers that change a table: they recompute the checksum when they changed anything.
Updated(m, config) ==
    Handled(m, RecomputeChecksum([eep EXCEPT !.config = config]), gp, NMNDRespond(m, TRUE))

\* A message of the wrong length is refused by every handler that looks; 'unknown' is what the
\* handler makes of an index or selector there is no entry for.
Judged(m, accepted, unknown) ==
    CASE m.form = "fits" -> accepted
      [] m.form = "misfit" -> Refused(m, eep)
      [] m.form = "unknown" -> unknown
Logged(m) == Refused(m, OsalPrintLog(eep, "other"))

\* A query: its handler responds itself.
Queried(m, done) == Handled(m, eep, gp, SendResponse(done))

----------------------------------------------------------------------------
(* Domains and keys. UpdateDomain takes an index of the table, and may     *)
(* leave the key.                                                          *)

PlusWithoutWrap(a, b) == a + b
Plus(a, b) == (a + b) % Cardinality(Values)

UpdateDomain(d, key) == [eep.config EXCEPT !.domain[d] = [valid |-> TRUE, key |-> key]]

\* The checksum is computed again even when the index is refused.
HandleNMUpdateDomain(m, d, key) ==
    Judged(m, Updated(m, UpdateDomain(d, key)),
           Refused(m, RecomputeChecksum(OsalPrintLog(eep, "other"))))

HandleNmeUpdateDomain(m, d) ==
    Judged(m, Updated(m, UpdateDomain(d, eep.config.domain[d].key)),
           Refused(m, RecomputeChecksum(OsalPrintLog(eep, "other"))))

\* memset to 0xFF: the entry is invalid and its key is lost.
LeftDomain == [valid |-> FALSE, key |-> 0]

\* The message came in on the domain 'source', on which the node no longer answers once it left it.
HandleNMLeaveDomain(m, d, source) ==
    LET left == RecomputeChecksum([eep EXCEPT !.config.domain[d] = LeftDomain])
        none == \A x \in Domains : ~left.config.domain[x].valid
    IN Judged(m,
              Handled(m, IF none THEN [left EXCEPT !.state = "unconfigured"] ELSE left,
                      IF none THEN Reset ELSE gp,
                      IF d = source THEN response ELSE NMNDRespond(m, TRUE)),
              Logged(m))

\* A handler that forgot the checksum.
HandleNMUpdateKeyOnly(m, d, increment) ==
    Judged(m,
           Handled(m, [eep EXCEPT !.config.domain[d].key = Plus(@, increment)], gp,
                   NMNDRespond(m, TRUE)),
           Logged(m))

HandleNMUpdateKey(m, d, increment) ==
    Judged(m, Updated(m, [eep.config EXCEPT !.domain[d].key = Plus(@, increment)]), Logged(m))

NewKeys(increments, replaces) ==
    [d \in Domains |-> [eep.config.domain[d] EXCEPT
        !.key = IF replaces THEN increments[d] ELSE Plus(@, increments[d])]]

\* The keys of both domains, which are halves of one; without a second domain it is refused.
HandleNmeUpdateKey(m, increments, replaces) ==
    CASE m.form = "misfit" -> Refused(m, eep)
      [] m.form # "misfit" /\ 1 \notin Domains -> Logged(m)
      [] m.form # "misfit" /\ 1 \in Domains ->
           Updated(m, [eep.config EXCEPT !.domain = NewKeys(increments, replaces)])

HandleNMQueryDomain(m) ==
    Judged(m, Queried(m, TRUE), Logged(m))

HandleNmeReportDomain(m) ==
    Judged(m, Queried(m, TRUE), Logged(m))

HandleNmeReportKey(m) == IF 1 \in Domains THEN Queried(m, TRUE) ELSE Logged(m)

----------------------------------------------------------------------------
(* Address, variable and alias tables.                                     *)

HandleNMUpdateAddr(m, value) ==
    Judged(m, Updated(m, [eep.config EXCEPT !.tables = value]),
           Refused(m, RecomputeChecksum(OsalPrintLog(eep, "other"))))

HandleNMUpdateGroupAddr(m, value) ==
    IF m.form = "fits" THEN Updated(m, [eep.config EXCEPT !.tables = value]) ELSE Refused(m, eep)

HandleNMQueryAddr(m) ==
    Judged(m, Queried(m, TRUE), Logged(m))

\* One message for both tables: indices behind the variables are those of aliases.
HandleNMUpdateNvConfig(m, value) ==
    Judged(m, Updated(m, [eep.config EXCEPT !.tables = value]), Logged(m))

HandleNmeUpdateNvCnfg(m, value) ==
    Judged(m, Updated(m, [eep.config EXCEPT !.tables = value]), Logged(m))

\* For an index of the alias table; with one behind it the handler writes behind the table.
HandleNmeUpdateNvAliasCnfg(m, value) ==
    Judged(m, Updated(m, [eep.config EXCEPT !.tables = value]), Logged(m))

\* Addresses and aliases are cleared and variables get selectors of no connection.
Unconnected(config) == [config EXCEPT !.tables = 0]
HandleNmeInitConfig(m) ==
    IF m.form = "misfit" THEN Refused(m, eep) ELSE Updated(m, Unconnected(eep.config))

\* An unknown index is answered with a failure that is one.
HandleNMQueryNvCnfg(m) ==
    Judged(m, Queried(m, TRUE),
           Handled(m, OsalPrintLog(eep, "other"), gp, SendResponse(FALSE)))

HandleNmeQueryNvCnfg(m) ==
    Judged(m, Queried(m, TRUE), Logged(m))

HandleNmeQueryNvAliasCnfg(m) ==
    Judged(m, Queried(m, TRUE), Logged(m))

HandleNMNVFetch(m) == IF m.form = "fits" THEN Queried(m, TRUE) ELSE Refused(m, eep)
HandleNMQuerySIData(m) == IF m.form = "misfit" THEN Refused(m, eep) ELSE Queried(m, TRUE)

----------------------------------------------------------------------------
(* State, mode and memory.                                                 *)

\* Modes other than the change of state are not answered; any mode that is unknown resets.
HandleNMSetNodeMode(m, mode) ==
    CASE m.form = "misfit" -> Refused(m, eep)
      [] m.form = "unknown" -> Handled(m, eep, Reset, response)
      [] m.form = "fits" /\ mode = "offline" -> Handled(m, eep, Mode("off"), response)
      [] m.form = "fits" /\ mode = "online" -> Handled(m, eep, Mode("on"), response)
      [] m.form = "fits" /\ mode = "reset" -> Handled(m, eep, Reset, response)
      [] m.form = "fits" /\ mode = "physical" ->
           Handled(m, eep, [gp EXCEPT !.do_reset = TRUE], response)

\* Mode 3.
ChangeState(m, state) ==
    Judged(m,
           Handled(m, RecomputeChecksum([eep EXCEPT !.state = state]),
                   IF state = "applicationless" THEN Mode("stopped") ELSE gp,
                   NMNDRespond(m, TRUE)),
           Refused(m, eep))

NodeModes == {"offline", "online", "reset", "physical"}

\* What can be written that matters here: the tables, the authentication bit and the state.
Written(m) ==
    IF m.form # "fits" THEN {eep} ELSE
    {[eep EXCEPT !.config.lock = b] : b \in BOOLEAN}
    \cup {[eep EXCEPT !.config.tables = v] : v \in Values}
    \cup {[eep EXCEPT !.state = s] : s \in States}

HandleNMWriteMemory(m, e, recalculates, resets) ==
    IF m.form # "fits" THEN Refused(m, eep)
    ELSE Ended(m, IF recalculates THEN RecomputeChecksum(e) ELSE e,
               IF resets THEN Reset ELSE gp, NMNDRespond(m, TRUE), ~recalculates)

HandleNMReadMemory(m) == IF m.form = "misfit" THEN Refused(m, eep) ELSE Queried(m, TRUE)
HandleNMChecksumRecalc(m) == Updated(m, eep.config)

\* Offsets behind the memory are refused.
HandleNMRefresh(m) == Queried(m, m.form # "unknown")

----------------------------------------------------------------------------
(* Identification, and values of variables.                                *)

\* With a null response the TSA sends nothing. An unknown selector gets a failure that is one.
HandleNMQueryId(m, unconfigured, selected) ==
    CASE m.form = "misfit" -> Refused(m, eep)
      [] m.form = "unknown" -> Queried(m, FALSE)
      [] m.form = "fits" ->
           IF (unconfigured /\ ~NodeUnConfigured) \/ (selected /\ ~gp.selected)
           THEN Handled(m, eep, gp, SendNullResponse)
           ELSE Queried(m, TRUE)

RespondToQuery(m, on) ==
    IF m.form # "fits" THEN Refused(m, eep)
    ELSE Handled(m, eep, [gp EXCEPT !.selected = on], NMNDRespond(m, TRUE))

\* A simple wink is not answered, and refused when it is a request; others only answer requests.
HandleNMWink(m, simple) ==
    CASE m.form = "misfit" \/ (simple /\ m.asks) -> Refused(m, eep)
      [] m.form # "misfit" /\ ~m.asks -> Handled(m, eep, gp, response)
      [] m.form # "misfit" /\ ~simple /\ m.asks -> Queried(m, m.form = "fits")

HandleNmeQueryVersion(m) == Queried(m, TRUE)
HandleNmeQueryIpAddress(m) == IF m.form = "misfit" THEN Refused(m, eep) ELSE Queried(m, TRUE)
HandleNmeQueryLonUdpAddrMapping(m) ==
    IF m.form = "misfit" THEN Refused(m, eep) ELSE Queried(m, TRUE)

\* The value is left out. One of the wrong length, of an output or not authenticated is refused,
\* and logged; on a node without application it is only refused.
HandleNmeUpdateNvByIndex(m) ==
    CASE m.form = "misfit" -> Logged(m)
      [] m.form = "unknown" ->
           Handled(m, OsalPrintLog(eep, "other"), gp, SendResponse(FALSE))
      [] m.form = "fits" -> Queried(m, eep.state # "applicationless")

----------------------------------------------------------------------------
(* Diagnostics.                                                            *)

HandleNDQueryUnconfig(m) ==
    IF NodeUnConfigured THEN Queried(m, TRUE)
    ELSE Handled(m, eep, gp, SendNullResponse)

HandleNDQueryStatus(m) == IF m.form = "misfit" THEN Refused(m, eep) ELSE Queried(m, TRUE)
HandleNDTransceiverStatus(m) == IF m.form = "misfit" THEN Refused(m, eep) ELSE Queried(m, TRUE)

\* The subcommands for the node itself; to relay one is a matter of the transport layer.
HandleNDProxyCommand(m) ==
    \/ HandleNDQueryUnconfig(m)
    \/ HandleNDQueryStatus(m)
    \/ HandleNDTransceiverStatus(m)
    \/ m.form = "unknown" /\ Refused(m, eep)

HandleNDClearStatus(m) ==
    Handled(m, [eep EXCEPT !.errorLog = "none"], gp, NMNDRespond(m, TRUE))
HandleNDQueryXcvrBidir(m) == Queried(m, TRUE)
HandleNDGetFullVersion(m) == Queried(m, TRUE)

----------------------------------------------------------------------------
(* Messages. A configured node with network management authentication      *)
(* takes only some of them from those that are not authenticated.          *)

LockedWhenOnline(m) == ~NodeUnConfigured /\ eep.config.lock /\ ~m.auth
Locked(m) == NodeConfigured /\ eep.config.lock /\ ~m.auth

\* A request waits for room in the queue of responses. A node about to be reset takes no message.
APPMsgReceive(m) == ~gp.resetNode /\ (m.asks => response = None)

HandleNMExpanded(m) ==
    \/ \E d \in Domains : HandleNmeUpdateDomain(m, d)
    \/ HandleNmeReportDomain(m)
    \/ HandleNmeReportKey(m)
    \/ \E increments \in [Domains -> Values], replaces \in BOOLEAN :
           HandleNmeUpdateKey(m, increments, replaces)
    \/ HandleNmeInitConfig(m)
    \/ \E v \in Values : HandleNmeUpdateNvCnfg(m, v) \/ HandleNmeUpdateNvAliasCnfg(m, v)
    \/ HandleNmeQueryNvCnfg(m) \/ HandleNmeQueryNvAliasCnfg(m)
    \/ HandleNmeUpdateNvByIndex(m)
    \/ HandleNmeQueryLonUdpAddrMapping(m)
    \/ Refused(m, eep)

HandleNMUnlocked(m) ==
    \/ HandleNMExpanded(m)
    \/ \E d \in Domains, v \in Values : HandleNMUpdateDomain(m, d, v) \/ HandleNMUpdateKey(m, d, v)
    \/ \E d, source \in Domains : HandleNMLeaveDomain(m, d, source)
    \/ HandleNMQueryDomain(m)
    \/ \E v \in Values :
          HandleNMUpdateAddr(m, v) \/ HandleNMUpdateGroupAddr(m, v) \/ HandleNMUpdateNvConfig(m, v)
    \/ HandleNMQueryAddr(m) \/ HandleNMQueryNvCnfg(m)
    \/ HandleNMNVFetch(m) \/ HandleNMQuerySIData(m)
    \/ \E mode \in NodeModes : HandleNMSetNodeMode(m, mode)
    \/ \E s \in States : ChangeState(m, s)
    \/ \E e \in Written(m), recalculates, resets \in BOOLEAN :
           HandleNMWriteMemory(m, e, recalculates, resets)
    \/ HandleNMReadMemory(m) \/ HandleNMChecksumRecalc(m) \/ HandleNMRefresh(m)
    \/ \E simple \in BOOLEAN : HandleNMWink(m, simple)

HandleNM(m) ==
    /\ APPMsgReceive(m)
    /\ \/ \E unconfigured, selected \in BOOLEAN :
             (unconfigured \/ selected) /\ HandleNMQueryId(m, unconfigured, selected)
       \/ \E on \in BOOLEAN : RespondToQuery(m, on)
       \/ HandleNmeQueryVersion(m)
       \/ HandleNmeQueryIpAddress(m)
       \/ Locked(m) /\ Logged(m)
       \/ ~Locked(m) /\ HandleNMUnlocked(m)

HandleND(m) ==
    /\ APPMsgReceive(m)
    /\ \/ HandleNDQueryStatus(m)
       \/ HandleNDProxyCommand(m)
       \/ HandleNDQueryXcvrBidir(m)
       \/ HandleNDGetFullVersion(m)
       \/ Locked(m) /\ Logged(m)
       \/ ~Locked(m) /\ (HandleNDClearStatus(m) \/ HandleNDTransceiverStatus(m) \/ Refused(m, eep))

----------------------------------------------------------------------------
(* Calls of the application, which always schedule the image.              *)

Called(e, g) ==
    /\ Count
    /\ eep' = LCS_WritePersistentNetworkImage(e) /\ scheduled' = TRUE
    /\ gp' = g
    /\ unchecked' = (unchecked /\ e.checksum # e.config)
    /\ failed' = (failed /\ e.state = eep.state)
    /\ open' = FALSE
    /\ UNCHANGED <<image, response, restarts>>

\* Changes of the mode store nothing.
ModeChanged(g) ==
    /\ Count
    /\ gp' = g /\ open' = FALSE
    /\ UNCHANGED <<eep, scheduled, image, response, unchecked, failed, restarts>>

Configured(config) == RecomputeChecksum([eep EXCEPT !.config = config])

IzotUpdateConfigData ==
    \E b \in BOOLEAN : Called(Configured([eep.config EXCEPT !.lock = b]), gp)
IzotUpdateDomainConfig ==
    \E d \in Domains, key \in Values : Called(Configured(UpdateDomain(d, key)), gp)

\* A change of the first domain makes the node configured and puts it online.
IzotUpdateDomain ==
    \E d \in Domains :
        LET e == Configured(UpdateDomain(d, eep.config.domain[d].key))
        IN IF d = 0
           THEN Called([e EXCEPT !.state = "online"], Mode("on"))
           ELSE Called(e, gp)

IzotUpdateAddressConfig ==
    \E v \in Values : Called(Configured([eep.config EXCEPT !.tables = v]), gp)
IzotUpdateDpConfig ==
    \E v \in Values : Called(Configured([eep.config EXCEPT !.tables = v]), gp)
IzotUpdateAliasConfig ==
    \E v \in Values : Called(Configured([eep.config EXCEPT !.tables = v]), gp)

IzotClearStatus == Called([eep EXCEPT !.errorLog = "none"], gp)

IzotSetNodeMode ==
    \/ ModeChanged(Mode("off"))
    \/ ModeChanged(Mode("on"))
    \/ ModeChanged(Reset)
    \/ ModeChanged([gp EXCEPT !.do_reset = TRUE])
    \/ \E s \in States :
          Called(RecomputeChecksum([eep EXCEPT !.state = s]),
                 IF s = "applicationless" THEN Mode("stopped") ELSE gp)

Call ==
    \/ IzotUpdateConfigData \/ IzotUpdateDomainConfig \/ IzotUpdateDomain
    \/ IzotUpdateAddressConfig \/ IzotUpdateDpConfig \/ IzotUpdateAliasConfig
    \/ IzotClearStatus \/ IzotSetNodeMode

----------------------------------------------------------------------------
(* The service loop.                                                       *)

\* A node that was soft offline comes up online, one that is not configured soft offline.
ResetMode(state, mode) ==
    CASE state # "online" -> "off"
      [] state = "online" /\ mode = "off" -> "on"
      [] state = "online" /\ mode # "off" -> mode

\* The queues are emptied, that of the responses with them.
NodeReset ==
    /\ gp.resetNode
    /\ gp' = [gp EXCEPT !.mode = ResetMode(eep.state, @), !.resetNode = FALSE, !.selected = FALSE]
    /\ response' = None
    /\ open' = FALSE
    /\ UNCHANGED <<eep, scheduled, image, unchecked, failed, commands, restarts>>

\* The error is stored, and the state with it, unless it was the last error already.
Unconfigure ==
    /\ eep' = OsalPrintLog([eep EXCEPT !.state = "unconfigured"], "checksum")
    /\ scheduled' = (scheduled \/ eep.errorLog # "checksum")
    /\ gp' = [gp EXCEPT !.mode = "on", !.resetNode = TRUE]
    /\ failed' = TRUE
    /\ open' = FALSE
    /\ UNCHANGED <<image, response, unchecked, commands, restarts>>

CheckConfigurationOfOthers ==
    ~gp.resetNode /\ NodeUnConfigured /\ eep.checksum # eep.config /\ Unconfigure
CheckConfiguration ==
    ~gp.resetNode /\ ~NodeUnConfigured /\ eep.checksum # eep.config /\ Unconfigure

SendToTsa ==
    /\ ~gp.resetNode /\ response # None
    /\ response' = None /\ open' = FALSE
    /\ UNCHANGED <<eep, gp, scheduled, image, unchecked, failed, commands, restarts>>

Commit ==
    /\ scheduled /\ scheduled' = FALSE
    /\ image' = [config |-> eep.config, nodeState |-> eep.nodeState, errorLog |-> eep.errorLog]
    /\ open' = FALSE
    /\ UNCHANGED <<eep, gp, response, unchecked, failed, commands, restarts>>

----------------------------------------------------------------------------
(* Starting.                                                               *)

\* The tables of a new node. Its variables are registered once the checksum was computed.
DefaultConfig ==
    [domain |-> [d \in Domains |-> [valid |-> TRUE, key |-> 0]], lock |-> FALSE,
     tables |-> 0]
AddNV(config) == [config EXCEPT !.tables = 1]

NewNode ==
    [state |-> "unconfigured", config |-> AddNV(DefaultConfig), checksum |-> DefaultConfig,
     errorLog |-> "none", nodeState |-> "unconfigured"]
Restored ==
    [state |-> image.nodeState, config |-> image.config, checksum |-> image.config,
     errorLog |-> image.errorLog, nodeState |-> image.nodeState]

StartData(state) ==
    [mode |-> ResetMode(state, "off"), resetNode |-> FALSE, selected |-> FALSE, do_reset |-> FALSE]

Init ==
    /\ eep = NewNode /\ scheduled = TRUE /\ image = None
    /\ gp = StartData("unconfigured")
    /\ response = None
    /\ unchecked = TRUE /\ failed = FALSE /\ open = FALSE
    /\ commands = 0 /\ restarts = 0

LCS_Init ==
    /\ eep' = IF image = None THEN NewNode ELSE Restored
    /\ scheduled' = (image = None)
    /\ gp' = StartData(eep'.state)
    /\ response' = None
    /\ unchecked' = (image = None)
    /\ failed' = (failed /\ eep'.state = eep.state)
    /\ open' = FALSE
    /\ UNCHANGED <<image, commands>>

\* A reset that was asked for waits until all is stored.
PhysicalReset == gp.do_reset /\ ~scheduled /\ LCS_Init /\ UNCHANGED restarts
PowerLoss == restarts < MaxRestarts /\ LCS_Init /\ restarts' = restarts + 1

Next ==
    \/ \E m \in Received : HandleNM(m) \/ HandleND(m)
    \/ Call
    \/ NodeReset \/ CheckConfiguration \/ SendToTsa \/ Commit
    \/ PhysicalReset \/ PowerLoss

Spec == Init /\ [][Next]_vars

\* The service loop runs.
FairSpec ==
    Spec /\ WF_vars(NodeReset) /\ WF_vars(CheckConfiguration) /\ WF_vars(SendToTsa) /\ WF_vars(Commit)

----------------------------------------------------------------------------
(* Properties.                                                             *)

TypeOK ==
    /\ eep \in [state : States, config : Configurations, checksum : Configurations,
                errorLog : Errors, nodeState : States]
    /\ gp \in [mode : {"on", "off", "stopped"}, resetNode : BOOLEAN, selected : BOOLEAN,
               do_reset : BOOLEAN]
    /\ image \in {None} \cup Images
    /\ response \in {None} \cup [code : {"success", "failure", "null"}, done : BOOLEAN]
    /\ {scheduled, unchecked, failed, open} \subseteq BOOLEAN
    /\ commands \in 0 .. MaxCommands /\ restarts \in 0 .. MaxRestarts

\* Whatever changed the configuration brought the checksum up to date, but for memory writes that
\* did not ask for it and the registration of the variables of a new node: otherwise the service
\* loop takes a change for damage and makes the node unconfigured (lcs.c:232).
ConfigurationIsChecked == eep.checksum # eep.config => unchecked

\* When nothing is scheduled, the image holds the configuration and the last error, and the
\* state of the node unless the check changed it: a restart finds what was there (HandleNM,
\* HandleND and the calls of the application schedule what they changed).
ImageIsCurrent ==
    ~scheduled =>
        /\ image # None
        /\ image.config = eep.config /\ image.errorLog = eep.errorLog
        /\ image.nodeState = eep.state \/ failed

\* A message that is not authenticated changes nothing of a configured node with network
\* management authentication but the selection and the last error, whatever was done to the node
\* before (HandleNM, HandleND).
StaysLocked ==
    [][NodeConfigured /\ eep.config.lock /\ open' =>
          /\ eep'.config = eep.config /\ eep'.state = eep.state
          /\ gp' \in {gp, [gp EXCEPT !.selected = ~@]}]_vars

\* A configuration that does not match its checksum is found while the node is online.
DamageIsFound ==
    (eep.state = "online" /\ eep.checksum # eep.config)
        ~> (eep.state # "online" \/ eep.checksum = eep.config)

\* "Sends a response to the current message with a success or failure code" (NMNDRespond): the code
\* says whether what was asked was done.
ResponseIsTrue ==
    response # None /\ response.code # "null" => (response.code = "success") = response.done

\* A node the check made unconfigured stays so until it is asked for another state, over restarts
\* when all is stored ("Go unconfigured and reset", lcs.c:233).
UnconfiguredIsKept == [][failed /\ ~failed' /\ ~scheduled => commands' > commands]_vars
=============================================================================
