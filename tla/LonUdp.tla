------------------------------- MODULE LonUdp -------------------------------
(***************************************************************************)
(* LON over UDP and IPv4: the network layer (lcs/lcs_network.c), the       *)
(* conversion of its messages to datagrams and back                        *)
(* (lon_udp/ipv4_to_lon_udp.c) and the table of IP addresses learnt from   *)
(* other nodes (lon_udp/lon_udp_mapping_util.c), for several nodes on one  *)
(* IP network.                                                             *)
(*                                                                         *)
(* A node's LON address derives an IP address. A node that has it leaves   *)
(* its LON address out of its datagrams, and is sent datagrams without     *)
(* theirs; any other node encloses it. A node of which nothing is known is *)
(* reached through the multicast address of its subnet.                    *)
(*                                                                         *)
(* In one pass of the service loop the network layer and then the link     *)
(* layer take one message each, so that a message is converted in the pass *)
(* that forms it: Send, and likewise Receive, is both layers.              *)
(***************************************************************************)
EXTENDS Integers, Sequences, SequencesExt, FiniteSets

CONSTANTS
    Nodes,
    Announcers,     \* those of them that run another implementation, which announces its address
    Talkers,        \* those that keep sending to every other; the rest may be silent
    LonAddresses,   \* the addresses network management gives to nodes: [id, subnet, node]
    RandomAddresses,\* the subnets and nodes SetLonVxAddrFromLonUdpAddr draws: [subnet, node]
    Ips,            \* the addresses the IP network gives to nodes: <<a, b, c, d>>
    FirstIps,       \* the addresses the nodes may start with
    MaxMapInfo,     \* MAX_LS_MAP_INFO, 50
    MaxInFlight,    \* bound on the datagrams a node has in flight
    MaxChanges,     \* bound on changes of addresses, lost links, restarts and subnet announcements
    None

\* A domain ID is a tuple of 0, 1 or 3 bytes, the third of which is 0, as ipv4_to_lon_udp.h asks.
Translatable(id) == Len(id) \in {0, 1} \/ (Len(id) = 3 /\ id[3] = 0)

Byte == 0 .. 255

ASSUME LonUdpAssumption ==
    /\ LonAddresses \subseteq [id : Seq(Byte), subnet : Byte, node : 0 .. 127]
    /\ \A a \in LonAddresses : Translatable(a.id)
    /\ RandomAddresses \subseteq [subnet : 1 .. 254, node : 1 .. 126]
    /\ Ips \subseteq Seq(Byte) /\ \A ip \in Ips : Len(ip) = 4
    /\ FirstIps \subseteq [Nodes -> Ips] /\ \A f \in FirstIps : IsInjective(f)
    /\ MaxMapInfo \in Nat \ {0} /\ {MaxInFlight, MaxChanges} \subseteq Nat
    /\ Announcers \cup Talkers \subseteq Nodes

VARIABLES
    dom,        \* domainTable[0]
    ifAddr,     \* external: the address the IP network has given to the node
    ownIp,      \* ownIpAddress
    connected,  \* is_connected
    joined,     \* external: the multicast addresses the node's socket has joined
    mapping,    \* lsMapInfo, numMapEntries entries of it
    wire,       \* external: datagrams, each with the nodes it may still arrive at
    heard,      \* history: the datagram the last step converted, its message and what was read
    changes

vars == <<dom, ifAddr, ownIp, connected, joined, mapping, wire, heard, changes>>

----------------------------------------------------------------------------
(* Addresses.                                                              *)

ZeroLenPrefix == <<192, 168>>

Prefix(id) ==
    CASE Len(id) = 0 -> ZeroLenPrefix
      [] Len(id) = 1 -> <<10, id[1]>>
      [] OTHER -> <<id[1], id[2]>>

\* GenerateLonUdpAddress: without a subnet or a node the domain is left out.
DerivedIp(a) ==
    Prefix(IF a.subnet = 0 \/ a.node = 0 THEN <<>> ELSE a.id) \o <<a.subnet, a.node>>

DomainOf(ip) ==
    CASE SubSeq(ip, 1, 2) = ZeroLenPrefix -> <<>>
      [] ip[1] = 10 -> <<ip[2]>>
      [] OTHER -> <<ip[1], ip[2], 0>>

LonAddress(id, subnet, node) == [id |-> id, subnet |-> subnet, node |-> node]
AddressOf(ip) == LonAddress(DomainOf(ip), ip[3], ip[4] % 128)

Domains == {<<>>} \cup {a.id : a \in LonAddresses} \cup {DomainOf(ip) : ip \in Ips}
Addresses == [id : Domains, subnet : Byte, node : 0 .. 127]
EnclosedSources == [id : Domains \cup {None}, subnet : Byte, node : 0 .. 127]

ASSUME NoneAssumption == None \notin Domains /\ None \notin EnclosedSources

\* GenerateLonMulticastAddr, for broadcasts.
Multicast(subnet) == <<239, 192, 0, subnet>>

\* SetLonVxAddrFromLonUdpAddr: an address that derives no node's gets a random one.
AddressesFor(ip) ==
    IF ip[3] >= 1 /\ ip[4] \in 1 .. 127 THEN {AddressOf(ip)}
    ELSE {LonAddress(DomainOf(ip), r.subnet, r.node) : r \in RandomAddresses}

\* RestoreIpMembership, without the groups.
Memberships(a) == {Multicast(0), Multicast(a.subnet)}

----------------------------------------------------------------------------
(* The table. Entries whose state is AVAILABLE are reused.                 *)

Entry(state, key, ip) == [state |-> state, key |-> key, ip |-> ip]
ClearedEntry == Entry("available", LonAddress(<<>>, 0, 0), None)

Entries == [state : {"available", "derived", "arbitrary"}, key : Addresses, ip : Ips \cup {None}]

Slots(m, key) == {i \in DOMAIN m : m[i].state # "available" /\ m[i].key = key}
Available(m) == {i \in DOMAIN m : m[i].state = "available"}
Least(s) == CHOOSE i \in s : \A j \in s : i <= j

LearnAnyway(m, entry) == IF Len(m) < MaxMapInfo THEN Append(m, entry) ELSE <<entry>>
LearnOnce(m, entry) ==
    CASE Slots(m, entry.key) # {} -> m
      [] Slots(m, entry.key) = {} /\ Len(m) < MaxMapInfo -> Append(m, entry)
      [] OTHER -> <<entry>>

\* findMappingInfo and findAvailMappingInfo: a full table is forgotten as a whole.
Learn(m, entry) ==
    LET slot == Slots(m, entry.key)
    IN CASE slot # {} -> [m EXCEPT ![Least(slot)] = entry]
         [] slot = {} /\ Available(m) # {} -> [m EXCEPT ![Least(Available(m))] = entry]
         [] slot = {} /\ Available(m) = {} /\ Len(m) < MaxMapInfo -> Append(m, entry)
         [] OTHER -> <<entry>>

\* Ipv4SetDerivedAddressMapping, Ipv4SetArbitraryAddressMapping
LearnSource(m, enclosed, key, ip) ==
    Learn(m, IF enclosed THEN Entry("arbitrary", key, ip) ELSE Entry("derived", key, None))

\* The address matches byte by byte, but for the domain ID of length 1.
LooksDerived(key, ip) ==
    /\ ip[3] = key.subnet /\ ip[4] = key.node
    /\ CASE Len(key.id) = 0 -> SubSeq(ip, 1, 2) = ZeroLenPrefix
         [] Len(key.id) = 1 -> ip[1] = 10
         [] OTHER -> SubSeq(ip, 1, 2) = Prefix(key.id)

UpdateMapping(m, key, ip) ==
    Learn(m, IF LooksDerived(key, ip) THEN Entry("derived", key, None)
             ELSE Entry("arbitrary", key, ip))

ClearMappingNever(m) == m

\* ClearMapping leaves numMapEntries as it is.
ClearMapping(m) == [i \in DOMAIN m |-> ClearedEntry]

\* Ipv4SetDerivedSubnetsMapping: only the first entry of each subnet, in whatever domain and state.
SetDerivedSubnets(m, set, subnets) ==
    [i \in DOMAIN m |->
        IF m[i].key.subnet \in subnets /\ \A j \in 1 .. i - 1 : m[j].key.subnet # m[i].key.subnet
        THEN [m[i] EXCEPT !.state = IF set THEN "derived" ELSE "available"]
        ELSE m[i]]

----------------------------------------------------------------------------
(* Conversion. A message has a kind: subnetNode, groupResp, broadcast or   *)
(* uniqueId, or announce for the announcement of another implementation;   *)
(* and a destination: a LON address, a subnet, or a node for its unique ID.*)

Message(x, kind, dest) ==
    [sender |-> x, src |-> dom[x], knew |-> ownIp[x] = ifAddr[x], kind |-> kind, dest |-> dest]

Unicast == {"subnetNode", "groupResp"}

EnclosedSourceNoDomain(x) ==
    IF ownIp[x] = DerivedIp(dom[x]) THEN None
    ELSE LonAddress(None, dom[x].subnet, dom[x].node)

\* Ipv4GetArbitrarySourceAddress: what is enclosed of the source, the domain only if it must be.
EnclosedSource(x) ==
    IF ownIp[x] = DerivedIp(dom[x]) THEN None
    ELSE LonAddress(IF SubSeq(ownIp[x], 1, 2) = Prefix(dom[x].id) THEN None ELSE dom[x].id,
                    dom[x].subnet, dom[x].node)

\* Ipv4GetArbitraryDestAddress: where a message to a LON address goes.
DestIp(m, key) ==
    LET slot == Slots(m, key)
    IN IF slot = {} THEN Multicast(key.subnet)
       ELSE LET e == m[Least(slot)]
            IN IF e.state = "arbitrary" THEN e.ip ELSE DerivedIp(key)

EnclosesDest(m, key) == \A i \in Slots(m, key) : m[i].state = "arbitrary"

\* An enclosed destination loses the mark of a group response: the code sets it one byte too far.
DatagramKind(x, m) ==
    IF m.kind \in Unicast /\ EnclosesDest(mapping[x], m.dest) THEN "expSubnetNode" ELSE m.kind

ConvertLonVxToLonUdp(x, m) ==
    [from |-> ifAddr[x],
     to |-> CASE m.kind \in Unicast -> DestIp(mapping[x], m.dest)
              [] m.kind = "broadcast" -> Multicast(m.dest)
              [] OTHER -> Multicast(0),
     source |-> EnclosedSource(x),
     kind |-> DatagramKind(x, m),
     msg |-> m,
     left |-> Nodes \ {x}]

\* ConvertLonUdpToLonVx: an address that is not enclosed is the source's, or the node's own.
SourceOf(d) ==
    IF d.source = None THEN AddressOf(d.from)
    ELSE LonAddress(IF d.source.id = None THEN DomainOf(d.from) ELSE d.source.id,
                    d.source.subnet, d.source.node)

ConvertLonUdpToLonVx(y, d) ==
    [src |-> SourceOf(d),
     kind |-> IF d.kind = "expSubnetNode" THEN "subnetNode" ELSE d.kind,
     dest |-> CASE d.kind \in Unicast -> LonAddress(SourceOf(d).id, dom[y].subnet, dom[y].node)
                [] d.kind = "expSubnetNode" -> [d.msg.dest EXCEPT !.id = SourceOf(d).id]
                [] OTHER -> d.msg.dest]

\* What the network layer lets through to a configured node that is in every group.
NetworkLayerAccepts(y, npdu) ==
    LET flexDomain == npdu.src.id # dom[y].id
        fromMyself == npdu.src = dom[y] /\ npdu.kind # "groupResp"
    IN /\ ~fromMyself
       /\ \/ npdu.kind = "uniqueId" /\ npdu.dest = y
          \/ npdu.kind = "broadcast" /\ ~flexDomain /\ npdu.dest \in {0, dom[y].subnet}
          \/ npdu.kind \in Unicast /\ ~flexDomain /\ npdu.dest = dom[y]

----------------------------------------------------------------------------
Init ==
    /\ ifAddr \in FirstIps
    /\ ownIp = ifAddr
    /\ dom \in {d \in [Nodes -> UNION {AddressesFor(ip) : ip \in Ips}] :
                  IsInjective(d) /\ \A x \in Nodes : d[x] \in AddressesFor(ifAddr[x])}
    /\ connected = [x \in Nodes |-> TRUE]
    /\ joined = [x \in Nodes |-> Memberships(dom[x])]
    /\ mapping = [x \in Nodes |-> <<>>]
    /\ wire = {}
    /\ heard = None
    /\ changes = 0

NoChange == UNCHANGED <<dom, ifAddr, connected, joined, changes>>
NotHeard == heard' = None

\* NetworkLayerSend and LinkLayerUdpSend. Messages go to the sender's own domain.
Send(x, kind, dest) ==
    /\ connected[x]
    /\ Cardinality({d \in wire : d.msg.sender = x}) < MaxInFlight
    /\ wire' = wire \cup {ConvertLonVxToLonUdp(x, Message(x, kind, dest))}
    /\ NoChange /\ UNCHANGED <<ownIp, mapping>> /\ NotHeard

SendTo(x, y) == /\ x # y /\ dom[x].id = dom[y].id
                /\ Send(x, "subnetNode", dom[y])
RespondTo(x, y) == /\ x # y /\ dom[x].id = dom[y].id
                   /\ Send(x, "groupResp", dom[y])
Broadcast(x) == \E s \in {0, dom[x].subnet} : Send(x, "broadcast", s)
SendToId(x, y) == x # y /\ Send(x, "uniqueId", y)
Announce(x) == x \in Announcers /\ Send(x, "announce", 0)

Arrived(d, y) ==
    (wire \ {d}) \cup IF d.left = {y} THEN {} ELSE {[d EXCEPT !.left = @ \ {y}]}

\* The IP network hands a datagram to the nodes that have, or have joined, its destination.
Reaches(d, y) == connected[y] /\ (d.to = ifAddr[y] \/ d.to \in joined[y])

\* LinkLayerUdpReceive and NetworkLayerReceive. Room in the upper layers' queues is left out.
Receive(y, d) ==
    LET npdu == ConvertLonUdpToLonVx(y, d)
        learnt == LearnSource(mapping[y], d.source # None, npdu.src, d.from)
    IN /\ y \in d.left /\ Reaches(d, y)
       /\ wire' = Arrived(d, y)
       /\ mapping' = [mapping EXCEPT ![y] = IF d.kind = "announce"
                                            THEN UpdateMapping(learnt, npdu.src, d.from)
                                            ELSE learnt]
       /\ heard' = [at |-> y, from |-> d.from, msg |-> d.msg, npdu |-> npdu,
                    up |-> d.kind # "announce" /\ NetworkLayerAccepts(y, npdu)]
       /\ NoChange /\ UNCHANGED ownIp

\* A datagram is lost, or the network has nobody to hand it to.
Lose(y, d) ==
    /\ y \in d.left
    /\ wire' = Arrived(d, y)
    /\ NoChange /\ UNCHANGED <<ownIp, mapping>> /\ NotHeard

\* CheckNetworkStatus, and the announcement timer: its announcement is not sent.
SetCurrentIP(x) ==
    /\ ownIp[x] # ifAddr[x]
    /\ ownIp' = [ownIp EXCEPT ![x] = ifAddr[x]]
    /\ NoChange /\ UNCHANGED <<mapping, wire>> /\ NotHeard

\* The aging timer, once a manager has set it.
Age(x) ==
    /\ connected[x] /\ mapping[x] # <<>>
    /\ mapping' = [mapping EXCEPT ![x] = ClearMapping(@)]
    /\ NoChange /\ UNCHANGED <<ownIp, wire>> /\ NotHeard

Change == changes < MaxChanges /\ changes' = changes + 1
Free(a, x) == \A y \in Nodes \ {x} : dom[y] # a

\* HandleNMUpdateDomain of domain 0.
UpdateDomain(x, a) ==
    /\ Change /\ connected[x] /\ a # dom[x] /\ Free(a, x)
    /\ dom' = [dom EXCEPT ![x] = a]
    /\ joined' = [joined EXCEPT ![x] =
            IF a.subnet # 0 /\ a.subnet # dom[x].subnet
            THEN (@ \ {Multicast(dom[x].subnet)}) \cup {Multicast(a.subnet)} ELSE @]
    /\ UNCHANGED <<ifAddr, ownIp, connected, mapping, wire>> /\ NotHeard

\* The IP network gives the node another address.
RenewLease(x, ip) ==
    /\ Change /\ \A y \in Nodes : ifAddr[y] # ip
    /\ ifAddr' = [ifAddr EXCEPT ![x] = ip]
    /\ UNCHANGED <<dom, ownIp, connected, joined, mapping, wire>> /\ NotHeard

LinkLost(x) ==
    /\ Change /\ connected[x]
    /\ connected' = [connected EXCEPT ![x] = FALSE]
    /\ UNCHANGED <<dom, ifAddr, ownIp, joined, mapping, wire>> /\ NotHeard

\* EventNormalConnected, perhaps with another IP address. Networks see to it that addresses differ.
Connected(x, ip) ==
    /\ ~connected[x] /\ \A y \in Nodes \ {x} : ifAddr[y] # ip
    /\ connected' = [connected EXCEPT ![x] = TRUE]
    /\ ifAddr' = [ifAddr EXCEPT ![x] = ip]
    /\ ownIp' = [ownIp EXCEPT ![x] = ip]
    /\ \E a \in {b \in AddressesFor(ip) : Free(b, x)} : dom' = [dom EXCEPT ![x] = a]
    /\ UNCHANGED <<joined, mapping, wire, changes>> /\ NotHeard

\* StartLonUdpLink after a restart of the process.
Restart(x) ==
    /\ Change
    /\ connected' = [connected EXCEPT ![x] = TRUE]
    /\ ownIp' = [ownIp EXCEPT ![x] = ifAddr[x]]
    /\ \E a \in {b \in AddressesFor(ifAddr[x]) : Free(b, x)} :
          /\ dom' = [dom EXCEPT ![x] = a]
          /\ joined' = [joined EXCEPT ![x] = Memberships(a)]
    /\ mapping' = [mapping EXCEPT ![x] = <<>>]
    /\ UNCHANGED <<ifAddr, wire>> /\ NotHeard

\* Another implementation announces which subnets use derived addresses.
SubnetsAnnounced(y, set, subnets) ==
    /\ Change /\ connected[y]
    /\ mapping' = [mapping EXCEPT ![y] = SetDerivedSubnets(@, set, subnets)]
    /\ UNCHANGED <<dom, ifAddr, ownIp, connected, joined, wire>> /\ NotHeard

Next ==
    \/ \E x, y \in Nodes : SendTo(x, y) \/ RespondTo(x, y) \/ SendToId(x, y)
    \/ \E x \in Nodes : Broadcast(x) \/ Announce(x)
    \/ \E d \in wire : \E y \in d.left : Receive(y, d) \/ Lose(y, d)
    \/ \E x \in Nodes : SetCurrentIP(x) \/ Age(x) \/ LinkLost(x) \/ Restart(x)
    \/ \E x \in Nodes, a \in LonAddresses : UpdateDomain(x, a)
    \/ \E x \in Nodes, ip \in Ips : RenewLease(x, ip) \/ Connected(x, ip)
    \/ \E y \in Nodes, set \in BOOLEAN, s \in {a.subnet : a \in LonAddresses} :
          SubnetsAnnounced(y, set, {s})

Spec == Init /\ [][Next]_vars

\* Talkers keep sending to every other node. The network loses not every message. A node polls
\* its IP address, and ages its table, as a manager tells it to.
FairSpec ==
    /\ Spec
    /\ \A x \in Talkers : \A y \in Nodes \ {x} :
          /\ SF_vars(SendTo(x, y))
          /\ SF_vars(\E d \in wire : /\ d.msg.sender = x /\ d.msg.kind = "subnetNode"
                                     /\ d.msg.dest = dom[y] /\ Receive(y, d))
    /\ \A x \in Nodes :
          /\ WF_vars(SetCurrentIP(x)) /\ WF_vars(Age(x)) /\ WF_vars(\E ip \in Ips : Connected(x, ip))
          /\ WF_vars(\E d \in wire : d.msg.sender = x /\ \E y \in d.left : Lose(y, d))

----------------------------------------------------------------------------
\* Each variable keeps to its type: however addresses change and entries are reused, the table holds
\* at most MAX_LS_MAP_INFO entries, and no two interfaces have the same IP address.
TypeOK ==
    /\ dom \in [Nodes -> Addresses]
    /\ ifAddr \in [Nodes -> Ips] /\ ownIp \in [Nodes -> Ips] /\ IsInjective(ifAddr)
    /\ connected \in [Nodes -> BOOLEAN]
    /\ joined \in [Nodes -> SUBSET {Multicast(s) : s \in Byte}]
    /\ mapping \in [Nodes -> Seq(Entries)] /\ \A x \in Nodes : Len(mapping[x]) <= MaxMapInfo
    /\ \A d \in wire : d.left \subseteq Nodes
    /\ changes \in 0 .. MaxChanges

\* The source address and the domain a message is received with are those its sender had when it
\* sent it, if the sender knew its own IP address then: what Ipv4GetArbitrarySourceAddress leaves
\* out of a datagram, ConvertLonUdpToLonVx finds in the datagram's source.
SourceIsTrue == heard # None /\ heard.msg.knew => heard.npdu.src = heard.msg.src

\* At most one entry of lsMapInfo is in use for a LON address, whatever is learnt, forgotten or
\* brought back by an announcement of subnets.
MappingIsUnique == \A x \in Nodes : \A i \in DOMAIN mapping[x] :
    Cardinality(Slots(mapping[x], mapping[x][i].key)) <= 1

\* The prefix of an announcement's source is that of another domain of one byte than the sender's:
\* UpdateMapping compares only its first byte, and takes the address for the derived one.
TakenForDerived(h) ==
    /\ h.npdu.kind = "announce"
    /\ Len(h.npdu.src.id) = 1
    /\ h.from[1] = 10 /\ h.from[2] # h.npdu.src.id[1]
    /\ h.from[3] = h.npdu.src.subnet /\ h.from[4] = h.npdu.src.node

\* A node that has just received a datagram from another, which still has the addresses it sent
\* it with, sends its answer to that node's IP address, if it did not take it for the derived one.
ReplyReachesSender ==
    [][heard' # None /\ heard'.msg.knew /\ ~TakenForDerived(heard')
           /\ heard'.msg.src = dom[heard'.msg.sender] /\ heard'.from = ifAddr[heard'.msg.sender]
       => DestIp(mapping'[heard'.at], heard'.npdu.src) = heard'.from]_vars

\* The same of every datagram, as the scheme "10.d1.s.n" of ipv4_to_lon_udp.h asks for: what
\* UpdateMapping takes for a derived address is one.
AnnouncerIsAnswered ==
    heard # None /\ heard.msg.knew
        /\ heard.msg.src = dom[heard.msg.sender] /\ heard.from = ifAddr[heard.msg.sender]
    => DestIp(mapping[heard.at], heard.npdu.src) = heard.from

\* Once nothing changes any more, a node that keeps sending to another of its domain reaches it
\* again and again, however stale its table was, if the other has joined its subnet's address and
\* does not keep announcing what is taken for its derived address.
AddresseeIsReached ==
    \A x \in Talkers : \A y \in Nodes \ {x} :
        \/ []<>(dom[x].id # dom[y].id \/ Multicast(dom[y].subnet) \notin joined[y])
        \/ []<>(heard # None /\ heard.at = x /\ heard.msg.sender = y /\ TakenForDerived(heard))
        \/ []<>(heard # None /\ heard.at = y /\ heard.msg.sender = x /\ heard.up)

\* A response to a group message is received as one, for its sender to be told from the group's
\* other members: ConvertLonVxToLonUdp marks it (lon_udp_mapping_util.c:303).
GroupResponseIsKept == heard # None => heard.npdu.kind = heard.msg.kind
=============================================================================
