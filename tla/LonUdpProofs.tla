---------------------------- MODULE LonUdpProofs ----------------------------
(***************************************************************************)
(* Proofs about LonUdp: types, that the table of IP addresses has at most  *)
(* one entry in use for a LON address, that the source of a message is     *)
(* read as it was when the message was sent, and that an answer goes to    *)
(* the node that was heard. The last two hold for addresses that an IP     *)
(* address tells apart; what those are is stated first.                    *)
(***************************************************************************)
EXTENDS LonUdp, FiniteSetTheorems, SequenceTheorems, TLAPS

\* Network management gives a node a subnet and a node, neither of which is 0, and no domain ID of
\* three bytes whose prefix is that of the shorter ones: an IP address then tells LON addresses apart.
Unambiguous ==
    \A a \in LonAddresses :
        /\ a.subnet # 0 /\ a.node # 0
        /\ Len(a.id) = 3 => a.id[1] # 10 /\ ~(a.id[1] = 192 /\ a.id[2] = 168)

----------------------------------------------------------------------------
(* Sets of natural numbers, and short sequences.                           *)

\* A nonempty set of natural numbers has a least element: intervals are well-founded by inclusion.
LEMMA LeastExists ==
  ASSUME NEW s, s \subseteq Nat, s # {}
  PROVE  Least(s) \in s /\ \A j \in s : Least(s) <= j
<1> DEFINE initial == {1 .. i : i \in s}
           ordering == StrictSubsetOrdering(Nat)
<1>1. initial \subseteq FiniteSubsetsOf(Nat) /\ initial # {}
  <2>1. \A i \in s : (1 .. i) \in SUBSET Nat /\ IsFiniteSet(1 .. i)
    BY FS_Interval
  <2>2. \A i \in s : (1 .. i) \in FiniteSubsetsOf(Nat)
    BY <2>1 DEF FiniteSubsetsOf
  <2>3. PICK i \in s : TRUE
    OBVIOUS
  <2> QED
    BY <2>2, <2>3
<1>2. IsWellFoundedOn(ordering, FiniteSubsetsOf(Nat))
  BY FS_StrictSubsetOrderingWellFounded
<1>3. \E t \in initial : \A u \in initial : <<u, t>> \notin ordering
  <2> HIDE DEF initial, ordering
  <2> QED
    BY <1>1, <1>2, WFMin
<1>4. PICK i \in s : \A j \in s : <<1 .. j, 1 .. i>> \notin ordering
  BY <1>3
<1>5. ASSUME NEW j \in s, j < i PROVE <<1 .. j, 1 .. i>> \in ordering
  <2>1. i \in 1 .. i /\ i \notin 1 .. j
    BY <1>5
  <2>2. (1 .. j) \subseteq 1 .. i /\ (1 .. j) # 1 .. i
    BY <1>5, <2>1
  <2> QED
    BY <2>2, <1>5 DEF StrictSubsetOrdering
<1>6. \A j \in s : ~(j < i)
  BY <1>4, <1>5
<1>7. \A j \in s : i <= j
  BY <1>6
<1> QED
  BY <1>7 DEF Least

LEMMA Tuples ==
  /\ \A t \in Seq(Byte) : Len(t) = 0 => t = <<>>
  /\ \A t \in Seq(Byte) : Len(t) = 1 => t = <<t[1]>>
  /\ \A t \in Seq(Byte) : Len(t) = 2 => t = <<t[1], t[2]>>
  /\ \A t \in Seq(Byte) : Len(t) = 3 => t = <<t[1], t[2], t[3]>>
  /\ \A t \in Seq(Byte) : Len(t) = 4 => t = <<t[1], t[2], t[3], t[4]>>
OBVIOUS

LEMMA Joined ==
  ASSUME NEW a \in Byte, NEW b \in Byte, NEW c \in Byte, NEW d \in Byte
  PROVE  <<a, b>> \o <<c, d>> = <<a, b, c, d>>
<1>1. <<a, b>> \in Seq(Byte) /\ <<c, d>> \in Seq(Byte)
  OBVIOUS
<1>2. Len(<<a, b>>) = 2 /\ Len(<<c, d>>) = 2
  OBVIOUS
<1> DEFINE t == <<a, b>> \o <<c, d>>
<1>3. t \in Seq(Byte) /\ Len(t) = 4 /\ t[1] = a /\ t[2] = b /\ t[3] = c /\ t[4] = d
  BY <1>1, <1>2, ConcatProperties
<1> HIDE DEF t
<1>4. t = <<a, b, c, d>>
  BY <1>3, Tuples
<1> QED
  BY <1>4 DEF t

LEMMA FirstTwo ==
  ASSUME NEW t \in Seq(Byte), Len(t) >= 2
  PROVE  SubSeq(t, 1, 2) = <<t[1], t[2]>>
<1> DEFINE u == SubSeq(t, 1, 2)
<1>1. u \in Seq(Byte) /\ Len(u) = 2 /\ u[1] = t[1] /\ u[2] = t[2]
  <2>1. \A i \in 1 .. 2 : t[i] \in Byte
    OBVIOUS
  <2> QED
    BY <2>1, SubSeqProperties
<1> HIDE DEF u
<1>2. u = <<t[1], t[2]>>
  BY <1>1, Tuples
<1> QED
  BY <1>2 DEF u

----------------------------------------------------------------------------
(* Addresses.                                                              *)

\* An IP address is four bytes, of which the first two give the domain.
LEMMA IpIs ==
  ASSUME NEW ip \in Ips
  PROVE  /\ ip = <<ip[1], ip[2], ip[3], ip[4]>> /\ ip \in Seq(Byte) /\ Len(ip) = 4
         /\ {ip[1], ip[2], ip[3], ip[4]} \subseteq Byte
         /\ SubSeq(ip, 1, 2) = <<ip[1], ip[2]>>
<1>1. ip \in Seq(Byte) /\ Len(ip) = 4
  BY LonUdpAssumption
<1> QED
  BY <1>1, Tuples, FirstTwo

LEMMA DomainOfIs ==
  ASSUME NEW ip \in Seq(Byte), Len(ip) = 4
  PROVE  DomainOf(ip) = IF ip[1] = 192 /\ ip[2] = 168 THEN <<>>
                        ELSE IF ip[1] = 10 THEN <<ip[2]>> ELSE <<ip[1], ip[2], 0>>
<1>1. (SubSeq(ip, 1, 2) = ZeroLenPrefix) = (ip[1] = 192 /\ ip[2] = 168)
  <2>1. SubSeq(ip, 1, 2) = <<ip[1], ip[2]>>
    <3>1. Len(ip) >= 2
      OBVIOUS
    <3> QED
      BY <3>1, FirstTwo, Zenon
  <2>2. ASSUME NEW i, NEW j PROVE (<<i, j>> = <<192, 168>>) = (i = 192 /\ j = 168)
    OBVIOUS
  <2> QED
    BY <2>1, <2>2 DEF ZeroLenPrefix
<1>2. (SubSeq(ip, 1, 2) # ZeroLenPrefix) = ~(ip[1] = 192 /\ ip[2] = 168)
  BY <1>1
<1> QED
  BY <1>1, <1>2 DEF DomainOf

\* A domain ID has one of three forms, and a prefix of two bytes.
LEMMA DomainIs ==
  ASSUME NEW id \in Domains
  PROVE  /\ id = <<>> \/ (\E b \in Byte : id = <<b>>) \/ \E b, c \in Byte : id = <<b, c, 0>>
         /\ id \in Seq(Byte) /\ Translatable(id) /\ id # None
<1>1. CASE id = <<>>
  BY <1>1, NoneAssumption DEF Translatable
<1>2. CASE \E a \in LonAddresses : id = a.id
  <2>1. id \in Seq(Byte) /\ Translatable(id)
    BY <1>2, LonUdpAssumption
  <2> QED
    BY <2>1, Tuples, NoneAssumption DEF Translatable
<1>3. CASE \E ip \in Ips : id = DomainOf(ip)
  <2>1. PICK ip \in Ips : id = DomainOf(ip)
    BY <1>3
  <2>2. ip \in Seq(Byte) /\ Len(ip) = 4 /\ ip[1] \in Byte /\ ip[2] \in Byte
    BY IpIs
  <2>3. id = <<>> \/ id = <<ip[2]>> \/ id = <<ip[1], ip[2], 0>>
    BY <2>1, <2>2, DomainOfIs
  <2>4. CASE id = <<>>
    BY <2>4, NoneAssumption DEF Translatable
  <2>5. CASE id = <<ip[2]>>
    <3>1. id \in Seq(Byte) /\ Len(id) = 1
      BY <2>2, <2>5
    <3> QED
      BY <2>2, <2>5, <3>1, NoneAssumption DEF Translatable
  <2>6. CASE id = <<ip[1], ip[2], 0>>
    <3>1. id \in Seq(Byte) /\ Len(id) = 3 /\ id[3] = 0
      BY <2>2, <2>6 DEF Byte
    <3> QED
      BY <2>2, <2>6, <3>1, NoneAssumption DEF Translatable
  <2> QED
    BY <2>3, <2>4, <2>5, <2>6
<1> QED
  BY <1>1, <1>2, <1>3 DEF Domains

LEMMA PrefixIs ==
  ASSUME NEW id \in Domains
  PROVE  /\ Prefix(id) = <<Prefix(id)[1], Prefix(id)[2]>>
         /\ Prefix(id)[1] \in Byte /\ Prefix(id)[2] \in Byte
         /\ Len(id) = 0 => Prefix(id) = <<192, 168>>
         /\ Len(id) = 1 => Prefix(id) = <<10, id[1]>>
         /\ Len(id) = 3 => Prefix(id) = <<id[1], id[2]>>
<1>1. /\ Len(id) = 0 => Prefix(id) = <<192, 168>>
      /\ Len(id) = 1 => Prefix(id) = <<10, id[1]>>
      /\ Len(id) = 3 => Prefix(id) = <<id[1], id[2]>>
  BY DEF Prefix, ZeroLenPrefix
<1>2. id \in Seq(Byte) /\ Len(id) \in {0, 1, 3}
  BY DomainIs DEF Translatable
<1>3. \E b, c \in Byte : Prefix(id) = <<b, c>>
  <2>1. \A i \in 1 .. Len(id) : id[i] \in Byte
    BY <1>2
  <2>2. {192, 168, 10} \subseteq Byte
    BY DEF Byte
  <2> QED
    BY <1>1, <1>2, <2>1, <2>2
<1> QED
  BY <1>1, <1>3

LEMMA AddressIs ==
  ASSUME NEW ip \in Ips
  PROVE  AddressOf(ip) \in Addresses /\ DomainOf(ip) \in Domains /\ DomainOf(ip) # None
<1>1. DomainOf(ip) \in Domains
  BY DEF Domains
<1>2. ip[3] \in Byte /\ ip[4] \in Nat
  <2>1. ip[3] \in Byte /\ ip[4] \in Byte
    BY IpIs
  <2> QED
    BY <2>1 DEF Byte
<1> DEFINE n == ip[4] % 128
<1>3. n \in 0 .. 127
  BY <1>2
<1> HIDE DEF n
<1>4. LonAddress(DomainOf(ip), ip[3], n) \in Addresses
  BY <1>1, <1>2, <1>3 DEF LonAddress, Addresses
<1> QED
  BY <1>1, <1>4, NoneAssumption DEF AddressOf, n

LEMMA AddressesForAre ==
  ASSUME NEW ip \in Ips, NEW a \in AddressesFor(ip)
  PROVE  a \in Addresses /\ a.id = DomainOf(ip) /\ a.subnet # 0 /\ a.node # 0
<1>1. DomainOf(ip) \in Domains
  BY AddressIs
<1>2. CASE ip[3] >= 1 /\ ip[4] \in 1 .. 127
  <2>1. a = LonAddress(DomainOf(ip), ip[3], ip[4] % 128)
    BY <1>2 DEF AddressesFor, AddressOf
  <2>2. ip[3] \in Byte /\ ip[3] # 0 /\ ip[4] % 128 = ip[4]
    <3>1. ip[3] \in Byte
      BY IpIs
    <3>2. ip[3] # 0 /\ ip[4] % 128 = ip[4]
      BY <1>2
    <3> QED
      BY <3>1, <3>2
  <2>3. a = LonAddress(DomainOf(ip), ip[3], ip[4])
    BY <2>1, <2>2
  <2>4. ip[4] \in 0 .. 127 /\ ip[4] # 0
    BY <1>2
  <2> QED
    BY <1>1, <2>2, <2>3, <2>4 DEF LonAddress, Addresses
<1>3. CASE ~(ip[3] >= 1 /\ ip[4] \in 1 .. 127)
  <2>1. PICK r \in RandomAddresses : a = LonAddress(DomainOf(ip), r.subnet, r.node)
    BY <1>3 DEF AddressesFor
  <2>2. r.subnet \in 1 .. 254 /\ r.node \in 1 .. 126
    BY LonUdpAssumption
  <2> QED
    BY <1>1, <2>1, <2>2 DEF LonAddress, Addresses, Byte
<1> QED
  BY <1>2, <1>3

LEMMA LonAddressesAre == LonAddresses \subseteq Addresses
BY LonUdpAssumption DEF Addresses, Domains

----------------------------------------------------------------------------
(* The table.                                                              *)

Tables == Seq(Entries)

\* What makes MappingIsUnique inductive: an entry in use has the key of none before it, in use or
\* not, for an announcement of subnets brings back the first entry of its subnet as it is.
UniqueIn(m) ==
    \A j \in DOMAIN m : m[j].state # "available" => \A i \in 1 .. (j - 1) : m[i].key # m[j].key

LEMMA SlotsAreOne ==
  ASSUME NEW m \in Tables, UniqueIn(m), NEW key
  PROVE  /\ Slots(m, key) \subseteq Nat /\ Slots(m, key) \subseteq DOMAIN m
         /\ \A i, j \in Slots(m, key) : i = j
<1>1. DOMAIN m = 1 .. Len(m) /\ Len(m) \in Nat
  BY DEF Tables
<1>2. ASSUME NEW i \in Slots(m, key), NEW j \in Slots(m, key), i < j PROVE FALSE
  <2>1. i \in 1 .. (j - 1) /\ j \in DOMAIN m /\ m[j].state # "available" /\ m[i].key = m[j].key
    BY <1>1, <1>2 DEF Slots
  <2> QED
    BY <2>1 DEF UniqueIn
<1>3. Slots(m, key) \subseteq DOMAIN m
  BY DEF Slots
<1>4. \A i, j \in Slots(m, key) : ~(i < j)
  BY <1>2
<1> QED
  BY <1>1, <1>3, <1>4

LEMMA UniqueMapping ==
  ASSUME NEW m \in Tables, UniqueIn(m), NEW key
  PROVE  Cardinality(Slots(m, key)) <= 1
<1>1. CASE Slots(m, key) = {}
  BY <1>1, FS_EmptySet
<1>2. CASE \E i : i \in Slots(m, key)
  <2>1. PICK i : i \in Slots(m, key)
    BY <1>2
  <2>2. Slots(m, key) = {i}
    BY <2>1, SlotsAreOne
  <2>3. Cardinality({i}) = 1
    BY FS_Singleton
  <2> QED
    BY <2>2, <2>3
<1> QED
  BY <1>1, <1>2

\* Where something learnt is put.
LEMMA LearnCases ==
  ASSUME NEW m \in Tables, NEW e \in Entries
  PROVE  \/ \E i \in Slots(m, e.key) : Learn(m, e) = [m EXCEPT ![i] = e]
         \/ /\ Slots(m, e.key) = {}
            /\ \E i \in Available(m) : /\ Learn(m, e) = [m EXCEPT ![i] = e]
                                       /\ \A j \in Available(m) : i <= j
         \/ /\ Slots(m, e.key) = {} /\ Available(m) = {} /\ Len(m) < MaxMapInfo
            /\ Learn(m, e) = Append(m, e)
         \/ Learn(m, e) = <<e>>
<1>1. Slots(m, e.key) \subseteq Nat /\ Available(m) \subseteq Nat
  BY DEF Slots, Available, Tables
<1>2. CASE Slots(m, e.key) # {}
  <2>1. Least(Slots(m, e.key)) \in Slots(m, e.key)
    BY <1>1, <1>2, LeastExists
  <2>2. Learn(m, e) = [m EXCEPT ![Least(Slots(m, e.key))] = e]
    BY <1>2 DEF Learn
  <2> QED
    BY <2>1, <2>2
<1>3. CASE Slots(m, e.key) = {} /\ Available(m) # {}
  <2>1. /\ Least(Available(m)) \in Available(m)
        /\ \A j \in Available(m) : Least(Available(m)) <= j
    BY <1>1, <1>3, LeastExists
  <2>2. Learn(m, e) = [m EXCEPT ![Least(Available(m))] = e]
    BY <1>3 DEF Learn
  <2> QED
    BY <1>3, <2>1, <2>2
<1>4. CASE Slots(m, e.key) = {} /\ Available(m) = {}
  BY <1>4 DEF Learn
<1> QED
  BY <1>2, <1>3, <1>4

LEMMA LearnIs ==
  ASSUME NEW m \in Tables, UniqueIn(m), Len(m) <= MaxMapInfo,
         NEW e \in Entries, e.state # "available"
  PROVE  /\ Learn(m, e) \in Tables /\ Len(Learn(m, e)) <= MaxMapInfo
         /\ UniqueIn(Learn(m, e))
         /\ \E i \in DOMAIN Learn(m, e) : Learn(m, e)[i] = e
<1> DEFINE n == Learn(m, e)
<1>1. DOMAIN m = 1 .. Len(m) /\ Len(m) \in Nat
  BY DEF Tables
<1>2. ASSUME NEW i \in DOMAIN m, n = [m EXCEPT ![i] = e]
      PROVE  /\ n \in Tables /\ Len(n) = Len(m) /\ DOMAIN n = DOMAIN m
             /\ n[i] = e /\ \A j \in DOMAIN m : j # i => n[j] = m[j]
  <2> HIDE DEF n
  <2> QED
    BY <1>1, <1>2 DEF Tables
<1>3. CASE \E i \in Slots(m, e.key) : n = [m EXCEPT ![i] = e]
  <2>1. PICK i \in Slots(m, e.key) : n = [m EXCEPT ![i] = e]
    BY <1>3
  <2>2. i \in DOMAIN m /\ m[i].key = e.key /\ m[i].state # "available"
    BY DEF Slots
  <2>3. /\ n \in Tables /\ Len(n) = Len(m) /\ DOMAIN n = DOMAIN m
        /\ n[i] = e /\ \A j \in DOMAIN m : j # i => n[j] = m[j]
    BY <1>2, <2>1, <2>2
  <2> HIDE DEF n
  <2>4. /\ \A j \in DOMAIN m : n[j].key = m[j].key
        /\ \A j \in DOMAIN m : n[j].state # "available" => m[j].state # "available"
    BY <2>2, <2>3
  <2>5. UniqueIn(n)
    BY <1>1, <2>3, <2>4 DEF UniqueIn
  <2> QED
    BY <2>2, <2>3, <2>5 DEF n
<1>4. CASE /\ Slots(m, e.key) = {}
           /\ \E i \in Available(m) : /\ n = [m EXCEPT ![i] = e]
                                      /\ \A j \in Available(m) : i <= j
  <2>1. PICK i \in Available(m) : n = [m EXCEPT ![i] = e] /\ \A j \in Available(m) : i <= j
    BY <1>4
  <2>2. i \in DOMAIN m
    BY DEF Available
  <2>3. /\ n \in Tables /\ Len(n) = Len(m) /\ DOMAIN n = DOMAIN m
        /\ n[i] = e /\ \A j \in DOMAIN m : j # i => n[j] = m[j]
    BY <1>2, <2>1, <2>2
  <2> HIDE DEF n
  <2>4. \A j \in DOMAIN m : m[j].state # "available" => m[j].key # e.key
    BY <1>4 DEF Slots
  <2>5. \A j \in 1 .. (i - 1) : m[j].state # "available"
    BY <1>1, <2>1, <2>2 DEF Available
  <2>6. ASSUME NEW j \in DOMAIN n, n[j].state # "available", NEW k \in 1 .. (j - 1)
        PROVE  n[k].key # n[j].key
    <3>1. j \in DOMAIN m /\ k \in DOMAIN m /\ k # j
      BY <1>1, <2>3
    <3>2. CASE j = i
      BY <2>3, <2>4, <2>5, <3>1, <3>2
    <3>3. CASE k = i
      BY <2>3, <2>4, <2>6, <3>1, <3>3
    <3>4. CASE j # i /\ k # i
      BY <2>3, <2>6, <3>1, <3>4 DEF UniqueIn
    <3> QED
      BY <3>2, <3>3, <3>4
  <2>7. UniqueIn(n)
    BY <2>6 DEF UniqueIn
  <2> QED
    BY <2>2, <2>3, <2>7 DEF n
<1>5. CASE /\ Slots(m, e.key) = {} /\ Available(m) = {} /\ Len(m) < MaxMapInfo
           /\ n = Append(m, e)
  <2> HIDE DEF n
  <2>1. /\ n \in Tables /\ Len(n) = Len(m) + 1 /\ DOMAIN n = 1 .. (Len(m) + 1)
        /\ n[Len(m) + 1] = e /\ \A j \in DOMAIN m : n[j] = m[j]
    BY <1>1, <1>5 DEF Tables
  <2>2. \A j \in DOMAIN m : m[j].key # e.key
    BY <1>5 DEF Slots, Available
  <2>3. ASSUME NEW j \in DOMAIN n, n[j].state # "available", NEW k \in 1 .. (j - 1)
        PROVE  n[k].key # n[j].key
    <3>1. k \in DOMAIN m
      BY <1>1, <2>1
    <3>2. CASE j = Len(m) + 1
      BY <2>1, <2>2, <3>1, <3>2
    <3>3. CASE j # Len(m) + 1
      <4>1. j \in DOMAIN m
        BY <1>1, <2>1, <3>3
      <4> QED
        BY <2>1, <2>3, <3>1, <4>1 DEF UniqueIn
    <3> QED
      BY <3>2, <3>3
  <2>4. UniqueIn(n)
    BY <2>3 DEF UniqueIn
  <2>5. Len(m) + 1 <= MaxMapInfo /\ Len(m) + 1 \in DOMAIN n
    BY <1>1, <1>5, <2>1, LonUdpAssumption
  <2> QED
    BY <2>1, <2>4, <2>5 DEF n
<1>6. CASE n = <<e>>
  <2> HIDE DEF n
  <2>1. n \in Tables /\ Len(n) = 1 /\ DOMAIN n = {1} /\ n[1] = e
    BY <1>6 DEF Tables
  <2>2. UniqueIn(n)
    BY <2>1 DEF UniqueIn
  <2> QED
    BY <2>1, <2>2, LonUdpAssumption DEF n
<1> QED
  BY <1>3, <1>4, <1>5, <1>6, LearnCases

\* A node that is in the table is sent to where its entry says.
LEMMA DestIpIs ==
  ASSUME NEW m \in Tables, UniqueIn(m), NEW i \in DOMAIN m, m[i].state # "available"
  PROVE  DestIp(m, m[i].key) =
           IF m[i].state = "arbitrary" THEN m[i].ip ELSE DerivedIp(m[i].key)
<1>1. i \in Slots(m, m[i].key) /\ Slots(m, m[i].key) \subseteq Nat
  BY SlotsAreOne DEF Slots
<1>2. Least(Slots(m, m[i].key)) = i
  BY <1>1, LeastExists, SlotsAreOne
<1> QED
  BY <1>1, <1>2 DEF DestIp

LEMMA LearnSourceIs ==
  ASSUME NEW m \in Tables, UniqueIn(m), Len(m) <= MaxMapInfo,
         NEW enclosed \in BOOLEAN, NEW key \in Addresses, NEW ip \in Ips
  PROVE  LET n == LearnSource(m, enclosed, key, ip)
         IN /\ n \in Tables /\ UniqueIn(n) /\ Len(n) <= MaxMapInfo
            /\ DestIp(n, key) = IF enclosed THEN ip ELSE DerivedIp(key)
<1> DEFINE e == IF enclosed THEN Entry("arbitrary", key, ip) ELSE Entry("derived", key, None)
<1>1. /\ e \in Entries /\ e.state # "available" /\ e.key = key
      /\ (IF e.state = "arbitrary" THEN e.ip ELSE DerivedIp(e.key))
            = IF enclosed THEN ip ELSE DerivedIp(key)
  BY DEF Entry, Entries
<1>2. LearnSource(m, enclosed, key, ip) = Learn(m, e)
  BY DEF LearnSource
<1> HIDE DEF e
<1> QED
  BY <1>1, <1>2, LearnIs, DestIpIs

LEMMA UpdateMappingIs ==
  ASSUME NEW m \in Tables, UniqueIn(m), Len(m) <= MaxMapInfo,
         NEW key \in Addresses, NEW ip \in Ips
  PROVE  LET n == UpdateMapping(m, key, ip)
         IN /\ n \in Tables /\ UniqueIn(n) /\ Len(n) <= MaxMapInfo
            /\ DestIp(n, key) = IF LooksDerived(key, ip) THEN DerivedIp(key) ELSE ip
<1> DEFINE e == IF LooksDerived(key, ip) THEN Entry("derived", key, None)
                ELSE Entry("arbitrary", key, ip)
<1>1. /\ e \in Entries /\ e.state # "available" /\ e.key = key
      /\ (IF e.state = "arbitrary" THEN e.ip ELSE DerivedIp(e.key))
            = IF LooksDerived(key, ip) THEN DerivedIp(key) ELSE ip
  BY DEF Entry, Entries
<1>2. UpdateMapping(m, key, ip) = Learn(m, e)
  BY DEF UpdateMapping
<1> HIDE DEF e
<1> QED
  BY <1>1, <1>2, LearnIs, DestIpIs

LEMMA ClearMappingIs ==
  ASSUME NEW m \in Tables
  PROVE  ClearMapping(m) \in Tables /\ Len(ClearMapping(m)) = Len(m) /\ UniqueIn(ClearMapping(m))
<1>1. ClearedEntry \in Entries /\ ClearedEntry.state = "available"
  BY DEF ClearedEntry, Entry, Entries, LonAddress, Addresses, Domains, Byte
<1>2. DOMAIN m = 1 .. Len(m) /\ Len(m) \in Nat
  BY DEF Tables
<1>3. ClearMapping(m) \in [1 .. Len(m) -> Entries]
  BY <1>1, <1>2 DEF ClearMapping
<1>4. ClearMapping(m) \in Seq(Entries) /\ Len(ClearMapping(m)) = Len(m)
  BY <1>2, <1>3
<1>5. \A j \in DOMAIN ClearMapping(m) : ClearMapping(m)[j].state = "available"
  BY <1>1 DEF ClearMapping
<1> QED
  BY <1>4, <1>5 DEF Tables, UniqueIn

LEMMA SetDerivedSubnetsIs ==
  ASSUME NEW m \in Tables, UniqueIn(m), NEW set \in BOOLEAN, NEW subnets
  PROVE  LET n == SetDerivedSubnets(m, set, subnets)
         IN n \in Tables /\ Len(n) = Len(m) /\ UniqueIn(n)
<1> DEFINE n == SetDerivedSubnets(m, set, subnets)
           first(i) == m[i].key.subnet \in subnets
                       /\ \A j \in 1 .. i - 1 : m[j].key.subnet # m[i].key.subnet
           now == IF set THEN "derived" ELSE "available"
<1>1. DOMAIN m = 1 .. Len(m) /\ Len(m) \in Nat /\ \A i \in DOMAIN m : m[i] \in Entries
  BY DEF Tables
<1>2. \A i \in DOMAIN m : /\ n[i] \in Entries /\ n[i].key = m[i].key
                          /\ n[i].state = IF first(i) THEN now ELSE m[i].state
  BY <1>1 DEF SetDerivedSubnets, Entries
<1>3. n \in [1 .. Len(m) -> Entries] /\ DOMAIN n = DOMAIN m
  <2>1. n = [i \in DOMAIN m |-> n[i]]
    BY DEF SetDerivedSubnets
  <2> HIDE DEF n
  <2> QED
    BY <1>1, <1>2, <2>1
<1>4. n \in Seq(Entries) /\ Len(n) = Len(m)
  BY <1>1, <1>3
<1>5. ASSUME NEW j \in DOMAIN m, n[j].state # "available", NEW i \in 1 .. (j - 1)
      PROVE  n[i].key # n[j].key
  <2>1. i \in DOMAIN m
    BY <1>1
  <2>2. CASE first(j)
    <3>1. m[i].key.subnet # m[j].key.subnet
      BY <2>2
    <3> QED
      BY <1>2, <2>1, <3>1
  <2>3. CASE ~first(j)
    <3>1. m[j].state # "available"
      BY <1>2, <1>5, <2>3
    <3> QED
      BY <1>2, <2>1, <3>1 DEF UniqueIn
  <2> QED
    BY <2>2, <2>3
<1> QED
  BY <1>3, <1>4, <1>5 DEF Tables, UniqueIn

----------------------------------------------------------------------------
(* Types, and the table that is unique.                                    *)

Fields == {"from", "to", "source", "kind", "msg", "left"}

\* Datagrams are read as far as they were written: from an IP address, with what is enclosed.
WireInv ==
    \A d \in wire : DOMAIN d = Fields /\ d.from \in Ips /\ d.source \in EnclosedSources \cup {None}

TableInv == \A x \in Nodes : UniqueIn(mapping[x])

IndInv == TypeOK /\ WireInv /\ TableInv

LEMMA EnclosedSourceIs ==
  ASSUME TypeOK, NEW x \in Nodes
  PROVE  /\ EnclosedSource(x) \in EnclosedSources \cup {None}
         /\ ownIp[x] # DerivedIp(dom[x]) =>
              /\ EnclosedSource(x) # None
              /\ EnclosedSource(x).subnet = dom[x].subnet /\ EnclosedSource(x).node = dom[x].node
              /\ EnclosedSource(x).id = IF SubSeq(ownIp[x], 1, 2) = Prefix(dom[x].id)
                                        THEN None ELSE dom[x].id
<1>1. dom[x] \in Addresses
  BY DEF TypeOK
<1> DEFINE id == IF SubSeq(ownIp[x], 1, 2) = Prefix(dom[x].id) THEN None ELSE dom[x].id
<1>2. id \in Domains \cup {None}
  BY <1>1 DEF Addresses
<1>3. EnclosedSource(x) = IF ownIp[x] = DerivedIp(dom[x]) THEN None
                          ELSE LonAddress(id, dom[x].subnet, dom[x].node)
  BY DEF EnclosedSource
<1> HIDE DEF id
<1>4. LonAddress(id, dom[x].subnet, dom[x].node) \in EnclosedSources
  BY <1>1, <1>2 DEF LonAddress, Addresses, EnclosedSources
<1> QED
  BY <1>3, <1>4, NoneAssumption DEF LonAddress, id

LEMMA SourceOfIs ==
  ASSUME NEW d, d.from \in Ips, d.source \in EnclosedSources \cup {None}
  PROVE  SourceOf(d) \in Addresses
<1>1. AddressOf(d.from) \in Addresses /\ DomainOf(d.from) \in Domains
  BY AddressIs
<1>2. CASE d.source = None
  BY <1>1, <1>2 DEF SourceOf
<1>3. CASE d.source # None
  <2>1. d.source \in EnclosedSources
    BY <1>3
  <2>2. (IF d.source.id = None THEN DomainOf(d.from) ELSE d.source.id) \in Domains
    BY <1>1, <2>1 DEF EnclosedSources
  <2> QED
    BY <1>3, <2>1, <2>2 DEF SourceOf, LonAddress, Addresses, EnclosedSources
<1> QED
  BY <1>2, <1>3

\* What a datagram is once it has arrived at one node more.
LEMMA ArrivedIs ==
  ASSUME IndInv, NEW d \in wire, NEW y \in d.left, NEW e \in Arrived(d, y)
  PROVE  /\ e.left \subseteq Nodes /\ DOMAIN e = Fields
         /\ \E f \in wire : /\ e.from = f.from /\ e.source = f.source /\ e.kind = f.kind
                            /\ e.msg = f.msg
<1>1. CASE e \in wire
  BY <1>1 DEF IndInv, TypeOK, WireInv
<1>2. CASE e \notin wire
  <2>1. d.left # {y} /\ e = [d EXCEPT !.left = d.left \ {y}]
    BY <1>2 DEF Arrived
  <2>2. DOMAIN d = Fields /\ d.left \subseteq Nodes
    BY DEF IndInv, TypeOK, WireInv
  <2>3. /\ DOMAIN e = Fields /\ e.left = d.left \ {y}
        /\ e.from = d.from /\ e.source = d.source /\ e.kind = d.kind /\ e.msg = d.msg
    BY <2>1, <2>2 DEF Fields
  <2> QED
    BY <2>1, <2>2, <2>3
<1> QED
  BY <1>1, <1>2

LEMMA ArrivedWire ==
  ASSUME IndInv, NEW d \in wire, NEW y \in d.left, wire' = Arrived(d, y)
  PROVE  WireInv' /\ \A e \in wire' : e.left \subseteq Nodes
BY ArrivedIs DEF WireInv, IndInv

LEMMA InitInv == Init => IndInv
<1> SUFFICES ASSUME Init PROVE IndInv
  OBVIOUS
<1> USE DEF Init
<1>1. \A x \in Nodes : ifAddr[x] \in Ips /\ dom[x] \in Addresses
  BY LonUdpAssumption, AddressesForAre
<1>2. dom \in [Nodes -> Addresses]
  BY <1>1
<1>3. ifAddr \in [Nodes -> Ips] /\ ownIp \in [Nodes -> Ips] /\ IsInjective(ifAddr)
  BY LonUdpAssumption
<1>4. joined \in [Nodes -> SUBSET {Multicast(s) : s \in Byte}]
  <2>1. \A x \in Nodes : Memberships(dom[x]) \subseteq {Multicast(s) : s \in Byte}
    <3>1. \A x \in Nodes : 0 \in Byte /\ dom[x].subnet \in Byte
      BY <1>1 DEF Addresses, Byte
    <3> QED
      BY <3>1 DEF Memberships
  <2> QED
    BY <2>1
<1>5. /\ mapping \in [Nodes -> Seq(Entries)] /\ \A x \in Nodes : Len(mapping[x]) <= MaxMapInfo
      /\ TableInv
  <2>1. \A x \in Nodes : mapping[x] = <<>>
    OBVIOUS
  <2>2. <<>> \in Seq(Entries) /\ Len(<<>>) <= MaxMapInfo /\ UniqueIn(<<>>)
    BY LonUdpAssumption DEF UniqueIn
  <2> QED
    BY <2>1, <2>2 DEF TableInv
<1>6. connected \in [Nodes -> BOOLEAN] /\ changes \in 0 .. MaxChanges
  BY LonUdpAssumption
<1>7. WireInv /\ \A d \in wire : d.left \subseteq Nodes
  BY DEF WireInv
<1> QED
  BY <1>2, <1>3, <1>4, <1>5, <1>6, <1>7 DEF IndInv, TypeOK

\* One entry of the table changes the table of one node.
LEMMA TableChange ==
  ASSUME IndInv, NEW x \in Nodes, NEW m \in Tables, UniqueIn(m), Len(m) <= MaxMapInfo,
         mapping' = [mapping EXCEPT ![x] = m]
  PROVE  /\ mapping' \in [Nodes -> Seq(Entries)] /\ \A y \in Nodes : Len(mapping'[y]) <= MaxMapInfo
         /\ TableInv'
<1>1. mapping \in [Nodes -> Seq(Entries)] /\ \A y \in Nodes : Len(mapping[y]) <= MaxMapInfo
  BY DEF IndInv, TypeOK
<1>2. \A y \in Nodes : mapping'[y] = IF y = x THEN m ELSE mapping[y]
  BY <1>1
<1>3. TableInv'
  BY <1>2 DEF IndInv, TableInv
<1> QED
  BY <1>1, <1>2, <1>3 DEF Tables

LEMMA SendStep ==
  ASSUME IndInv, NEW x \in Nodes, NEW kind, NEW dest, Send(x, kind, dest)
  PROVE  IndInv'
<1> USE DEF IndInv
<1> DEFINE d == ConvertLonVxToLonUdp(x, Message(x, kind, dest))
<1>1. wire' = wire \cup {d} /\ UNCHANGED <<dom, ifAddr, ownIp, connected, joined, mapping, changes>>
  BY DEF Send, NoChange
<1>2. /\ DOMAIN d = Fields /\ d.from = ifAddr[x] /\ d.source = EnclosedSource(x)
      /\ d.left = Nodes \ {x}
  BY DEF ConvertLonVxToLonUdp, Fields
<1>3. d.from \in Ips /\ d.source \in EnclosedSources \cup {None}
  BY <1>2, EnclosedSourceIs DEF TypeOK
<1> HIDE DEF d
<1>4. WireInv'
  BY <1>1, <1>2, <1>3 DEF WireInv
<1> QED
  BY <1>1, <1>2, <1>4 DEF TypeOK, TableInv

LEMMA ReceiveStep ==
  ASSUME IndInv, NEW d \in wire, NEW y \in d.left, Receive(y, d)
  PROVE  IndInv'
<1> USE DEF IndInv
<1>1. y \in Nodes /\ d.from \in Ips /\ d.source \in EnclosedSources \cup {None}
  BY DEF TypeOK, WireInv
<1> DEFINE npdu == ConvertLonUdpToLonVx(y, d)
           learnt == LearnSource(mapping[y], d.source # None, npdu.src, d.from)
           m == IF d.kind = "announce" THEN UpdateMapping(learnt, npdu.src, d.from) ELSE learnt
<1>2. /\ wire' = Arrived(d, y) /\ mapping' = [mapping EXCEPT ![y] = m]
      /\ UNCHANGED <<dom, ifAddr, ownIp, connected, joined, changes>>
  BY DEF Receive, NoChange
<1>3. npdu.src \in Addresses
  BY <1>1, SourceOfIs DEF ConvertLonUdpToLonVx
<1>4. learnt \in Tables /\ UniqueIn(learnt) /\ Len(learnt) <= MaxMapInfo
  BY <1>1, <1>3, LearnSourceIs DEF TypeOK, TableInv, Tables
<1>5. m \in Tables /\ UniqueIn(m) /\ Len(m) <= MaxMapInfo
  <2> HIDE DEF npdu, learnt
  <2> QED
    BY <1>1, <1>3, <1>4, UpdateMappingIs
<1> HIDE DEF m
<1>6. WireInv' /\ \A e \in wire' : e.left \subseteq Nodes
  BY <1>2, ArrivedWire
<1>7. /\ mapping' \in [Nodes -> Seq(Entries)] /\ \A x \in Nodes : Len(mapping'[x]) <= MaxMapInfo
      /\ TableInv'
  BY <1>1, <1>2, <1>5, TableChange
<1> QED
  BY <1>2, <1>6, <1>7 DEF TypeOK

LEMMA LoseStep ==
  ASSUME IndInv, NEW d \in wire, NEW y \in d.left, Lose(y, d)
  PROVE  IndInv'
<1> USE DEF IndInv
<1>1. /\ wire' = Arrived(d, y)
      /\ UNCHANGED <<dom, ifAddr, ownIp, connected, joined, mapping, changes>>
  BY DEF Lose, NoChange
<1>2. WireInv' /\ \A e \in wire' : e.left \subseteq Nodes
  BY <1>1, ArrivedWire
<1> QED
  BY <1>1, <1>2 DEF TypeOK, TableInv

LEMMA SetCurrentIPStep ==
  ASSUME IndInv, NEW x \in Nodes, SetCurrentIP(x)
  PROVE  IndInv'
<1>1. /\ ownIp' = [ownIp EXCEPT ![x] = ifAddr[x]]
      /\ UNCHANGED <<dom, ifAddr, connected, joined, mapping, wire, changes>>
  BY DEF SetCurrentIP, NoChange
<1> QED
  BY <1>1 DEF IndInv, TypeOK, WireInv, TableInv

LEMMA AgeStep ==
  ASSUME IndInv, NEW x \in Nodes, Age(x)
  PROVE  IndInv'
<1> USE DEF IndInv
<1>1. /\ mapping' = [mapping EXCEPT ![x] = ClearMapping(mapping[x])]
      /\ UNCHANGED <<dom, ifAddr, ownIp, connected, joined, wire, changes>>
  BY DEF Age, NoChange
<1>2. mapping[x] \in Tables /\ Len(mapping[x]) <= MaxMapInfo
  BY DEF TypeOK, Tables
<1>3. /\ mapping' \in [Nodes -> Seq(Entries)] /\ \A y \in Nodes : Len(mapping'[y]) <= MaxMapInfo
      /\ TableInv'
  BY <1>1, <1>2, ClearMappingIs, TableChange
<1> QED
  BY <1>1, <1>3 DEF TypeOK, WireInv

LEMMA ChangeIs ==
  ASSUME TypeOK, Change
  PROVE  changes' \in 0 .. MaxChanges
BY LonUdpAssumption DEF TypeOK, Change

LEMMA UpdateDomainStep ==
  ASSUME IndInv, NEW x \in Nodes, NEW a \in LonAddresses, UpdateDomain(x, a)
  PROVE  IndInv'
<1> USE DEF IndInv
<1>1. a \in Addresses /\ dom' = [dom EXCEPT ![x] = a]
  BY LonAddressesAre DEF UpdateDomain
<1>2. joined' \in [Nodes -> SUBSET {Multicast(s) : s \in Byte}]
  <2> DEFINE new == IF a.subnet # 0 /\ a.subnet # dom[x].subnet
                    THEN (joined[x] \ {Multicast(dom[x].subnet)}) \cup {Multicast(a.subnet)}
                    ELSE joined[x]
  <2>1. joined' = [joined EXCEPT ![x] = new]
    BY DEF UpdateDomain
  <2>2. new \subseteq {Multicast(s) : s \in Byte}
    BY <1>1 DEF TypeOK, Addresses
  <2> HIDE DEF new
  <2> QED
    BY <2>1, <2>2 DEF TypeOK
<1>3. changes' \in 0 .. MaxChanges /\ UNCHANGED <<ifAddr, ownIp, connected, mapping, wire>>
  BY ChangeIs DEF UpdateDomain
<1>4. dom' \in [Nodes -> Addresses]
  BY <1>1 DEF TypeOK
<1> QED
  BY <1>2, <1>3, <1>4 DEF TypeOK, WireInv, TableInv

\* The IP network gives no address twice.
LEMMA AddressChange ==
  ASSUME TypeOK, NEW x \in Nodes, NEW ip \in Ips, \A y \in Nodes \ {x} : ifAddr[y] # ip
  PROVE  LET f == [ifAddr EXCEPT ![x] = ip] IN f \in [Nodes -> Ips] /\ IsInjective(f)
<1> DEFINE f == [ifAddr EXCEPT ![x] = ip]
<1>1. f \in [Nodes -> Ips] /\ \A y \in Nodes : f[y] = IF y = x THEN ip ELSE ifAddr[y]
  BY DEF TypeOK
<1>2. \A y, z \in Nodes : ifAddr[y] = ifAddr[z] => y = z
  BY DEF TypeOK, IsInjective
<1> HIDE DEF f
<1>3. \A y, z \in Nodes : f[y] = f[z] => y = z
  BY <1>1, <1>2
<1>4. IsInjective(f)
  BY <1>1, <1>3 DEF IsInjective
<1> QED
  BY <1>1, <1>4 DEF f

LEMMA RenewLeaseStep ==
  ASSUME IndInv, NEW x \in Nodes, NEW ip \in Ips, RenewLease(x, ip)
  PROVE  IndInv'
<1> USE DEF IndInv
<1>1. /\ ifAddr' = [ifAddr EXCEPT ![x] = ip] /\ \A y \in Nodes : ifAddr[y] # ip
      /\ UNCHANGED <<dom, ownIp, connected, joined, mapping, wire>>
  BY DEF RenewLease
<1>2. ifAddr' \in [Nodes -> Ips] /\ IsInjective(ifAddr')
  BY <1>1, AddressChange
<1>3. changes' \in 0 .. MaxChanges
  BY ChangeIs DEF RenewLease
<1> QED
  BY <1>1, <1>2, <1>3 DEF TypeOK, WireInv, TableInv

LEMMA LinkLostStep ==
  ASSUME IndInv, NEW x \in Nodes, LinkLost(x)
  PROVE  IndInv'
<1> USE DEF IndInv
<1>1. /\ connected' = [connected EXCEPT ![x] = FALSE] /\ changes' \in 0 .. MaxChanges
      /\ UNCHANGED <<dom, ifAddr, ownIp, joined, mapping, wire>>
  BY ChangeIs DEF LinkLost
<1> QED
  BY <1>1 DEF TypeOK, WireInv, TableInv

LEMMA ConnectedStep ==
  ASSUME IndInv, NEW x \in Nodes, NEW ip \in Ips, Connected(x, ip)
  PROVE  IndInv'
<1> USE DEF IndInv
<1>1. /\ ifAddr' = [ifAddr EXCEPT ![x] = ip] /\ \A y \in Nodes \ {x} : ifAddr[y] # ip
      /\ ownIp' = [ownIp EXCEPT ![x] = ip] /\ connected' = [connected EXCEPT ![x] = TRUE]
      /\ UNCHANGED <<joined, mapping, wire, changes>>
  BY DEF Connected
<1>2. PICK a \in AddressesFor(ip) : dom' = [dom EXCEPT ![x] = a]
  BY DEF Connected
<1>3. ifAddr' \in [Nodes -> Ips] /\ IsInjective(ifAddr')
  BY <1>1, AddressChange
<1>4. dom' \in [Nodes -> Addresses]
  BY <1>2, AddressesForAre DEF TypeOK
<1> QED
  BY <1>1, <1>3, <1>4 DEF TypeOK, WireInv, TableInv

LEMMA RestartStep ==
  ASSUME IndInv, NEW x \in Nodes, Restart(x)
  PROVE  IndInv'
<1> USE DEF IndInv
<1>1. /\ connected' = [connected EXCEPT ![x] = TRUE] /\ ownIp' = [ownIp EXCEPT ![x] = ifAddr[x]]
      /\ mapping' = [mapping EXCEPT ![x] = <<>>] /\ changes' \in 0 .. MaxChanges
      /\ UNCHANGED <<ifAddr, wire>>
  BY ChangeIs DEF Restart
<1>2. PICK a \in AddressesFor(ifAddr[x]) : /\ dom' = [dom EXCEPT ![x] = a]
                                           /\ joined' = [joined EXCEPT ![x] = Memberships(a)]
  BY DEF Restart
<1>3. a \in Addresses /\ ifAddr[x] \in Ips
  BY <1>2, AddressesForAre DEF TypeOK
<1>4. Memberships(a) \subseteq {Multicast(s) : s \in Byte}
  <2>1. 0 \in Byte /\ a.subnet \in Byte
    BY <1>3 DEF Addresses, Byte
  <2> QED
    BY <2>1 DEF Memberships
<1>5. dom' \in [Nodes -> Addresses] /\ joined' \in [Nodes -> SUBSET {Multicast(s) : s \in Byte}]
  BY <1>2, <1>3, <1>4 DEF TypeOK
<1>6. /\ mapping' \in [Nodes -> Seq(Entries)] /\ \A y \in Nodes : Len(mapping'[y]) <= MaxMapInfo
      /\ TableInv'
  <2>1. <<>> \in Tables /\ UniqueIn(<<>>) /\ Len(<<>>) <= MaxMapInfo
    BY LonUdpAssumption DEF Tables, UniqueIn
  <2> QED
    BY <1>1, <2>1, TableChange
<1>7. connected' \in [Nodes -> BOOLEAN] /\ ownIp' \in [Nodes -> Ips]
  BY <1>1, <1>3 DEF TypeOK
<1> QED
  BY <1>1, <1>5, <1>6, <1>7 DEF TypeOK, WireInv

LEMMA SubnetsAnnouncedStep ==
  ASSUME IndInv, NEW y \in Nodes, NEW set \in BOOLEAN, NEW subnets, SubnetsAnnounced(y, set, subnets)
  PROVE  IndInv'
<1> USE DEF IndInv
<1>1. /\ mapping' = [mapping EXCEPT ![y] = SetDerivedSubnets(mapping[y], set, subnets)]
      /\ UNCHANGED <<dom, ifAddr, ownIp, connected, joined, wire>>
  BY DEF SubnetsAnnounced
<1>2. mapping[y] \in Tables /\ Len(mapping[y]) <= MaxMapInfo /\ UniqueIn(mapping[y])
  BY DEF TypeOK, Tables, TableInv
<1>3. /\ mapping' \in [Nodes -> Seq(Entries)] /\ \A x \in Nodes : Len(mapping'[x]) <= MaxMapInfo
      /\ TableInv'
  BY <1>1, <1>2, SetDerivedSubnetsIs, TableChange
<1>4. changes' \in 0 .. MaxChanges
  BY ChangeIs DEF SubnetsAnnounced
<1> QED
  BY <1>1, <1>3, <1>4 DEF TypeOK, WireInv

LEMMA NextInv == IndInv /\ [Next]_vars => IndInv'
<1> SUFFICES ASSUME IndInv, [Next]_vars PROVE IndInv'
  OBVIOUS
<1>1. ASSUME NEW x \in Nodes, NEW kind, NEW dest, Send(x, kind, dest) PROVE IndInv'
  BY <1>1, SendStep
<1>2. CASE \E x, y \in Nodes : SendTo(x, y) \/ RespondTo(x, y) \/ SendToId(x, y)
  BY <1>1, <1>2 DEF SendTo, RespondTo, SendToId
<1>3. CASE \E x \in Nodes : Broadcast(x) \/ Announce(x)
  BY <1>1, <1>3 DEF Broadcast, Announce
<1>4. CASE \E d \in wire : \E y \in d.left : Receive(y, d) \/ Lose(y, d)
  BY <1>4, ReceiveStep, LoseStep
<1>5. CASE \E x \in Nodes : SetCurrentIP(x) \/ Age(x) \/ LinkLost(x) \/ Restart(x)
  BY <1>5, SetCurrentIPStep, AgeStep, LinkLostStep, RestartStep
<1>6. CASE \E x \in Nodes, a \in LonAddresses : UpdateDomain(x, a)
  BY <1>6, UpdateDomainStep
<1>7. CASE \E x \in Nodes, ip \in Ips : RenewLease(x, ip) \/ Connected(x, ip)
  BY <1>7, RenewLeaseStep, ConnectedStep
<1>8. CASE \E y \in Nodes, set \in BOOLEAN, s \in {a.subnet : a \in LonAddresses} :
              SubnetsAnnounced(y, set, {s})
  BY <1>8, SubnetsAnnouncedStep
<1>9. CASE UNCHANGED vars
  BY <1>9 DEF IndInv, TypeOK, WireInv, TableInv, vars
<1> QED
  BY <1>2, <1>3, <1>4, <1>5, <1>6, <1>7, <1>8, <1>9 DEF Next

LEMMA SpecInv == Spec => []IndInv
BY InitInv, NextInv, PTL DEF Spec

\* However the addresses of nodes and interfaces change and entries are reused, each variable keeps to
\* its type, and the table to its MAX_LS_MAP_INFO entries.
THEOREM TypeCorrect == Spec => []TypeOK
BY SpecInv, PTL DEF IndInv

\* lsMapInfo never has two entries in use for one LON address (MappingIsUnique), whatever is learnt,
\* aged, and announced of subnets.
THEOREM MappingStaysUnique == Spec => []MappingIsUnique
<1>1. IndInv => MappingIsUnique
  BY UniqueMapping DEF IndInv, TypeOK, TableInv, Tables, MappingIsUnique
<1> QED
  BY <1>1, SpecInv, PTL

----------------------------------------------------------------------------
(* The source of a message, and the answer to it.                          *)

Readable(a) ==
    /\ a \in Addresses /\ a.subnet # 0 /\ a.node # 0
    /\ Len(a.id) = 3 => a.id[1] # 10 /\ ~(a.id[1] = 192 /\ a.id[2] = 168)

TrueSource(d) ==
    /\ Readable(d.msg.src) /\ SourceOf(d) = d.msg.src
    /\ d.source = None => d.from = DerivedIp(d.msg.src)

\* What was written by a sender that knew its IP address is read as it was meant, whatever the sender
\* has become since.
SourceInv ==
    /\ \A x \in Nodes : Readable(dom[x])
    /\ \A d \in wire : d.msg.knew => TrueSource(d)

LEMMA ReadableAddresses ==
  /\ Unambiguous => \A a \in LonAddresses : Readable(a)
  /\ \A ip \in Ips : \A a \in AddressesFor(ip) : Readable(a)
<1>1. ASSUME Unambiguous, NEW a \in LonAddresses PROVE Readable(a)
  BY <1>1, LonAddressesAre DEF Unambiguous, Readable
<1>2. ASSUME NEW ip \in Ips, NEW a \in AddressesFor(ip) PROVE Readable(a)
  <2>1. a \in Addresses /\ a.id = DomainOf(ip) /\ a.subnet # 0 /\ a.node # 0
    BY AddressesForAre
  <2>2. ip \in Seq(Byte) /\ Len(ip) = 4
    BY IpIs
  <2>3. CASE ip[1] = 192 /\ ip[2] = 168
    <3>1. a.id = <<>>
      BY <2>1, <2>2, <2>3, DomainOfIs
    <3> QED
      BY <2>1, <3>1 DEF Readable
  <2>4. CASE ip[1] = 10
    <3>1. a.id = <<ip[2]>>
      BY <2>1, <2>2, <2>4, DomainOfIs
    <3> QED
      BY <2>1, <3>1 DEF Readable
  <2>5. CASE ~(ip[1] = 192 /\ ip[2] = 168) /\ ip[1] # 10
    <3>1. a.id = <<ip[1], ip[2], 0>>
      BY <2>1, <2>2, <2>5, DomainOfIs
    <3> QED
      BY <2>1, <2>5, <3>1 DEF Readable
  <2> QED
    BY <2>3, <2>4, <2>5
<1> QED
  BY <1>1, <1>2

\* An IP address with the prefix of a domain is read as one of that domain.
LEMMA DomainRead ==
  ASSUME NEW a, Readable(a), NEW ip \in Seq(Byte), Len(ip) = 4, SubSeq(ip, 1, 2) = Prefix(a.id)
  PROVE  DomainOf(ip) = a.id
<1>1. a.id \in Domains
  BY DEF Readable, Addresses
<1>2. <<ip[1], ip[2]>> = Prefix(a.id)
  BY FirstTwo
<1>3. CASE a.id = <<>>
  <2>1. ip[1] = 192 /\ ip[2] = 168
    BY <1>1, <1>2, <1>3, PrefixIs
  <2> QED
    BY <1>3, <2>1, DomainOfIs
<1>4. CASE \E b \in Byte : a.id = <<b>>
  <2>1. PICK b \in Byte : a.id = <<b>>
    BY <1>4
  <2>2. Prefix(a.id) = <<10, b>>
    BY <1>1, <2>1, PrefixIs
  <2>3. ip[1] = 10 /\ ip[2] = b
    BY <1>2, <2>2
  <2> QED
    BY <2>1, <2>3, DomainOfIs
<1>5. CASE \E b, c \in Byte : a.id = <<b, c, 0>>
  <2>1. PICK b \in Byte, c \in Byte : a.id = <<b, c, 0>>
    BY <1>5
  <2>2. Len(a.id) = 3 /\ a.id[1] = b /\ a.id[2] = c
    BY <2>1
  <2>3. ip[1] = b /\ ip[2] = c
    BY <1>1, <1>2, <2>2, PrefixIs
  <2>4. b # 10 /\ ~(b = 192 /\ c = 168)
    BY <2>2 DEF Readable
  <2> QED
    BY <2>1, <2>3, <2>4, DomainOfIs
<1> QED
  BY <1>1, <1>3, <1>4, <1>5, DomainIs

LEMMA DerivedIs ==
  ASSUME NEW a, Readable(a)
  PROVE  /\ DerivedIp(a) = <<Prefix(a.id)[1], Prefix(a.id)[2], a.subnet, a.node>>
         /\ AddressOf(DerivedIp(a)) = a
<1> DEFINE b == Prefix(a.id)[1]
           c == Prefix(a.id)[2]
           ip == <<b, c, a.subnet, a.node>>
<1>1. a.id \in Domains /\ a.subnet \in Byte /\ a.node \in 0 .. 127 /\ a.node \in Byte
  BY DEF Readable, Addresses, Byte
<1>2. Prefix(a.id) = <<b, c>> /\ b \in Byte /\ c \in Byte
  BY <1>1, PrefixIs
<1>3. DerivedIp(a) = Prefix(a.id) \o <<a.subnet, a.node>>
  BY DEF DerivedIp, Readable
<1> HIDE DEF b, c
<1>4. DerivedIp(a) = ip
  BY <1>1, <1>2, <1>3, Joined
<1>5. ip \in Seq(Byte) /\ Len(ip) = 4 /\ ip[1] = b /\ ip[2] = c /\ ip[3] = a.subnet /\ ip[4] = a.node
  BY <1>1, <1>2
<1> HIDE DEF ip
<1>6. DomainOf(ip) = a.id
  BY <1>2, <1>5, FirstTwo, DomainRead
<1>7. a.node % 128 = a.node
  BY <1>1
<1>8. AddressOf(ip) = [id |-> a.id, subnet |-> a.subnet, node |-> a.node]
  BY <1>5, <1>6, <1>7 DEF AddressOf, LonAddress
<1>9. a = [id |-> a.id, subnet |-> a.subnet, node |-> a.node]
  BY DEF Readable, Addresses
<1> QED
  BY <1>4, <1>8, <1>9 DEF ip, b, c

\* What Ipv4GetArbitrarySourceAddress leaves out is what the datagram's source gives.
LEMMA SendSource ==
  ASSUME IndInv, SourceInv, NEW x \in Nodes, NEW kind, NEW dest, ownIp[x] = ifAddr[x]
  PROVE  TrueSource(ConvertLonVxToLonUdp(x, Message(x, kind, dest)))
<1> DEFINE d == ConvertLonVxToLonUdp(x, Message(x, kind, dest))
           a == dom[x]
<1>1. /\ d.from = ifAddr[x] /\ d.source = EnclosedSource(x) /\ d.msg.src = a
  BY DEF ConvertLonVxToLonUdp, Message
<1>2. Readable(a) /\ ownIp[x] \in Ips
  BY DEF SourceInv, IndInv, TypeOK
<1> HIDE DEF d
<1>3. CASE ownIp[x] = DerivedIp(a)
  <2>1. d.source = None
    BY <1>1, <1>3 DEF EnclosedSource
  <2> QED
    BY <1>1, <1>2, <1>3, <2>1, DerivedIs DEF TrueSource, SourceOf, d
<1>4. CASE ownIp[x] # DerivedIp(a)
  <2>1. /\ d.source # None /\ d.source.subnet = a.subnet /\ d.source.node = a.node
        /\ d.source.id = IF SubSeq(ownIp[x], 1, 2) = Prefix(a.id) THEN None ELSE a.id
    BY <1>1, <1>4, EnclosedSourceIs DEF IndInv
  <2>2. a.id # None
    BY <1>2, DomainIs DEF Readable, Addresses
  <2>3. (IF d.source.id = None THEN DomainOf(d.from) ELSE d.source.id) = a.id
    <3>1. CASE SubSeq(ownIp[x], 1, 2) = Prefix(a.id)
      <4>1. DomainOf(d.from) = a.id
        BY <1>1, <1>2, <3>1, IpIs, DomainRead
      <4> QED
        BY <2>1, <3>1, <4>1
    <3>2. CASE SubSeq(ownIp[x], 1, 2) # Prefix(a.id)
      BY <2>1, <2>2, <3>2
    <3> QED
      BY <3>1, <3>2
  <2>4. a = [id |-> a.id, subnet |-> a.subnet, node |-> a.node]
    BY <1>2 DEF Readable, Addresses
  <2>5. SourceOf(d) = [id |-> a.id, subnet |-> a.subnet, node |-> a.node]
    BY <2>1, <2>3 DEF SourceOf, LonAddress
  <2> QED
    BY <1>1, <1>2, <2>1, <2>4, <2>5 DEF TrueSource, d
<1> QED
  BY <1>3, <1>4

LEMMA SourceInit == Unambiguous /\ Init => SourceInv /\ SourceIsTrue
<1> SUFFICES ASSUME Unambiguous, Init PROVE SourceInv /\ SourceIsTrue
  OBVIOUS
<1>1. \A x \in Nodes : ifAddr[x] \in Ips /\ dom[x] \in AddressesFor(ifAddr[x])
  BY LonUdpAssumption DEF Init
<1>2. \A x \in Nodes : Readable(dom[x])
  BY <1>1, ReadableAddresses
<1> QED
  BY <1>2 DEF Init, SourceInv, SourceIsTrue

\* A step that sends and hears nothing.
LEMMA SilentStep ==
  ASSUME SourceInv, NotHeard, UNCHANGED wire, \A x \in Nodes : Readable(dom'[x])
  PROVE  SourceInv' /\ SourceIsTrue'
BY DEF SourceInv, NotHeard, SourceIsTrue, TrueSource, SourceOf, DerivedIp, Readable

LEMMA SourceSend ==
  ASSUME IndInv, SourceInv, NEW x \in Nodes, NEW kind, NEW dest, Send(x, kind, dest)
  PROVE  SourceInv' /\ SourceIsTrue'
<1> DEFINE d == ConvertLonVxToLonUdp(x, Message(x, kind, dest))
<1>1. wire' = wire \cup {d} /\ UNCHANGED dom /\ heard' = None
  BY DEF Send, NoChange, NotHeard
<1>2. d.msg.knew = (ownIp[x] = ifAddr[x])
  BY DEF ConvertLonVxToLonUdp, Message
<1>3. d.msg.knew => TrueSource(d)
  BY <1>2, SendSource
<1> HIDE DEF d
<1>4. SourceInv'
  BY <1>1, <1>2, <1>3 DEF SourceInv
<1> QED
  BY <1>1, <1>4 DEF SourceIsTrue

LEMMA SourceArrived ==
  ASSUME IndInv, SourceInv, NEW d \in wire, NEW y \in d.left, wire' = Arrived(d, y), UNCHANGED dom
  PROVE  SourceInv'
<1>1. ASSUME NEW e \in wire'
      PROVE  e.msg.knew => TrueSource(e)
  <2>1. PICK f \in wire : /\ e.from = f.from /\ e.source = f.source /\ e.kind = f.kind
                          /\ e.msg = f.msg
    BY <1>1, ArrivedIs
  <2>2. SourceOf(e) = SourceOf(f)
    BY <2>1 DEF SourceOf
  <2>3. TrueSource(e) <=> TrueSource(f)
    BY <2>1, <2>2 DEF TrueSource
  <2>4. f.msg.knew => TrueSource(f)
    BY Zenon DEF SourceInv
  <2> QED
    BY <2>1, <2>3, <2>4, Zenon
<1> QED
  BY <1>1 DEF SourceInv

LEMMA SourceReceive ==
  ASSUME IndInv, SourceInv, NEW d \in wire, NEW y \in d.left, Receive(y, d)
  PROVE  SourceInv' /\ SourceIsTrue'
<1>1. wire' = Arrived(d, y) /\ UNCHANGED dom
  BY DEF Receive, NoChange
<1>2. heard'.msg = d.msg /\ heard'.npdu.src = SourceOf(d)
  BY DEF Receive, ConvertLonUdpToLonVx
<1>3. d.msg.knew => SourceOf(d) = d.msg.src
  BY DEF SourceInv, TrueSource
<1>4. heard'.msg.knew => heard'.npdu.src = heard'.msg.src
  BY <1>2, <1>3, Zenon
<1>5. SourceInv'
  BY <1>1, SourceArrived
<1> QED
  BY <1>4, <1>5, Zenon DEF SourceIsTrue

LEMMA SourceNext == Unambiguous /\ IndInv /\ SourceInv /\ SourceIsTrue /\ [Next]_vars
                      => SourceInv' /\ SourceIsTrue'
<1> SUFFICES ASSUME Unambiguous, IndInv, SourceInv, SourceIsTrue, [Next]_vars
             PROVE  SourceInv' /\ SourceIsTrue'
  OBVIOUS
<1>1. dom \in [Nodes -> Addresses] /\ \A x \in Nodes : Readable(dom[x]) /\ ifAddr[x] \in Ips
  BY DEF IndInv, TypeOK, SourceInv
<1>2. ASSUME NEW x \in Nodes, NEW a, Readable(a), dom' = [dom EXCEPT ![x] = a], NotHeard, UNCHANGED wire
      PROVE  SourceInv' /\ SourceIsTrue'
  <2>1. \A y \in Nodes : Readable(dom'[y])
    BY <1>1, <1>2
  <2> QED
    BY <1>2, <2>1, SilentStep
<1>3. ASSUME NotHeard, UNCHANGED wire, UNCHANGED dom PROVE SourceInv' /\ SourceIsTrue'
  BY <1>1, <1>3, SilentStep
<1>4. CASE \E x, y \in Nodes : SendTo(x, y) \/ RespondTo(x, y) \/ SendToId(x, y)
  <2>1. PICK x \in Nodes, kind \in {"subnetNode", "groupResp", "uniqueId"} :
               \E dest : Send(x, kind, dest)
    BY <1>4 DEF SendTo, RespondTo, SendToId
  <2> QED
    BY <2>1, SourceSend
<1>5. CASE \E x \in Nodes : Broadcast(x)
  BY <1>5, SourceSend DEF Broadcast
<1>6. CASE \E x \in Nodes : Announce(x)
  BY <1>6, SourceSend DEF Announce
<1>7. CASE \E d \in wire : \E y \in d.left : Receive(y, d)
  BY <1>7, SourceReceive
<1>8. CASE \E d \in wire : \E y \in d.left : Lose(y, d)
  BY <1>8, SourceArrived DEF Lose, NoChange, NotHeard, SourceIsTrue
<1>9. CASE \E x \in Nodes : SetCurrentIP(x) \/ Age(x) \/ LinkLost(x)
  BY <1>3, <1>9 DEF SetCurrentIP, Age, LinkLost, NoChange
<1>10. CASE \E x \in Nodes : Restart(x)
  <2>1. PICK x \in Nodes : Restart(x)
    BY <1>10
  <2>2. PICK a \in AddressesFor(ifAddr[x]) : dom' = [dom EXCEPT ![x] = a]
    BY <2>1 DEF Restart
  <2>3. Readable(a)
    BY <1>1, ReadableAddresses
  <2> QED
    BY <1>2, <2>1, <2>2, <2>3 DEF Restart
<1>11. CASE \E x \in Nodes, a \in LonAddresses : UpdateDomain(x, a)
  BY <1>2, <1>11, ReadableAddresses DEF UpdateDomain
<1>12. CASE \E x \in Nodes, ip \in Ips : RenewLease(x, ip)
  BY <1>3, <1>12 DEF RenewLease
<1>13. CASE \E x \in Nodes, ip \in Ips : Connected(x, ip)
  <2>1. PICK x \in Nodes, ip \in Ips : Connected(x, ip)
    BY <1>13
  <2>2. PICK a \in AddressesFor(ip) : dom' = [dom EXCEPT ![x] = a]
    BY <2>1 DEF Connected
  <2>3. Readable(a)
    BY ReadableAddresses
  <2> QED
    BY <1>2, <2>1, <2>2, <2>3 DEF Connected
<1>14. CASE \E y \in Nodes, set \in BOOLEAN, s \in {a.subnet : a \in LonAddresses} :
               SubnetsAnnounced(y, set, {s})
  BY <1>3, <1>14 DEF SubnetsAnnounced
<1>15. CASE UNCHANGED vars
  BY <1>15 DEF vars, SourceInv, SourceIsTrue
<1> QED
  BY <1>4, <1>5, <1>6, <1>7, <1>8, <1>9, <1>10, <1>11, <1>12, <1>13, <1>14, <1>15 DEF Next

\* A message is received with the source and the domain that its sender had when it sent it, although
\* Ipv4GetArbitrarySourceAddress leaves out of the datagram what the sender's IP address gives
\* (SourceIsTrue), for the addresses that an IP address tells apart.
THEOREM SourceStaysTrue ==
  ASSUME Unambiguous
  PROVE  Spec => []SourceIsTrue
<1>1. Init => SourceInv /\ SourceIsTrue
  BY SourceInit
<1>2. IndInv /\ SourceInv /\ SourceIsTrue /\ [Next]_vars => SourceInv' /\ SourceIsTrue'
  BY SourceNext
<1> QED
  BY <1>1, <1>2, SpecInv, PTL DEF Spec

\* What UpdateMapping takes for a derived address is the derived address, but for the second byte
\* when the domain ID has one byte.
LEMMA LooksDerivedIs ==
  ASSUME NEW key, Readable(key), NEW ip \in Ips, LooksDerived(key, ip)
  PROVE  \/ DerivedIp(key) = ip
         \/ /\ Len(key.id) = 1 /\ ip[1] = 10 /\ ip[2] # key.id[1]
            /\ ip[3] = key.subnet /\ ip[4] = key.node
<1>1. /\ ip = <<ip[1], ip[2], ip[3], ip[4]>> /\ SubSeq(ip, 1, 2) = <<ip[1], ip[2]>>
  BY IpIs
<1>2. key.id \in Domains /\ key.id \in Seq(Byte) /\ Len(key.id) \in {0, 1, 3}
  BY DomainIs DEF Readable, Addresses, Translatable
<1>3. ip[3] = key.subnet /\ ip[4] = key.node
  BY DEF LooksDerived
<1>4. CASE SubSeq(ip, 1, 2) = Prefix(key.id)
  <2>1. Prefix(key.id)[1] = ip[1] /\ Prefix(key.id)[2] = ip[2]
    BY <1>1, <1>4
  <2> QED
    BY <1>1, <1>3, <2>1, DerivedIs
<1>5. CASE SubSeq(ip, 1, 2) # Prefix(key.id)
  <2>0. Len(key.id) # 0 /\ Len(key.id) # 3
    <3>1. Len(key.id) = 0 => Prefix(key.id) = ZeroLenPrefix
      BY DEF Prefix
    <3>2. Len(key.id) = 0 => SubSeq(ip, 1, 2) = ZeroLenPrefix
      BY DEF LooksDerived
    <3>3. Len(key.id) = 3 => SubSeq(ip, 1, 2) = Prefix(key.id)
      BY DEF LooksDerived
    <3> QED
      BY <1>5, <3>1, <3>2, <3>3
  <2>1. Len(key.id) = 1 /\ ip[1] = 10
    <3>1. Len(key.id) = 1
      BY <1>2, <2>0
    <3> QED
      BY <3>1 DEF LooksDerived
  <2>2. Prefix(key.id) = <<10, key.id[1]>>
    BY <2>1 DEF Prefix
  <2>3. ip[2] # key.id[1]
    BY <1>1, <1>5, <2>1, <2>2
  <2> QED
    BY <1>3, <2>1, <2>3
<1> QED
  BY <1>4, <1>5

\* A node that has heard another answers to where it heard it from.
LEMMA ReplyReceive ==
  ASSUME IndInv, SourceInv, NEW d \in wire, NEW y \in d.left, Receive(y, d),
         d.msg.knew, ~TakenForDerived(heard')
  PROVE  /\ heard'.at = y /\ heard'.from = d.from
         /\ DestIp(mapping'[y], heard'.npdu.src) = d.from
<1> DEFINE key == SourceOf(d)
           enclosed == d.source # None
           learnt == LearnSource(mapping[y], enclosed, key, d.from)
<1>1. y \in Nodes /\ d.from \in Ips /\ d.source \in EnclosedSources \cup {None}
  BY DEF IndInv, TypeOK, WireInv
<1>2. /\ mapping[y] \in Tables /\ Len(mapping[y]) <= MaxMapInfo /\ UniqueIn(mapping[y])
      /\ mapping \in [Nodes -> Seq(Entries)]
  BY <1>1 DEF IndInv, TypeOK, Tables, TableInv
<1>3. /\ TrueSource(d) /\ Readable(key) /\ key \in Addresses /\ enclosed \in BOOLEAN
      /\ ~enclosed => DerivedIp(key) = d.from
  <2>1. TrueSource(d)
    BY Zenon DEF SourceInv
  <2>2. Readable(key) /\ (~enclosed => DerivedIp(key) = d.from)
    BY <2>1 DEF TrueSource
  <2>3. enclosed \in BOOLEAN
    OBVIOUS
  <2> QED
    BY <2>1, <2>2, <2>3 DEF Readable
<1>4. /\ heard'.at = y /\ heard'.from = d.from /\ heard'.npdu.src = key
      /\ d.kind = "announce" => heard'.npdu.kind = "announce"
      /\ mapping'[y] = IF d.kind = "announce" THEN UpdateMapping(learnt, key, d.from) ELSE learnt
  BY <1>1, <1>2 DEF Receive, ConvertLonUdpToLonVx
<1> HIDE DEF key, enclosed
<1>5. /\ learnt \in Tables /\ UniqueIn(learnt) /\ Len(learnt) <= MaxMapInfo
      /\ DestIp(learnt, key) = IF enclosed THEN d.from ELSE DerivedIp(key)
  BY <1>1, <1>2, <1>3, LearnSourceIs
<1> HIDE DEF learnt
<1>6. CASE d.kind = "announce"
  <2>1. DestIp(mapping'[y], key) = IF LooksDerived(key, d.from) THEN DerivedIp(key) ELSE d.from
    BY <1>1, <1>3, <1>4, <1>5, <1>6, UpdateMappingIs
  <2>2. LooksDerived(key, d.from) => DerivedIp(key) = d.from
    BY <1>1, <1>3, <1>4, <1>6, LooksDerivedIs DEF TakenForDerived
  <2> QED
    BY <1>4, <2>1, <2>2
<1>7. CASE d.kind # "announce"
  BY <1>3, <1>4, <1>5, <1>7
<1> QED
  BY <1>6, <1>7

LEMMA ReplyNext ==
  ASSUME IndInv, SourceInv, Next, heard' # None, heard'.msg.knew, ~TakenForDerived(heard')
  PROVE  DestIp(mapping'[heard'.at], heard'.npdu.src) = heard'.from
<1>1. CASE \E d \in wire : \E y \in d.left : Receive(y, d)
  <2>1. PICK d \in wire : \E y \in d.left : Receive(y, d)
    BY <1>1
  <2>2. PICK y \in d.left : Receive(y, d)
    BY <2>1
  <2>3. heard'.msg = d.msg
    BY <2>2 DEF Receive
  <2> QED
    BY <2>2, <2>3, ReplyReceive
<1>2. CASE ~\E d \in wire : \E y \in d.left : Receive(y, d)
  <2>1. heard' = None
    BY <1>2 DEF Next, SendTo, RespondTo, SendToId, Broadcast, Announce, Send, Lose, SetCurrentIP, Age,
                LinkLost, Restart, UpdateDomain, RenewLease, Connected, SubnetsAnnounced, NotHeard
  <2> QED
    BY <2>1
<1> QED
  BY <1>1, <1>2

\* A node that has just received a datagram would send its answer to the IP address it came from,
\* whatever the table held, full or not (ReplyReachesSender). The one exception is the one that
\* UpdateMapping makes: an announcement from the derived address of another domain of one byte.
THEOREM ReplyGoesBack ==
  ASSUME Unambiguous
  PROVE  Spec => ReplyReachesSender
<1>1. Init => SourceInv /\ SourceIsTrue
  BY SourceInit
<1>2. IndInv /\ SourceInv /\ SourceIsTrue /\ [Next]_vars => SourceInv' /\ SourceIsTrue'
  BY SourceNext
<1>3. IndInv /\ SourceInv /\ [Next]_vars
        => [heard' # None /\ heard'.msg.knew /\ ~TakenForDerived(heard')
               /\ heard'.msg.src = dom[heard'.msg.sender] /\ heard'.from = ifAddr[heard'.msg.sender]
            => DestIp(mapping'[heard'.at], heard'.npdu.src) = heard'.from]_vars
  BY ReplyNext
<1> QED
  BY <1>1, <1>2, <1>3, SpecInv, PTL DEF Spec, ReplyReachesSender

=============================================================================
