-------------------------- MODULE TsaServiceProofs --------------------------
(***************************************************************************)
(* For all sets of nodes and messages, sizes of queues and numbers of      *)
(* retries and resets: the transport and session layers keep the promise   *)
(* of MessageService. A message is reported once (Accounted), delivered    *)
(* once (Once), and reported as delivered only if it was (Told).           *)
(***************************************************************************)
EXTENDS TsaProofs

-----------------------------------------------------------------------------
(* Outcomes.                                                               *)

\* The outcome of a message is in q at most once.
CompletesOnce(q) ==
    \A j, k \in 1 .. Len(q) :
        q[j].indication = "completion" /\ q[k].indication = "completion" /\ q[j].msg = q[k].msg
            => j = k

\* Nothing was reported of message m yet, and no report is on its way.
Unreported(m) ==
    /\ outcome[m] = <<>>
    /\ \A a \in Range(appCeRspInQ[m.src]) : a.indication = "completion" => a.msg # m

\* A message is to be sent once, and is reported once.
Accounted ==
    /\ \A n \in Node, p \in Priority :
          /\ IsInjective(tsaOutQ[n][p])
          /\ \A m \in Range(tsaOutQ[n][p]) : m \in submitted /\ Unreported(m)
    /\ \A n \in Node :
          /\ CompletesOnce(appCeRspInQ[n])
          /\ \A a \in Range(appCeRspInQ[n]) :
                a.indication = "completion" => a.msg \in submitted /\ outcome[a.msg] = <<>>
    /\ \A m \in Message : /\ m \notin submitted => outcome[m] = <<>>
                          /\ Len(outcome[m]) <= 1

LEMMA EmptyQueue ==
  /\ Range(<<>>) = {} /\ IsInjective(<<>>) /\ CompletesOnce(<<>>) /\ Len(<<>>) = 0
<1>1. <<>> \in Seq({}) /\ Len(<<>>) = 0 /\ DOMAIN <<>> = {}
  OBVIOUS
<1>2. Range(<<>>) = {}
  BY <1>1, RangeType
<1>3. IsInjective(<<>>)
  BY <1>1 DEF IsInjective
<1>4. CompletesOnce(<<>>)
  BY <1>1 DEF CompletesOnce
<1> QED
  BY <1>1, <1>2, <1>3, <1>4

LEMMA InjectivePut ==
  ASSUME NEW S, NEW q \in Seq(S), NEW e \in S, NEW cnt \in Nat \ {0}, IsInjective(q),
         e \notin Range(q)
  PROVE  IsInjective(Put(q, e, cnt))
<1> DEFINE r == Put(q, e, cnt)
<1>1. /\ r \in Seq(S) /\ Len(r) <= Len(q) + 1
      /\ \A k \in 1 .. Len(r) : r[k] = IF k <= Len(q) THEN q[k] ELSE e
  BY PutProperties
<1> HIDE DEF r
<1>2. DOMAIN r = 1 .. Len(r) /\ DOMAIN q = 1 .. Len(q) /\ Len(q) \in Nat /\ Len(r) \in Nat
  BY <1>1, LenProperties
<1>3. SUFFICES ASSUME NEW j \in 1 .. Len(r), NEW k \in 1 .. Len(r), r[j] = r[k]
               PROVE  j = k
  BY <1>2 DEF IsInjective, r
<1>4. \A i \in 1 .. Len(q) : q[i] # e
  BY RangeType
<1>5. CASE j <= Len(q) /\ k <= Len(q)
  BY <1>1, <1>2, <1>3, <1>5 DEF IsInjective
<1>6. CASE ~(j <= Len(q) /\ k <= Len(q))
  BY <1>1, <1>2, <1>3, <1>4, <1>6
<1> QED
  BY <1>5, <1>6

LEMMA InjectiveTail ==
  ASSUME NEW S, NEW q \in Seq(S), q # <<>>, IsInjective(q)
  PROVE  IsInjective(Tail(q)) /\ Head(q) \notin Range(Tail(q))
<1> DEFINE r == Tail(q)
<1>1. /\ r \in Seq(S) /\ Len(q) \in Nat \ {0} /\ Len(r) = Len(q) - 1 /\ Head(q) = q[1]
      /\ \A k \in 1 .. Len(r) : r[k] = q[k + 1]
  BY TailProperties
<1> HIDE DEF r
<1>2. DOMAIN r = 1 .. Len(r) /\ DOMAIN q = 1 .. Len(q)
  BY <1>1, LenProperties
<1>3. ASSUME NEW j \in 1 .. Len(r), NEW k \in 1 .. Len(r), r[j] = r[k]
      PROVE  j = k
  BY <1>1, <1>2, <1>3 DEF IsInjective
<1>4. ASSUME NEW j \in 1 .. Len(r), r[j] = q[1]
      PROVE  FALSE
  BY <1>1, <1>2, <1>4 DEF IsInjective
<1>5. Head(q) \notin Range(r)
  BY <1>1, <1>4, RangeIs
<1> QED
  BY <1>2, <1>3, <1>5 DEF IsInjective, r

LEMMA CompletesOncePut ==
  ASSUME NEW S, NEW q \in Seq(S), NEW e \in S, NEW cnt \in Nat \ {0}, CompletesOnce(q),
         e.indication = "completion" =>
            \A a \in Range(q) : a.indication = "completion" => a.msg # e.msg
  PROVE  CompletesOnce(Put(q, e, cnt))
<1> DEFINE r == Put(q, e, cnt)
<1>1. /\ r \in Seq(S) /\ Len(r) <= Len(q) + 1
      /\ \A k \in 1 .. Len(r) : r[k] = IF k <= Len(q) THEN q[k] ELSE e
  BY PutProperties
<1> HIDE DEF r
<1>2. Len(q) \in Nat /\ Len(r) \in Nat
  BY <1>1, LenProperties
<1>3. SUFFICES ASSUME NEW j \in 1 .. Len(r), NEW k \in 1 .. Len(r),
                      r[j].indication = "completion", r[k].indication = "completion",
                      r[j].msg = r[k].msg
               PROVE  j = k
  BY DEF CompletesOnce, r
<1>4. e.indication = "completion" =>
         \A i \in 1 .. Len(q) : q[i].indication = "completion" => q[i].msg # e.msg
  BY RangeType
<1>5. CASE j <= Len(q) /\ k <= Len(q)
  BY <1>1, <1>2, <1>3, <1>5 DEF CompletesOnce
<1>6. CASE ~(j <= Len(q) /\ k <= Len(q))
  BY <1>1, <1>2, <1>3, <1>4, <1>6
<1> QED
  BY <1>5, <1>6

LEMMA CompletesOnceTail ==
  ASSUME NEW S, NEW q \in Seq(S), q # <<>>, CompletesOnce(q)
  PROVE  /\ CompletesOnce(Tail(q))
         /\ Head(q).indication = "completion" =>
               \A a \in Range(Tail(q)) : a.indication = "completion" => a.msg # Head(q).msg
<1> DEFINE r == Tail(q)
<1>1. /\ r \in Seq(S) /\ Len(q) \in Nat \ {0} /\ Len(r) = Len(q) - 1 /\ Head(q) = q[1]
      /\ \A k \in 1 .. Len(r) : r[k] = q[k + 1]
  BY TailProperties
<1> HIDE DEF r
<1>2. CompletesOnce(r)
  BY <1>1 DEF CompletesOnce
<1>3. ASSUME q[1].indication = "completion", NEW j \in 1 .. Len(r),
             r[j].indication = "completion", r[j].msg = q[1].msg
      PROVE  FALSE
  BY <1>1, <1>3 DEF CompletesOnce
<1>4. \A a \in Range(r) : \E j \in 1 .. Len(r) : r[j] = a
  BY <1>1, RangeIs
<1> QED
  BY <1>1, <1>2, <1>3, <1>4 DEF r

LEMMA AccountedUnchanged ==
  ASSUME Accounted, UNCHANGED <<tsaOutQ, appCeRspInQ, submitted, outcome>>
  PROVE  Accounted'
BY DEF Accounted, Unreported

LEMMA SubmitAccounted ==
  ASSUME Typed, Accounted, NEW m \in Message, Submit(m)
  PROVE  Accounted'
<1> DEFINE n == m.src
           p == m.priority
<1>1. n \in Node /\ p \in Priority
  BY TsaAssumption
<1>2. /\ tsaOutQ'[n][p] = Put(tsaOutQ[n][p], m, Cnt.tsaOut)
      /\ \A o \in Node, r \in Priority : <<o, r>> # <<n, p>> => tsaOutQ'[o][r] = tsaOutQ[o][r]
  BY SubmitTyped
<1> HIDE DEF n, p
<1>3. /\ m \notin submitted /\ submitted' = submitted \cup {m}
      /\ UNCHANGED <<appCeRspInQ, outcome>>
  BY DEF Submit, appVars, told
<1>4. tsaOutQ[n][p] \in Seq(Message) /\ Cnt.tsaOut \in Nat \ {0}
  BY <1>1, TypedNow, Counts DEF OutTyped
<1>5. m \notin Range(tsaOutQ[n][p]) /\ Unreported(m)
  <2>1. m.src \in Node
    BY TsaAssumption
  <2> QED
    BY <1>1, <1>3, <2>1 DEF Accounted, Unreported
<1>6. /\ IsInjective(Put(tsaOutQ[n][p], m, Cnt.tsaOut))
      /\ Range(Put(tsaOutQ[n][p], m, Cnt.tsaOut)) \subseteq Range(tsaOutQ[n][p]) \cup {m}
  <2>1. IsInjective(tsaOutQ[n][p])
    BY <1>1 DEF Accounted
  <2> QED
    BY <1>4, <1>5, <2>1, InjectivePut, PutProperties
<1>7. ASSUME NEW o \in Node, NEW r \in Priority
      PROVE  /\ IsInjective(tsaOutQ'[o][r])
             /\ \A l \in Range(tsaOutQ'[o][r]) : l \in submitted' /\ Unreported(l)'
  <2>1. \A l : Unreported(l)' <=> Unreported(l)
    BY <1>3 DEF Unreported
  <2>2. CASE <<o, r>> = <<n, p>>
    BY <1>1, <1>2, <1>3, <1>5, <1>6, <2>1, <2>2 DEF Accounted
  <2>3. CASE <<o, r>> # <<n, p>>
    BY <1>2, <1>3, <2>1, <2>3 DEF Accounted
  <2> QED
    BY <2>2, <2>3
<1> QED
  BY <1>3, <1>7 DEF Accounted

\* The outcome of the message at the head of its queue is reported behind the events in q.
LEMMA CompletionAccounted ==
  ASSUME Typed, Accounted, Typed', NEW n \in Node, NEW p \in Priority, tsaOutQ[n][p] # <<>>,
         NEW q \in Seq(EventsOf(n)), NEW success \in BOOLEAN,
         tsaOutQ'[n][p] = Tail(tsaOutQ[n][p]),
         \A o \in Node, r \in Priority : <<o, r>> # <<n, p>> => tsaOutQ'[o][r] = tsaOutQ[o][r],
         appCeRspInQ'[n] = Put(q, Completion(Head(tsaOutQ[n][p]), success), Cnt.appCeRsp),
         \A o \in Node : o # n => appCeRspInQ'[o] = appCeRspInQ[o],
         Completion(Head(tsaOutQ[n][p]), success) \in EventsOf(n),
         CompletesOnce(q),
         \A a \in Range(q) : a.indication = "completion" => a \in Range(appCeRspInQ[n]),
         UNCHANGED <<submitted, outcome>>
  PROVE  Accounted'
<1> DEFINE m == Head(tsaOutQ[n][p])
           e == Completion(m, success)
<1>1. /\ m \in Message /\ m.src = n /\ m.priority = p
      /\ m \in Range(tsaOutQ[n][p]) /\ Range(Tail(tsaOutQ[n][p])) \subseteq Range(tsaOutQ[n][p])
      /\ IsInjective(Tail(tsaOutQ[n][p])) /\ m \notin Range(Tail(tsaOutQ[n][p]))
  <2>1. tsaOutQ[n][p] \in Seq(Message) /\ IsInjective(tsaOutQ[n][p])
    BY TypedNow DEF OutTyped, Accounted
  <2> QED
    BY <2>1, TypedNow, HeadMessage, TailProperties, InjectiveTail
<1>2. m \in submitted /\ Unreported(m)
  BY <1>1 DEF Accounted
<1>3. e.indication = "completion" /\ e.msg = m
  BY DEF Completion
<1>4. e \in EventsOf(n) /\ appCeRspInQ'[n] = Put(q, e, Cnt.appCeRsp) /\ Cnt.appCeRsp \in Nat \ {0}
  BY Counts
<1>5. \A a \in Range(q) : a.indication = "completion" => a.msg # m
  BY <1>1, <1>2 DEF Unreported
<1> HIDE DEF m, e
<1>6. /\ CompletesOnce(appCeRspInQ'[n])
      /\ \A a \in Range(appCeRspInQ'[n]) :
            a.indication = "completion" => a \in Range(appCeRspInQ[n]) \/ a = e
  BY <1>3, <1>4, <1>5, CompletesOncePut, PutProperties
<1>7. ASSUME NEW o \in Node, NEW r \in Priority
      PROVE  /\ IsInjective(tsaOutQ'[o][r])
             /\ \A l \in Range(tsaOutQ'[o][r]) : l \in submitted' /\ Unreported(l)'
  <2>1. /\ IsInjective(tsaOutQ'[o][r]) /\ m \notin Range(tsaOutQ'[o][r])
        /\ Range(tsaOutQ'[o][r]) \subseteq Range(tsaOutQ[o][r])
    <3>1. CASE <<o, r>> = <<n, p>>
      BY <1>1, <3>1 DEF m
    <3>2. CASE <<o, r>> # <<n, p>>
      <4>1. tsaOutQ'[o][r] = tsaOutQ[o][r] /\ IsInjective(tsaOutQ[o][r])
        BY <3>2 DEF Accounted
      <4>2. tsaOutQ[o][r] \in Seq(MessagesOf(o, r))
        BY TypedNow DEF OutTyped
      <4>3. \A l \in Range(tsaOutQ[o][r]) : l.src = o /\ l.priority = r
        BY <4>2, RangeType DEF MessagesOf
      <4> QED
        BY <1>1, <3>2, <4>1, <4>3
    <3> QED
      BY <3>1, <3>2
  <2>2. ASSUME NEW l \in Range(tsaOutQ'[o][r])
        PROVE  l \in submitted' /\ Unreported(l)'
    <3>1. l # m /\ l \in submitted /\ Unreported(l)
      BY <2>1 DEF Accounted
    <3>2. ASSUME NEW a \in Range(appCeRspInQ'[l.src]), a.indication = "completion", a.msg = l
          PROVE  FALSE
      <4>1. l.src \in Node
        <5>1. l \in Message
          <6>1. tsaOutQ[o][r] \in Seq(Message)
            BY TypedNow DEF OutTyped
          <6> QED
            BY <2>1, <6>1, RangeType
        <5> QED
          BY <5>1, TsaAssumption
      <4>2. a \in Range(appCeRspInQ[l.src]) \/ a = e
        BY <1>6, <3>2, <4>1
      <4> QED
        BY <1>3, <3>1, <3>2, <4>2 DEF Unreported
    <3> QED
      BY <3>1, <3>2 DEF Unreported
  <2> QED
    BY <2>1, <2>2
<1>8. ASSUME NEW o \in Node
      PROVE  /\ CompletesOnce(appCeRspInQ'[o])
             /\ \A a \in Range(appCeRspInQ'[o]) :
                   a.indication = "completion" => a.msg \in submitted' /\ outcome'[a.msg] = <<>>
  <2>1. CASE o = n
    BY <1>2, <1>3, <1>6, <2>1 DEF Accounted, Unreported
  <2>2. CASE o # n
    BY <2>2 DEF Accounted
  <2> QED
    BY <2>1, <2>2
<1> QED
  BY <1>7, <1>8 DEF Accounted

LEMMA EndedAccounted ==
  ASSUME Typed, Accounted, Typed', NEW n \in Node, NEW p \in Priority, NEW q,
         NEW success \in BOOLEAN, EndedAs(n, p, q, success), UNCHANGED <<submitted, outcome>>,
         \/ q = appCeRspInQ[n]
         \/ \E e \in EventsOf(n) : /\ e.indication = "message"
                                   /\ q = Put(appCeRspInQ[n], e, Cnt.appCeRsp)
  PROVE  Accounted'
<1>1. /\ appCeRspInQ[n] \in Seq(EventsOf(n)) /\ CompletesOnce(appCeRspInQ[n])
      /\ Cnt.appCeRsp \in Nat \ {0}
  BY TypedParts, Counts DEF EventTyped, Accounted
<1>2. /\ CompletesOnce(q)
      /\ \A a \in Range(q) : a.indication = "completion" => a \in Range(appCeRspInQ[n])
  <2>1. CASE q = appCeRspInQ[n]
    BY <1>1, <2>1
  <2>2. CASE \E e \in EventsOf(n) : /\ e.indication = "message"
                                    /\ q = Put(appCeRspInQ[n], e, Cnt.appCeRsp)
    <3>1. PICK e \in EventsOf(n) : /\ e.indication = "message"
                                   /\ q = Put(appCeRspInQ[n], e, Cnt.appCeRsp)
      BY <2>2
    <3>2. CompletesOnce(q)
      BY <1>1, <3>1, CompletesOncePut
    <3>3. Range(q) \subseteq Range(appCeRspInQ[n]) \cup {e}
      BY <1>1, <3>1, PutProperties
    <3>4. e.indication # "completion"
      BY <3>1
    <3> QED
      BY <3>2, <3>3, <3>4
  <2> QED
    BY <2>1, <2>2
<1> QED
  BY <1>2, CompletionAccounted DEF EndedAs

LEMMA AppRspReceiveAccounted ==
  ASSUME Typed, Accounted, NEW n \in Node, AppRspReceive(n)
  PROVE  Accounted'
<1> DEFINE a == Head(appCeRspInQ[n])
<1>1. /\ Typed' /\ appCeRspInQ[n] # <<>> /\ a \in EventsOf(n) /\ a \in Range(appCeRspInQ[n])
      /\ appCeRspInQ'[n] = Tail(appCeRspInQ[n])
      /\ \A o \in Node : o # n => appCeRspInQ'[o] = appCeRspInQ[o]
      /\ \A o \in Node : Range(appCeRspInQ'[o]) \subseteq Range(appCeRspInQ[o])
      /\ \/ /\ a.indication = "completion" /\ a.success \in BOOLEAN
            /\ outcome' = [outcome EXCEPT ![a.msg] = Append(@, a.success)]
         \/ a.indication = "message" /\ UNCHANGED outcome
      /\ UNCHANGED <<tsaOutQ, submitted>>
  BY AppRspReceiveTyped DEF sendVars
<1>2. a.msg \in Message /\ a.msg.src = n
  BY <1>1 DEF EventsOf, Event
<1>3. /\ CompletesOnce(Tail(appCeRspInQ[n]))
      /\ a.indication = "completion" =>
            \A b \in Range(Tail(appCeRspInQ[n])) : b.indication = "completion" => b.msg # a.msg
  <2>1. appCeRspInQ[n] \in Seq(EventsOf(n)) /\ CompletesOnce(appCeRspInQ[n])
    BY TypedParts DEF EventTyped, Accounted
  <2> QED
    BY <1>1, <2>1, CompletesOnceTail
<1>4. outcome \in [Message -> Seq(BOOLEAN)]
  BY TypedParts DEF ToldTyped
<1>5. /\ \A m \in Message : m # a.msg \/ a.indication = "message" => outcome'[m] = outcome[m]
      /\ a.indication = "completion" =>
            a.msg \in submitted /\ outcome[a.msg] = <<>> /\ Len(outcome'[a.msg]) = 1
  <2>1. CASE a.indication = "message"
    BY <1>1, <2>1
  <2>2. CASE a.indication = "completion"
    <3>1. outcome[a.msg] = <<>> /\ a.msg \in submitted
      BY <1>1, <2>2 DEF Accounted
    <3>2. outcome'[a.msg] = Append(<<>>, a.success) /\ a.success \in BOOLEAN
      BY <1>1, <1>2, <1>4, <2>2, <3>1
    <3>3. Len(Append(<<>>, a.success)) = 1
      BY <3>2
    <3> QED
      BY <1>1, <1>2, <1>4, <2>2, <3>1, <3>2, <3>3
  <2> QED
    BY <1>1, <2>1, <2>2
<1> HIDE DEF a
<1>6. ASSUME NEW o \in Node, NEW r \in Priority
      PROVE  /\ IsInjective(tsaOutQ'[o][r])
             /\ \A l \in Range(tsaOutQ'[o][r]) : l \in submitted' /\ Unreported(l)'
  <2>1. IsInjective(tsaOutQ[o][r]) /\ tsaOutQ'[o][r] = tsaOutQ[o][r] /\ submitted' = submitted
    BY <1>1 DEF Accounted
  <2>2. ASSUME NEW l \in Range(tsaOutQ[o][r])
        PROVE  l \in submitted' /\ Unreported(l)'
    <3>1. l \in submitted /\ Unreported(l)
      BY DEF Accounted
    <3>2. l \in Message /\ l.src \in Node
      <4>1. tsaOutQ[o][r] \in Seq(Message)
        BY TypedNow DEF OutTyped
      <4>2. l \in Message
        BY <4>1, RangeType
      <4> QED
        BY <4>2, TsaAssumption
    <3>3. a.indication = "completion" => a.msg # l
      BY <1>1, <1>2, <3>1 DEF Unreported
    <3>4. outcome'[l] = <<>>
      BY <1>1, <1>5, <3>1, <3>2, <3>3 DEF Unreported
    <3> QED
      BY <1>1, <2>1, <3>1, <3>2, <3>4 DEF Unreported
  <2> QED
    BY <2>1, <2>2
<1>7. ASSUME NEW o \in Node
      PROVE  /\ CompletesOnce(appCeRspInQ'[o])
             /\ \A b \in Range(appCeRspInQ'[o]) :
                   b.indication = "completion" => b.msg \in submitted' /\ outcome'[b.msg] = <<>>
  <2>1. CompletesOnce(appCeRspInQ'[o])
    BY <1>1, <1>3 DEF Accounted
  <2>2. ASSUME NEW b \in Range(appCeRspInQ'[o]), b.indication = "completion"
        PROVE  b.msg \in submitted' /\ outcome'[b.msg] = <<>>
    <3>1. b \in Range(appCeRspInQ[o]) /\ b.msg \in submitted /\ outcome[b.msg] = <<>>
      BY <1>1, <2>2 DEF Accounted
    <3>2. b.msg \in Message /\ b.msg.src = o
      <4>1. appCeRspInQ[o] \in Seq(EventsOf(o))
        BY TypedParts DEF EventTyped
      <4>2. b \in EventsOf(o)
        BY <3>1, <4>1, RangeType
      <4> QED
        BY <4>2 DEF EventsOf, Event
    <3>3. a.indication = "completion" => b.msg # a.msg
      BY <1>1, <1>2, <1>3, <2>2, <3>2
    <3> QED
      BY <1>1, <1>5, <3>1, <3>2, <3>3
  <2> QED
    BY <2>1, <2>2
<1>8. ASSUME NEW m \in Message
      PROVE  /\ m \notin submitted' => outcome'[m] = <<>>
             /\ Len(outcome'[m]) <= 1
  <2>1. /\ m \notin submitted => outcome[m] = <<>>
        /\ Len(outcome[m]) <= 1
    BY DEF Accounted
  <2>2. CASE m # a.msg \/ a.indication = "message"
    BY <1>1, <1>5, <2>1, <2>2
  <2>3. CASE m = a.msg /\ a.indication = "completion"
    <3>1. m \in submitted /\ Len(outcome'[m]) = 1
      BY <1>5, <2>3
    <3>2. submitted' = submitted
      BY <1>1
    <3> QED
      BY <3>1, <3>2
  <2> QED
    BY <1>1, <2>2, <2>3
<1> QED
  BY <1>6, <1>7, <1>8 DEF Accounted

LEMMA ResetAccounted ==
  ASSUME Typed, Accounted, NEW n \in Node, NEW kind, ResetAs(n, kind)
  PROVE  Accounted'
<1>1. /\ \A o \in Node, p \in Priority : tsaOutQ'[o][p] = <<>> \/ tsaOutQ'[o][p] = tsaOutQ[o][p]
      /\ \A o \in Node : appCeRspInQ'[o] = <<>> \/ appCeRspInQ'[o] = appCeRspInQ[o]
      /\ UNCHANGED <<submitted, outcome>>
  <2>1. ASSUME NEW o \in Node
        PROVE  /\ \A p \in Priority : tsaOutQ'[o][p] = <<>> \/ tsaOutQ'[o][p] = tsaOutQ[o][p]
               /\ appCeRspInQ'[o] = <<>> \/ appCeRspInQ'[o] = appCeRspInQ[o]
    <3>1. CASE o = n
      BY <3>1 DEF ResetAs
    <3>2. CASE o # n
      BY <3>2 DEF ResetAs
    <3> QED
      BY <3>1, <3>2
  <2> QED
    BY <2>1 DEF ResetAs, told
<1>2. /\ Range(<<>>) = {} /\ IsInjective(<<>>) /\ CompletesOnce(<<>>)
  BY EmptyQueue
<1>3. ASSUME NEW o \in Node, NEW p \in Priority
      PROVE  /\ IsInjective(tsaOutQ'[o][p])
             /\ \A l \in Range(tsaOutQ'[o][p]) : l \in submitted' /\ Unreported(l)'
  <2>1. CASE tsaOutQ'[o][p] = <<>>
    BY <1>2, <2>1
  <2>2. CASE tsaOutQ'[o][p] = tsaOutQ[o][p]
    <3>1. IsInjective(tsaOutQ[o][p])
      BY DEF Accounted
    <3>2. ASSUME NEW l \in Range(tsaOutQ[o][p])
          PROVE  l \in submitted' /\ Unreported(l)'
      <4>1. l \in submitted /\ Unreported(l)
        BY DEF Accounted
      <4>2. l.src \in Node
        <5>1. tsaOutQ[o][p] \in Seq(Message)
          BY TypedNow DEF OutTyped
        <5>2. l \in Message
          BY <5>1, RangeType
        <5> QED
          BY <5>2, TsaAssumption
      <4> QED
        BY <1>1, <1>2, <4>1, <4>2 DEF Unreported
    <3> QED
      BY <2>2, <3>1, <3>2
  <2> QED
    BY <1>1, <2>1, <2>2
<1>4. ASSUME NEW o \in Node
      PROVE  /\ CompletesOnce(appCeRspInQ'[o])
             /\ \A a \in Range(appCeRspInQ'[o]) :
                   a.indication = "completion" => a.msg \in submitted' /\ outcome'[a.msg] = <<>>
  BY <1>1, <1>2 DEF Accounted
<1> QED
  BY <1>1, <1>3, <1>4 DEF Accounted

\* Steps that leave the messages to be sent and the reports alone.
LEMMA OtherAccounted ==
  ASSUME Typed, Next
  PROVE  \/ UNCHANGED <<tsaOutQ, appCeRspInQ, submitted, outcome>>
         \/ \E m \in Message : Submit(m)
         \/ \E n \in Node, p \in Priority :
               GiveUp(n, p) \/ \E layer \in {"transport", "session"} : CompleteAtOnce(n, p, layer)
         \/ \E n \in Node : TPReceiveAck(n) \/ SNReceiveResponse(n) \/ AppRspReceive(n)
         \/ \E n \in Node : \E kind \in ResetKinds : Reset(n, kind)
<1> USE DEF sendVars, appVars, told
<1>1. ASSUME NEW n \in Node, NEW p \in Priority,
             \/ \E layer \in {"transport", "session"} : SendNewMsg(n, p, layer)
             \/ Retry(n, p) \/ Lose(n, p) \/ \E again \in BOOLEAN : Arrive(n, p, again)
      PROVE  UNCHANGED <<tsaOutQ, appCeRspInQ, submitted, outcome>>
  <2>1. CASE \E layer \in {"transport", "session"} : SendNewMsg(n, p, layer)
    BY <2>1, SendNewMsgTyped DEF SentAs
  <2>2. CASE Retry(n, p)
    BY <2>2, RetryTyped
  <2>3. CASE Lose(n, p) \/ \E again \in BOOLEAN : Arrive(n, p, again)
    BY <2>3, ChannelTyped
  <2> QED
    BY <1>1, <2>1, <2>2, <2>3
<1>2. ASSUME NEW n \in Node,
             \/ SendResponse(n) \/ SendReplyToChallenge(n) \/ ProcessReply(n)
             \/ \E layer \in {"transport", "session"} : ReceiveNewMsg(n, layer)
             \/ AppMsgReceive(n) \/ RestartOver(n)
             \/ \E i \in RR : ReceiveTimerExpired(n, i)
             \/ \/ \E layer \in {"transport", "session"} : ReceiveRefused(n, layer)
                \/ IgnoreStale(n) \/ IgnoreReply(n)
      PROVE  UNCHANGED <<tsaOutQ, appCeRspInQ, submitted, outcome>>
  <2>1. CASE SendResponse(n) \/ SendReplyToChallenge(n) \/ ProcessReply(n)
    BY <2>1 DEF SendResponse, SendReplyToChallenge, ProcessReply
  <2>2. CASE \E layer \in {"transport", "session"} : ReceiveNewMsg(n, layer)
    BY <2>2 DEF ReceiveNewMsg
  <2>3. CASE AppMsgReceive(n) \/ RestartOver(n)
    BY <2>3, AppMsgReceiveTyped, RestartOverTyped
  <2>4. CASE \E i \in RR : ReceiveTimerExpired(n, i)
    BY <2>4, ReceiveTimerTyped
  <2>5. CASE \/ \E layer \in {"transport", "session"} : ReceiveRefused(n, layer)
             \/ IgnoreStale(n) \/ IgnoreReply(n)
    BY <2>5, IgnoredTyped
  <2> QED
    BY <1>2, <2>1, <2>2, <2>3, <2>4, <2>5
<1> QED
  BY <1>1, <1>2, Steps

LEMMA AccountedStep ==
  ASSUME Typed, Accounted, [Next]_vars
  PROVE  Accounted'
<1>1. CASE UNCHANGED vars
  BY <1>1, AccountedUnchanged DEF vars, sendVars, appVars, told
<1>2. ASSUME NEW n \in Node, NEW p \in Priority, GiveUp(n, p)
      PROVE  Accounted'
  <2> DEFINE success == Head(tsaOutQ[n][p]).service = "unack_rpt" \/ xmitRec[n][p].ackCount = 1
  <2>1. /\ Typed' /\ EndedAs(n, p, appCeRspInQ[n], success)
        /\ UNCHANGED <<submitted, outcome>>
    BY <1>2, GiveUpTyped DEF told
  <2>2. success \in BOOLEAN
    OBVIOUS
  <2> QED
    BY <2>1, <2>2, EndedAccounted
<1>3. ASSUME NEW n \in Node, NEW p \in Priority, NEW layer \in {"transport", "session"},
             CompleteAtOnce(n, p, layer)
      PROVE  Accounted'
  <2> DEFINE success == Head(tsaOutQ[n][p]).check = "lastTag"
  <2>1. /\ Typed' /\ tsaOutQ[n][p] # <<>>
        /\ tsaOutQ'[n][p] = Tail(tsaOutQ[n][p])
        /\ \A o \in Node, r \in Priority : <<o, r>> # <<n, p>> => tsaOutQ'[o][r] = tsaOutQ[o][r]
        /\ appCeRspInQ'[n] = Put(appCeRspInQ[n], Completion(Head(tsaOutQ[n][p]), success), Cnt.appCeRsp)
        /\ \A o \in Node : o # n => appCeRspInQ'[o] = appCeRspInQ[o]
        /\ Completion(Head(tsaOutQ[n][p]), success) \in EventsOf(n)
        /\ UNCHANGED <<submitted, outcome>>
    BY <1>3, CompleteAtOnceTyped DEF told
  <2>2. success \in BOOLEAN
    OBVIOUS
  <2>3. appCeRspInQ[n] \in Seq(EventsOf(n)) /\ CompletesOnce(appCeRspInQ[n])
    BY TypedParts DEF EventTyped, Accounted
  <2> HIDE DEF success
  <2> QED
    BY <2>1, <2>2, <2>3, CompletionAccounted
<1>4. ASSUME NEW n \in Node, TPReceiveAck(n)
      PROVE  Accounted'
  <2> DEFINE p == Head(tsaInQ[n]).priority
  <2>1. /\ Typed' /\ p \in Priority
        /\ \E success \in BOOLEAN : EndedAs(n, p, appCeRspInQ[n], success)
        /\ UNCHANGED <<submitted, outcome>>
    BY <1>4, TPReceiveAckTyped DEF told
  <2> HIDE DEF p
  <2> QED
    BY <2>1, EndedAccounted
<1>5. ASSUME NEW n \in Node, SNReceiveResponse(n)
      PROVE  Accounted'
  <2> DEFINE p == Head(tsaInQ[n]).priority
             e == ResponseTo(Head(tsaOutQ[n][p]), Head(tsaInQ[n]).body)
  <2>1. /\ Typed' /\ p \in Priority /\ e \in EventsOf(n)
        /\ \E success \in BOOLEAN : EndedAs(n, p, Put(appCeRspInQ[n], e, Cnt.appCeRsp), success)
        /\ UNCHANGED <<submitted, outcome>>
    BY <1>5, SNReceiveResponseTyped DEF told
  <2>2. e.indication = "message"
    BY DEF ResponseTo
  <2> HIDE DEF p, e
  <2> QED
    BY <2>1, <2>2, EndedAccounted
<1>6. ASSUME NEW n \in Node, NEW kind \in ResetKinds, Reset(n, kind)
      PROVE  Accounted'
  BY <1>6, ResetTyped, ResetAccounted
<1> QED
  BY <1>1, <1>2, <1>3, <1>4, <1>5, <1>6, OtherAccounted, AccountedUnchanged, SubmitAccounted,
     AppRspReceiveAccounted

LEMMA AccountedInit ==
  ASSUME Init
  PROVE  Accounted
<1>1. /\ Range(<<>>) = {} /\ IsInjective(<<>>) /\ CompletesOnce(<<>>) /\ Len(<<>>) = 0
  BY EmptyQueue
<1> QED
  BY <1>1 DEF Accounted, Init

\* "Completion events": TerminateTrans and SendNewMsg report the outcome of a message that
\* is taken from tsaOutQ, and a message is taken from there once: the application is never
\* told twice, whatever is lost, repeated or reset.
THEOREM ReportedOnce == Spec => [](\A m \in Message : Len(outcome[m]) <= 1)
<1>1. Init => Typed /\ Accounted
  BY TypedInit, AccountedInit
<1>2. Typed /\ Accounted /\ [Next]_vars => (Typed /\ Accounted)'
  BY TypedStep, AccountedStep
<1>3. Typed /\ Accounted => \A m \in Message : Len(outcome[m]) <= 1
  BY DEF Accounted
<1> QED
  BY <1>1, <1>2, <1>3, PTL DEF Spec

-----------------------------------------------------------------------------
(* Deliveries.                                                             *)

\* A frame that carries a message, and not an answer.
Carries(f) == f.kind \in Service

\* A record of message m with number t, in use or not.
Held(m, t) ==
    \E i \in RR : /\ recvRec[m.dst][i].src # NoNode
                  /\ recvRec[m.dst][i].msg = m /\ recvRec[m.dst][i].transNum = t

\* Message m may still come to its destination, with number t.
Live(m, t) == InFlight(MessageFrame(m, t)) \/ Sending(m, t)

Begun(m) == delivered[m] > 0 \/ \E t \in 0 .. MaxTid : Live(m, t) \/ Held(m, t)

\* The messages of node n and priority p that no transaction was begun for.
Waits(n, p) ==
    IF xmitRec[n][p].status = "unused" THEN Range(tsaOutQ[n][p]) ELSE Range(Tail(tsaOutQ[n][p]))

\* A message that is sent has one number for ever.
OneNumber ==
    \A m \in Message : \A t, u \in 0 .. MaxTid :
        (Live(m, t) \/ Held(m, t)) /\ (Live(m, u) \/ Held(m, u)) => t = u

Untouched ==
    /\ \A m \in Message : Begun(m) => m \in submitted
    /\ \A n \in Node : \A p \in Priority : \A m \in Message : m \in Waits(n, p) => ~Begun(m)

\* Messages are numbered by rank in the order in which they are begun: they are on their
\* way in that order, behind the one in the receive record of their source.
Ranked(rank, next) ==
    /\ \A m \in Message : Begun(m) => rank[m] < next
    /\ \A m, o \in Message : Begun(m) /\ Begun(o) /\ rank[m] = rank[o] => m = o

Sorted(q, rank) ==
    \A j, k \in 1 .. Len(q) :
        /\ j <= k /\ Carries(q[j]) /\ Carries(q[k])
        /\ q[j].src = q[k].src /\ q[j].priority = q[k].priority
        => rank[q[j].body] <= rank[q[k].body]

\* Neither f, nor what comes behind it, carries a message that was begun before m.
NotBefore(rank, m, q) ==
    \A f \in Range(q) :
        Carries(f) /\ f.src = m.src /\ f.priority = m.priority => rank[m] <= rank[f.body]

QueuesSorted(rank) ==
    /\ \A n \in Node : \A p \in Priority : Sorted(nwOutQ[n][p], rank)
    /\ \A n \in Node : Sorted(tsaInQ[n], rank)
InBeforeOut(rank) ==
    \A n \in Node : \A f \in Range(tsaInQ[n]) :
        Carries(f) => NotBefore(rank, f.body, nwOutQ[f.src][f.priority])
RecordsFirst(rank) ==
    \A n \in Node : \A i \in RR : recvRec[n][i].src # NoNode =>
        /\ NotBefore(rank, recvRec[n][i].msg, tsaInQ[n])
        /\ NotBefore(rank, recvRec[n][i].msg, nwOutQ[recvRec[n][i].src][recvRec[n][i].priority])
SendingLast(rank) ==
    \A m, o \in Message : \A t \in 0 .. MaxTid :
        m.src = o.src /\ m.priority = o.priority /\ Begun(o) /\ Sending(m, t) => rank[o] <= rank[m]

Ordered(rank, next) ==
    /\ Ranked(rank, next) /\ QueuesSorted(rank) /\ InBeforeOut(rank) /\ RecordsFirst(rank)
    /\ SendingLast(rank)

\* At a node that is not reset, the record of a message that was delivered stays as long as
\* the message may come again.
RecordsKept ==
    \A m \in Message : \A t \in 0 .. MaxTid :
        m.dst \notin ResetNodes /\ delivered[m] > 0 /\ Live(m, t) =>
            \E i \in RR : recvRec[m.dst][i].status # "unused" /\ recvRec[m.dst][i].msg = m
UnusedIsOver ==
    \A n \in Node : \A i \in RR : \A m \in Message :
        recvRec[n][i].src # NoNode /\ recvRec[n][i].status = "unused" /\ recvRec[n][i].msg = m =>
            \A t \in 0 .. MaxTid : ~Live(m, t)
Awaiting ==
    \A n \in Node : \A i \in RR :
        n \notin ResetNodes /\ recvRec[n][i].transState = "authenticating" =>
            delivered[recvRec[n][i].msg] = 0
AtMostOnce == \A m \in Message : m.dst \notin ResetNodes => delivered[m] <= 1

Once ==
    /\ Typed /\ Accounted /\ OneNumber /\ Untouched
    /\ \E rank \in [Message -> Nat], next \in Nat : Ordered(rank, next)
    /\ RecordsKept /\ UnusedIsOver /\ Awaiting /\ AtMostOnce

-----------------------------------------------------------------------------

\* What becomes of the parts of a state in a step that begins no message and puts none
\* in a record.
Draining ==
    \A n \in Node : \/ tsaInQ'[n] = tsaInQ[n]
                    \/ tsaInQ[n] # <<>> /\ tsaInQ'[n] = Tail(tsaInQ[n])
                    \/ tsaInQ'[n] = <<>>
RecordsFlow ==
    \A n \in Node : \A i \in RR :
        \/ recvRec'[n][i] = recvRec[n][i]
        \/ recvRec'[n][i] = BlankRecord /\ n \in ResetNodes
        \/ /\ recvRec[n][i].src # NoNode
           /\ recvRec'[n][i].src = recvRec[n][i].src
           /\ recvRec'[n][i].priority = recvRec[n][i].priority
           /\ recvRec'[n][i].msg = recvRec[n][i].msg
           /\ recvRec'[n][i].transNum = recvRec[n][i].transNum
           /\ \/ recvRec'[n][i].status = recvRec[n][i].status
              \/ /\ recvRec'[n][i].status = "unused"
                 /\ \A t \in 0 .. MaxTid : ~Live(recvRec[n][i].msg, t)
           /\ recvRec'[n][i].transState = "authenticating" =>
                 recvRec[n][i].transState = "authenticating"
DeliveredFlow ==
    \/ delivered' = delivered
    \/ \E n \in Node : \E i \in RR :
          /\ recvRec[n][i].src # NoNode /\ recvRec[n][i].transState = "authenticating"
          /\ recvRec'[n][i].msg = recvRec[n][i].msg /\ recvRec'[n][i].transState \in Handled
          /\ delivered' = [delivered EXCEPT ![recvRec[n][i].msg] = @ + 1]
SendingFlow ==
    \A n \in Node : \A p \in Priority : xmitRec'[n][p].status # "unused" =>
        /\ xmitRec'[n][p].status = xmitRec[n][p].status
        /\ xmitRec'[n][p].transNum = xmitRec[n][p].transNum
        /\ Head(tsaOutQ'[n][p]) = Head(tsaOutQ[n][p])
WaitsFlow ==
    /\ submitted \subseteq submitted'
    /\ \A n \in Node : \A p \in Priority :
          Waits(n, p)' \subseteq Waits(n, p) \cup (submitted' \ submitted)
FramesFlow ==
    \A f \in Frame : Carries(f) /\ InFlight(f)' => InFlight(f) \/ Sending(f.body, f.transNum)

Flow ==
    /\ Typed' /\ Answering /\ Draining /\ RecordsFlow /\ DeliveredFlow /\ SendingFlow /\ WaitsFlow

\* The frames in r that carry messages are frames of q, in the same order.
Thin(q, r) ==
    \E c \in {0, 1} : \A k \in 1 .. Len(r) :
        Carries(r[k]) => k + c <= Len(q) /\ r[k] = q[k + c]

LEMMA ThinNow ==
  ASSUME NEW S, NEW q \in Seq(S), NEW r
  PROVE  /\ r = q => Thin(q, r)
         /\ q # <<>> /\ r = Tail(q) => Thin(q, r)
         /\ r = <<>> => Thin(q, r)
         /\ \A f \in S : \A cnt \in Nat \ {0} : ~Carries(f) /\ r = Put(q, f, cnt) => Thin(q, r)
<1>1. Len(q) \in Nat
  BY LenProperties
<1>2. r = q => Thin(q, r)
  <2>1. ASSUME NEW k \in 1 .. Len(q)
        PROVE  k + 0 <= Len(q) /\ q[k] = q[k + 0]
    BY <1>1
  <2> QED
    BY <2>1 DEF Thin
<1>3. ASSUME q # <<>>, r = Tail(q)
      PROVE  Thin(q, r)
  <2>1. Len(r) = Len(q) - 1 /\ \A k \in 1 .. Len(q) - 1 : r[k] = q[k + 1]
    BY <1>3, TailProperties
  <2>2. ASSUME NEW k \in 1 .. Len(r)
        PROVE  k + 1 <= Len(q) /\ r[k] = q[k + 1]
    BY <1>1, <2>1
  <2> QED
    BY <2>2 DEF Thin
<1>4. r = <<>> => Thin(q, r)
  BY EmptyQueue DEF Thin
<1>5. ASSUME NEW f \in S, NEW cnt \in Nat \ {0}, ~Carries(f), r = Put(q, f, cnt)
      PROVE  Thin(q, r)
  <2>1. /\ Len(r) <= Len(q) + 1 /\ Len(r) \in Nat
        /\ \A k \in 1 .. Len(r) : r[k] = IF k <= Len(q) THEN q[k] ELSE f
    BY <1>5, PutProperties, LenProperties
  <2>2. ASSUME NEW k \in 1 .. Len(r), Carries(r[k])
        PROVE  k + 0 <= Len(q) /\ r[k] = q[k + 0]
    <3>1. CASE k <= Len(q)
      BY <1>1, <2>1, <3>1
    <3>2. CASE ~(k <= Len(q))
      <4>1. r[k] = f
        BY <2>1, <3>2
      <4> QED
        BY <1>5, <2>2, <4>1
    <3> QED
      BY <3>1, <3>2
  <2> QED
    BY <2>2 DEF Thin
<1> QED
  BY <1>2, <1>3, <1>4, <1>5

LEMMA ThinKeeps ==
  ASSUME NEW S, NEW q \in Seq(S), NEW r \in Seq(S), Thin(q, r)
  PROVE  /\ \A f \in Range(r) : Carries(f) => f \in Range(q)
         /\ \A rank : Sorted(q, rank) => Sorted(r, rank)
         /\ \A rank, m : NotBefore(rank, m, q) => NotBefore(rank, m, r)
<1>1. Len(q) \in Nat /\ Len(r) \in Nat
  BY LenProperties
<1>2. PICK c \in {0, 1} : \A k \in 1 .. Len(r) :
         Carries(r[k]) => k + c <= Len(q) /\ r[k] = q[k + c]
  BY DEF Thin
<1>3. ASSUME NEW f \in Range(r), Carries(f)
      PROVE  f \in Range(q)
  <2>1. PICK k \in 1 .. Len(r) : r[k] = f
    BY RangeIs
  <2>2. k + c \in 1 .. Len(q) /\ q[k + c] = f
    BY <1>1, <1>2, <1>3, <2>1
  <2> QED
    BY <2>2, RangeType
<1>4. ASSUME NEW rank, Sorted(q, rank)
      PROVE  Sorted(r, rank)
  <2>1. SUFFICES ASSUME NEW j \in 1 .. Len(r), NEW k \in 1 .. Len(r), j <= k,
                        Carries(r[j]), Carries(r[k]), r[j].src = r[k].src,
                        r[j].priority = r[k].priority
                 PROVE  rank[r[j].body] <= rank[r[k].body]
    BY DEF Sorted
  <2>2. j + c \in 1 .. Len(q) /\ k + c \in 1 .. Len(q) /\ j + c <= k + c
    BY <1>1, <1>2, <2>1
  <2>3. r[j] = q[j + c] /\ r[k] = q[k + c]
    BY <1>2, <2>1
  <2> QED
    BY <1>4, <2>1, <2>2, <2>3 DEF Sorted
<1>5. ASSUME NEW rank, NEW m, NotBefore(rank, m, q)
      PROVE  NotBefore(rank, m, r)
  BY <1>3, <1>5 DEF NotBefore
<1> QED
  BY <1>3, <1>4, <1>5

\* A frame of a message that was not begun before those in q goes behind them.
LEMMA PutSorted ==
  ASSUME NEW S, NEW q \in Seq(S), NEW f \in S, NEW cnt \in Nat \ {0}, NEW rank,
         Sorted(q, rank), rank[f.body] \in Nat,
         Carries(f) => \A g \in Range(q) :
            Carries(g) /\ g.src = f.src /\ g.priority = f.priority => rank[g.body] <= rank[f.body]
  PROVE  Sorted(Put(q, f, cnt), rank)
<1> DEFINE r == Put(q, f, cnt)
<1>1. /\ r \in Seq(S) /\ Len(r) <= Len(q) + 1
      /\ \A k \in 1 .. Len(r) : r[k] = IF k <= Len(q) THEN q[k] ELSE f
  BY PutProperties
<1> HIDE DEF r
<1>2. Len(q) \in Nat /\ Len(r) \in Nat
  BY <1>1, LenProperties
<1>3. SUFFICES ASSUME NEW j \in 1 .. Len(r), NEW k \in 1 .. Len(r), j <= k,
                      Carries(r[j]), Carries(r[k]), r[j].src = r[k].src,
                      r[j].priority = r[k].priority
               PROVE  rank[r[j].body] <= rank[r[k].body]
  BY DEF Sorted, r
<1>4. CASE k <= Len(q)
  <2>1. j \in 1 .. Len(q) /\ k \in 1 .. Len(q) /\ r[j] = q[j] /\ r[k] = q[k]
    BY <1>1, <1>2, <1>3, <1>4
  <2> QED
    BY <1>3, <2>1 DEF Sorted
<1>5. CASE ~(k <= Len(q)) /\ j <= Len(q)
  <2>1. j \in 1 .. Len(q) /\ r[j] = q[j] /\ r[k] = f
    BY <1>1, <1>2, <1>3, <1>5
  <2>2. q[j] \in Range(q)
    BY <2>1, RangeType
  <2> QED
    BY <1>3, <2>1, <2>2
<1>6. CASE ~(k <= Len(q)) /\ ~(j <= Len(q))
  <2>1. r[j] = f /\ r[k] = f
    BY <1>1, <1>3, <1>6
  <2> QED
    BY <2>1
<1> QED
  BY <1>4, <1>5, <1>6

-----------------------------------------------------------------------------

LEMMA LiveKept ==
  ASSUME Typed, FramesFlow, SendingFlow
  PROVE  \A m \in Message : \A t \in 0 .. MaxTid : Live(m, t)' => Live(m, t)
<1> SUFFICES ASSUME NEW m \in Message, NEW t \in 0 .. MaxTid, Live(m, t)'
             PROVE  Live(m, t)
  OBVIOUS
<1>1. CASE InFlight(MessageFrame(m, t))'
  BY <1>1, FramesOfUse DEF FramesFlow, Carries, Live
<1>2. CASE Sending(m, t)'
  <2>1. m.src \in Node /\ m.priority \in Priority
    BY TsaAssumption
  <2> QED
    BY <1>2, <2>1 DEF Sending, SendingFlow, Live
<1> QED
  BY <1>1, <1>2 DEF Live

LEMMA HeldKept ==
  ASSUME Typed, RecordsFlow
  PROVE  \A m \in Message : \A t \in 0 .. MaxTid : Held(m, t)' => Held(m, t)
<1> SUFFICES ASSUME NEW m \in Message, NEW t \in 0 .. MaxTid, Held(m, t)'
             PROVE  Held(m, t)
  OBVIOUS
<1>1. m.dst \in Node
  BY TsaAssumption
<1>2. PICK i \in RR : /\ recvRec'[m.dst][i].src # NoNode
                      /\ recvRec'[m.dst][i].msg = m /\ recvRec'[m.dst][i].transNum = t
  BY DEF Held
<1>3. recvRec'[m.dst][i] # BlankRecord
  BY <1>2 DEF BlankRecord
<1> QED
  BY <1>1, <1>2, <1>3 DEF RecordsFlow, Held

\* A step that begins no message.
LEMMA NothingBegun ==
  ASSUME OneNumber, Untouched, WaitsFlow,
         \A m \in Message : \A t \in 0 .. MaxTid : Live(m, t)' => Live(m, t),
         \A m \in Message : \A t \in 0 .. MaxTid : Held(m, t)' => Held(m, t) \/ Live(m, t),
         \A m \in Message : delivered'[m] > 0 => Begun(m)
  PROVE  OneNumber' /\ Untouched' /\ \A m \in Message : Begun(m)' => Begun(m)
<1>1. ASSUME NEW m \in Message, Begun(m)'
      PROVE  Begun(m)
  BY <1>1 DEF Begun
<1>2. OneNumber'
  BY DEF OneNumber
<1>3. \A m \in Message : Begun(m)' => m \in submitted'
  BY <1>1 DEF Untouched, WaitsFlow
<1>4. ASSUME NEW n \in Node, NEW p \in Priority, NEW m \in Message, m \in Waits(n, p)', Begun(m)'
      PROVE  FALSE
  BY <1>1, <1>4 DEF Untouched, WaitsFlow
<1> QED
  BY <1>1, <1>2, <1>3, <1>4 DEF Untouched

LEMMA QueuesThin ==
  ASSUME Typed
  PROVE  /\ Answering => \A n \in Node : \A p \in Priority : Thin(nwOutQ[n][p], nwOutQ'[n][p])
         /\ Draining => \A n \in Node : Thin(tsaInQ[n], tsaInQ'[n])
<1>1. ASSUME Answering, NEW n \in Node, NEW p \in Priority
      PROVE  Thin(nwOutQ[n][p], nwOutQ'[n][p])
  <2>1. nwOutQ[n][p] \in Seq(FramesOf(n, p)) /\ Cnt.nwOut \in Nat \ {0}
    BY TypedParts, Counts DEF NwTyped
  <2> QED
    BY <1>1, <2>1, ThinNow DEF Answering, Carries
<1>2. ASSUME Draining, NEW n \in Node
      PROVE  Thin(tsaInQ[n], tsaInQ'[n])
  <2>1. tsaInQ[n] \in Seq(Frame)
    BY TypedParts DEF InTyped
  <2> QED
    BY <1>2, <2>1, ThinNow DEF Draining
<1> QED
  BY <1>1, <1>2

LEMMA ThinFrames ==
  ASSUME Typed, Typed', Answering, Draining
  PROVE  FramesFlow
<1> SUFFICES ASSUME NEW f \in Frame, Carries(f), InFlight(f)'
             PROVE  InFlight(f)
  BY DEF FramesFlow
<1>1. f.src \in Node /\ f.dst \in Node /\ f.priority \in Priority
  BY FrameKinds
<1>2. /\ nwOutQ[f.src][f.priority] \in Seq(Frame) /\ nwOutQ'[f.src][f.priority] \in Seq(Frame)
      /\ tsaInQ[f.dst] \in Seq(Frame) /\ tsaInQ'[f.dst] \in Seq(Frame)
  BY <1>1, TypedParts DEF NwTyped, InTyped
<1>3. /\ Thin(nwOutQ[f.src][f.priority], nwOutQ'[f.src][f.priority])
      /\ Thin(tsaInQ[f.dst], tsaInQ'[f.dst])
  BY <1>1, QueuesThin
<1>4. f \in Range(nwOutQ'[f.src][f.priority]) \/ f \in Range(tsaInQ'[f.dst])
  BY InFlightNextIs
<1>5. f \in Range(nwOutQ[f.src][f.priority]) \/ f \in Range(tsaInQ[f.dst])
  BY <1>2, <1>3, <1>4, ThinKeeps
<1> QED
  BY <1>5, InFlightIs

\* The records of a step that hold a message held it before.
LEMMA RecordsStay ==
  ASSUME Typed, RecordsFlow, NEW n \in Node, NEW i \in RR, recvRec'[n][i].src # NoNode
  PROVE  /\ recvRec[n][i].src # NoNode /\ recvRec'[n][i].src = recvRec[n][i].src
         /\ recvRec'[n][i].priority = recvRec[n][i].priority
         /\ recvRec'[n][i].msg = recvRec[n][i].msg
         /\ recvRec'[n][i].transState = "authenticating" =>
               recvRec[n][i].transState = "authenticating"
<1>1. recvRec'[n][i] # BlankRecord
  BY DEF BlankRecord
<1> QED
  BY <1>1 DEF RecordsFlow

LEMMA RecordMessage ==
  ASSUME Typed, NEW n \in Node, NEW i \in RR
  PROVE  /\ recvRec[n][i].src # NoNode =>
               /\ recvRec[n][i].src \in Node /\ recvRec[n][i].priority \in Priority
               /\ recvRec[n][i].msg \in Message /\ recvRec[n][i].msg.dst = n
               /\ recvRec[n][i].msg.src = recvRec[n][i].src
               /\ recvRec[n][i].msg.priority = recvRec[n][i].priority
         /\ recvRec[n][i].status # "unused" => recvRec[n][i].src # NoNode
         /\ recvRec[n][i].transState = "authenticating" => recvRec[n][i].src # NoNode
         /\ recvRec[n][i].transState \in Handled \cup {"authenticating"}
<1>1. recvRec[n][i] \in RecordsOf(n)
  BY TypedNow DEF RecordsTyped
<1> QED
  BY <1>1, RecordFields

LEMMA ThinOrdered ==
  ASSUME Typed, Typed', Answering, Draining, SendingFlow,
         \A m \in Message : Begun(m)' => Begun(m),
         NEW rank \in [Message -> Nat], NEW next \in Nat, Ordered(rank, next)
  PROVE  Ranked(rank, next)' /\ QueuesSorted(rank)' /\ InBeforeOut(rank)' /\ SendingLast(rank)'
<1>1. ASSUME NEW n \in Node, NEW p \in Priority
      PROVE  /\ nwOutQ[n][p] \in Seq(Frame) /\ nwOutQ'[n][p] \in Seq(Frame)
             /\ Thin(nwOutQ[n][p], nwOutQ'[n][p])
  BY TypedParts, QueuesThin DEF NwTyped
<1>2. ASSUME NEW n \in Node
      PROVE  /\ tsaInQ[n] \in Seq(Frame) /\ tsaInQ'[n] \in Seq(Frame)
             /\ Thin(tsaInQ[n], tsaInQ'[n])
  BY TypedParts, QueuesThin DEF InTyped
<1>3. Ranked(rank, next)'
  BY DEF Ordered, Ranked
<1>4. QueuesSorted(rank)'
  <2>1. ASSUME NEW n \in Node, NEW p \in Priority
        PROVE  Sorted(nwOutQ'[n][p], rank)
    BY <1>1, ThinKeeps DEF Ordered, QueuesSorted
  <2>2. ASSUME NEW n \in Node
        PROVE  Sorted(tsaInQ'[n], rank)
    BY <1>2, ThinKeeps DEF Ordered, QueuesSorted
  <2> QED
    BY <2>1, <2>2 DEF QueuesSorted
<1>5. InBeforeOut(rank)'
  <2>1. ASSUME NEW n \in Node, NEW f \in Range(tsaInQ'[n]), Carries(f)
        PROVE  NotBefore(rank, f.body, nwOutQ'[f.src][f.priority])
    <3>1. f \in Range(tsaInQ[n])
      BY <1>2, <2>1, ThinKeeps
    <3>2. f \in Frame
      BY <1>2, <3>1, RangeType
    <3>3. f.src \in Node /\ f.priority \in Priority
      BY <3>2, FrameKinds
    <3>4. NotBefore(rank, f.body, nwOutQ[f.src][f.priority])
      BY <2>1, <3>1 DEF Ordered, InBeforeOut
    <3> QED
      BY <1>1, <3>3, <3>4, ThinKeeps
  <2> QED
    BY <2>1 DEF InBeforeOut
<1>6. SendingLast(rank)'
  <2>1. SUFFICES ASSUME NEW m \in Message, NEW o \in Message, NEW t \in 0 .. MaxTid,
                        m.src = o.src, m.priority = o.priority, Begun(o)', Sending(m, t)'
                 PROVE  rank[o] <= rank[m]
    BY DEF SendingLast
  <2>2. m.src \in Node /\ m.priority \in Priority
    BY TsaAssumption
  <2>3. Sending(m, t)
    BY <2>1, <2>2 DEF Sending, SendingFlow
  <2> QED
    BY <2>1, <2>3 DEF Ordered, SendingLast
<1> QED
  BY <1>3, <1>4, <1>5, <1>6

\* Of the records whose message was in them before.
LEMMA RecordsFirstKept ==
  ASSUME Typed, Typed', Answering, Draining,
         NEW rank \in [Message -> Nat], RecordsFirst(rank), NEW n \in Node, NEW i \in RR,
         recvRec[n][i].src # NoNode, recvRec'[n][i].src = recvRec[n][i].src,
         recvRec'[n][i].priority = recvRec[n][i].priority, recvRec'[n][i].msg = recvRec[n][i].msg
  PROVE  /\ NotBefore(rank, recvRec'[n][i].msg, tsaInQ'[n])
         /\ NotBefore(rank, recvRec'[n][i].msg,
                      nwOutQ'[recvRec'[n][i].src][recvRec'[n][i].priority])
<1> DEFINE rr == recvRec[n][i]
<1>1. rr.src \in Node /\ rr.priority \in Priority
  BY RecordMessage
<1>2. /\ tsaInQ[n] \in Seq(Frame) /\ tsaInQ'[n] \in Seq(Frame)
      /\ nwOutQ[rr.src][rr.priority] \in Seq(Frame) /\ nwOutQ'[rr.src][rr.priority] \in Seq(Frame)
  BY <1>1, TypedParts DEF InTyped, NwTyped
<1>3. /\ Thin(tsaInQ[n], tsaInQ'[n])
      /\ Thin(nwOutQ[rr.src][rr.priority], nwOutQ'[rr.src][rr.priority])
  BY <1>1, QueuesThin
<1>4. /\ NotBefore(rank, rr.msg, tsaInQ[n])
      /\ NotBefore(rank, rr.msg, nwOutQ[rr.src][rr.priority])
  BY DEF RecordsFirst
<1>5. /\ recvRec'[n][i].src = rr.src /\ recvRec'[n][i].priority = rr.priority
      /\ recvRec'[n][i].msg = rr.msg
  OBVIOUS
<1> HIDE DEF rr
<1>6. NotBefore(rank, rr.msg, tsaInQ'[n])
  BY <1>2, <1>3, <1>4, ThinKeeps
<1>7. NotBefore(rank, rr.msg, nwOutQ'[rr.src][rr.priority])
  BY <1>2, <1>3, <1>4, ThinKeeps
<1> QED
  BY <1>5, <1>6, <1>7

LEMMA RecordsFlowKeeps ==
  ASSUME Typed, Typed', RecordsKept, UnusedIsOver, Awaiting, AtMostOnce, RecordsFlow,
         DeliveredFlow, \A m \in Message : \A t \in 0 .. MaxTid : Live(m, t)' => Live(m, t)
  PROVE  /\ RecordsKept' /\ UnusedIsOver' /\ Awaiting' /\ AtMostOnce'
         /\ \A m \in Message : delivered'[m] > 0 => Begun(m)
<1>1. delivered \in [Message -> Nat]
  BY TypedParts DEF DeliveredTyped
<1> DEFINE Was(n, i) ==
               /\ recvRec[n][i].src # NoNode /\ recvRec[n][i].transState = "authenticating"
               /\ recvRec'[n][i].msg = recvRec[n][i].msg /\ recvRec'[n][i].transState \in Handled
           New(m) == \E n \in Node : \E i \in RR : Was(n, i) /\ recvRec[n][i].msg = m
<1>2. ASSUME NEW m \in Message
      PROVE  \/ delivered'[m] = delivered[m]
             \/ New(m) /\ delivered'[m] = delivered[m] + 1
  <2>1. CASE delivered' = delivered
    BY <2>1
  <2>2. CASE \E n \in Node : \E i \in RR :
                Was(n, i) /\ delivered' = [delivered EXCEPT ![recvRec[n][i].msg] = @ + 1]
    BY <1>1, <2>2
  <2> QED
    BY <2>1, <2>2 DEF DeliveredFlow
<1>3. ASSUME NEW m \in Message, New(m)
      PROVE  \E i \in RR : Was(m.dst, i) /\ recvRec[m.dst][i].msg = m
  BY <1>3, RecordMessage
<1>4. ASSUME NEW m \in Message, New(m), m.dst \notin ResetNodes
      PROVE  delivered[m] = 0
  <2>1. m.dst \in Node
    BY TsaAssumption
  <2> QED
    BY <1>3, <1>4, <2>1 DEF Awaiting
<1>5. AtMostOnce'
  BY <1>1, <1>2, <1>4 DEF AtMostOnce
<1>6. ASSUME NEW m \in Message, delivered'[m] > 0
      PROVE  Begun(m)
  <2>1. CASE delivered[m] > 0
    BY <2>1 DEF Begun
  <2>2. CASE New(m)
    <3>1. m.dst \in Node
      BY TsaAssumption
    <3>2. PICK i \in RR : Was(m.dst, i) /\ recvRec[m.dst][i].msg = m
      BY <1>3, <2>2
    <3>3. recvRec[m.dst][i].transNum \in 0 .. MaxTid
      BY <3>1, TypedNow, RecordFields DEF RecordsTyped
    <3> QED
      BY <3>2, <3>3 DEF Begun, Held
  <2> QED
    BY <1>2, <1>6, <2>1, <2>2
<1>7. RecordsKept'
  <2>1. SUFFICES ASSUME NEW m \in Message, NEW t \in 0 .. MaxTid, m.dst \notin ResetNodes,
                        delivered'[m] > 0, Live(m, t)'
                 PROVE  \E i \in RR : /\ recvRec'[m.dst][i].status # "unused"
                                      /\ recvRec'[m.dst][i].msg = m
    BY DEF RecordsKept
  <2>2. Live(m, t) /\ m.dst \in Node
    BY <2>1, TsaAssumption
  <2>3. \E i \in RR : recvRec[m.dst][i].status # "unused" /\ recvRec[m.dst][i].msg = m
    <3>1. CASE delivered[m] > 0
      BY <2>1, <2>2, <3>1 DEF RecordsKept
    <3>2. CASE New(m)
      BY <1>3, <2>2, <3>2 DEF UnusedIsOver
    <3> QED
      BY <1>2, <2>1, <3>1, <3>2
  <2>4. PICK i \in RR : recvRec[m.dst][i].status # "unused" /\ recvRec[m.dst][i].msg = m
    BY <2>3
  <2> QED
    BY <2>1, <2>2, <2>4 DEF RecordsFlow
<1>8. UnusedIsOver'
  <2>1. SUFFICES ASSUME NEW n \in Node, NEW i \in RR, NEW m \in Message,
                        recvRec'[n][i].src # NoNode, recvRec'[n][i].status = "unused",
                        recvRec'[n][i].msg = m, NEW t \in 0 .. MaxTid
                 PROVE  ~Live(m, t)
    BY DEF UnusedIsOver
  <2>2. recvRec[n][i].msg = m /\ recvRec[n][i].src # NoNode
    BY <2>1, RecordsStay
  <2>3. recvRec'[n][i] # BlankRecord
    BY <2>1 DEF BlankRecord
  <2> QED
    BY <2>1, <2>2, <2>3 DEF RecordsFlow, UnusedIsOver
<1>9. Awaiting'
  <2>1. SUFFICES ASSUME NEW n \in Node, NEW i \in RR, n \notin ResetNodes,
                        recvRec'[n][i].transState = "authenticating"
                 PROVE  delivered'[recvRec'[n][i].msg] = 0
    BY DEF Awaiting
  <2> DEFINE m == recvRec[n][i].msg
  <2>2. /\ recvRec[n][i].transState = "authenticating" /\ recvRec'[n][i].msg = m
    <3>1. BlankRecord.transState # "authenticating"
      BY DEF BlankRecord
    <3> QED
      BY <2>1, <3>1 DEF RecordsFlow
  <2>3. /\ recvRec[n][i].src # NoNode /\ m \in Message /\ m.dst = n
    BY <2>2, RecordMessage
  <2>4. delivered[m] = 0
    BY <2>1, <2>2 DEF Awaiting
  <2>5. ~New(m)
    <3>1. ASSUME NEW j \in RR, Was(n, j), recvRec[n][j].msg = m
          PROVE  FALSE
      <4>1. recvRec[n][j].src = recvRec[n][i].src /\ recvRec[n][j].priority = recvRec[n][i].priority
        BY <2>3, <3>1, RecordMessage
      <4>2. j = i
        BY <2>3, <4>1, TypedParts DEF Unambiguous
      <4>3. recvRec'[n][i].transState \in Handled
        BY <3>1, <4>2
      <4> QED
        BY <2>1, <4>3 DEF Handled
    <3> QED
      BY <1>3, <2>3, <3>1
  <2> HIDE DEF m
  <2> QED
    BY <1>2, <2>2, <2>3, <2>4, <2>5
<1> QED
  BY <1>5, <1>6, <1>7, <1>8, <1>9

LEMMA FlowOnce ==
  ASSUME Once, Flow, Accounted'
  PROVE  Once'
<1> USE DEF Once, Flow
<1>1. FramesFlow
  BY ThinFrames
<1>2. \A m \in Message : \A t \in 0 .. MaxTid : Live(m, t)' => Live(m, t)
  BY <1>1, LiveKept
<1>3. \A m \in Message : \A t \in 0 .. MaxTid : Held(m, t)' => Held(m, t)
  BY HeldKept
<1>4. /\ RecordsKept' /\ UnusedIsOver' /\ Awaiting' /\ AtMostOnce'
      /\ \A m \in Message : delivered'[m] > 0 => Begun(m)
  BY <1>2, RecordsFlowKeeps
<1>5. OneNumber' /\ Untouched' /\ \A m \in Message : Begun(m)' => Begun(m)
  BY <1>2, <1>3, <1>4, NothingBegun
<1>6. PICK rank \in [Message -> Nat], next \in Nat : Ordered(rank, next)
  OBVIOUS
<1>7. Ordered(rank, next)'
  <2>1. Ranked(rank, next)' /\ QueuesSorted(rank)' /\ InBeforeOut(rank)' /\ SendingLast(rank)'
    BY <1>5, <1>6, ThinOrdered
  <2>2. ASSUME NEW n \in Node, NEW i \in RR, recvRec'[n][i].src # NoNode
        PROVE  /\ NotBefore(rank, recvRec'[n][i].msg, tsaInQ'[n])
               /\ NotBefore(rank, recvRec'[n][i].msg,
                            nwOutQ'[recvRec'[n][i].src][recvRec'[n][i].priority])
    <3>1. /\ recvRec[n][i].src # NoNode /\ recvRec'[n][i].src = recvRec[n][i].src
          /\ recvRec'[n][i].priority = recvRec[n][i].priority
          /\ recvRec'[n][i].msg = recvRec[n][i].msg
      BY <2>2, RecordsStay
    <3> QED
      BY <1>6, <3>1, RecordsFirstKept DEF Ordered
  <2> QED
    BY <2>1, <2>2 DEF Ordered, RecordsFirst
<1> QED
  BY <1>4, <1>5, <1>7

LEMMA FlowUnchanged ==
  ASSUME Typed
  PROVE  /\ UNCHANGED nwOutQ => Answering
         /\ UNCHANGED tsaInQ => Draining
         /\ \A n \in Node : tsaInQ[n] # <<>> /\ DropReceived(n) => Draining
         /\ UNCHANGED recvRec => RecordsFlow
         /\ UNCHANGED delivered => DeliveredFlow
         /\ UNCHANGED <<tsaOutQ, xmitRec>> => SendingFlow
         /\ UNCHANGED <<tsaOutQ, xmitRec, submitted>> => WaitsFlow
<1>1. ASSUME NEW n \in Node, tsaInQ[n] # <<>>, DropReceived(n)
      PROVE  Draining
  <2>1. /\ \A o \in Node : o # n => tsaInQ'[o] = tsaInQ[o]
        /\ tsaInQ'[n] = Tail(tsaInQ[n])
    BY <1>1, DropTyped, TypedParts
  <2> QED
    BY <1>1, <2>1 DEF Draining
<1> QED
  BY <1>1 DEF Answering, Draining, RecordsFlow, DeliveredFlow, SendingFlow, WaitsFlow, Waits

LEMMA RecordFlows ==
  ASSUME Typed, NEW n \in Node, NEW i \in RR, NEW d \in RecordsOf(n),
         recvRec' = [recvRec EXCEPT ![n][i] = d], recvRec[n][i].src # NoNode,
         d.src = recvRec[n][i].src, d.priority = recvRec[n][i].priority,
         d.msg = recvRec[n][i].msg, d.transNum = recvRec[n][i].transNum,
         \/ d.status = recvRec[n][i].status
         \/ d.status = "unused" /\ \A t \in 0 .. MaxTid : ~Live(recvRec[n][i].msg, t),
         d.transState = "authenticating" => recvRec[n][i].transState = "authenticating"
  PROVE  RecordsFlow /\ recvRec'[n][i] = d
<1>1. /\ recvRec'[n][i] = d
      /\ \A o \in Node, j \in RR : <<o, j>> # <<n, i>> => recvRec'[o][j] = recvRec[o][j]
  BY RecordTyped, TypedNow
<1> QED
  BY <1>1 DEF RecordsFlow

LEMMA SubmitFlows ==
  ASSUME Typed, NEW m \in Message, Submit(m)
  PROVE  Flow
<1> DEFINE n == m.src
           p == m.priority
<1>1. n \in Node /\ p \in Priority
  BY TsaAssumption
<1>2. /\ Typed' /\ tsaOutQ'[n][p] = Put(tsaOutQ[n][p], m, Cnt.tsaOut)
      /\ \A o \in Node, r \in Priority : <<o, r>> # <<n, p>> => tsaOutQ'[o][r] = tsaOutQ[o][r]
  BY SubmitTyped
<1> HIDE DEF n, p
<1>3. /\ m \notin submitted /\ submitted' = submitted \cup {m}
      /\ UNCHANGED <<xmitRec, recvRec, tsaInQ, nwOutQ, delivered>>
  BY DEF Submit, recvVars
<1>4. /\ tsaOutQ[n][p] \in Seq(Message) /\ Cnt.tsaOut \in Nat \ {0}
      /\ xmitRec[n][p].status # "unused" => tsaOutQ[n][p] # <<>>
  BY <1>1, TypedNow, Counts DEF OutTyped, InProgress
<1>5. /\ Range(tsaOutQ'[n][p]) \subseteq Range(tsaOutQ[n][p]) \cup {m}
      /\ tsaOutQ[n][p] # <<>> => /\ Head(tsaOutQ'[n][p]) = Head(tsaOutQ[n][p])
                                 /\ Range(Tail(tsaOutQ'[n][p])) \subseteq Range(Tail(tsaOutQ[n][p])) \cup {m}
  <2> DEFINE q == tsaOutQ[n][p]
             r == Put(q, m, Cnt.tsaOut)
  <2>1. /\ r \in Seq(Message) /\ Range(r) \subseteq Range(q) \cup {m}
        /\ Len(r) <= Len(q) + 1 /\ Len(q) <= Len(r)
        /\ \A k \in 1 .. Len(r) : r[k] = IF k <= Len(q) THEN q[k] ELSE m
        /\ q # <<>> => r # <<>> /\ Head(r) = Head(q)
    BY <1>4, PutProperties
  <2>2. ASSUME q # <<>>
        PROVE  Range(Tail(r)) \subseteq Range(Tail(q)) \cup {m}
    <3> HIDE DEF q, r
    <3>0. q \in Seq(Message)
      BY <1>4 DEF q
    <3>1. /\ Tail(r) \in Seq(Message) /\ Len(Tail(r)) = Len(r) - 1 /\ Len(r) \in Nat \ {0}
          /\ \A k \in 1 .. Len(r) - 1 : Tail(r)[k] = r[k + 1]
      BY <2>1, <2>2, TailProperties
    <3>2. /\ Tail(q) \in Seq(Message) /\ Len(Tail(q)) = Len(q) - 1 /\ Len(q) \in Nat \ {0}
          /\ \A k \in 1 .. Len(q) - 1 : Tail(q)[k] = q[k + 1]
      BY <2>2, <3>0, TailProperties
    <3>3. ASSUME NEW e \in Range(Tail(r)), e # m
          PROVE  e \in Range(Tail(q))
      <4>1. PICK k \in 1 .. Len(Tail(r)) : Tail(r)[k] = e
        BY <3>1, RangeIs
      <4>2. k + 1 \in 1 .. Len(r) /\ r[k + 1] = e
        BY <3>1, <4>1
      <4>3. k \in 1 .. Len(Tail(q)) /\ Tail(q)[k] = e
        BY <2>1, <3>1, <3>2, <3>3, <4>1, <4>2
      <4> QED
        BY <3>2, <4>3, RangeType
    <3> QED
      BY <3>3
  <2> QED
    BY <1>2, <2>1, <2>2
<1>6. SendingFlow
  <2>1. ASSUME NEW o \in Node, NEW r \in Priority, xmitRec'[o][r].status # "unused"
        PROVE  /\ xmitRec'[o][r].status = xmitRec[o][r].status
               /\ xmitRec'[o][r].transNum = xmitRec[o][r].transNum
               /\ Head(tsaOutQ'[o][r]) = Head(tsaOutQ[o][r])
    BY <1>1, <1>2, <1>3, <1>4, <1>5, <2>1
  <2> QED
    BY <2>1 DEF SendingFlow
<1>7. WaitsFlow
  <2>1. ASSUME NEW o \in Node, NEW r \in Priority
        PROVE  Waits(o, r)' \subseteq Waits(o, r) \cup (submitted' \ submitted)
    <3>1. CASE <<o, r>> = <<n, p>>
      BY <1>3, <1>4, <1>5, <3>1 DEF Waits
    <3>2. CASE <<o, r>> # <<n, p>>
      BY <1>2, <1>3, <3>2 DEF Waits
    <3> QED
      BY <3>1, <3>2
  <2> QED
    BY <1>3, <2>1 DEF WaitsFlow
<1> QED
  BY <1>2, <1>3, <1>6, <1>7, FlowUnchanged DEF Flow

\* The message at the head of its queue is taken from it.
LEMMA EndingFlows ==
  ASSUME Typed, NEW n \in Node, NEW p \in Priority, tsaOutQ[n][p] # <<>>,
         tsaOutQ'[n][p] = Tail(tsaOutQ[n][p]),
         \A o \in Node, r \in Priority : <<o, r>> # <<n, p>> => tsaOutQ'[o][r] = tsaOutQ[o][r],
         xmitRec'[n][p].status = "unused",
         \A o \in Node, r \in Priority : <<o, r>> # <<n, p>> => xmitRec'[o][r] = xmitRec[o][r],
         UNCHANGED submitted
  PROVE  SendingFlow /\ WaitsFlow
<1>1. tsaOutQ[n][p] \in Seq(Message)
  BY TypedNow DEF OutTyped
<1>2. Range(Tail(tsaOutQ[n][p])) \subseteq Range(tsaOutQ[n][p])
  BY <1>1, TailProperties
<1>3. SendingFlow
  <2>1. ASSUME NEW o \in Node, NEW r \in Priority, xmitRec'[o][r].status # "unused"
        PROVE  /\ xmitRec'[o][r].status = xmitRec[o][r].status
               /\ xmitRec'[o][r].transNum = xmitRec[o][r].transNum
               /\ Head(tsaOutQ'[o][r]) = Head(tsaOutQ[o][r])
    <3>1. <<o, r>> # <<n, p>>
      BY <2>1
    <3> QED
      BY <3>1
  <2> QED
    BY <2>1 DEF SendingFlow
<1>4. ASSUME NEW o \in Node, NEW r \in Priority
      PROVE  Waits(o, r)' \subseteq Waits(o, r)
  <2>1. CASE <<o, r>> = <<n, p>>
    BY <1>2, <2>1 DEF Waits
  <2>2. CASE <<o, r>> # <<n, p>>
    BY <2>2 DEF Waits
  <2> QED
    BY <2>1, <2>2
<1> QED
  BY <1>3, <1>4 DEF WaitsFlow

LEMMA CompletionFlows ==
  ASSUME Typed, NEW n \in Node, NEW p \in Priority,
         GiveUp(n, p) \/ \E layer \in {"transport", "session"} : CompleteAtOnce(n, p, layer)
  PROVE  Flow
<1>1. /\ Typed' /\ tsaOutQ[n][p] # <<>> /\ tsaOutQ'[n][p] = Tail(tsaOutQ[n][p])
      /\ \A o \in Node, r \in Priority : <<o, r>> # <<n, p>> => tsaOutQ'[o][r] = tsaOutQ[o][r]
      /\ xmitRec'[n][p].status = "unused"
      /\ \A o \in Node, r \in Priority : <<o, r>> # <<n, p>> => xmitRec'[o][r] = xmitRec[o][r]
      /\ UNCHANGED <<submitted, recvRec, tsaInQ, nwOutQ, delivered>>
  <2>1. CASE GiveUp(n, p)
    BY <2>1, GiveUpTyped DEF EndedAs, recvVars
  <2>2. CASE \E layer \in {"transport", "session"} : CompleteAtOnce(n, p, layer)
    BY <2>2, CompleteAtOnceTyped DEF recvVars
  <2> QED
    BY <2>1, <2>2
<1> QED
  BY <1>1, EndingFlows, FlowUnchanged DEF Flow

LEMMA AnswerFlows ==
  ASSUME Typed, NEW n \in Node, TPReceiveAck(n) \/ SNReceiveResponse(n)
  PROVE  Flow
<1> DEFINE p == Head(tsaInQ[n]).priority
<1>1. /\ Typed' /\ p \in Priority /\ tsaInQ[n] # <<>> /\ DropReceived(n)
      /\ tsaOutQ[n][p] # <<>> /\ tsaOutQ'[n][p] = Tail(tsaOutQ[n][p])
      /\ \A o \in Node, r \in Priority : <<o, r>> # <<n, p>> => tsaOutQ'[o][r] = tsaOutQ[o][r]
      /\ xmitRec'[n][p].status = "unused"
      /\ \A o \in Node, r \in Priority : <<o, r>> # <<n, p>> => xmitRec'[o][r] = xmitRec[o][r]
      /\ UNCHANGED <<submitted, recvRec, nwOutQ, delivered>>
  <2>1. CASE TPReceiveAck(n)
    BY <2>1, TPReceiveAckTyped DEF EndedAs, recvVars
  <2>2. CASE SNReceiveResponse(n)
    BY <2>2, SNReceiveResponseTyped DEF EndedAs, recvVars
  <2> QED
    BY <2>1, <2>2
<1> HIDE DEF p
<1> QED
  BY <1>1, EndingFlows, FlowUnchanged DEF Flow

LEMMA LoseFlows ==
  ASSUME Typed, NEW n \in Node, NEW p \in Priority, Lose(n, p)
  PROVE  Flow
<1>1. /\ Typed' /\ nwOutQ[n][p] # <<>> /\ nwOutQ' = [nwOutQ EXCEPT ![n][p] = Tail(@)]
      /\ UNCHANGED <<tsaOutQ, xmitRec, submitted, recvRec, tsaInQ, delivered>>
  BY ChannelTyped DEF Lose, sendVars, recvVars
<1>2. /\ \A o \in Node, q \in Priority : <<o, q>> # <<n, p>> => nwOutQ'[o][q] = nwOutQ[o][q]
      /\ nwOutQ'[n][p] = Tail(nwOutQ[n][p])
  BY <1>1, LeaveTyped, TypedParts
<1>3. Answering
  BY <1>1, <1>2 DEF Answering
<1> QED
  BY <1>1, <1>3, FlowUnchanged DEF Flow

LEMMA DroppedFlows ==
  ASSUME Typed, NEW n \in Node,
         \/ \/ \E layer \in {"transport", "session"} : ReceiveRefused(n, layer)
            \/ IgnoreStale(n) \/ IgnoreReply(n)
         \/ SendReplyToChallenge(n)
  PROVE  Flow
<1>1. CASE \/ \E layer \in {"transport", "session"} : ReceiveRefused(n, layer)
           \/ IgnoreStale(n) \/ IgnoreReply(n)
  BY <1>1, IgnoredTyped, FlowUnchanged DEF Flow, sendVars, recvVars
<1>2. CASE SendReplyToChallenge(n)
  <2>1. /\ Typed' /\ tsaInQ[n] # <<>> /\ DropReceived(n)
        /\ \/ UNCHANGED nwOutQ
           \/ \E g, p : p \in Priority /\ g \in FramesOf(n, p) /\ g.kind = "reply" /\ Send(n, g)
        /\ UNCHANGED <<tsaOutQ, xmitRec, submitted, recvRec, delivered>>
    BY <1>2, SendReplyToChallengeTyped DEF sendVars, recvVars
  <2>2. Answering
    BY <2>1, AnswerSent, FlowUnchanged DEF Service
  <2> QED
    BY <2>1, <2>2, FlowUnchanged DEF Flow
<1> QED
  BY <1>1, <1>2

LEMMA ApplicationFlows ==
  ASSUME Typed, NEW n \in Node, AppMsgReceive(n) \/ AppRspReceive(n) \/ RestartOver(n)
  PROVE  Flow
<1>1. /\ Typed'
      /\ UNCHANGED <<tsaOutQ, xmitRec, submitted, recvRec, tsaInQ, nwOutQ, delivered>>
  BY AppMsgReceiveTyped, AppRspReceiveTyped, RestartOverTyped DEF sendVars, recvVars
<1> QED
  BY <1>1, FlowUnchanged DEF Flow

LEMMA SendResponseFlows ==
  ASSUME Typed, NEW n \in Node, SendResponse(n)
  PROVE  Flow
<1>1. /\ Typed' /\ UNCHANGED <<tsaOutQ, xmitRec, submitted, tsaInQ, delivered>>
      /\ \/ UNCHANGED <<recvRec, nwOutQ>>
         \/ \E i, d : RespondedAs(n, Head(tsaRespQ[n]), i, d)
  BY SendResponseTyped, Responds DEF Typed, sendVars
<1>2. RecordsFlow /\ Answering
  <2>1. CASE UNCHANGED <<recvRec, nwOutQ>>
    BY <2>1, FlowUnchanged
  <2>2. ASSUME NEW i, NEW d, RespondedAs(n, Head(tsaRespQ[n]), i, d)
        PROVE  RecordsFlow /\ Answering
    <3>1. RecordsFlow
      BY <2>2, RecordFlows DEF RespondedAs
    <3>2. Answering
      BY <2>2, SendAnswerAnswers DEF RespondedAs
    <3> QED
      BY <3>1, <3>2
  <2> QED
    BY <1>1, <2>1, <2>2
<1> QED
  BY <1>1, <1>2, FlowUnchanged DEF Flow

LEMMA ReceiveTimerFlows ==
  ASSUME Typed, NEW n \in Node, NEW i \in RR, ReceiveTimerExpired(n, i)
  PROVE  Flow
<1> DEFINE m == recvRec[n][i].msg
<1>1. /\ Typed' /\ recvRec[n][i].status # "unused" /\ ~StillRepeated(n, recvRec[n][i])
      /\ UNCHANGED <<tsaOutQ, xmitRec, submitted, tsaInQ, nwOutQ, delivered>>
  BY ReceiveTimerTyped DEF sendVars
<1>2. /\ m \in Message /\ m.dst = n /\ recvRec[n][i].src = m.src
      /\ recvRec[n][i].priority = m.priority /\ recvRec[n][i].src # NoNode
  BY <1>1, RecordMessage
<1>3. ASSUME NEW t \in 0 .. MaxTid
      PROVE  ~Live(m, t)
  <2>1. MessageFrame(m, t).kind \in Service /\ MessageFrame(m, t).body = m
        /\ MessageFrame(m, t).src = m.src /\ MessageFrame(m, t).dst = m.dst
        /\ MessageFrame(m, t).priority = m.priority
    BY <1>2, FrameOfMessage, FramesOfUse
  <2>2. ~InFlight(MessageFrame(m, t))
    BY <1>1, <1>2, <2>1 DEF InFlight, Queued, StillRepeated
  <2>3. ~Sending(m, t)
    <3>1. m.src \in Node /\ m.priority \in Priority
      BY <1>2, TsaAssumption
    <3> QED
      BY <1>1, <1>2, <3>1, TypedNow DEF Sending, StillRepeated, InProgress
  <2> QED
    BY <2>2, <2>3 DEF Live
<1>4. RecordsFlow
  <2>1. PICK d : /\ d \in RecordsOf(n) /\ d.status = "unused"
                 /\ d.src = recvRec[n][i].src /\ d.priority = recvRec[n][i].priority
                 /\ d.msg = recvRec[n][i].msg /\ d.transState = recvRec[n][i].transState
                 /\ d.transNum = recvRec[n][i].transNum
                 /\ recvRec' = [recvRec EXCEPT ![n][i] = d]
    BY ReceiveTimerTyped
  <2> QED
    BY <1>2, <1>3, <2>1, RecordFlows
<1> QED
  BY <1>1, <1>4, FlowUnchanged DEF Flow

LEMMA ResetFlows ==
  ASSUME Typed, NEW n \in Node, NEW kind \in ResetKinds, Reset(n, kind)
  PROVE  Flow
<1>1. Typed' /\ n \in ResetNodes /\ ResetAs(n, kind)
  BY ResetTyped
<1>2. ASSUME NEW o \in Node, o # n
      PROVE  /\ tsaOutQ'[o] = tsaOutQ[o] /\ nwOutQ'[o] = nwOutQ[o] /\ xmitRec'[o] = xmitRec[o]
             /\ recvRec'[o] = recvRec[o] /\ tsaInQ'[o] = tsaInQ[o]
  BY <1>1, <1>2 DEF ResetAs
<1>3. /\ \A p \in Priority : /\ tsaOutQ'[n][p] = <<>> /\ nwOutQ'[n][p] = <<>>
                             /\ xmitRec'[n][p].status = "unused"
      /\ \A i \in RR : recvRec'[n][i] = BlankRecord
      /\ tsaInQ'[n] = <<>> /\ UNCHANGED <<submitted, delivered>>
  BY <1>1 DEF ResetAs
<1>4. Answering
  <2>1. ASSUME NEW o \in Node, NEW p \in Priority
        PROVE  nwOutQ'[o][p] = nwOutQ[o][p] \/ nwOutQ'[o][p] = <<>>
    BY <1>2, <1>3
  <2> QED
    BY <2>1 DEF Answering
<1>5. Draining
  BY <1>2, <1>3 DEF Draining
<1>6. RecordsFlow
  <2>1. ASSUME NEW o \in Node, NEW i \in RR
        PROVE  \/ recvRec'[o][i] = recvRec[o][i]
               \/ recvRec'[o][i] = BlankRecord /\ o \in ResetNodes
    BY <1>1, <1>2, <1>3
  <2> QED
    BY <2>1 DEF RecordsFlow
<1>7. SendingFlow
  <2>1. ASSUME NEW o \in Node, NEW p \in Priority, xmitRec'[o][p].status # "unused"
        PROVE  o # n
    BY <1>3, <2>1
  <2> QED
    BY <1>2, <2>1 DEF SendingFlow
<1>8. WaitsFlow
  <2>1. ASSUME NEW o \in Node, NEW p \in Priority
        PROVE  Waits(o, p)' \subseteq Waits(o, p)
    <3>1. CASE o = n
      BY <1>3, <3>1, EmptyQueue DEF Waits
    <3>2. CASE o # n
      BY <1>2, <3>2 DEF Waits
    <3> QED
      BY <3>1, <3>2
  <2> QED
    BY <1>3, <2>1 DEF WaitsFlow
<1> QED
  BY <1>1, <1>3, <1>4, <1>5, <1>6, <1>7, <1>8, FlowUnchanged DEF Flow

\* A message that is delivered as its record says, from a record that held it before.
LEMMA DeliveryFlows ==
  ASSUME Typed, NEW n \in Node, NEW i \in RR, NEW rr \in WideRecords(n), NEW d \in RecordsOf(n),
         recvRec' = [recvRec EXCEPT ![n][i] = d], recvRec[n][i].src # NoNode,
         rr.src = recvRec[n][i].src, rr.priority = recvRec[n][i].priority,
         rr.status = recvRec[n][i].status,
         rr.transNum = recvRec[n][i].transNum, rr.msg = recvRec[n][i].msg,
         rr.transState \notin Handled => recvRec[n][i].transState = "authenticating",
         DeliveredAs(n, rr, d)
  PROVE  RecordsFlow /\ DeliveredFlow /\ Answering
<1>1. /\ d.src = rr.src /\ d.priority = rr.priority /\ d.status = rr.status
      /\ d.transNum = rr.transNum /\ d.msg = rr.msg /\ d.transState \in Handled
      /\ Deliver(n, rr) /\ SendAnswer(n, d)
  BY DEF DeliveredAs, SameRecord
<1>2. d.transState # "authenticating"
  BY <1>1 DEF Handled
<1>3. RecordsFlow /\ recvRec'[n][i] = d
  BY <1>1, <1>2, RecordFlows, ZenonT(40)
<1>4. \/ /\ rr.transState \notin Handled
         /\ delivered' = [delivered EXCEPT ![rr.msg] = @ + 1]
      \/ UNCHANGED delivered
  BY <1>1, DeliverTyped, TypedParts
<1>5. DeliveredFlow
  BY <1>1, <1>3, <1>4 DEF DeliveredFlow
<1> QED
  BY <1>1, <1>3, <1>5, SendAnswerAnswers

LEMMA ProcessReplyFlows ==
  ASSUME Typed, NEW n \in Node, ProcessReply(n)
  PROVE  Flow
<1>1. PICK f, i, rr, d : RepliedAs(n, f, i, rr, d)
  BY Replies DEF Typed
<1>2. Typed'
  BY <1>1, RepliedTyped
<1>3. RecordsFlow /\ DeliveredFlow /\ Answering
  BY <1>1, DeliveryFlows DEF RepliedAs
<1>4. /\ tsaInQ[n] # <<>> /\ DropReceived(n) /\ UNCHANGED <<tsaOutQ, xmitRec, submitted>>
  BY <1>1 DEF RepliedAs, sendVars
<1> QED
  BY <1>2, <1>3, <1>4, FlowUnchanged DEF Flow

\* What is the same for a new message and a repeated one.
LEMMA HeardFlows ==
  ASSUME Typed, NEW n \in Node, NEW layer \in {"transport", "session"}, NEW f, NEW i, NEW rr,
         NEW d, HeardAs(n, layer, f, i, rr, d)
  PROVE  Typed' /\ Answering /\ Draining /\ SendingFlow /\ WaitsFlow
<1>1. /\ Typed' /\ tsaInQ[n] # <<>> /\ DropReceived(n)
      /\ UNCHANGED <<tsaOutQ, xmitRec, submitted>>
  BY HeardTyped DEF HeardAs, sendVars
<1>2. rr \in WideRecords(n) /\ d \in RecordsOf(n)
  BY DEF HeardAs
<1>3. rr.priority \in Priority
  BY <1>2 DEF WideRecords
<1>4. Answering
  <2>1. CASE NeedsChallenge(rr)
    <3>1. PICK r \in Nonce : /\ Send(n, FrameBack(n, rr, "challenge", r))
                             /\ FrameBack(n, rr, "challenge", r) \in FramesOf(n, rr.priority)
      BY <2>1 DEF HeardAs
    <3> QED
      BY <1>3, <3>1, AnswerSent, AnswerKinds
  <2>2. CASE ~NeedsChallenge(rr)
    <3>1. SendAnswer(n, d)
      BY <2>2 DEF HeardAs, DeliveredAs
    <3> QED
      BY <1>2, <3>1, SendAnswerAnswers
  <2> QED
    BY <2>1, <2>2
<1> QED
  BY <1>1, <1>4, FlowUnchanged

LEMMA RepeatFlows ==
  ASSUME Typed, NEW n \in Node, NEW layer \in {"transport", "session"}, NEW f, NEW i, NEW rr,
         NEW d, HeardAs(n, layer, f, i, rr, d), Known(n, i, f, layer)
  PROVE  Flow
<1>1. /\ i \in RR /\ rr \in WideRecords(n) /\ d \in RecordsOf(n)
      /\ recvRec[n][i].src # NoNode /\ SameRecord(rr, recvRec[n][i])
      /\ rr.transState = recvRec[n][i].transState
      /\ recvRec' = [recvRec EXCEPT ![n][i] = d]
  BY DEF HeardAs
<1>2. recvRec[n][i].transState \in Handled \cup {"authenticating"}
  BY <1>1, RecordMessage
<1>3. RecordsFlow /\ DeliveredFlow
  <2>1. CASE NeedsChallenge(rr)
    <3>1. SameRecord(d, rr) /\ UNCHANGED delivered
      BY <2>1 DEF HeardAs
    <3>2. recvRec[n][i].transState = "authenticating"
      BY <1>1, <1>2, <2>1 DEF NeedsChallenge, Handled
    <3> QED
      BY <1>1, <3>1, <3>2, RecordFlows, FlowUnchanged DEF SameRecord
  <2>2. CASE ~NeedsChallenge(rr)
    <3>1. DeliveredAs(n, rr, d)
      BY <2>2 DEF HeardAs
    <3> QED
      BY <1>1, <1>2, <3>1, DeliveryFlows DEF SameRecord
  <2> QED
    BY <2>1, <2>2
<1> QED
  BY <1>3, HeardFlows DEF Flow

LEMMA SeqWithin ==
  ASSUME NEW S, NEW q \in Seq(S), NEW T, Range(q) \subseteq T
  PROVE  q \in Seq(T)
<1>1. q \in Seq(Range(q))
  BY SeqOfRange
<1> QED
  BY <1>1, SeqMonotonic

\* Frames that carry a message are about messages that were begun.
LEMMA CarriedIsBegun ==
  ASSUME Typed, NEW f \in Frame, Carries(f), InFlight(f)
  PROVE  /\ f.body \in Message /\ f.body.src = f.src /\ f.body.priority = f.priority
         /\ f.body.dst = f.dst /\ f = MessageFrame(f.body, f.transNum)
         /\ Live(f.body, f.transNum) /\ Begun(f.body)
<1>1. /\ f.body \in Message /\ f.body.src = f.src /\ f.body.priority = f.priority
      /\ f.body.dst = f.dst /\ f = MessageFrame(f.body, f.transNum) /\ f.transNum \in 0 .. MaxTid
  BY FrameKinds DEF Carries
<1>2. Live(f.body, f.transNum)
  BY <1>1 DEF Live
<1> QED
  BY <1>1, <1>2 DEF Begun

LEMMA QueuedIsInFlight ==
  ASSUME Typed
  PROVE  /\ \A n \in Node : \A p \in Priority : \A f \in Range(nwOutQ[n][p]) :
               f \in Frame /\ f.src = n /\ f.priority = p /\ InFlight(f)
         /\ \A n \in Node : \A f \in Range(tsaInQ[n]) : f \in Frame /\ f.dst = n /\ InFlight(f)
<1>1. ASSUME NEW n \in Node, NEW p \in Priority, NEW f \in Range(nwOutQ[n][p])
      PROVE  f \in Frame /\ f.src = n /\ f.priority = p /\ InFlight(f)
  <2>1. nwOutQ[n][p] \in Seq(FramesOf(n, p))
    BY TypedParts DEF NwTyped
  <2>2. f \in Frame /\ f.src = n /\ f.priority = p
    BY <2>1, RangeType DEF FramesOf
  <2> QED
    BY <2>2, InFlightIs
<1>2. ASSUME NEW n \in Node, NEW f \in Range(tsaInQ[n])
      PROVE  f \in Frame /\ f.dst = n /\ InFlight(f)
  <2>1. tsaInQ[n] \in Seq(FramesTo(n))
    BY TypedParts DEF InTyped
  <2>2. f \in Frame /\ f.dst = n
    BY <2>1, RangeType DEF FramesTo
  <2> QED
    BY <2>2, InFlightIs
<1> QED
  BY <1>1, <1>2

LEMMA RecordIsBegun ==
  ASSUME Typed, NEW n \in Node, NEW i \in RR, recvRec[n][i].src # NoNode
  PROVE  /\ Held(recvRec[n][i].msg, recvRec[n][i].transNum) /\ Begun(recvRec[n][i].msg)
         /\ recvRec[n][i].transNum \in 0 .. MaxTid
<1>1. recvRec[n][i].transNum \in 0 .. MaxTid
  BY TypedNow, RecordFields DEF RecordsTyped
<1>2. Held(recvRec[n][i].msg, recvRec[n][i].transNum)
  BY RecordMessage DEF Held
<1> QED
  BY <1>1, <1>2 DEF Begun

\* The frame of message m, which no message of its source and priority was begun after,
\* goes behind the frames on their way.
LEMMA PutOrdered ==
  ASSUME Typed, Typed', NEW m \in Message, NEW t \in 0 .. MaxTid,
         Send(m.src, MessageFrame(m, t)), UNCHANGED <<tsaInQ, recvRec>>,
         NEW rank \in [Message -> Nat], NEW next \in Nat, Ordered(rank, next),
         NEW new \in [Message -> Nat], NEW last \in Nat, Ranked(new, last)',
         \A o \in Message : Begun(o) => new[o] = rank[o],
         \A o \in Message : Begun(o)' => Begun(o) \/ o = m,
         \A o \in Message : o.src = m.src /\ o.priority = m.priority /\ Begun(o) => new[o] <= new[m],
         \A o \in Message : \A u \in 0 .. MaxTid : Sending(o, u)' =>
            IF o.src = m.src /\ o.priority = m.priority THEN o = m ELSE Sending(o, u)
  PROVE  Ordered(new, last)'
<1> DEFINE n == m.src
           p == m.priority
           f == MessageFrame(m, t)
<1>1. n \in Node /\ p \in Priority
  BY TsaAssumption
<1>2. /\ f \in FramesOf(n, p) /\ f.src = n /\ f.priority = p /\ f.body = m /\ Carries(f)
      /\ f \in Frame
  BY FrameOfMessage, FramesOfUse DEF Carries
<1>3. /\ nwOutQ'[n][p] = Put(nwOutQ[n][p], f, Cnt.nwOut)
      /\ \A o \in Node, q \in Priority : <<o, q>> # <<n, p>> => nwOutQ'[o][q] = nwOutQ[o][q]
      /\ \A o \in Node, q \in Priority : Range(nwOutQ'[o][q]) \subseteq Range(nwOutQ[o][q]) \cup {f}
  BY <1>1, <1>2, SendTyped, TypedParts, ZenonT(40)
<1> HIDE DEF n, p, f
<1>4. \A o \in Message : new[o] \in Nat /\ rank[o] \in Nat
  OBVIOUS
\* Frames that were on their way keep their places.
<1>5. ASSUME NEW g \in Frame, Carries(g), InFlight(g)
      PROVE  /\ g.body \in Message /\ new[g.body] = rank[g.body] /\ Begun(g.body)
             /\ g.body.src = g.src /\ g.body.priority = g.priority
             /\ g.src = n /\ g.priority = p => new[g.body] <= new[m]
  BY <1>5, CarriedIsBegun DEF n, p
<1>6. \A q : \A S : q \in Seq(S) /\ S \subseteq {g \in Frame : InFlight(g)} /\ Sorted(q, rank)
                => Sorted(q, new)
  <2>1. SUFFICES ASSUME NEW S, NEW q \in Seq(S), S \subseteq {g \in Frame : InFlight(g)},
                        Sorted(q, rank), NEW j \in 1 .. Len(q), NEW k \in 1 .. Len(q), j <= k,
                        Carries(q[j]), Carries(q[k]), q[j].src = q[k].src,
                        q[j].priority = q[k].priority
                 PROVE  new[q[j].body] <= new[q[k].body]
    BY DEF Sorted
  <2>2. q[j] \in S /\ q[k] \in S
    BY RangeType
  <2>3. rank[q[j].body] <= rank[q[k].body]
    BY <2>1 DEF Sorted
  <2> QED
    BY <1>5, <2>1, <2>2, <2>3
<1>7. ASSUME NEW o \in Node, NEW q \in Priority
      PROVE  /\ nwOutQ[o][q] \in Seq({g \in Frame : InFlight(g)})
             /\ Sorted(nwOutQ[o][q], new)
  <2>1. nwOutQ[o][q] \in Seq(Frame)
    BY TypedParts DEF NwTyped
  <2>2. nwOutQ[o][q] \in Seq({g \in Frame : InFlight(g)})
    BY <2>1, QueuedIsInFlight, SeqWithin
  <2> QED
    BY <1>6, <2>2 DEF Ordered, QueuesSorted
<1>8. ASSUME NEW o \in Node
      PROVE  Sorted(tsaInQ[o], new)
  <2>1. tsaInQ[o] \in Seq(Frame)
    BY TypedParts DEF InTyped
  <2>2. tsaInQ[o] \in Seq({g \in Frame : InFlight(g)})
    BY <2>1, QueuedIsInFlight, SeqWithin
  <2> QED
    BY <1>6, <2>2 DEF Ordered, QueuesSorted
<1>9. QueuesSorted(new)'
  <2>1. Sorted(Put(nwOutQ[n][p], f, Cnt.nwOut), new)
    <3>1. nwOutQ[n][p] \in Seq(Frame) /\ Cnt.nwOut \in Nat \ {0}
      BY <1>1, TypedParts, Counts DEF NwTyped
    <3>2. Sorted(nwOutQ[n][p], new) /\ new[f.body] \in Nat
      BY <1>1, <1>2, <1>4, <1>7
    <3>3. \A g \in Range(nwOutQ[n][p]) :
             Carries(g) /\ g.src = f.src /\ g.priority = f.priority => new[g.body] <= new[f.body]
      BY <1>1, <1>2, <1>5, QueuedIsInFlight
    <3> QED
      BY <1>2, <3>1, <3>2, <3>3, PutSorted
  <2>2. ASSUME NEW o \in Node, NEW q \in Priority
        PROVE  Sorted(nwOutQ'[o][q], new)
    <3>1. CASE <<o, q>> = <<n, p>>
      BY <1>3, <2>1, <3>1
    <3>2. CASE <<o, q>> # <<n, p>>
      BY <1>3, <1>7, <3>2
    <3> QED
      BY <3>1, <3>2
  <2> QED
    BY <1>8, <2>2 DEF QueuesSorted
\* What was in front of a queue is in front of it still.
<1>10. ASSUME NEW l \in Message, Begun(l), NEW o \in Node, NEW q \in Priority,
              NotBefore(rank, l, nwOutQ[o][q])
       PROVE  NotBefore(new, l, nwOutQ'[o][q])
  <2>1. ASSUME NEW g \in Range(nwOutQ'[o][q]), Carries(g), g.src = l.src, g.priority = l.priority
        PROVE  new[l] <= new[g.body]
    <3>1. CASE g = f
      BY <1>2, <1>10, <2>1, <3>1 DEF n, p
    <3>2. CASE g \in Range(nwOutQ[o][q])
      <4>1. g \in Frame /\ InFlight(g)
        BY <3>2, QueuedIsInFlight
      <4>2. rank[l] <= rank[g.body]
        BY <1>10, <2>1, <3>2 DEF NotBefore
      <4> QED
        BY <1>5, <1>10, <2>1, <4>1, <4>2
    <3> QED
      BY <1>3, <3>1, <3>2
  <2> QED
    BY <2>1 DEF NotBefore
<1>11. InBeforeOut(new)'
  <2>1. ASSUME NEW o \in Node, NEW g \in Range(tsaInQ[o]), Carries(g)
        PROVE  NotBefore(new, g.body, nwOutQ'[g.src][g.priority])
    <3>1. g \in Frame /\ InFlight(g)
      BY QueuedIsInFlight
    <3>2. g.src \in Node /\ g.priority \in Priority /\ g.body \in Message /\ Begun(g.body)
      BY <1>5, <2>1, <3>1, FrameKinds
    <3>3. NotBefore(rank, g.body, nwOutQ[g.src][g.priority])
      BY <2>1 DEF Ordered, InBeforeOut
    <3> QED
      BY <1>10, <3>2, <3>3
  <2> QED
    BY <2>1 DEF InBeforeOut
<1>12. RecordsFirst(new)'
  <2>1. ASSUME NEW o \in Node, NEW i \in RR, recvRec[o][i].src # NoNode
        PROVE  /\ NotBefore(new, recvRec[o][i].msg, tsaInQ[o])
               /\ NotBefore(new, recvRec[o][i].msg,
                            nwOutQ'[recvRec[o][i].src][recvRec[o][i].priority])
    <3> DEFINE l == recvRec[o][i].msg
    <3>1. /\ l \in Message /\ recvRec[o][i].src \in Node /\ recvRec[o][i].priority \in Priority
          /\ Begun(l)
      BY <2>1, RecordMessage, RecordIsBegun
    <3>2. /\ NotBefore(rank, l, tsaInQ[o])
          /\ NotBefore(rank, l, nwOutQ[recvRec[o][i].src][recvRec[o][i].priority])
      BY <2>1 DEF Ordered, RecordsFirst
    <3> HIDE DEF l
    <3>3. NotBefore(new, l, tsaInQ[o])
      <4>1. ASSUME NEW g \in Range(tsaInQ[o]), Carries(g), g.src = l.src, g.priority = l.priority
            PROVE  new[l] <= new[g.body]
        <5>1. g \in Frame /\ InFlight(g)
          BY QueuedIsInFlight
        <5>2. rank[l] <= rank[g.body]
          BY <3>2, <4>1 DEF NotBefore
        <5> QED
          BY <1>5, <3>1, <4>1, <5>1, <5>2
      <4> QED
        BY <4>1 DEF NotBefore
    <3>4. NotBefore(new, l, nwOutQ'[recvRec[o][i].src][recvRec[o][i].priority])
      BY <1>10, <3>1, <3>2
    <3> QED
      BY <3>3, <3>4 DEF l
  <2> QED
    BY <2>1 DEF RecordsFirst
<1>13. SendingLast(new)'
  <2>1. SUFFICES ASSUME NEW l \in Message, NEW o \in Message, NEW u \in 0 .. MaxTid,
                        l.src = o.src, l.priority = o.priority, Begun(o)', Sending(l, u)'
                 PROVE  new[o] <= new[l]
    BY DEF SendingLast
  <2>2. CASE o = m
    <3>1. l = m
      BY <2>1, <2>2
    <3> QED
      BY <1>4, <2>2, <3>1
  <2>3. CASE Begun(o) /\ l.src = m.src /\ l.priority = m.priority
    <3>1. l = m
      BY <2>1, <2>3
    <3> QED
      BY <2>1, <2>3, <3>1
  <2>4. CASE Begun(o) /\ ~(l.src = m.src /\ l.priority = m.priority)
    <3>1. Sending(l, u)
      BY <2>1, <2>4
    <3>2. rank[o] <= rank[l] /\ Begun(l)
      BY <2>1, <2>4, <3>1 DEF Ordered, SendingLast, Begun, Live
    <3> QED
      BY <2>4, <3>2
  <2> QED
    BY <2>1, <2>2, <2>3, <2>4
<1> QED
  BY <1>9, <1>11, <1>12, <1>13 DEF Ordered

LEMMA RetryOnce ==
  ASSUME Once, NEW n \in Node, NEW p \in Priority, Retry(n, p)
  PROVE  Once'
<1> USE DEF Once
<1> DEFINE m == Head(tsaOutQ[n][p])
           t == xmitRec[n][p].transNum
<1>1. /\ Typed' /\ Send(n, MessageFrame(m, t)) /\ MessageFrame(m, t) \in FramesOf(n, p)
      /\ xmitRec[n][p].status # "unused"
      /\ \A o \in Node, r \in Priority : /\ xmitRec'[o][r].status = xmitRec[o][r].status
                                         /\ xmitRec'[o][r].transNum = xmitRec[o][r].transNum
      /\ UNCHANGED <<tsaOutQ, recvRec, tsaInQ, submitted, delivered, appCeRspInQ, outcome>>
  BY RetryTyped DEF recvVars, appVars, told
<1>2. /\ m \in Message /\ m.src = n /\ m.priority = p /\ t \in 0 .. MaxTid
      /\ tsaOutQ[n][p] # <<>>
  <2>1. tsaOutQ[n][p] # <<>>
    BY <1>1, TypedNow DEF InProgress
  <2>2. t \in 0 .. MaxTid
    BY TypedParts DEF XmitTyped
  <2> QED
    BY <2>1, <2>2, TypedNow, HeadMessage
<1>3. Sending(m, t)
  BY <1>1, <1>2 DEF Sending
<1> HIDE DEF m, t
<1>4. SendingFlow /\ WaitsFlow /\ RecordsFlow /\ DeliveredFlow
  <2>1. SendingFlow
    BY <1>1 DEF SendingFlow
  <2>2. WaitsFlow
    BY <1>1 DEF WaitsFlow, Waits
  <2> QED
    BY <1>1, <2>1, <2>2, FlowUnchanged
<1>5. FramesFlow
  <2>1. \A o \in Node, q \in Priority :
           Range(nwOutQ'[o][q]) \subseteq Range(nwOutQ[o][q]) \cup {MessageFrame(m, t)}
    BY <1>1, SendTyped, TypedParts
  <2>2. \A o \in Node : \A f \in Range(tsaInQ'[o]) : f \in Range(tsaInQ[o]) \/ InFlight(f)
    BY <1>1
  <2>3. FlightKept({MessageFrame(m, t)})
    BY <1>1, <2>1, <2>2, FlightIsKept
  <2> QED
    BY <1>2, <1>3, <2>3, FramesOfUse DEF FlightKept, FramesFlow
<1>6. \A o \in Message : \A u \in 0 .. MaxTid : Live(o, u)' => Live(o, u)
  BY <1>4, <1>5, LiveKept
<1>7. \A o \in Message : \A u \in 0 .. MaxTid : Held(o, u)' => Held(o, u)
  BY <1>4, HeldKept
<1>8. /\ RecordsKept' /\ UnusedIsOver' /\ Awaiting' /\ AtMostOnce'
      /\ \A o \in Message : delivered'[o] > 0 => Begun(o)
  BY <1>1, <1>4, <1>6, RecordsFlowKeeps
<1>9. OneNumber' /\ Untouched' /\ \A o \in Message : Begun(o)' => Begun(o)
  BY <1>4, <1>6, <1>7, <1>8, NothingBegun
<1>10. PICK rank \in [Message -> Nat], next \in Nat : Ordered(rank, next)
  OBVIOUS
<1>11. Ordered(rank, next)'
  <2>1. Ranked(rank, next)'
    BY <1>9, <1>10 DEF Ordered, Ranked
  <2>2. \A o \in Message :
           o.src = m.src /\ o.priority = m.priority /\ Begun(o) => rank[o] <= rank[m]
    BY <1>2, <1>3, <1>10 DEF Ordered, SendingLast
  <2>3. \A o \in Message : \A u \in 0 .. MaxTid : Sending(o, u)' =>
           IF o.src = m.src /\ o.priority = m.priority THEN o = m ELSE Sending(o, u)
    <3>1. ASSUME NEW o \in Message, NEW u \in 0 .. MaxTid, Sending(o, u)'
          PROVE  Sending(o, u) /\ (o.src = m.src /\ o.priority = m.priority => o = m)
      <4>1. o.src \in Node /\ o.priority \in Priority
        BY TsaAssumption
      <4> QED
        BY <1>1, <1>2, <3>1, <4>1 DEF Sending, m
    <3> QED
      BY <3>1
  <2> QED
    BY <1>1, <1>2, <1>9, <1>10, <2>1, <2>2, <2>3, PutOrdered
<1> QED
  BY <1>1, <1>8, <1>9, <1>11, AccountedUnchanged

LEMMA SendNewMsgOnce ==
  ASSUME Once, NEW n \in Node, NEW p \in Priority, NEW layer \in {"transport", "session"},
         SendNewMsg(n, p, layer)
  PROVE  Once'
<1> USE DEF Once
<1>1. Typed' /\ \E m, t : SentAs(n, p, layer, m, t)
  BY SendNewMsgTyped
<1>2. PICK m, t : SentAs(n, p, layer, m, t)
  BY <1>1
<1>3. /\ xmitRec[n][p].status = "unused" /\ tsaOutQ[n][p] # <<>> /\ m = Head(tsaOutQ[n][p])
      /\ m \in Message /\ m.src = n /\ m.priority = p /\ t \in 0 .. MaxTid
      /\ Layer(m) \in {"transport", "session"}
      /\ xmitRec'[n][p].status = Layer(m) /\ xmitRec'[n][p].transNum = t
      /\ \A o \in Node, r \in Priority : <<o, r>> # <<n, p>> => xmitRec'[o][r] = xmitRec[o][r]
      /\ Send(n, MessageFrame(m, t)) /\ MessageFrame(m, t) \in FramesOf(n, p)
      /\ UNCHANGED <<tsaOutQ, recvRec, tsaInQ, submitted, delivered, appCeRspInQ, outcome>>
  BY <1>2 DEF SentAs, recvVars, appVars, told, Layer
<1>4. tsaOutQ[n][p] \in Seq(Message) /\ IsInjective(tsaOutQ[n][p])
  BY TypedNow DEF OutTyped, Accounted
<1>5. /\ m \in Range(tsaOutQ[n][p]) /\ m \notin Range(Tail(tsaOutQ[n][p])) /\ m \in submitted
      /\ Range(Tail(tsaOutQ[n][p])) \subseteq Range(tsaOutQ[n][p])
  BY <1>3, <1>4, TailProperties, InjectiveTail DEF Accounted
<1>6. ~Begun(m)
  BY <1>3, <1>5 DEF Untouched, Waits
<1>7. FlightKept({MessageFrame(m, t)})
  <2>1. \A o \in Node, q \in Priority :
           Range(nwOutQ'[o][q]) \subseteq Range(nwOutQ[o][q]) \cup {MessageFrame(m, t)}
    BY <1>3, SendTyped, TypedParts
  <2>2. \A o \in Node : \A f \in Range(tsaInQ'[o]) : f \in Range(tsaInQ[o]) \/ InFlight(f)
    BY <1>3
  <2> QED
    BY <1>1, <2>1, <2>2, FlightIsKept
<1>8. ASSUME NEW o \in Message, NEW u \in 0 .. MaxTid, Sending(o, u)'
      PROVE  IF o.src = n /\ o.priority = p THEN o = m /\ u = t ELSE Sending(o, u)
  <2>1. o.src \in Node /\ o.priority \in Priority
    BY TsaAssumption
  <2> QED
    BY <1>3, <1>8, <2>1 DEF Sending
<1>9. ASSUME NEW o \in Message, NEW u \in 0 .. MaxTid, Live(o, u)'
      PROVE  Live(o, u) \/ (o = m /\ u = t)
  <2>1. CASE InFlight(MessageFrame(o, u))'
    <3>1. MessageFrame(o, u) = MessageFrame(m, t) => o = m /\ u = t
      BY <1>3, FrameOfMessage
    <3> QED
      BY <1>7, <2>1, <3>1, FramesOfUse DEF FlightKept, Live
  <2>2. CASE Sending(o, u)'
    BY <1>8, <2>2 DEF Live
  <2> QED
    BY <1>9, <2>1, <2>2 DEF Live
<1>10. \A o \in Message : \A u \in 0 .. MaxTid : Held(o, u)' <=> Held(o, u)
  BY <1>3 DEF Held
<1>11. ASSUME NEW o \in Message, Begun(o)'
       PROVE  Begun(o) \/ o = m
  BY <1>3, <1>9, <1>10, <1>11 DEF Begun
<1>12. OneNumber'
  BY <1>6, <1>9, <1>10 DEF OneNumber, Begun
<1>13. Untouched'
  <2>1. ASSUME NEW o \in Node, NEW q \in Priority, NEW l \in Message, l \in Waits(o, q)', Begun(l)'
        PROVE  FALSE
    <3>1. l \in Waits(o, q) /\ (<<o, q>> = <<n, p>> => l # m)
      <4>1. CASE <<o, q>> = <<n, p>>
        BY <1>3, <1>5, <2>1, <4>1 DEF Waits
      <4>2. CASE <<o, q>> # <<n, p>>
        BY <1>3, <2>1, <4>2 DEF Waits
      <4> QED
        BY <4>1, <4>2
    <3>2. l = m
      BY <1>11, <2>1, <3>1 DEF Untouched
    <3>3. tsaOutQ[o][q] \in Seq(MessagesOf(o, q)) /\ tsaOutQ[o][q] \in Seq(Message)
      BY TypedNow DEF OutTyped
    <3>4. l \in Range(tsaOutQ[o][q])
      <4>1. xmitRec[o][q].status # "unused" => tsaOutQ[o][q] # <<>>
        BY TypedNow DEF InProgress
      <4> QED
        BY <3>1, <3>3, <4>1, TailProperties DEF Waits
    <3>5. l.src = o /\ l.priority = q
      BY <3>3, <3>4, RangeType DEF MessagesOf
    <3> QED
      BY <1>3, <3>1, <3>2, <3>5
  <2> QED
    BY <1>3, <1>5, <1>11, <2>1 DEF Untouched
<1>14. PICK rank \in [Message -> Nat], next \in Nat : Ordered(rank, next)
  OBVIOUS
<1> DEFINE new == [rank EXCEPT ![m] = next]
<1>15. /\ new \in [Message -> Nat] /\ new[m] = next /\ next + 1 \in Nat
       /\ \A o \in Message : o # m => new[o] = rank[o]
  BY <1>3, <1>14
<1> HIDE DEF new
<1>16. \A o \in Message : Begun(o) => new[o] = rank[o] /\ new[o] < next /\ new[o] \in Nat
  BY <1>6, <1>14, <1>15 DEF Ordered, Ranked
<1>17. Ranked(new, next + 1)'
  <2>1. ASSUME NEW o \in Message, Begun(o)'
        PROVE  new[o] < next + 1
    BY <1>11, <1>14, <1>15, <1>16, <2>1
  <2>2. ASSUME NEW l \in Message, NEW o \in Message, Begun(l)', Begun(o)', new[l] = new[o]
        PROVE  l = o
    <3>1. (Begun(l) \/ l = m) /\ (Begun(o) \/ o = m)
      BY <1>11, <2>2
    <3>2. CASE Begun(l) /\ Begun(o)
      BY <1>14, <1>16, <2>2, <3>2 DEF Ordered, Ranked
    <3>3. CASE ~(Begun(l) /\ Begun(o))
      BY <1>14, <1>15, <1>16, <2>2, <3>1, <3>3
    <3> QED
      BY <3>2, <3>3
  <2> QED
    BY <2>1, <2>2 DEF Ranked
<1>18. Ordered(new, next + 1)'
  <2>1. \A o \in Message :
           o.src = m.src /\ o.priority = m.priority /\ Begun(o) => new[o] <= new[m]
    BY <1>14, <1>15, <1>16
  <2>2. \A o \in Message : \A u \in 0 .. MaxTid : Sending(o, u)' =>
           IF o.src = m.src /\ o.priority = m.priority THEN o = m ELSE Sending(o, u)
    BY <1>3, <1>8
  <2> QED
    BY <1>1, <1>3, <1>11, <1>14, <1>15, <1>16, <1>17, <2>1, <2>2, PutOrdered, ZenonT(40)
<1>19. \E r \in [Message -> Nat], l \in Nat : Ordered(r, l)'
  BY <1>15, <1>18
<1>20. RecordsKept'
  <2>1. ASSUME NEW o \in Message, NEW u \in 0 .. MaxTid, delivered'[o] > 0, Live(o, u)'
        PROVE  delivered[o] > 0 /\ Live(o, u)
    BY <1>3, <1>6, <1>9, <2>1 DEF Begun
  <2> QED
    BY <1>3, <2>1 DEF RecordsKept
<1>21. UnusedIsOver'
  <2>1. SUFFICES ASSUME NEW o \in Node, NEW i \in RR, NEW l \in Message,
                        recvRec'[o][i].src # NoNode, recvRec'[o][i].status = "unused",
                        recvRec'[o][i].msg = l, NEW u \in 0 .. MaxTid, Live(l, u)'
                 PROVE  FALSE
    BY DEF UnusedIsOver
  <2>2. l # m
    BY <1>3, <1>6, <2>1, RecordIsBegun
  <2> QED
    BY <1>3, <1>9, <2>1, <2>2 DEF UnusedIsOver
<1>22. Awaiting' /\ AtMostOnce'
  BY <1>3 DEF Awaiting, AtMostOnce
<1> QED
  BY <1>1, <1>3, <1>12, <1>13, <1>19, <1>20, <1>21, <1>22, AccountedUnchanged

LEMMA ArriveOnce ==
  ASSUME Once, NEW n \in Node, NEW p \in Priority, NEW again \in BOOLEAN, Arrive(n, p, again)
  PROVE  Once'
<1> USE DEF Once
<1> DEFINE f == Head(nwOutQ[n][p])
<1>1. /\ Typed' /\ nwOutQ[n][p] # <<>> /\ f \in Frame /\ f \in Range(nwOutQ[n][p])
      /\ tsaInQ' = [tsaInQ EXCEPT ![f.dst] = Put(@, f, Cnt.tsaIn)]
      /\ nwOutQ' = nwOutQ \/ nwOutQ' = [nwOutQ EXCEPT ![n][p] = Tail(@)]
      /\ UNCHANGED <<tsaOutQ, xmitRec, recvRec, submitted, delivered, appCeRspInQ, outcome>>
  BY ChannelTyped DEF Arrive, sendVars, recvVars, appVars, told
<1>2. /\ f.src = n /\ f.priority = p /\ InFlight(f) /\ f.dst \in Node
  BY <1>1, QueuedIsInFlight, FrameKinds
<1>3. nwOutQ[n][p] \in Seq(Frame) /\ f = nwOutQ[n][p][1] /\ Len(nwOutQ[n][p]) \in Nat \ {0}
  BY <1>1, TypedParts, TailProperties DEF NwTyped
<1>4. Answering
  <2>1. CASE nwOutQ' = nwOutQ
    BY <2>1 DEF Answering
  <2>2. CASE nwOutQ' = [nwOutQ EXCEPT ![n][p] = Tail(@)]
    <3>1. /\ \A o \in Node, q \in Priority : <<o, q>> # <<n, p>> => nwOutQ'[o][q] = nwOutQ[o][q]
          /\ nwOutQ'[n][p] = Tail(nwOutQ[n][p])
      BY <1>1, <2>2, LeaveTyped, TypedParts
    <3> QED
      BY <1>1, <3>1 DEF Answering
  <2> QED
    BY <1>1, <2>1, <2>2
<1>5. /\ \A o \in Node : Range(tsaInQ'[o]) \subseteq Range(tsaInQ[o]) \cup {f}
      /\ \A o \in Node : o # f.dst => tsaInQ'[o] = tsaInQ[o]
      /\ tsaInQ'[f.dst] = Put(tsaInQ[f.dst], f, Cnt.tsaIn)
  BY <1>1, ArriveTyped, TypedParts
<1>6. f \in Range(nwOutQ[n][p]) /\ \A g \in Range(nwOutQ[n][p]) : \E k \in 1 .. Len(nwOutQ[n][p]) :
         nwOutQ[n][p][k] = g
  BY <1>1, <1>3, RangeIs
<1> HIDE DEF f
<1>7. \A o \in Node : \A q \in Priority : /\ nwOutQ[o][q] \in Seq(Frame)
                                          /\ nwOutQ'[o][q] \in Seq(Frame)
                                          /\ Thin(nwOutQ[o][q], nwOutQ'[o][q])
  BY <1>1, <1>4, TypedParts, QueuesThin DEF NwTyped
<1>8. FramesFlow
  <2>1. \A o \in Node, q \in Priority : Range(nwOutQ'[o][q]) \subseteq Range(nwOutQ[o][q]) \cup {}
    <3>1. ASSUME NEW o \in Node, NEW q \in Priority
          PROVE  Range(nwOutQ'[o][q]) \subseteq Range(nwOutQ[o][q])
      <4>1. CASE nwOutQ' = nwOutQ
        BY <4>1
      <4>2. CASE nwOutQ' = [nwOutQ EXCEPT ![n][p] = Tail(@)]
        BY <1>1, <4>2, LeaveTyped, TypedParts
      <4> QED
        BY <1>1, <4>1, <4>2
    <3> QED
      BY <3>1
  <2>2. \A o \in Node : \A g \in Range(tsaInQ'[o]) : g \in Range(tsaInQ[o]) \/ InFlight(g)
    BY <1>2, <1>5
  <2>3. FlightKept({})
    BY <1>1, <2>1, <2>2, FlightIsKept
  <2> QED
    BY <2>3 DEF FlightKept, FramesFlow
<1>9. SendingFlow /\ WaitsFlow /\ RecordsFlow /\ DeliveredFlow
  BY <1>1, FlowUnchanged
<1>10. \A m \in Message : \A t \in 0 .. MaxTid : Live(m, t)' => Live(m, t)
  BY <1>8, <1>9, LiveKept
<1>11. \A m \in Message : \A t \in 0 .. MaxTid : Held(m, t)' => Held(m, t)
  BY <1>9, HeldKept
<1>12. /\ RecordsKept' /\ UnusedIsOver' /\ Awaiting' /\ AtMostOnce'
       /\ \A m \in Message : delivered'[m] > 0 => Begun(m)
  BY <1>1, <1>9, <1>10, RecordsFlowKeeps
<1>13. OneNumber' /\ Untouched' /\ \A m \in Message : Begun(m)' => Begun(m)
  BY <1>9, <1>10, <1>11, <1>12, NothingBegun
<1>14. PICK rank \in [Message -> Nat], next \in Nat : Ordered(rank, next)
  OBVIOUS
\* The frame at the head of its queue goes behind those that left before it.
<1>15. ASSUME NEW l, NEW q, NotBefore(rank, l, nwOutQ[n][p]), NotBefore(rank, l, q),
              NEW r, Range(r) \subseteq Range(q) \cup {f}
       PROVE  NotBefore(rank, l, r)
  BY <1>6, <1>15 DEF NotBefore
<1>16. QueuesSorted(rank)'
  <2>1. ASSUME NEW o \in Node, NEW q \in Priority
        PROVE  Sorted(nwOutQ'[o][q], rank)
    BY <1>7, <1>14, ThinKeeps DEF Ordered, QueuesSorted
  <2>2. ASSUME NEW o \in Node
        PROVE  Sorted(tsaInQ'[o], rank)
    <3>1. CASE o # f.dst
      BY <1>5, <1>14, <3>1 DEF Ordered, QueuesSorted
    <3>2. CASE o = f.dst
      <4>1. tsaInQ[o] \in Seq(Frame) /\ Cnt.tsaIn \in Nat \ {0} /\ Sorted(tsaInQ[o], rank)
        BY <1>14, TypedParts, Counts DEF InTyped, Ordered, QueuesSorted
      <4>2. CASE ~Carries(f)
        <5>1. Thin(tsaInQ[o], tsaInQ'[o])
          BY <1>1, <1>5, <3>2, <4>1, <4>2, ThinNow
        <5>2. tsaInQ'[o] \in Seq(Frame)
          BY <1>1, TypedParts DEF InTyped
        <5> QED
          BY <4>1, <5>1, <5>2, ThinKeeps
      <4>3. CASE Carries(f)
        <5>1. rank[f.body] \in Nat
          BY <1>1, <1>2, <1>14, <4>3, CarriedIsBegun
        <5>2. ASSUME NEW g \in Range(tsaInQ[o]), Carries(g), g.src = f.src, g.priority = f.priority
              PROVE  rank[g.body] <= rank[f.body]
          <6>1. NotBefore(rank, g.body, nwOutQ[n][p])
            BY <1>2, <1>14, <5>2 DEF Ordered, InBeforeOut
          <6>2. g.body.src = f.src /\ g.body.priority = f.priority
            BY <5>2, QueuedIsInFlight, CarriedIsBegun
          <6> QED
            BY <1>6, <4>3, <6>1, <6>2 DEF NotBefore
        <5>3. \A g \in Range(tsaInQ[o]) :
                 Carries(g) /\ g.src = f.src /\ g.priority = f.priority => rank[g.body] <= rank[f.body]
          BY <5>2
        <5>4. f \in Frame
          BY <1>1
        <5>5. Sorted(Put(tsaInQ[o], f, Cnt.tsaIn), rank)
          BY <4>1, <5>1, <5>3, <5>4, PutSorted
        <5> QED
          BY <1>5, <3>2, <5>5
      <4> QED
        BY <4>2, <4>3
    <3> QED
      BY <3>1, <3>2
  <2> QED
    BY <2>1, <2>2 DEF QueuesSorted
<1>17. InBeforeOut(rank)'
  <2>1. ASSUME NEW o \in Node, NEW g \in Range(tsaInQ'[o]), Carries(g)
        PROVE  NotBefore(rank, g.body, nwOutQ'[g.src][g.priority])
    <3>1. g \in Frame
      BY <1>1, <1>5, QueuedIsInFlight, SMTT(30)
    <3>2. g.src \in Node /\ g.priority \in Priority
      BY <3>1, FrameKinds
    <3>3. NotBefore(rank, g.body, nwOutQ[g.src][g.priority])
      <4>1. CASE g \in Range(tsaInQ[o])
        BY <1>14, <2>1, <4>1 DEF Ordered, InBeforeOut
      <4>2. CASE g = f
        <5>1. ASSUME NEW h \in Range(nwOutQ[n][p]), Carries(h), h.src = g.body.src,
                     h.priority = g.body.priority
              PROVE  rank[g.body] <= rank[h.body]
          <6>1. PICK k \in 1 .. Len(nwOutQ[n][p]) : nwOutQ[n][p][k] = h
            BY <1>6
          <6>2. Sorted(nwOutQ[n][p], rank)
            BY <1>14 DEF Ordered, QueuesSorted
          <6>3. 1 \in 1 .. Len(nwOutQ[n][p]) /\ 1 <= k
            BY <1>3, <6>1
          <6>4. g.body.src = g.src /\ g.body.priority = g.priority
            BY <2>1, <3>1, FrameKinds DEF Carries
          <6> QED
            BY <1>3, <2>1, <4>2, <5>1, <6>1, <6>2, <6>3, <6>4 DEF Sorted
        <5> QED
          BY <1>2, <4>2, <5>1 DEF NotBefore
      <4> QED
        BY <1>5, <4>1, <4>2
    <3> QED
      BY <1>7, <3>2, <3>3, ThinKeeps
  <2> QED
    BY <2>1 DEF InBeforeOut
<1>18. RecordsFirst(rank)'
  <2>1. ASSUME NEW o \in Node, NEW i \in RR, recvRec[o][i].src # NoNode
        PROVE  /\ NotBefore(rank, recvRec[o][i].msg, tsaInQ'[o])
               /\ NotBefore(rank, recvRec[o][i].msg,
                            nwOutQ'[recvRec[o][i].src][recvRec[o][i].priority])
    <3> DEFINE l == recvRec[o][i].msg
               q == recvRec[o][i].priority
    <3>1. /\ l.src \in Node /\ q \in Priority
          /\ recvRec[o][i].src = l.src /\ l.priority = q
      BY <2>1, RecordMessage
    <3>2. NotBefore(rank, l, tsaInQ[o]) /\ NotBefore(rank, l, nwOutQ[l.src][q])
      BY <1>14, <2>1, <3>1 DEF Ordered, RecordsFirst
    <3> HIDE DEF l, q
    <3>3. NotBefore(rank, l, nwOutQ'[l.src][q])
      BY <1>7, <3>1, <3>2, ThinKeeps
    <3>4. NotBefore(rank, l, tsaInQ'[o])
      <4>1. CASE l.src = n /\ q = p
        BY <1>5, <1>15, <3>2, <4>1
      <4>2. CASE ~(l.src = n /\ q = p)
        BY <1>2, <1>5, <3>1, <3>2, <4>2 DEF NotBefore
      <4> QED
        BY <4>1, <4>2
    <3> QED
      BY <3>1, <3>3, <3>4 DEF l, q
  <2> QED
    BY <1>1, <2>1 DEF RecordsFirst
<1>19. Ranked(rank, next)' /\ SendingLast(rank)'
  <2>1. Ranked(rank, next)'
    BY <1>13, <1>14 DEF Ordered, Ranked
  <2>2. \A m \in Message : \A t \in 0 .. MaxTid : Sending(m, t)' => Sending(m, t)
    BY <1>1 DEF Sending
  <2>3. SendingLast(rank)'
    BY <1>13, <1>14, <2>2 DEF Ordered, SendingLast
  <2> QED
    BY <2>1, <2>3
<1>20. Ordered(rank, next)'
  BY <1>16, <1>17, <1>18, <1>19 DEF Ordered
<1> QED
  BY <1>1, <1>12, <1>13, <1>20, AccountedUnchanged

\* A frame that no record knows brings a message that was not delivered.
LEMMA NewIsNew ==
  ASSUME Once, NEW n \in Node, NEW layer \in {"transport", "session"}, NEW f, NEW i, NEW rr,
         NEW d, HeardAs(n, layer, f, i, rr, d), ~Known(n, i, f, layer)
  PROVE  /\ f.body \in Message /\ f.body.dst = n
         /\ Live(f.body, f.transNum) /\ Begun(f.body)
         /\ n \notin ResetNodes => delivered[f.body] = 0
<1> USE DEF Once
<1> DEFINE m == f.body
           t == f.transNum
<1>1. /\ f \in Range(tsaInQ[n]) /\ m \in Message /\ m.dst = n /\ f = MessageFrame(m, t)
      /\ f.kind \in MessageKinds(layer) /\ t \in 0 .. MaxTid /\ layer = Layer(m)
      /\ f.src \in Node /\ f.src = m.src /\ f.priority = m.priority
      /\ \/ i \in RetrieveRR(n, f)
         \/ RetrieveRR(n, f) = {} /\ recvRec[n][i].status = "unused"
  BY DEF HeardAs
<1>2. Carries(f)
  BY <1>1 DEF MessageKinds, Carries, Service
<1>3. Live(m, t) /\ Begun(m)
  BY <1>1, <1>2, QueuedIsInFlight, CarriedIsBegun
<1>4. ASSUME n \notin ResetNodes, delivered[m] > 0
      PROVE  FALSE
  <2>1. PICK j \in RR : recvRec[n][j].status # "unused" /\ recvRec[n][j].msg = m
    BY <1>1, <1>3, <1>4 DEF RecordsKept
  <2>2. /\ recvRec[n][j].src = f.src /\ recvRec[n][j].priority = f.priority
        /\ recvRec[n][j].src # NoNode
    BY <1>1, <2>1, RecordMessage
  <2>3. RetrieveRR(n, f) = {j}
    BY <1>1, <2>2, RetrieveRRFindsAll, TsaAssumption DEF Typed
  <2>4. i = j
    BY <1>1, <2>3
  <2>5. Held(m, recvRec[n][j].transNum) /\ recvRec[n][j].transNum \in 0 .. MaxTid
    BY <2>1, <2>2, RecordIsBegun
  <2>6. recvRec[n][j].transNum = t
    BY <1>1, <1>3, <2>5 DEF OneNumber
  <2>7. recvRec[n][j].status = layer
    BY <1>1, <2>1, TypedNow, RecordFields DEF RecordsTyped
  <2>8. Known(n, i, f, layer)
    BY <2>1, <2>3, <2>4, <2>6, <2>7 DEF Known, Repeats
  <2> QED
    BY <2>8
<1>5. n \notin ResetNodes => delivered[m] = 0
  <2>1. delivered[m] \in Nat
    BY <1>1, TypedParts DEF DeliveredTyped
  <2> QED
    BY <1>4, <2>1
<1> QED
  BY <1>1, <1>3, <1>5

LEMMA NewMessageOnce ==
  ASSUME Once, NEW n \in Node, NEW layer \in {"transport", "session"}, NEW f, NEW i, NEW rr,
         NEW d, HeardAs(n, layer, f, i, rr, d), ~Known(n, i, f, layer)
  PROVE  Once'
<1> USE DEF Once
<1> DEFINE m == f.body
           t == f.transNum
<1>1. /\ tsaInQ[n] # <<>> /\ f = Head(tsaInQ[n]) /\ f \in Range(tsaInQ[n])
      /\ m \in Message /\ m.dst = n /\ f = MessageFrame(m, t)
      /\ f.kind \in MessageKinds(layer) /\ t \in 0 .. MaxTid /\ layer = Layer(m)
      /\ f.src \in Node /\ f.src = m.src /\ f.priority = m.priority /\ f \in Frame
      /\ i \in RR
      /\ \/ i \in RetrieveRR(n, f)
         \/ RetrieveRR(n, f) = {} /\ recvRec[n][i].status = "unused"
      /\ rr \in WideRecords(n) /\ d \in RecordsOf(n)
      /\ rr.src = f.src /\ rr.priority = f.priority /\ rr.status = layer
      /\ rr.transNum = t /\ rr.msg = m /\ rr.transState = "just_received"
      /\ recvRec' = [recvRec EXCEPT ![n][i] = d]
      /\ UNCHANGED <<tsaOutQ, xmitRec, submitted, appCeRspInQ, outcome>>
      /\ DropReceived(n)
  BY DEF HeardAs, sendVars, told, FramesTo
<1>2. Carries(f) /\ layer # "unused"
  BY <1>1 DEF MessageKinds, Carries, Service
<1>3. Live(m, t) /\ Begun(m) /\ (n \notin ResetNodes => delivered[m] = 0)
  BY NewIsNew
<1>4. Typed' /\ Answering /\ Draining /\ SendingFlow /\ WaitsFlow
  BY HeardFlows
<1>5. /\ SameRecord(d, rr)
      /\ \/ d.transState = "authenticating" /\ UNCHANGED delivered
         \/ /\ d.transState \in Handled
            /\ UNCHANGED delivered \/ delivered' = [delivered EXCEPT ![m] = @ + 1]
  <2>1. CASE NeedsChallenge(rr)
    BY <2>1 DEF HeardAs
  <2>2. CASE ~NeedsChallenge(rr)
    <3>1. SameRecord(d, rr) /\ d.transState \in Handled /\ Deliver(n, rr)
      BY <2>2 DEF HeardAs, DeliveredAs
    <3>2. UNCHANGED delivered \/ delivered' = [delivered EXCEPT ![m] = @ + 1]
      BY <1>1, <3>1, DeliverTyped, TypedParts
    <3> QED
      BY <3>1, <3>2
  <2> QED
    BY <2>1, <2>2
<1>6. /\ recvRec'[n][i] = d /\ d.src = m.src /\ d.priority = m.priority /\ d.status # "unused"
      /\ d.transNum = t /\ d.msg = m /\ d.src # NoNode
      /\ \A o \in Node, j \in RR : <<o, j>> # <<n, i>> => recvRec'[o][j] = recvRec[o][j]
  <2>1. /\ recvRec'[n][i] = d
        /\ \A o \in Node, j \in RR : <<o, j>> # <<n, i>> => recvRec'[o][j] = recvRec[o][j]
    BY <1>1, RecordTyped, TypedNow, ZenonT(40)
  <2> QED
    BY <1>1, <1>2, <1>5, <2>1, TsaAssumption, ZenonT(40) DEF SameRecord
<1>7. tsaInQ'[n] = Tail(tsaInQ[n]) /\ tsaInQ[n] \in Seq(Frame)
  BY <1>1, DropTyped, TypedParts DEF InTyped
<1>8. delivered \in [Message -> Nat]
  BY TypedParts DEF DeliveredTyped
<1> HIDE DEF m, t
<1>9. ASSUME NEW o \in Message
      PROVE  \/ delivered'[o] = delivered[o]
             \/ o = m /\ delivered'[o] = delivered[o] + 1 /\ d.transState \in Handled
  BY <1>1, <1>5, <1>8
<1>10. \A o \in Message : \A u \in 0 .. MaxTid : Live(o, u)' => Live(o, u)
  BY <1>4, ThinFrames, LiveKept
<1>11. ASSUME NEW o \in Message, NEW u \in 0 .. MaxTid, Held(o, u)'
       PROVE  Held(o, u) \/ Live(o, u)
  <2>1. o.dst \in Node
    BY TsaAssumption
  <2>2. PICK j \in RR : /\ recvRec'[o.dst][j].src # NoNode
                        /\ recvRec'[o.dst][j].msg = o /\ recvRec'[o.dst][j].transNum = u
    BY <1>11 DEF Held
  <2>3. CASE <<o.dst, j>> = <<n, i>>
    BY <1>3, <1>6, <2>2, <2>3
  <2>4. CASE <<o.dst, j>> # <<n, i>>
    BY <1>6, <2>1, <2>2, <2>4 DEF Held
  <2> QED
    BY <2>3, <2>4
<1>12. \A o \in Message : delivered'[o] > 0 => Begun(o)
  BY <1>3, <1>9 DEF Begun
<1>13. OneNumber' /\ Untouched' /\ \A o \in Message : Begun(o)' => Begun(o)
  BY <1>4, <1>10, <1>11, <1>12, NothingBegun
<1>14. PICK rank \in [Message -> Nat], next \in Nat : Ordered(rank, next)
  OBVIOUS
\* What comes behind the frame was not begun before its message.
<1>15. /\ NotBefore(rank, m, tsaInQ'[n]) /\ NotBefore(rank, m, nwOutQ'[m.src][m.priority])
  <2>1. NotBefore(rank, m, nwOutQ[m.src][m.priority])
    BY <1>1, <1>2, <1>14 DEF Ordered, InBeforeOut, m
  <2>2. NotBefore(rank, m, nwOutQ'[m.src][m.priority])
    <3>1. m.src \in Node /\ m.priority \in Priority
      BY <1>1, TsaAssumption
    <3>2. /\ nwOutQ[m.src][m.priority] \in Seq(Frame) /\ nwOutQ'[m.src][m.priority] \in Seq(Frame)
          /\ Thin(nwOutQ[m.src][m.priority], nwOutQ'[m.src][m.priority])
      BY <1>4, <3>1, TypedParts, QueuesThin DEF NwTyped
    <3> QED
      BY <2>1, <3>2, ThinKeeps
  <2>3. ASSUME NEW g \in Range(Tail(tsaInQ[n])), Carries(g), g.src = m.src, g.priority = m.priority
        PROVE  rank[m] <= rank[g.body]
    <3>1. /\ Tail(tsaInQ[n]) \in Seq(Frame) /\ Len(Tail(tsaInQ[n])) = Len(tsaInQ[n]) - 1
          /\ Len(tsaInQ[n]) \in Nat \ {0} /\ Head(tsaInQ[n]) = tsaInQ[n][1]
          /\ \A k \in 1 .. Len(tsaInQ[n]) - 1 : Tail(tsaInQ[n])[k] = tsaInQ[n][k + 1]
      BY <1>1, <1>7, TailProperties
    <3>2. PICK k \in 1 .. Len(Tail(tsaInQ[n])) : Tail(tsaInQ[n])[k] = g
      BY <3>1, RangeIs, ZenonT(40)
    <3>3. 1 \in 1 .. Len(tsaInQ[n]) /\ k + 1 \in 1 .. Len(tsaInQ[n]) /\ 1 <= k + 1
      BY <3>1, <3>2
    <3>4. tsaInQ[n][1] = f /\ tsaInQ[n][k + 1] = g
      BY <1>1, <3>1, <3>2
    <3>5. Sorted(tsaInQ[n], rank)
      BY <1>14 DEF Ordered, QueuesSorted
    <3> QED
      BY <1>1, <1>2, <2>3, <3>3, <3>4, <3>5 DEF Sorted, m
  <2> QED
    BY <1>7, <2>2, <2>3 DEF NotBefore
<1>16. Ordered(rank, next)'
  <2>1. Ranked(rank, next)' /\ QueuesSorted(rank)' /\ InBeforeOut(rank)' /\ SendingLast(rank)'
    BY <1>4, <1>13, <1>14, ThinOrdered
  <2>2. ASSUME NEW o \in Node, NEW j \in RR, recvRec'[o][j].src # NoNode
        PROVE  /\ NotBefore(rank, recvRec'[o][j].msg, tsaInQ'[o])
               /\ NotBefore(rank, recvRec'[o][j].msg,
                            nwOutQ'[recvRec'[o][j].src][recvRec'[o][j].priority])
    <3>1. CASE <<o, j>> = <<n, i>>
      BY <1>6, <1>15, <3>1
    <3>2. CASE <<o, j>> # <<n, i>>
      <4>1. recvRec'[o][j] = recvRec[o][j]
        BY <1>6, <3>2
      <4>2. /\ recvRec[o][j].src # NoNode /\ recvRec'[o][j].src = recvRec[o][j].src
            /\ recvRec'[o][j].priority = recvRec[o][j].priority
            /\ recvRec'[o][j].msg = recvRec[o][j].msg
        BY <2>2, <4>1
      <4> QED
        BY <1>4, <1>14, <4>2, RecordsFirstKept DEF Ordered
    <3> QED
      BY <3>1, <3>2
  <2> QED
    BY <2>1, <2>2 DEF Ordered, RecordsFirst
<1>17. UnusedIsOver'
  <2>1. SUFFICES ASSUME NEW o \in Node, NEW j \in RR, NEW l \in Message,
                        recvRec'[o][j].src # NoNode, recvRec'[o][j].status = "unused",
                        recvRec'[o][j].msg = l, NEW u \in 0 .. MaxTid
                 PROVE  ~Live(l, u)'
    BY DEF UnusedIsOver
  <2>2. recvRec'[o][j] = recvRec[o][j]
    BY <1>6, <2>1
  <2> QED
    BY <1>10, <2>1, <2>2 DEF UnusedIsOver
<1>18. Awaiting'
  <2>1. SUFFICES ASSUME NEW o \in Node, NEW j \in RR, o \notin ResetNodes,
                        recvRec'[o][j].transState = "authenticating"
                 PROVE  delivered'[recvRec'[o][j].msg] = 0
    BY DEF Awaiting
  <2>2. CASE <<o, j>> = <<n, i>>
    <3>1. recvRec'[o][j].msg = m /\ d.transState = "authenticating"
      BY <1>6, <2>1, <2>2
    <3>2. d.transState \notin Handled
      BY <3>1 DEF Handled
    <3> QED
      BY <1>1, <1>3, <1>9, <2>1, <2>2, <3>1, <3>2
  <2>3. CASE <<o, j>> # <<n, i>>
    <3>1. recvRec'[o][j] = recvRec[o][j]
      BY <1>6, <2>3
    <3>2. /\ recvRec[o][j].src # NoNode /\ recvRec[o][j].msg \in Message
          /\ recvRec[o][j].msg.dst = o /\ delivered[recvRec[o][j].msg] = 0
      BY <2>1, <3>1, RecordMessage DEF Awaiting
    <3>3. recvRec[o][j].msg # m
      <4>1. ASSUME recvRec[o][j].msg = m
            PROVE  FALSE
        <5>1. o = n /\ j # i /\ recvRec[n][j].src = f.src /\ recvRec[n][j].priority = f.priority
          BY <1>1, <2>3, <3>2, <4>1, RecordMessage
        <5>2. f \in Frame /\ i \in RR /\ (i \in RetrieveRR(n, f) \/ RetrieveRR(n, f) = {})
          BY <1>1
        <5>3. \A k \in RR \ {i} :
                 ~(recvRec[n][k].src = f.src /\ recvRec[n][k].priority = f.priority)
          BY <5>2, RecordForOthers
        <5> QED
          BY <5>1, <5>3
      <4> QED
        BY <4>1
    <3> QED
      BY <1>9, <3>1, <3>2, <3>3
  <2> QED
    BY <2>2, <2>3
<1>19. AtMostOnce'
  BY <1>1, <1>3, <1>9 DEF AtMostOnce
<1>20. RecordsKept'
  <2>1. SUFFICES ASSUME NEW o \in Message, NEW u \in 0 .. MaxTid, o.dst \notin ResetNodes,
                        delivered'[o] > 0, Live(o, u)'
                 PROVE  \E j \in RR : recvRec'[o.dst][j].status # "unused" /\ recvRec'[o.dst][j].msg = o
    BY DEF RecordsKept
  <2>2. CASE o = m
    BY <1>1, <1>6, <2>2
  <2>3. CASE o # m
    <3>1. delivered[o] > 0 /\ Live(o, u) /\ o.dst \in Node
      BY <1>9, <1>10, <2>1, <2>3, TsaAssumption
    <3>2. PICK j \in RR : recvRec[o.dst][j].status # "unused" /\ recvRec[o.dst][j].msg = o
      BY <2>1, <3>1 DEF RecordsKept
    \* The record that is taken over is of a message that cannot come again.
    <3>3. <<o.dst, j>> # <<n, i>>
      <4>1. ASSUME <<o.dst, j>> = <<n, i>>
            PROVE  FALSE
        <5>1. recvRec[n][i].status # "unused" /\ recvRec[n][i].msg = o /\ recvRec[n][i].src # NoNode
          BY <1>1, <3>2, <4>1, RecordMessage
        <5>2. recvRec[n][i].src = f.src /\ recvRec[n][i].priority = f.priority
          BY <1>1, <5>1, RetrieveRRFinds
        <5>3. o.src = m.src /\ o.priority = m.priority
          BY <1>1, <5>1, <5>2, RecordMessage
        <5>4. Begun(o)
          BY <3>1 DEF Begun
        <5>5. rank[o] <= rank[m]
          <6>1. NotBefore(rank, o, tsaInQ[n])
            BY <1>1, <1>14, <5>1 DEF Ordered, RecordsFirst
          <6> QED
            BY <1>1, <1>2, <5>3, <6>1 DEF NotBefore, m
        <5>6. rank[m] <= rank[o]
          <6>1. CASE Sending(o, u)'
            <7>1. Sending(o, u)
              <8>1. o.src \in Node /\ o.priority \in Priority
                BY TsaAssumption
              <8> QED
                BY <1>4, <6>1, <8>1 DEF Sending, SendingFlow
            <7> QED
              BY <1>1, <1>3, <1>14, <5>3, <7>1 DEF Ordered, SendingLast
          <6>2. CASE InFlight(MessageFrame(o, u))'
            <7> DEFINE g == MessageFrame(o, u)
            <7>1. /\ g \in Frame /\ Carries(g) /\ g.body = o /\ g.src = m.src /\ g.dst = n
                  /\ g.priority = m.priority
              BY <4>1, <5>3, FrameOfMessage, FramesOfUse DEF Carries
            <7>2. g \in Range(nwOutQ'[m.src][m.priority]) \/ g \in Range(tsaInQ'[n])
              BY <1>4, <6>2, <7>1, InFlightNextIs
            <7> QED
              BY <1>15, <7>1, <7>2 DEF NotBefore
          <6> QED
            BY <2>1, <6>1, <6>2 DEF Live
        <5>7. rank[o] = rank[m]
          BY <1>1, <1>14, <5>5, <5>6
        <5> QED
          BY <1>1, <1>3, <1>14, <2>3, <5>4, <5>7 DEF Ordered, Ranked
      <4> QED
        BY <4>1
    <3> QED
      BY <1>6, <3>1, <3>2, <3>3
  <2> QED
    BY <2>2, <2>3
<1> QED
  BY <1>1, <1>4, <1>13, <1>16, <1>17, <1>18, <1>19, <1>20, AccountedUnchanged

LEMMA ReceiveNewMsgOnce ==
  ASSUME Once, Accounted', NEW n \in Node, NEW layer \in {"transport", "session"},
         ReceiveNewMsg(n, layer)
  PROVE  Once'
<1>1. PICK f, i, rr, d : HeardAs(n, layer, f, i, rr, d)
  BY Hears DEF Once, Typed
<1>2. CASE Known(n, i, f, layer)
  BY <1>1, <1>2, RepeatFlows, FlowOnce DEF Once
<1>3. CASE ~Known(n, i, f, layer)
  BY <1>1, <1>3, NewMessageOnce
<1> QED
  BY <1>2, <1>3

LEMMA OnceInit == Init => Once
<1> SUFFICES ASSUME Init
             PROVE  Once
  OBVIOUS
<1>1. /\ \A n \in Node : \A p \in Priority : /\ nwOutQ[n][p] = <<>> /\ tsaOutQ[n][p] = <<>>
                                             /\ xmitRec[n][p] = UnusedTx
      /\ \A n \in Node : \A i \in RR : recvRec[n][i] = BlankRecord
      /\ \A n \in Node : tsaInQ[n] = <<>>
      /\ \A m \in Message : delivered[m] = 0
  BY DEF Init
<1>2. /\ BlankRecord.status = "unused" /\ BlankRecord.transState = "done"
      /\ BlankRecord.src = NoNode /\ UnusedTx.status = "unused"
  BY DEF BlankRecord, UnusedTx
<1>3. Range(<<>>) = {} /\ Len(<<>>) = 0
  BY EmptyQueue
<1>4. \A m \in Message : \A t \in 0 .. MaxTid : ~Live(m, t) /\ ~Held(m, t)
  <2> SUFFICES ASSUME NEW m \in Message, NEW t \in 0 .. MaxTid
               PROVE  ~Live(m, t) /\ ~Held(m, t)
    OBVIOUS
  <2>1. m.src \in Node /\ m.dst \in Node /\ m.priority \in Priority
    BY TsaAssumption
  <2>2. ~InFlight(MessageFrame(m, t))
    BY InitUse, FramesOfUse
  <2>3. ~Sending(m, t) /\ ~Held(m, t)
    BY <1>1, <1>2, <2>1 DEF Sending, Held
  <2> QED
    BY <2>2, <2>3 DEF Live
<1>5. \A m \in Message : ~Begun(m)
  BY <1>1, <1>4 DEF Begun
<1>6. OneNumber /\ Untouched
  BY <1>4, <1>5 DEF OneNumber, Untouched
<1>7. RecordsKept /\ UnusedIsOver /\ Awaiting /\ AtMostOnce
  <2>1. RecordsKept /\ UnusedIsOver
    BY <1>4 DEF RecordsKept, UnusedIsOver
  <2>2. Awaiting
    BY <1>1, <1>2 DEF Awaiting
  <2>3. AtMostOnce
    BY <1>1 DEF AtMostOnce
  <2> QED
    BY <2>1, <2>2, <2>3
<1>8. \E rank \in [Message -> Nat], next \in Nat : Ordered(rank, next)
  <2> DEFINE rank == [m \in Message |-> 0]
  <2>1. rank \in [Message -> Nat] /\ 0 \in Nat
    OBVIOUS
  <2> HIDE DEF rank
  <2>2. Ranked(rank, 0) /\ SendingLast(rank)
    BY <1>5 DEF Ranked, SendingLast
  <2>3. QueuesSorted(rank)
    BY <1>1, <1>3 DEF QueuesSorted, Sorted
  <2>4. InBeforeOut(rank)
    BY <1>1, <1>3 DEF InBeforeOut
  <2>5. RecordsFirst(rank)
    BY <1>1, <1>2 DEF RecordsFirst
  <2> QED
    BY <2>1, <2>2, <2>3, <2>4, <2>5 DEF Ordered
<1> QED
  BY <1>6, <1>7, <1>8, TypedInit, AccountedInit DEF Once

LEMMA OnceStep ==
  ASSUME Once, [Next]_vars
  PROVE  Once'
<1>1. Typed /\ Accounted'
  BY AccountedStep DEF Once
<1>2. CASE UNCHANGED vars
  <2>1. /\ UNCHANGED <<nwOutQ, tsaInQ, recvRec, delivered>>
        /\ UNCHANGED <<tsaOutQ, xmitRec, submitted>>
    BY <1>2 DEF vars, sendVars, recvVars, appVars, told
  <2>2. Typed'
    BY <1>1, <1>2, TypedStep
  <2>3. Answering /\ Draining /\ RecordsFlow /\ DeliveredFlow /\ SendingFlow /\ WaitsFlow
    BY <1>1, <2>1, FlowUnchanged
  <2> QED
    BY <1>1, <2>2, <2>3, FlowOnce DEF Flow
<1>3. CASE Next
  <2>1. ASSUME NEW m \in Message, Submit(m)
        PROVE  Once'
    BY <1>1, <2>1, SubmitFlows, FlowOnce
  <2>2. ASSUME NEW n \in Node, NEW p \in Priority, NEW layer \in {"transport", "session"},
               SendNewMsg(n, p, layer)
        PROVE  Once'
    BY <2>2, SendNewMsgOnce
  <2>3. ASSUME NEW n \in Node, NEW p \in Priority,
               \/ GiveUp(n, p) \/ \E layer \in {"transport", "session"} : CompleteAtOnce(n, p, layer)
               \/ Lose(n, p)
        PROVE  Once'
    BY <1>1, <2>3, CompletionFlows, LoseFlows, FlowOnce
  <2>4. ASSUME NEW n \in Node, NEW p \in Priority,
               Retry(n, p) \/ \E again \in BOOLEAN : Arrive(n, p, again)
        PROVE  Once'
    BY <2>4, RetryOnce, ArriveOnce
  <2>5. ASSUME NEW n \in Node,
               \/ TPReceiveAck(n) \/ SNReceiveResponse(n)
               \/ SendReplyToChallenge(n)
               \/ \/ \E layer \in {"transport", "session"} : ReceiveRefused(n, layer)
                  \/ IgnoreStale(n) \/ IgnoreReply(n)
               \/ SendResponse(n) \/ ProcessReply(n)
        PROVE  Once'
    BY <1>1, <2>5, AnswerFlows, DroppedFlows, SendResponseFlows, ProcessReplyFlows, FlowOnce
  <2>6. ASSUME NEW n \in Node,
               \/ AppMsgReceive(n) \/ AppRspReceive(n) \/ RestartOver(n)
               \/ \E i \in RR : ReceiveTimerExpired(n, i)
               \/ \E kind \in ResetKinds : Reset(n, kind)
        PROVE  Once'
    BY <1>1, <2>6, ApplicationFlows, ReceiveTimerFlows, ResetFlows, FlowOnce
  <2>7. ASSUME NEW n \in Node, NEW layer \in {"transport", "session"}, ReceiveNewMsg(n, layer)
        PROVE  Once'
    BY <1>1, <2>7, ReceiveNewMsgOnce
  <2> QED
    BY <1>3, Steps, <2>1, <2>2, <2>3, <2>4, <2>5, <2>6, <2>7
<1> QED
  BY <1>2, <1>3

\* Deliver is reached once for a message at a node that is not reset, and the promise that
\* ImplementsMessageService makes about DeliverMessage is kept: the receive record of the
\* message is there as long as a frame of it may come, and frames of older messages come
\* before. Neither reused numbers nor resets of the sender nor full queues disturb that.
THEOREM DeliveredOnce ==
  Spec => [](\A m \in Message : m.dst \notin ResetNodes => delivered[m] <= 1)
<1>1. Once => \A m \in Message : m.dst \notin ResetNodes => delivered[m] <= 1
  BY DEF Once, AtMostOnce
<1> QED
  BY <1>1, OnceInit, OnceStep, PTL DEF Spec

-----------------------------------------------------------------------------
(* What a sender is told.                                                  *)

\* The acknowledgement of message m, sent with number t. It does not say which message it is for.
AckFrame(m, t) ==
    [kind |-> "ack", src |-> m.dst, dst |-> m.src, priority |-> m.priority,
     transNum |-> t, body |-> NoMsg]

\* NewTrans gives out no number that an acknowledgement on its way has.
AcksAreFresh ==
    \A n \in Node : \A p \in Priority : restart[n] = "over" /\ Waiting(n, p) =>
        \A m \in MessagesOf(n, p) :
            ~InFlight(AckFrame(m, NewTid(n, p, Head(tsaOutQ[n][p]).dst)))

\* An application has taken its messages before its node looks at a frame that may bring
\* another one.
RoomToDeliver ==
    \A n \in Node : FrameOf(n, Service \union {"reply"}) => Len(appInQ[n]) < Cnt.appIn - 1

Confirmed(m) == m.service # "unack_rpt" /\ m.check = "ok"

RecordsTold ==
    \A n \in Node : \A i \in RR :
        recvRec[n][i].transState \in {"delivered", "responded"} => delivered[recvRec[n][i].msg] > 0
ResponsesTold ==
    \A f \in Frame : f.kind = "response" /\ InFlight(f) => delivered[f.body] > 0
AcksTold ==
    \A m \in Message : \A t \in 0 .. MaxTid :
        Sending(m, t) /\ InFlight(AckFrame(m, t)) => delivered[m] > 0
NoAcks ==
    \A n \in Node : \A p \in Priority :
        xmitRec[n][p].status # "unused" => xmitRec[n][p].ackCount = 0
CompletionTold(a) ==
    a.indication = "completion" /\ a.success /\ Confirmed(a.msg) => delivered[a.msg] > 0
CompletionsTold == \A n \in Node : \A a \in Range(appCeRspInQ[n]) : CompletionTold(a)

\* Records, answers and completion events tell of messages that were delivered.
Told == RecordsTold /\ ResponsesTold /\ AcksTold /\ NoAcks /\ CompletionsTold

DeliveredGrows == \A m \in Message : delivered[m] > 0 => delivered'[m] > 0

\* Answers are sent for a receive record.
AnswersFlow ==
    \A f \in Frame : f.kind \in {"ack", "response"} /\ InFlight(f)' =>
        \/ InFlight(f)
        \/ \E i \in RR :
              /\ recvRec'[f.src][i].status # "unused"
              /\ recvRec'[f.src][i].src = f.dst /\ recvRec'[f.src][i].priority = f.priority
              /\ recvRec'[f.src][i].transNum = f.transNum
              /\ f.kind = "ack" => recvRec'[f.src][i].transState = "delivered"
              /\ f.kind = "response" => /\ recvRec'[f.src][i].transState = "responded"
                                        /\ recvRec'[f.src][i].response = f.body

Telling ==
    DeliveredGrows /\ RecordsTold' /\ AnswersFlow /\ SendingFlow /\ NoAcks' /\ CompletionsTold'

LEMMA AckFrameIs ==
  ASSUME NEW m \in Message, NEW t \in 0 .. MaxTid
  PROVE  /\ AckFrame(m, t) \in Frame /\ AckFrame(m, t).kind = "ack"
         /\ AckFrame(m, t).src = m.dst /\ AckFrame(m, t).dst = m.src
         /\ AckFrame(m, t).priority = m.priority /\ AckFrame(m, t).transNum = t
         /\ m.src \in Node /\ m.dst \in Node /\ m.priority \in Priority
<1>1. m.src \in Node /\ m.dst \in Node /\ m.priority \in Priority
  BY TsaAssumption
<1>2. AckFrame(m, t) \in Answer("ack", {NoMsg})
  BY <1>1 DEF AckFrame, Answer
<1>3. AckFrame(m, t) \in Frame
  BY <1>2 DEF Frame
<1> QED
  BY <1>1, <1>3 DEF AckFrame

\* The record for which an answer is sent.
LEMMA AnswerIsRecorded ==
  ASSUME Typed', NEW n \in Node, NEW i \in RR, recvRec'[n][i].status # "unused"
  PROVE  /\ recvRec'[n][i].src # NoNode
         /\ \E m \in Message : /\ m = recvRec'[n][i].msg
                               /\ m.dst = n /\ m.src = recvRec'[n][i].src
                               /\ m.priority = recvRec'[n][i].priority
                               /\ \A t : t = recvRec'[n][i].transNum => InUse(m, t)'
<1>1. recvRec'[n][i] \in RecordsOf(n)
  BY TypedParts DEF RecordsTyped
<1>2. PICK m : m = recvRec'[n][i].msg
  OBVIOUS
<1>3. /\ recvRec'[n][i].src # NoNode /\ m \in Message /\ m.dst = n
      /\ m.src = recvRec'[n][i].src /\ m.priority = recvRec'[n][i].priority
  BY <1>1, <1>2, RecordFields
<1>4. ASSUME NEW t, t = recvRec'[n][i].transNum
      PROVE  InUse(m, t)'
  BY <1>2, <1>3, <1>4 DEF InUse, Recorded
<1> QED
  BY <1>2, <1>3, <1>4

LEMMA ToldFlows ==
  ASSUME Sound, Sound', Told, Telling
  PROVE  Told'
<1>1. Typed /\ Typed' /\ delivered \in [Message -> Nat]
  BY TypedParts DEF Sound, DeliveredTyped
<1>2. ResponsesTold'
  <2> SUFFICES ASSUME NEW f \in Frame, f.kind = "response", InFlight(f)'
               PROVE  delivered'[f.body] > 0
    BY DEF ResponsesTold
  <2>1. f.body \in Message /\ f.src \in Node
    BY FrameKinds
  <2>2. CASE InFlight(f)
    BY <2>1, <2>2 DEF Told, ResponsesTold, Telling, DeliveredGrows
  <2>3. CASE ~InFlight(f)
    <3>1. PICK i \in RR : /\ recvRec'[f.src][i].status # "unused"
                          /\ recvRec'[f.src][i].transNum = f.transNum
                          /\ recvRec'[f.src][i].transState = "responded"
                          /\ recvRec'[f.src][i].response = f.body
      BY <2>3 DEF Telling, AnswersFlow
    <3>2. recvRec'[f.src][i].src # NoNode
      BY <1>1, <2>1, <3>1, AnswerIsRecorded
    <3>3. recvRec'[f.src][i].msg = f.body
      BY <2>1, <3>1, <3>2 DEF Sound, RecordsTrue, RecordTrue
    <3> QED
      BY <2>1, <3>1, <3>3 DEF Telling, RecordsTold
  <2> QED
    BY <2>2, <2>3
<1>3. AcksTold'
  <2> SUFFICES ASSUME NEW m \in Message, NEW t \in 0 .. MaxTid, Sending(m, t)',
                      InFlight(AckFrame(m, t))'
               PROVE  delivered'[m] > 0
    BY DEF AcksTold
  <2> DEFINE f == AckFrame(m, t)
  <2>1. /\ f \in Frame /\ f.kind = "ack" /\ f.src = m.dst /\ f.dst = m.src
        /\ f.priority = m.priority /\ f.transNum = t
        /\ m.src \in Node /\ m.dst \in Node /\ m.priority \in Priority
    BY AckFrameIs
  <2>2. f = AckFrame(m, t)
    OBVIOUS
  <2> HIDE DEF f
  <2>3. CASE InFlight(f)
    <3>1. Sending(m, t)
      BY <2>1 DEF Telling, SendingFlow, Sending
    <3> QED
      BY <2>2, <2>3, <3>1 DEF Told, AcksTold, Telling, DeliveredGrows
  <2>4. CASE ~InFlight(f)
    <3>1. PICK i \in RR : /\ recvRec'[m.dst][i].status # "unused"
                          /\ recvRec'[m.dst][i].src = m.src
                          /\ recvRec'[m.dst][i].priority = m.priority
                          /\ recvRec'[m.dst][i].transNum = t
                          /\ recvRec'[m.dst][i].transState = "delivered"
      BY <2>1, <2>2, <2>4 DEF Telling, AnswersFlow
    <3>2. PICK o \in Message : /\ o = recvRec'[m.dst][i].msg
                               /\ o.dst = m.dst /\ o.src = recvRec'[m.dst][i].src
                               /\ o.priority = recvRec'[m.dst][i].priority
                               /\ \A u : u = recvRec'[m.dst][i].transNum => InUse(o, u)'
      BY <1>1, <2>1, <3>1, AnswerIsRecorded
    <3>3. o.src = m.src /\ o.priority = m.priority /\ InUse(o, t)'
      BY <3>1, <3>2
    <3>4. InUse(m, t)'
      BY DEF InUse
    <3>5. o = m
      BY <3>3, <3>4 DEF Sound, NumbersUnique
    <3> QED
      BY <2>1, <3>1, <3>2, <3>5 DEF Telling, RecordsTold
  <2> QED
    BY <2>3, <2>4
<1> QED
  BY <1>2, <1>3 DEF Told, Telling

\* What a step tells that leaves variables alone.
LEMMA ToldUnchanged ==
  ASSUME Sound, Typed', Told
  PROVE  /\ UNCHANGED delivered => DeliveredGrows
         /\ UNCHANGED <<recvRec, delivered>> => RecordsTold'
         /\ UNCHANGED nwOutQ /\ (\A o \in Node : Range(tsaInQ'[o]) \subseteq Range(tsaInQ[o])) =>
               AnswersFlow
         /\ UNCHANGED <<tsaOutQ, xmitRec>> => SendingFlow
         /\ UNCHANGED xmitRec => NoAcks'
         /\ (\A o \in Node : Range(appCeRspInQ'[o]) \subseteq Range(appCeRspInQ[o]))
               /\ DeliveredGrows => CompletionsTold'
         /\ \A G : FlightKept(G) /\ (\A g \in G : g.kind \notin {"ack", "response"}) => AnswersFlow
<1>1. \A G : FlightKept(G) /\ (\A g \in G : g.kind \notin {"ack", "response"}) => AnswersFlow
  BY DEF FlightKept, AnswersFlow
<1>2. UNCHANGED nwOutQ /\ (\A o \in Node : Range(tsaInQ'[o]) \subseteq Range(tsaInQ[o])) =>
               AnswersFlow
  BY <1>1, SoundUnchanged
<1>3. ASSUME \A o \in Node : Range(appCeRspInQ'[o]) \subseteq Range(appCeRspInQ[o]), DeliveredGrows
      PROVE  CompletionsTold'
  <2> SUFFICES ASSUME NEW n \in Node, NEW a \in Range(appCeRspInQ'[n]),
                      a.indication = "completion", a.success, Confirmed(a.msg)
               PROVE  delivered'[a.msg] > 0
    BY DEF CompletionsTold, CompletionTold
  <2>1. a \in Range(appCeRspInQ[n])
    BY <1>3
  <2>2. appCeRspInQ[n] \in Seq(EventsOf(n))
    BY TypedParts DEF Sound, EventTyped
  <2>3. a \in EventsOf(n)
    BY <2>1, <2>2, RangeType
  <2>4. a.msg \in Message
    BY <2>3 DEF EventsOf, Event
  <2> QED
    BY <1>3, <2>1, <2>4 DEF Told, CompletionsTold, CompletionTold, DeliveredGrows
<1>4. UNCHANGED <<recvRec, delivered>> => RecordsTold'
  BY DEF Told, RecordsTold
<1>5. UNCHANGED delivered => DeliveredGrows
  BY DEF DeliveredGrows
<1>6. UNCHANGED xmitRec => NoAcks'
  BY DEF Told, NoAcks
<1> QED
  BY <1>1, <1>2, <1>3, <1>4, <1>5, <1>6, FlowUnchanged DEF Sound

LEMMA RangeOfDropped ==
  ASSUME Typed, NEW n \in Node, tsaInQ[n] # <<>>, DropReceived(n)
  PROVE  \A o \in Node : Range(tsaInQ'[o]) \subseteq Range(tsaInQ[o])
BY DropTyped, TypedParts

\* An answer is sent for the record that is written.
LEMMA AnswerFlowsFrom ==
  ASSUME Sound, Typed', NEW n \in Node, NEW i \in RR, NEW d \in RecordsOf(n),
         recvRec' = [recvRec EXCEPT ![n][i] = d], SendAnswer(n, d),
         \A o \in Node : Range(tsaInQ'[o]) \subseteq Range(tsaInQ[o])
  PROVE  AnswersFlow
<1>1. Typed /\ NwTyped /\ RecordsTyped
  BY TypedParts DEF Sound
<1>2. recvRec'[n][i] = d
  BY <1>1, RecordTyped, ZenonT(40)
<1>3. ASSUME NEW kind \in {"ack", "response"}, NEW body, d.status # "unused",
             d.priority \in Priority,
             Send(n, FrameBack(n, d, kind, body)),
             FrameBack(n, d, kind, body) \in FramesOf(n, d.priority),
             kind = "ack" => d.transState = "delivered",
             kind = "response" => d.transState = "responded" /\ body = d.response
      PROVE  AnswersFlow
  <2>1. PICK g : g = FrameBack(n, d, kind, body)
    OBVIOUS
  <2>2. /\ g.kind = kind /\ g.src = n /\ g.dst = d.src /\ g.priority = d.priority
        /\ g.transNum = d.transNum /\ g.body = body
    BY <2>1 DEF FrameBack
  <2>3. \A o \in Node, q \in Priority : Range(nwOutQ'[o][q]) \subseteq Range(nwOutQ[o][q]) \cup {g}
    BY <1>1, <1>3, <2>1, SendTyped
  <2>4. \A o \in Node : \A f \in Range(tsaInQ'[o]) : f \in Range(tsaInQ[o]) \/ InFlight(f)
    OBVIOUS
  <2>5. FlightKept({g})
    BY <1>1, <2>3, <2>4, FlightIsKept
  <2> SUFFICES ASSUME NEW f \in Frame, f.kind \in {"ack", "response"}, InFlight(f)', ~InFlight(f)
               PROVE  \E k \in RR :
              /\ recvRec'[f.src][k].status # "unused"
              /\ recvRec'[f.src][k].src = f.dst /\ recvRec'[f.src][k].priority = f.priority
              /\ recvRec'[f.src][k].transNum = f.transNum
              /\ f.kind = "ack" => recvRec'[f.src][k].transState = "delivered"
              /\ f.kind = "response" => /\ recvRec'[f.src][k].transState = "responded"
                                        /\ recvRec'[f.src][k].response = f.body
    BY DEF AnswersFlow
  <2>6. f = g
    BY <2>5 DEF FlightKept
  <2> QED
    BY <1>2, <1>3, <2>2, <2>6
<1>4. CASE UNCHANGED nwOutQ
  <2>1. FlightKept({})
    BY <1>4, SoundUnchanged
  <2> QED
    BY <2>1 DEF FlightKept, AnswersFlow
<1> QED
  BY <1>1, <1>3, <1>4, SendAnswerTyped

\* A record that is written, and perhaps delivered.
LEMMA RecordTells ==
  ASSUME Typed, RecordsTold, NEW n \in Node, NEW i \in RR, NEW d \in RecordsOf(n),
         recvRec' = [recvRec EXCEPT ![n][i] = d], DeliveredGrows,
         d.transState \in {"delivered", "responded"} => delivered'[d.msg] > 0
  PROVE  RecordsTold'
<1>1. /\ recvRec'[n][i] = d
      /\ \A o \in Node, j \in RR : <<o, j>> # <<n, i>> => recvRec'[o][j] = recvRec[o][j]
  BY RecordTyped, TypedParts, ZenonT(40)
<1> SUFFICES ASSUME NEW o \in Node, NEW j \in RR,
                    recvRec'[o][j].transState \in {"delivered", "responded"}
             PROVE  delivered'[recvRec'[o][j].msg] > 0
  BY DEF RecordsTold
<1>2. CASE <<o, j>> = <<n, i>>
  BY <1>1, <1>2
<1>3. CASE <<o, j>> # <<n, i>>
  <2>1. recvRec'[o][j] = recvRec[o][j]
    BY <1>1, <1>3
  <2>2. recvRec[o][j] \in RecordsOf(o)
    BY TypedParts DEF RecordsTyped
  <2>3. recvRec[o][j].src # NoNode
    BY <2>1, <2>2, RecordFields DEF BlankRecord
  <2>4. recvRec[o][j].msg \in Message
    BY <2>2, <2>3, RecordFields
  <2> QED
    BY <2>1, <2>4 DEF RecordsTold, DeliveredGrows
<1> QED
  BY <1>2, <1>3

LEMMA DeliveryTells ==
  ASSUME Sound, Typed', Told, NEW n \in Node, NEW i \in RR, NEW rr \in WideRecords(n),
         NEW d \in RecordsOf(n), recvRec' = [recvRec EXCEPT ![n][i] = d],
         DeliveredAs(n, rr, d), Len(appInQ[n]) < Cnt.appIn - 1,
         rr.transState \in {"delivered", "responded"} => delivered[rr.msg] > 0,
         \A o \in Node : Range(tsaInQ'[o]) \subseteq Range(tsaInQ[o])
  PROVE  DeliveredGrows /\ RecordsTold' /\ AnswersFlow
<1>1. Typed /\ AppTyped /\ delivered \in [Message -> Nat] /\ DeliveredTyped
  BY TypedParts DEF Sound, DeliveredTyped
<1>2. rr.msg \in Message
  BY DEF WideRecords
<1>3. \/ /\ rr.transState \notin Handled /\ DeliveredRecord(rr).transState = "delivered"
         /\ delivered' = [delivered EXCEPT ![rr.msg] = @ + 1]
      \/ /\ rr.transState \in Handled \/ DeliveredRecord(rr).transState # "delivered"
         /\ UNCHANGED delivered
  BY <1>1, DeliverTyped DEF DeliveredAs
<1>4. DeliveredGrows
  BY <1>1, <1>2, <1>3 DEF DeliveredGrows
<1>5. d.transState \in {"delivered", "responded"} => delivered'[d.msg] > 0
  <2>1. /\ d.msg = rr.msg
        /\ d.transState = "responded" => rr.transState = "responded"
        /\ d.transState = "delivered" =>
              \/ rr.transState = "delivered"
              \/ rr.transState \notin Handled /\ DeliveredRecord(rr).transState = "delivered"
    BY DEF DeliveredAs, SameRecord
  <2> QED
    BY <1>1, <1>2, <1>3, <1>4, <2>1 DEF DeliveredGrows
<1>6. AnswersFlow
  BY AnswerFlowsFrom DEF DeliveredAs
<1> QED
  BY <1>1, <1>4, <1>5, <1>6, RecordTells DEF Told

\* A completion event, of a message that was delivered if it is a confirmed success.
LEMMA CompletionTells ==
  ASSUME Sound, Typed', Told, NEW n \in Node, NEW p \in Priority, tsaOutQ[n][p] # <<>>,
         NEW q \in Seq(EventsOf(n)), NEW success \in BOOLEAN,
         appCeRspInQ'[n] = Put(q, Completion(Head(tsaOutQ[n][p]), success), Cnt.appCeRsp),
         \A o \in Node : o # n => appCeRspInQ'[o] = appCeRspInQ[o],
         \A a \in Range(q) : a \in Range(appCeRspInQ[n]) \/ a.indication = "message",
         success /\ Confirmed(Head(tsaOutQ[n][p])) => delivered[Head(tsaOutQ[n][p])] > 0,
         UNCHANGED delivered
  PROVE  CompletionsTold'
<1>1. PICK e : e = Completion(Head(tsaOutQ[n][p]), success)
  OBVIOUS
<1>2. e.indication = "completion" /\ e.msg = Head(tsaOutQ[n][p]) /\ e.success = success
  BY <1>1 DEF Completion
<1>3. e \in EventsOf(n)
  <2>1. e.msg \in Message /\ e.msg.src = n
    BY <1>2, HeadMessage, TypedParts DEF Sound
  <2> QED
    BY <1>1, <1>2, <2>1 DEF Completion, EventsOf, Event
<1>4. Range(appCeRspInQ'[n]) \subseteq Range(q) \cup {e}
  BY <1>1, <1>3, PutProperties, Counts
<1> SUFFICES ASSUME NEW o \in Node, NEW a \in Range(appCeRspInQ'[o]),
                    a.indication = "completion", a.success, Confirmed(a.msg)
             PROVE  delivered[a.msg] > 0
  BY DEF CompletionsTold, CompletionTold
<1>5. CASE a \in Range(appCeRspInQ[o])
  BY <1>5 DEF Told, CompletionsTold, CompletionTold
<1>6. CASE a \notin Range(appCeRspInQ[o])
  <2>1. o = n /\ a = e
    BY <1>4, <1>6
  <2> QED
    BY <1>2, <2>1
<1> QED
  BY <1>5, <1>6

LEMMA EndedTells ==
  ASSUME Sound, Typed', Told, NEW n \in Node, NEW p \in Priority, NEW q, NEW success,
         EndedAs(n, p, q, success),
         \A a \in Range(q) : a \in Range(appCeRspInQ[n]) \/ a.indication = "message",
         success /\ Confirmed(Head(tsaOutQ[n][p])) => delivered[Head(tsaOutQ[n][p])] > 0,
         UNCHANGED <<recvRec, nwOutQ, delivered>>, SendingFlow,
         \A o \in Node : Range(tsaInQ'[o]) \subseteq Range(tsaInQ[o])
  PROVE  Telling
<1>1. DeliveredGrows /\ RecordsTold' /\ AnswersFlow
  BY ToldUnchanged
<1>2. CompletionsTold'
  BY CompletionTells DEF EndedAs
<1>3. /\ xmitRec'[n][p].status = "unused"
      /\ \A o \in Node, r \in Priority : <<o, r>> # <<n, p>> => xmitRec'[o][r] = xmitRec[o][r]
  BY DEF EndedAs
<1>4. NoAcks'
  BY <1>3 DEF Told, NoAcks
<1> QED
  BY <1>1, <1>2, <1>4 DEF Telling

LEMMA GiveUpTells ==
  ASSUME Sound, Told, NEW n \in Node, NEW p \in Priority, GiveUp(n, p)
  PROVE  Telling
<1> DEFINE success == Head(tsaOutQ[n][p]).service = "unack_rpt" \/ xmitRec[n][p].ackCount = 1
<1>1. /\ Typed' /\ EndedAs(n, p, appCeRspInQ[n], success)
      /\ UNCHANGED <<recvRec, tsaInQ, nwOutQ, delivered>>
  BY GiveUpTyped DEF Sound, recvVars
<1>2. xmitRec[n][p].ackCount = 0
  BY <1>1 DEF Told, NoAcks, EndedAs
<1>3. ~(success /\ Confirmed(Head(tsaOutQ[n][p])))
  BY <1>2 DEF Confirmed
<1> HIDE DEF success
<1>4. SendingFlow
  BY CompletionFlows DEF Sound, Flow
<1> QED
  BY <1>1, <1>3, <1>4, EndedTells

LEMMA CompleteAtOnceTells ==
  ASSUME Sound, Told, NEW n \in Node, NEW p \in Priority, NEW layer \in {"transport", "session"},
         CompleteAtOnce(n, p, layer)
  PROVE  Telling
<1> DEFINE m == Head(tsaOutQ[n][p])
           success == m.check = "lastTag"
<1>1. /\ Typed' /\ tsaOutQ[n][p] # <<>> /\ m.check # "ok"
      /\ appCeRspInQ'[n] = Put(appCeRspInQ[n], Completion(m, success), Cnt.appCeRsp)
      /\ \A o \in Node : o # n => appCeRspInQ'[o] = appCeRspInQ[o]
      /\ UNCHANGED <<xmitRec, recvRec, tsaInQ, nwOutQ, delivered>>
  BY CompleteAtOnceTyped DEF Sound, recvVars
<1>2. success \in BOOLEAN /\ ~Confirmed(m)
  BY <1>1 DEF Confirmed
<1> HIDE DEF success
<1>3. appCeRspInQ[n] \in Seq(EventsOf(n))
  BY TypedParts DEF Sound, EventTyped
<1>4. CompletionsTold'
  BY <1>1, <1>2, <1>3, CompletionTells
<1>5. SendingFlow
  BY CompletionFlows DEF Sound, Flow
<1>6. DeliveredGrows /\ RecordsTold' /\ AnswersFlow /\ NoAcks'
  BY <1>1, ToldUnchanged
<1> QED
  BY <1>4, <1>5, <1>6 DEF Telling

\* The message that an acknowledgement or a response belongs to.
LEMMA CurrentIsSending ==
  ASSUME Typed, NEW n \in Node, NEW f \in Frame, f \in Range(tsaInQ[n]), f.dst = n,
         NEW layer \in {"transport", "session"}, Current(n, f, layer)
  PROVE  LET m == Head(tsaOutQ[n][f.priority])
         IN  /\ tsaOutQ[n][f.priority] # <<>> /\ m \in Message /\ m.src = n
             /\ m.priority = f.priority /\ m.dst = f.src
             /\ Sending(m, f.transNum) /\ InFlight(f)
<1> DEFINE p == f.priority
<1>1. p \in Priority
  BY FrameKinds
<1>2. /\ xmitRec[n][p].status = layer /\ layer # "unused" /\ xmitRec[n][p].transNum = f.transNum
      /\ Head(tsaOutQ[n][p]).dst = f.src
  BY DEF Current
<1>3. tsaOutQ[n][p] # <<>>
  BY <1>1, <1>2, TypedNow DEF InProgress
<1>4. /\ Head(tsaOutQ[n][p]) \in Message /\ Head(tsaOutQ[n][p]).src = n
      /\ Head(tsaOutQ[n][p]).priority = p
  BY <1>1, <1>3, HeadMessage, TypedNow
<1>5. InFlight(f)
  BY InFlightIs
<1> QED
  BY <1>2, <1>3, <1>4, <1>5 DEF Sending

LEMMA TPReceiveAckTells ==
  ASSUME Sound, Told, NEW n \in Node, TPReceiveAck(n)
  PROVE  Telling
<1> DEFINE f == Head(tsaInQ[n])
           p == f.priority
           m == Head(tsaOutQ[n][p])
<1>1. /\ Typed' /\ tsaInQ[n] # <<>> /\ DropReceived(n)
      /\ f \in FramesTo(n) /\ f \in Frame /\ f \in Range(tsaInQ[n])
      /\ f.kind = "ack" /\ p \in Priority /\ Current(n, f, "transport")
      /\ \E success \in BOOLEAN : EndedAs(n, p, appCeRspInQ[n], success)
      /\ UNCHANGED <<recvRec, nwOutQ, delivered>>
  BY TPReceiveAckTyped DEF Sound, recvVars
<1>2. f.dst = n /\ f.transNum \in 0 .. MaxTid
  BY <1>1, FrameKinds DEF FramesTo
<1>3. f.body = NoMsg /\ f = [kind |-> "ack", src |-> f.src, dst |-> f.dst, priority |-> p,
                             transNum |-> f.transNum, body |-> NoMsg]
  <2>1. f \in Answer("ack", {NoMsg})
    <3>1. f.kind \notin Service /\ "ack" # "response" /\ "ack" # "challenge" /\ "ack" # "reply"
      BY <1>1 DEF Service
    <3>2. \A o \in Message : o.service \in Service
      BY TsaAssumption
    <3> QED
      BY <1>1, <3>1, <3>2 DEF Frame, Answer, MessageFrame
  <2> QED
    BY <2>1 DEF Answer
<1>4. /\ m \in Message /\ m.src = n /\ m.priority = p /\ m.dst = f.src
      /\ Sending(m, f.transNum) /\ InFlight(f)
  BY <1>1, <1>2, CurrentIsSending DEF Sound
<1>5. f = AckFrame(m, f.transNum)
  BY <1>2, <1>3, <1>4 DEF AckFrame
<1>6. delivered[m] > 0
  BY <1>2, <1>4, <1>5 DEF Told, AcksTold
<1>7. SendingFlow
  BY AnswerFlows DEF Sound, Flow
<1>8. \A o \in Node : Range(tsaInQ'[o]) \subseteq Range(tsaInQ[o])
  BY <1>1, RangeOfDropped DEF Sound
<1> QED
  BY <1>1, <1>6, <1>7, <1>8, EndedTells

LEMMA SNReceiveResponseTells ==
  ASSUME Sound, Told, NEW n \in Node, SNReceiveResponse(n)
  PROVE  Telling
<1> DEFINE f == Head(tsaInQ[n])
           p == f.priority
           m == Head(tsaOutQ[n][p])
           e == ResponseTo(m, f.body)
<1>1. /\ Typed' /\ tsaInQ[n] # <<>> /\ DropReceived(n)
      /\ f \in FramesTo(n) /\ f \in Frame /\ f \in Range(tsaInQ[n])
      /\ f.kind = "response" /\ p \in Priority /\ Current(n, f, "session") /\ e \in EventsOf(n)
      /\ \E success \in BOOLEAN : EndedAs(n, p, Put(appCeRspInQ[n], e, Cnt.appCeRsp), success)
      /\ UNCHANGED <<recvRec, nwOutQ, delivered>>
  BY SNReceiveResponseTyped DEF Sound, recvVars
<1>2. f.dst = n /\ f.transNum \in 0 .. MaxTid /\ f.body \in Message
  BY <1>1, FrameKinds DEF FramesTo
<1>3. /\ m \in Message /\ m.src = n /\ m.priority = p /\ m.dst = f.src
      /\ Sending(m, f.transNum) /\ InFlight(f)
  BY <1>1, <1>2, CurrentIsSending DEF Sound
<1>4. f = ResponseFrame(f.body, f.transNum)
  BY <1>1, <1>3 DEF Sound, ResponsesTrue
<1>5. f.body.src = n /\ f.body.priority = p
  BY <1>2, <1>4, FramesOfUse
<1>6. InUse(f.body, f.transNum) /\ InUse(m, f.transNum)
  BY <1>3, <1>4 DEF InUse
<1>7. f.body = m
  BY <1>2, <1>3, <1>5, <1>6 DEF Sound, NumbersUnique
<1>8. delivered[m] > 0
  BY <1>1, <1>3, <1>7 DEF Told, ResponsesTold
<1>9. \A a \in Range(Put(appCeRspInQ[n], e, Cnt.appCeRsp)) :
          a \in Range(appCeRspInQ[n]) \/ a.indication = "message"
  <2>1. appCeRspInQ[n] \in Seq(EventsOf(n))
    BY TypedParts DEF Sound, EventTyped
  <2>2. e.indication = "message"
    BY DEF ResponseTo
  <2> HIDE DEF e
  <2>3. Range(Put(appCeRspInQ[n], e, Cnt.appCeRsp)) \subseteq Range(appCeRspInQ[n]) \cup {e}
    BY <1>1, <2>1, PutProperties, Counts
  <2> QED
    BY <2>2, <2>3
<1>10. SendingFlow
  BY AnswerFlows DEF Sound, Flow
<1>11. \A o \in Node : Range(tsaInQ'[o]) \subseteq Range(tsaInQ[o])
  BY <1>1, RangeOfDropped DEF Sound
<1> HIDE DEF e, f
<1> QED
  BY <1>1, <1>8, <1>9, <1>10, <1>11, EndedTells

LEMMA QuietTells ==
  ASSUME Sound, Typed', Told, UNCHANGED <<recvRec, nwOutQ, delivered, xmitRec>>, SendingFlow,
         \A o \in Node : Range(tsaInQ'[o]) \subseteq Range(tsaInQ[o]),
         \A o \in Node : Range(appCeRspInQ'[o]) \subseteq Range(appCeRspInQ[o])
  PROVE  Telling
BY ToldUnchanged DEF Telling

LEMMA SubmitTells ==
  ASSUME Sound, Told, NEW m \in Message, Submit(m)
  PROVE  Telling
<1>1. Typed' /\ UNCHANGED <<recvRec, nwOutQ, delivered, xmitRec, tsaInQ, appCeRspInQ>>
  BY SubmitTyped DEF Sound, Submit, recvVars, appVars
<1>2. SendingFlow
  BY SubmitFlows DEF Sound, Flow
<1> QED
  BY <1>1, <1>2, QuietTells

LEMMA DroppedTells ==
  ASSUME Sound, Told, NEW n \in Node,
         \/ \E layer \in {"transport", "session"} : ReceiveRefused(n, layer)
         \/ IgnoreStale(n) \/ IgnoreReply(n)
  PROVE  Telling
<1>1. /\ Typed' /\ tsaInQ[n] # <<>> /\ DropReceived(n)
      /\ UNCHANGED <<recvRec, nwOutQ, delivered, xmitRec, appCeRspInQ, tsaOutQ>>
  BY IgnoredTyped DEF Sound, sendVars, recvVars, appVars
<1>2. SendingFlow
  BY <1>1, FlowUnchanged DEF Sound
<1>3. \A o \in Node : Range(tsaInQ'[o]) \subseteq Range(tsaInQ[o])
  BY <1>1, RangeOfDropped DEF Sound
<1> QED
  BY <1>1, <1>2, <1>3, QuietTells

LEMMA ApplicationTells ==
  ASSUME Sound, Told, NEW n \in Node, AppMsgReceive(n) \/ AppRspReceive(n) \/ RestartOver(n)
  PROVE  Telling
<1>1. /\ Typed' /\ UNCHANGED <<recvRec, nwOutQ, delivered, xmitRec, tsaInQ, tsaOutQ>>
      /\ \A o \in Node : Range(appCeRspInQ'[o]) \subseteq Range(appCeRspInQ[o])
  <2>1. CASE AppMsgReceive(n)
    BY <2>1, AppMsgReceiveTyped DEF Sound, sendVars, recvVars
  <2>2. CASE AppRspReceive(n)
    BY <2>2, AppRspReceiveTyped DEF Sound, sendVars, recvVars
  <2>3. CASE RestartOver(n)
    BY <2>3, RestartOverTyped DEF Sound, recvVars, appVars
  <2> QED
    BY <2>1, <2>2, <2>3
<1>2. SendingFlow
  BY <1>1, FlowUnchanged DEF Sound
<1> QED
  BY <1>1, <1>2, QuietTells

LEMMA LoseTells ==
  ASSUME Sound, Told, NEW n \in Node, NEW p \in Priority,
         Lose(n, p) \/ \E again \in BOOLEAN : Arrive(n, p, again)
  PROVE  Telling
<1> DEFINE f == Head(nwOutQ[n][p])
<1>1. /\ Typed' /\ nwOutQ[n][p] # <<>>
      /\ f \in FramesOf(n, p) /\ f \in Frame /\ f \in Range(nwOutQ[n][p])
      /\ UNCHANGED tsaInQ \/ tsaInQ' = [tsaInQ EXCEPT ![f.dst] = Put(@, f, Cnt.tsaIn)]
      /\ UNCHANGED nwOutQ \/ nwOutQ' = [nwOutQ EXCEPT ![n][p] = Tail(@)]
      /\ UNCHANGED <<tsaOutQ, xmitRec, recvRec, appCeRspInQ, delivered>>
  BY ChannelTyped DEF Sound, sendVars, recvVars, appVars
<1>2. InFlight(f)
  BY <1>1, InFlightIs DEF Sound, FramesOf
<1> HIDE DEF f
<1>3. \A o \in Node, q \in Priority : Range(nwOutQ'[o][q]) \subseteq Range(nwOutQ[o][q]) \cup {}
  BY <1>1, LeaveTyped, TypedParts DEF Sound
<1>4. \A o \in Node : \A g \in Range(tsaInQ'[o]) : g \in Range(tsaInQ[o]) \/ InFlight(g)
  BY <1>1, <1>2, ArriveTyped, TypedParts DEF Sound
<1>5. FlightKept({})
  BY <1>1, <1>3, <1>4, FlightIsKept DEF Sound
<1>6. AnswersFlow
  BY <1>5 DEF FlightKept, AnswersFlow
<1>7. DeliveredGrows /\ RecordsTold' /\ NoAcks' /\ CompletionsTold' /\ SendingFlow
  BY <1>1, ToldUnchanged
<1> QED
  BY <1>6, <1>7 DEF Telling

LEMMA SendReplyToChallengeTells ==
  ASSUME Sound, Told, NEW n \in Node, SendReplyToChallenge(n)
  PROVE  Telling
<1>1. /\ Typed' /\ tsaInQ[n] # <<>> /\ DropReceived(n)
      /\ \/ UNCHANGED nwOutQ
         \/ \E g, p : p \in Priority /\ g \in FramesOf(n, p) /\ g.kind = "reply" /\ Send(n, g)
      /\ UNCHANGED <<tsaOutQ, xmitRec, recvRec, appCeRspInQ, delivered>>
  BY SendReplyToChallengeTyped DEF Sound, sendVars, recvVars, appVars
<1>2. \A o \in Node : Range(tsaInQ'[o]) \subseteq Range(tsaInQ[o])
  BY <1>1, RangeOfDropped DEF Sound
<1>3. AnswersFlow
  <2>1. CASE UNCHANGED nwOutQ
    BY <1>1, <1>2, <2>1, ToldUnchanged
  <2>2. ASSUME NEW g, NEW p \in Priority, g \in FramesOf(n, p), g.kind = "reply", Send(n, g)
        PROVE  AnswersFlow
    <3>1. \A o \in Node, q \in Priority : Range(nwOutQ'[o][q]) \subseteq Range(nwOutQ[o][q]) \cup {g}
      BY <2>2, SendTyped, TypedParts DEF Sound
    <3>2. \A o \in Node : \A h \in Range(tsaInQ'[o]) : h \in Range(tsaInQ[o]) \/ InFlight(h)
      BY <1>2
    <3>3. FlightKept({g})
      BY <1>1, <3>1, <3>2, FlightIsKept DEF Sound
    <3> QED
      BY <2>2, <3>3 DEF FlightKept, AnswersFlow
  <2> QED
    BY <1>1, <2>1, <2>2
<1>4. DeliveredGrows /\ RecordsTold' /\ NoAcks' /\ CompletionsTold' /\ SendingFlow
  BY <1>1, ToldUnchanged
<1> QED
  BY <1>3, <1>4 DEF Telling

LEMMA RetryTells ==
  ASSUME Sound, Told, NEW n \in Node, NEW p \in Priority, Retry(n, p)
  PROVE  Telling
<1> DEFINE g == MessageFrame(Head(tsaOutQ[n][p]), xmitRec[n][p].transNum)
<1>1. /\ Typed'
      /\ \A o \in Node, r \in Priority :
            /\ xmitRec'[o][r].status = xmitRec[o][r].status
            /\ xmitRec'[o][r].transNum = xmitRec[o][r].transNum
            /\ xmitRec'[o][r].ackCount = xmitRec[o][r].ackCount
      /\ Send(n, g) /\ g \in FramesOf(n, p)
      /\ UNCHANGED <<tsaOutQ, recvRec, tsaInQ, appCeRspInQ, delivered>>
  BY RetryTyped DEF Sound, recvVars, appVars
<1>2. g.kind \in Service
  <2>1. /\ xmitRec[n][p].status # "unused"
    BY RetryTyped DEF Sound
  <2>2. tsaOutQ[n][p] # <<>>
    BY <2>1, TypedNow DEF Sound, InProgress
  <2>3. Head(tsaOutQ[n][p]) \in Message
    BY <2>2, HeadMessage, TypedNow DEF Sound
  <2> QED
    BY <2>3, TsaAssumption DEF MessageFrame
<1> HIDE DEF g
<1>3. \A o \in Node, q \in Priority : Range(nwOutQ'[o][q]) \subseteq Range(nwOutQ[o][q]) \cup {g}
  BY <1>1, SendTyped, TypedParts DEF Sound
<1>4. FlightKept({g})
  BY <1>1, <1>3, FlightIsKept DEF Sound
<1>5. AnswersFlow
  BY <1>2, <1>4 DEF FlightKept, AnswersFlow, Service
<1>6. DeliveredGrows /\ RecordsTold' /\ CompletionsTold'
  BY <1>1, ToldUnchanged
<1>7. SendingFlow
  BY <1>1 DEF SendingFlow
<1>8. NoAcks'
  BY <1>1 DEF Told, NoAcks
<1> QED
  BY <1>5, <1>6, <1>7, <1>8 DEF Telling

LEMMA SendNewMsgTold ==
  ASSUME Sound, Told, AcksAreFresh, NEW n \in Node, NEW p \in Priority,
         NEW layer \in {"transport", "session"}, SendNewMsg(n, p, layer)
  PROVE  Told'
<1>1. PICK m, t : Typed' /\ SentAs(n, p, layer, m, t)
  BY SendNewMsgTyped DEF Sound
<1>2. /\ restart[n] = "over" /\ xmitRec[n][p].status = "unused" /\ tsaOutQ[n][p] # <<>>
      /\ m = Head(tsaOutQ[n][p]) /\ m \in Message /\ m.src = n /\ m.priority = p
      /\ t = NewTid(n, p, m.dst) /\ t \in 0 .. MaxTid
      /\ xmitRec'[n][p].transNum = t /\ xmitRec'[n][p].ackCount = 0
      /\ \A o \in Node, r \in Priority : <<o, r>> # <<n, p>> => xmitRec'[o][r] = xmitRec[o][r]
      /\ UNCHANGED <<tsaOutQ, recvRec, appCeRspInQ, delivered>>
  BY <1>1 DEF SentAs, recvVars, appVars
<1>3. FlightKept({MessageFrame(m, t)})
  BY <1>1, UseAfterSending
<1>4. MessageFrame(m, t).kind \in Service
  BY <1>2, FramesOfUse
<1>5. \A f \in Frame : f.kind \in {"ack", "response"} /\ InFlight(f)' => InFlight(f)
  BY <1>3, <1>4 DEF FlightKept, Service
<1>6. RecordsTold' /\ CompletionsTold' /\ ResponsesTold'
  <2>1. RecordsTold' /\ CompletionsTold'
    BY <1>1, <1>2, ToldUnchanged
  <2>2. ResponsesTold'
    BY <1>2, <1>5 DEF Told, ResponsesTold
  <2> QED
    BY <2>1, <2>2
<1>7. NoAcks'
  BY <1>2 DEF Told, NoAcks
<1>8. AcksTold'
  <2> SUFFICES ASSUME NEW o \in Message, NEW u \in 0 .. MaxTid, Sending(o, u)',
                      InFlight(AckFrame(o, u))'
               PROVE  delivered[o] > 0
    BY <1>2 DEF AcksTold
  <2>1. InFlight(AckFrame(o, u)) /\ o.src \in Node /\ o.priority \in Priority
    BY <1>5, AckFrameIs
  <2>2. CASE o.src = n /\ o.priority = p
    <3>1. o = m /\ u = t
      BY <1>2, <2>2 DEF Sending
    <3>2. ~InFlight(AckFrame(m, t))
      BY <1>2 DEF AcksAreFresh, Waiting, MessagesOf
    <3> QED
      BY <2>1, <3>1, <3>2
  <2>3. CASE ~(o.src = n /\ o.priority = p)
    <3>1. Sending(o, u)
      BY <1>2, <2>1, <2>3 DEF Sending
    <3> QED
      BY <2>1, <3>1 DEF Told, AcksTold
  <2> QED
    BY <2>2, <2>3
<1> QED
  BY <1>6, <1>7, <1>8 DEF Told

LEMMA SendResponseTells ==
  ASSUME Sound, Told, NEW n \in Node, SendResponse(n)
  PROVE  Telling
<1>1. /\ UNCHANGED <<sendVars, tsaInQ, appCeRspInQ, delivered>>
      /\ \/ UNCHANGED <<recvRec, nwOutQ>>
         \/ \E i, d : RespondedAs(n, Head(tsaRespQ[n]), i, d)
  BY Responds DEF Sound, Typed
<1>2. Typed'
  BY SendResponseTyped DEF Sound
<1>3. DeliveredGrows /\ NoAcks' /\ CompletionsTold' /\ SendingFlow
  BY <1>1, <1>2, ToldUnchanged DEF sendVars
<1>4. CASE UNCHANGED <<recvRec, nwOutQ>>
  BY <1>1, <1>2, <1>3, <1>4, ToldUnchanged DEF Telling
<1>5. ASSUME NEW i, NEW d, RespondedAs(n, Head(tsaRespQ[n]), i, d)
      PROVE  Telling
  <2>1. /\ i \in RR /\ d \in RecordsOf(n) /\ recvRec[n][i].transState = "delivered"
        /\ d.msg = recvRec[n][i].msg
        /\ recvRec' = [recvRec EXCEPT ![n][i] = d] /\ SendAnswer(n, d)
    BY <1>5 DEF RespondedAs
  <2>2. delivered'[d.msg] > 0
    BY <1>1, <2>1 DEF Told, RecordsTold
  <2>3. RecordsTold'
    BY <1>3, <2>1, <2>2, RecordTells DEF Sound, Told
  <2>4. AnswersFlow
    BY <1>1, <1>2, <2>1, AnswerFlowsFrom
  <2> QED
    BY <1>3, <2>3, <2>4 DEF Telling
<1> QED
  BY <1>1, <1>4, <1>5

LEMMA ReceiveTimerTells ==
  ASSUME Sound, Told, NEW n \in Node, NEW i \in RR, ReceiveTimerExpired(n, i)
  PROVE  Telling
<1>1. /\ Typed' /\ UNCHANGED <<sendVars, tsaInQ, nwOutQ, appCeRspInQ, delivered>>
      /\ \E d : /\ d \in RecordsOf(n) /\ d.msg = recvRec[n][i].msg
                /\ d.transState = recvRec[n][i].transState
                /\ recvRec' = [recvRec EXCEPT ![n][i] = d]
  BY ReceiveTimerTyped DEF Sound, appVars
<1>2. DeliveredGrows /\ AnswersFlow /\ NoAcks' /\ CompletionsTold' /\ SendingFlow
  BY <1>1, ToldUnchanged DEF sendVars
<1>3. PICK d : /\ d \in RecordsOf(n) /\ d.msg = recvRec[n][i].msg
               /\ d.transState = recvRec[n][i].transState
               /\ recvRec' = [recvRec EXCEPT ![n][i] = d]
  BY <1>1
<1>4. d.transState \in {"delivered", "responded"} => delivered'[d.msg] > 0
  BY <1>1, <1>3 DEF Told, RecordsTold
<1>5. RecordsTold'
  BY <1>2, <1>3, <1>4, RecordTells DEF Sound, Told
<1> QED
  BY <1>2, <1>5 DEF Telling

LEMMA ResetTells ==
  ASSUME Sound, Told, NEW n \in Node, NEW kind \in ResetKinds, Reset(n, kind)
  PROVE  Telling
<1>1. Typed' /\ ResetAs(n, kind)
  BY ResetTyped DEF Sound
<1>2. /\ UNCHANGED delivered
      /\ nwOutQ' \in [Node -> [Priority -> Seq(Frame)]]
      /\ \A p \in Priority : xmitRec'[n][p].status = "unused" /\ nwOutQ'[n][p] = <<>>
      /\ \A i \in RR : recvRec'[n][i] = BlankRecord
      /\ tsaInQ'[n] = <<>> /\ appCeRspInQ'[n] = <<>>
      /\ \A o \in Node : o # n =>
            /\ nwOutQ'[o] = nwOutQ[o] /\ xmitRec'[o] = xmitRec[o] /\ recvRec'[o] = recvRec[o]
            /\ tsaInQ'[o] = tsaInQ[o] /\ appCeRspInQ'[o] = appCeRspInQ[o]
  BY <1>1, TypedParts DEF ResetAs, NwTyped
<1>3. Range(<<>>) = {}
  BY EmptyQueue
<1>4. /\ \A o \in Node : Range(tsaInQ'[o]) \subseteq Range(tsaInQ[o])
      /\ \A o \in Node : Range(appCeRspInQ'[o]) \subseteq Range(appCeRspInQ[o])
      /\ \A o \in Node, q \in Priority : Range(nwOutQ'[o][q]) \subseteq Range(nwOutQ[o][q]) \cup {}
  BY <1>2, <1>3
<1>5. AnswersFlow
  <2>1. \A o \in Node : \A g \in Range(tsaInQ'[o]) : g \in Range(tsaInQ[o]) \/ InFlight(g)
    BY <1>4
  <2>2. FlightKept({})
    BY <1>1, <1>4, <2>1, FlightIsKept DEF Sound
  <2> QED
    BY <2>2 DEF FlightKept, AnswersFlow
<1>6. DeliveredGrows /\ CompletionsTold'
  BY <1>1, <1>2, <1>4, ToldUnchanged
<1>7. RecordsTold'
  <2>1. BlankRecord.transState = "done"
    BY DEF BlankRecord
  <2> QED
    BY <1>2, <2>1 DEF Told, RecordsTold
<1>8. NoAcks'
  <2> SUFFICES ASSUME NEW o \in Node, NEW p \in Priority, xmitRec'[o][p].status # "unused"
               PROVE  xmitRec'[o][p].ackCount = 0
    BY DEF NoAcks
  <2>1. o # n
    BY <1>2
  <2>2. xmitRec'[o] = xmitRec[o]
    BY <1>2, <2>1
  <2> QED
    BY <2>2 DEF Told, NoAcks
<1>9. SendingFlow
  BY ResetFlows DEF Sound, Flow
<1> QED
  BY <1>5, <1>6, <1>7, <1>8, <1>9 DEF Telling

LEMMA ProcessReplyTells ==
  ASSUME Sound, Told, RoomToDeliver, NEW n \in Node, ProcessReply(n)
  PROVE  Telling
<1>1. PICK f, i, rr, d : RepliedAs(n, f, i, rr, d)
  BY Replies DEF Sound, Typed
<1>2. Typed'
  BY <1>1, RepliedTyped DEF Sound
<1>3. /\ tsaInQ[n] # <<>> /\ DropReceived(n) /\ i \in RR
      /\ rr \in WideRecords(n) /\ rr.transState = "authenticated" /\ d \in RecordsOf(n)
      /\ recvRec' = [recvRec EXCEPT ![n][i] = d] /\ DeliveredAs(n, rr, d)
      /\ UNCHANGED <<sendVars, appCeRspInQ>>
  BY <1>1 DEF RepliedAs
<1>4. \A o \in Node : Range(tsaInQ'[o]) \subseteq Range(tsaInQ[o])
  BY <1>3, RangeOfDropped DEF Sound
<1>5. Len(appInQ[n]) < Cnt.appIn - 1
  BY <1>1, <1>3 DEF RoomToDeliver, RepliedAs, FrameOf
<1>6. DeliveredGrows /\ RecordsTold' /\ AnswersFlow
  BY <1>2, <1>3, <1>4, <1>5, DeliveryTells
<1>7. SendingFlow /\ NoAcks' /\ CompletionsTold'
  BY <1>2, <1>3, <1>6, ToldUnchanged DEF sendVars
<1> QED
  BY <1>6, <1>7 DEF Telling

LEMMA ReceiveNewMsgTells ==
  ASSUME Sound, Told, RoomToDeliver, NEW n \in Node, NEW layer \in {"transport", "session"},
         ReceiveNewMsg(n, layer)
  PROVE  Telling
<1>1. PICK f, i, rr, d : HeardAs(n, layer, f, i, rr, d)
  BY Hears DEF Sound, Typed
<1>2. Typed'
  BY <1>1, HeardTyped DEF Sound
<1>3. /\ tsaInQ[n] # <<>> /\ DropReceived(n) /\ i \in RR
      /\ rr \in WideRecords(n) /\ d \in RecordsOf(n)
      /\ recvRec' = [recvRec EXCEPT ![n][i] = d]
      /\ Known(n, i, f, layer) =>
            SameRecord(rr, recvRec[n][i]) /\ rr.transState = recvRec[n][i].transState
      /\ ~Known(n, i, f, layer) => rr.transState = "just_received"
      /\ UNCHANGED <<sendVars, appCeRspInQ>>
  BY <1>1 DEF HeardAs
<1>4. \A o \in Node : Range(tsaInQ'[o]) \subseteq Range(tsaInQ[o])
  BY <1>3, RangeOfDropped DEF Sound
<1>5. Len(appInQ[n]) < Cnt.appIn - 1
  BY <1>1, <1>3 DEF RoomToDeliver, HeardAs, FrameOf, MessageKinds, Service
<1>6. rr.transState \in {"delivered", "responded"} => delivered[rr.msg] > 0
  BY <1>3 DEF Told, RecordsTold, SameRecord
<1>7. DeliveredGrows /\ RecordsTold' /\ AnswersFlow
  <2>1. CASE DeliveredAs(n, rr, d)
    BY <1>2, <1>3, <1>4, <1>5, <1>6, <2>1, DeliveryTells
  <2>2. CASE ~DeliveredAs(n, rr, d)
    <3>1. /\ d.transState = "authenticating" /\ UNCHANGED delivered
          /\ \E r \in Nonce : /\ Send(n, FrameBack(n, rr, "challenge", r))
                              /\ FrameBack(n, rr, "challenge", r) \in FramesOf(n, rr.priority)
      BY <1>1, <2>2 DEF HeardAs
    <3>2. PICK g : /\ g.kind = "challenge" /\ Send(n, g) /\ g \in FramesOf(n, rr.priority)
      BY <3>1 DEF FrameBack
    <3>3. rr.priority \in Priority
      BY <1>3 DEF WideRecords
    <3>4. \A o \in Node, q \in Priority : Range(nwOutQ'[o][q]) \subseteq Range(nwOutQ[o][q]) \cup {g}
      BY <3>2, <3>3, SendTyped, TypedParts DEF Sound
    <3>5. \A o \in Node : \A h \in Range(tsaInQ'[o]) : h \in Range(tsaInQ[o]) \/ InFlight(h)
      BY <1>4
    <3>6. FlightKept({g})
      BY <1>2, <3>4, <3>5, FlightIsKept DEF Sound
    <3>7. AnswersFlow
      BY <3>2, <3>6 DEF FlightKept, AnswersFlow
    <3>8. DeliveredGrows
      BY <3>1 DEF DeliveredGrows
    <3>9. RecordsTold'
      BY <1>3, <3>1, <3>8, RecordTells DEF Sound, Told
    <3> QED
      BY <3>7, <3>8, <3>9
  <2> QED
    BY <2>1, <2>2
<1>8. SendingFlow /\ NoAcks' /\ CompletionsTold'
  BY <1>2, <1>3, <1>7, ToldUnchanged DEF sendVars
<1> QED
  BY <1>7, <1>8 DEF Telling

LEMMA ToldInit == Init => Told
<1> SUFFICES ASSUME Init
             PROVE  Told
  OBVIOUS
<1>1. /\ \A n \in Node : \A p \in Priority : xmitRec[n][p] = UnusedTx
      /\ \A n \in Node : \A i \in RR : recvRec[n][i] = BlankRecord
      /\ \A n \in Node : appCeRspInQ[n] = <<>>
  BY DEF Init
<1>2. BlankRecord.transState = "done" /\ UnusedTx.status = "unused" /\ Range(<<>>) = {}
  BY EmptyQueue DEF BlankRecord, UnusedTx
<1>3. RecordsTold /\ NoAcks /\ CompletionsTold
  BY <1>1, <1>2 DEF RecordsTold, NoAcks, CompletionsTold
<1>4. ResponsesTold /\ AcksTold
  BY InitUse, AckFrameIs DEF ResponsesTold, AcksTold
<1> QED
  BY <1>3, <1>4 DEF Told

\* Every step but the sending of a new message.
LEMMA TellingStep ==
  ASSUME Sound, RoomToDeliver, Told, [Next]_vars
  PROVE  \/ Telling
         \/ \E n \in Node, p \in Priority, layer \in {"transport", "session"} :
               SendNewMsg(n, p, layer)
<1>1. CASE UNCHANGED vars
  <2>1. UNCHANGED <<recvRec, nwOutQ, delivered, xmitRec, tsaOutQ, tsaInQ, appCeRspInQ>>
    BY <1>1 DEF vars, sendVars, recvVars, appVars
  <2>2. Typed'
    BY TypedStep DEF Sound
  <2>3. SendingFlow
    BY <2>1, <2>2, ToldUnchanged
  <2> QED
    BY <2>1, <2>2, <2>3, QuietTells
<1>2. CASE Next
  <2>1. ASSUME NEW n \in Node, NEW p \in Priority, NEW layer \in {"transport", "session"},
               CompleteAtOnce(n, p, layer)
        PROVE  Telling
    BY <2>1, CompleteAtOnceTells
  <2>2. ASSUME NEW n \in Node, NEW p \in Priority,
               \/ GiveUp(n, p) \/ Retry(n, p)
               \/ Lose(n, p) \/ \E again \in BOOLEAN : Arrive(n, p, again)
        PROVE  Telling
    BY <2>2, GiveUpTells, RetryTells, LoseTells
  <2>3. ASSUME NEW n \in Node,
               \/ \E layer \in {"transport", "session"} : ReceiveRefused(n, layer)
               \/ IgnoreStale(n) \/ IgnoreReply(n)
        PROVE  Telling
    BY <2>3, DroppedTells
  <2>4. ASSUME NEW n \in Node, NEW layer \in {"transport", "session"}, ReceiveNewMsg(n, layer)
        PROVE  Telling
    BY <2>4, ReceiveNewMsgTells
  <2>5. ASSUME NEW n \in Node,
               \/ TPReceiveAck(n) \/ SNReceiveResponse(n)
               \/ SendReplyToChallenge(n) \/ ProcessReply(n) \/ SendResponse(n)
        PROVE  Telling
    BY <2>5, TPReceiveAckTells, SNReceiveResponseTells, SendReplyToChallengeTells,
       ProcessReplyTells, SendResponseTells
  <2>6. ASSUME NEW n \in Node,
               \/ AppMsgReceive(n) \/ AppRspReceive(n) \/ RestartOver(n)
               \/ \E i \in RR : ReceiveTimerExpired(n, i)
               \/ \E kind \in ResetKinds : Reset(n, kind)
        PROVE  Telling
    BY <2>6, ApplicationTells, ReceiveTimerTells, ResetTells
  <2> QED
    BY <1>2, Steps, SubmitTells, <2>1, <2>2, <2>3, <2>4, <2>5, <2>6
<1> QED
  BY <1>1, <1>2

LEMMA ToldStep ==
  ASSUME Sound, NumbersAreFresh, AcksAreFresh, RoomToDeliver, Told, [Next]_vars
  PROVE  Told'
BY SoundStep, TellingStep, ToldFlows, SendNewMsgTold

\* What a step does for the applications.
ServesStep == [Promise!ServiceNext]_(Promise!serviceVars)

LEMMA QuietServes ==
  ASSUME UNCHANGED <<submitted, delivered, outcome>>
  PROVE  ServesStep
BY DEF ServesStep, Promise!serviceVars

LEMMA SubmitServes ==
  ASSUME NEW m \in Message, Submit(m)
  PROVE  ServesStep
<1>1. Promise!SendMessage(m)
  BY DEF Submit, told, Promise!SendMessage
<1> QED
  BY <1>1 DEF ServesStep, Promise!ServiceNext

\* A message that is delivered was sent, and was not delivered before.
LEMMA DeliveryServes ==
  ASSUME Once, Once', \A m \in Message : m.dst \notin ResetNodes,
         NEW m \in Message,
         UNCHANGED delivered \/ delivered' = [delivered EXCEPT ![m] = @ + 1],
         UNCHANGED <<submitted, outcome>>
  PROVE  ServesStep
<1>1. CASE UNCHANGED delivered
  BY <1>1, QuietServes
<1>2. CASE delivered' = [delivered EXCEPT ![m] = @ + 1]
  <2>1. delivered \in [Message -> Nat]
    BY TypedParts DEF Once, DeliveredTyped
  <2>2. delivered'[m] = delivered[m] + 1 /\ delivered[m] \in Nat
    BY <1>2, <2>1
  <2>3. Begun(m)'
    BY <2>2 DEF Begun
  <2>4. m \in submitted
    BY <2>3 DEF Once, Untouched
  <2>5. delivered[m] = 0
    BY <2>2 DEF Once, AtMostOnce
  <2>6. delivered' = [delivered EXCEPT ![m] = 1]
    BY <1>2, <2>5
  <2>7. Promise!DeliverMessage(m)
    BY <2>4, <2>5, <2>6 DEF Promise!DeliverMessage
  <2> QED
    BY <2>7 DEF ServesStep, Promise!ServiceNext
<1> QED
  BY <1>1, <1>2

LEMMA AppRspReceiveServes ==
  ASSUME Once, Told, \A m \in Message : m.dst \notin ResetNodes,
         NEW n \in Node, AppRspReceive(n)
  PROVE  ServesStep
<1>1. PICK a : a = Head(appCeRspInQ[n])
  OBVIOUS
<1>2. /\ a \in EventsOf(n) /\ a \in Range(appCeRspInQ[n]) /\ UNCHANGED <<submitted, delivered>>
      /\ \/ /\ a.indication = "completion" /\ a.success \in BOOLEAN
            /\ outcome' = [outcome EXCEPT ![a.msg] = Append(@, a.success)]
         \/ UNCHANGED outcome
  BY <1>1, AppRspReceiveTyped DEF Once, told
<1>3. CASE UNCHANGED outcome
  BY <1>2, <1>3, QuietServes
<1>4. CASE /\ a.indication = "completion" /\ a.success \in BOOLEAN
           /\ outcome' = [outcome EXCEPT ![a.msg] = Append(@, a.success)]
  <2>1. a.msg \in Message
    BY <1>2 DEF EventsOf, Event
  <2>2. a.msg \in submitted /\ outcome[a.msg] = <<>>
    BY <1>2, <1>4 DEF Once, Accounted
  <2>3. a.success /\ Confirmed(a.msg) => delivered[a.msg] = 1
    <3>1. a.success /\ Confirmed(a.msg) => delivered[a.msg] > 0
      BY <1>2, <1>4 DEF Told, CompletionsTold, CompletionTold
    <3>2. delivered[a.msg] \in Nat /\ delivered[a.msg] <= 1
      BY <2>1, TypedParts DEF Once, AtMostOnce, DeliveredTyped
    <3> QED
      BY <3>1, <3>2
  <2>4. outcome' = [outcome EXCEPT ![a.msg] = <<a.success>>]
    <3>1. Append(<<>>, a.success) = <<a.success>>
      OBVIOUS
    <3> QED
      BY <1>4, <2>2, <3>1
  <2>5. Promise!ReportOutcome(a.msg, a.success)
    BY <1>2, <2>2, <2>3, <2>4 DEF Promise!ReportOutcome, Confirmed
  <2> QED
    BY <1>4, <2>1, <2>5 DEF ServesStep, Promise!ServiceNext
<1> QED
  BY <1>2, <1>3, <1>4

\* Every step of the layers is a step of the service, or none.
LEMMA ServiceStep ==
  ASSUME Once, Told, \A m \in Message : m.dst \notin ResetNodes, [Next]_vars
  PROVE  ServesStep
<1>1. Once' /\ Typed
  BY OnceStep DEF Once
<1>2. CASE UNCHANGED vars
  BY <1>2, QuietServes DEF vars, told
<1>3. CASE Next
  <2>1. ASSUME NEW n \in Node, NEW p \in Priority, NEW layer \in {"transport", "session"},
               CompleteAtOnce(n, p, layer) \/ SendNewMsg(n, p, layer)
        PROVE  ServesStep
    BY <2>1, QuietServes DEF CompleteAtOnce, SendNewMsg, told
  <2>2. ASSUME NEW n \in Node, NEW p \in Priority,
               \/ GiveUp(n, p) \/ Retry(n, p)
               \/ Lose(n, p) \/ \E again \in BOOLEAN : Arrive(n, p, again)
        PROVE  ServesStep
    BY <2>2, QuietServes DEF GiveUp, Retry, Lose, Arrive, told
  <2>3. ASSUME NEW n \in Node, NEW layer \in {"transport", "session"}, ReceiveNewMsg(n, layer)
        PROVE  ServesStep
    <3>1. PICK f, i, rr, d : HeardAs(n, layer, f, i, rr, d)
      BY <1>1, <2>3, Hears DEF Typed
    <3>2. /\ rr \in WideRecords(n) /\ UNCHANGED <<submitted, outcome>>
          /\ UNCHANGED delivered \/ DeliveredAs(n, rr, d)
      BY <3>1 DEF HeardAs, told
    <3>3. UNCHANGED delivered \/ delivered' = [delivered EXCEPT ![rr.msg] = @ + 1]
      BY <1>1, <3>2, DeliverTyped, TypedParts DEF DeliveredAs
    <3>4. rr.msg \in Message
      BY <3>2 DEF WideRecords
    <3> QED
      BY <1>1, <3>2, <3>3, <3>4, DeliveryServes
  <2>4. ASSUME NEW n \in Node, ProcessReply(n)
        PROVE  ServesStep
    <3>1. PICK f, i, rr, d : RepliedAs(n, f, i, rr, d)
      BY <1>1, <2>4, Replies DEF Typed
    <3>2. rr \in WideRecords(n) /\ UNCHANGED <<submitted, outcome>> /\ DeliveredAs(n, rr, d)
      BY <3>1 DEF RepliedAs, told
    <3>3. UNCHANGED delivered \/ delivered' = [delivered EXCEPT ![rr.msg] = @ + 1]
      BY <1>1, <3>2, DeliverTyped, TypedParts DEF DeliveredAs
    <3>4. rr.msg \in Message
      BY <3>2 DEF WideRecords
    <3> QED
      BY <1>1, <3>2, <3>3, <3>4, DeliveryServes
  <2>5. ASSUME NEW n \in Node,
               \/ SendResponse(n)
               \/ \/ \E layer \in {"transport", "session"} : ReceiveRefused(n, layer)
                  \/ IgnoreStale(n) \/ IgnoreReply(n)
               \/ TPReceiveAck(n) \/ SNReceiveResponse(n)
               \/ SendReplyToChallenge(n)
        PROVE  ServesStep
    BY <2>5, QuietServes
       DEF SendResponse, ReceiveRefused, IgnoreStale, IgnoreReply, TPReceiveAck,
           SNReceiveResponse, SendReplyToChallenge, told
  <2>6. ASSUME NEW n \in Node,
               \/ \E i \in RR : ReceiveTimerExpired(n, i)
               \/ AppMsgReceive(n)
               \/ \E kind \in ResetKinds : Reset(n, kind)
               \/ RestartOver(n)
        PROVE  ServesStep
    BY <2>6, QuietServes DEF ReceiveTimerExpired, AppMsgReceive, Reset, RestartOver, told
  <2> QED
    BY <1>3, Steps, SubmitServes, AppRspReceiveServes, <2>1, <2>2, <2>3, <2>4, <2>5, <2>6
<1> QED
  BY <1>2, <1>3

LEMMA ServiceInit == Init => Promise!ServiceInit
BY DEF Init, Promise!ServiceInit

\* The promise is kept by nodes that are not reset while messages are sent to them, as long
\* as NewTrans gives out numbers that nothing on its way has, and the applications take
\* their messages in time.
THEOREM PromiseIsKept ==
  ASSUME \A m \in Message : m.dst \notin ResetNodes
  PROVE  Spec /\ []NumbersAreFresh /\ []AcksAreFresh /\ []RoomToDeliver
            => ImplementsMessageService
<1>1. Init => Once /\ Sound /\ Told /\ Promise!ServiceInit
  BY OnceInit, SoundInit, ToldInit, ServiceInit
<1>2. Once /\ Sound /\ Told /\ NumbersAreFresh /\ AcksAreFresh /\ RoomToDeliver /\ [Next]_vars
        => (Once /\ Sound /\ Told)' /\ ServesStep
  BY OnceStep, SoundStep, ToldStep, ServiceStep
<1>3. ServesStep => [Promise!ServiceNext]_(Promise!serviceVars)
  BY DEF ServesStep
<1> QED
  BY <1>1, <1>2, <1>3, PTL DEF Spec, ImplementsMessageService, Promise!ServiceSpec

-----------------------------------------------------------------------------
(* Acknowledgements of earlier messages.                                   *)

\* Numbers of acknowledgements on their way are below the next one.
AcksBelow ==
    \A m \in Message : \A t \in 0 .. MaxTid :
        restart[m.src] = "over" /\ InFlight(AckFrame(m, t)) =>
            /\ t <= transID[m.src][m.priority]
            /\ xmitRec[m.src][m.priority].status = "unused" => t < transID[m.src][m.priority]

LEMMA AcksFresh ==
  ASSUME Typed, NumbersLast, AcksBelow
  PROVE  AcksAreFresh
<1> SUFFICES ASSUME NEW n \in Node, NEW p \in Priority, restart[n] = "over", Waiting(n, p),
                    NEW m \in Message, m.src = n, m.priority = p
             PROVE  ~InFlight(AckFrame(m, NewTid(n, p, Head(tsaOutQ[n][p]).dst)))
  BY DEF AcksAreFresh, MessagesOf
<1> DEFINE t == NewTid(n, p, Head(tsaOutQ[n][p]).dst)
<1>1. tsaOutQ[n][p] # <<>> /\ xmitRec[n][p].status = "unused"
  BY DEF Waiting
<1>2. Head(tsaOutQ[n][p]).dst \in Node
  BY <1>1, HeadMessage, TypedParts
<1>3. transID[n][p] < MaxTid
  BY DEF NumbersLast
<1>4. t \in 0 .. MaxTid /\ t >= transID[n][p]
  BY <1>2, <1>3, TidType, TypedParts
<1>5. transID[n][p] \in Nat
  BY TypedParts DEF NumbersTyped
<1> HIDE DEF t
<1>6. ~InFlight(AckFrame(m, t))
  BY <1>1, <1>4, <1>5 DEF AcksBelow
<1> QED
  BY <1>6 DEF t

\* A step moves on the numbers of a node that may send, or leaves them alone.
NumbersGrow ==
    \A n \in Node, p \in Priority : restart[n] = "over" /\ restart'[n] = "over" =>
        \/ transID'[n][p] > transID[n][p]
        \/ /\ transID'[n][p] >= transID[n][p]
           /\ xmitRec'[n][p].status = "unused" => xmitRec[n][p].status = "unused"

LEMMA NumbersGrowStep ==
  ASSUME Sound, NumbersLast, [Next]_vars
  PROVE  NumbersGrow
<1>1. \A n \in Node, p \in Priority : transID[n][p] \in Nat
  BY TypedParts DEF Sound, NumbersTyped
<1>2. CASE UNCHANGED <<xmitRec, transID>>
  BY <1>1, <1>2 DEF NumbersGrow
<1>3. CASE Ending
  <2>1. PICK n \in Node, p \in Priority : \E q, success : EndedAs(n, p, q, success)
    BY <1>3 DEF Ending
  <2>2. /\ transID'[n][p] = Bump(transID[n][p])
        /\ \A o \in Node, r \in Priority : <<o, r>> # <<n, p>> => transID'[o][r] = transID[o][r]
        /\ \A o \in Node, r \in Priority : <<o, r>> # <<n, p>> => xmitRec'[o][r] = xmitRec[o][r]
    BY <2>1 DEF EndedAs
  <2>3. transID'[n][p] = transID[n][p] + 1
    BY <2>2, TidType, TypedParts DEF Sound, NumbersLast, NumbersTyped
  <2> SUFFICES ASSUME NEW o \in Node, NEW r \in Priority
               PROVE  \/ transID'[o][r] > transID[o][r]
                      \/ transID'[o][r] = transID[o][r] /\ xmitRec'[o][r] = xmitRec[o][r]
    BY <1>1 DEF NumbersGrow
  <2>4. CASE <<o, r>> = <<n, p>>
    BY <1>1, <2>3, <2>4
  <2>5. CASE <<o, r>> # <<n, p>>
    BY <2>2, <2>5
  <2> QED
    BY <2>4, <2>5
<1>4. ASSUME NEW n \in Node, NEW p \in Priority, Retry(n, p)
      PROVE  NumbersGrow
  BY <1>1, <1>4, RetryTyped DEF NumbersGrow, Sound
<1>5. ASSUME NEW n \in Node, NEW p \in Priority, NEW layer \in {"transport", "session"},
             SendNewMsg(n, p, layer)
      PROVE  NumbersGrow
  <2>1. PICK m, t : Typed' /\ SentAs(n, p, layer, m, t)
    BY <1>5, SendNewMsgTyped DEF Sound
  <2>2. /\ m \in Message /\ t = NewTid(n, p, m.dst)
        /\ xmitRec'[n][p].status = Layer(m)
        /\ \A o \in Node, r \in Priority : <<o, r>> # <<n, p>> => xmitRec'[o][r] = xmitRec[o][r]
        /\ transID'[n][p] = t
        /\ \A o \in Node, r \in Priority : <<o, r>> # <<n, p>> => transID'[o][r] = transID[o][r]
    BY <2>1 DEF SentAs
  <2>3. m.dst \in Node /\ Layer(m) # "unused"
    BY <2>2, TsaAssumption DEF Layer
  <2>4. t >= transID[n][p]
    <3>1. NumbersTyped /\ transID[n][p] < MaxTid
      BY TypedParts DEF Sound, NumbersLast
    <3> QED
      BY <2>2, <2>3, <3>1, TidType
  <2> SUFFICES ASSUME NEW o \in Node, NEW r \in Priority
               PROVE  /\ transID'[o][r] >= transID[o][r]
                      /\ xmitRec'[o][r].status = "unused" => xmitRec[o][r].status = "unused"
    BY DEF NumbersGrow
  <2>5. CASE <<o, r>> = <<n, p>>
    BY <2>2, <2>3, <2>4, <2>5
  <2>6. CASE <<o, r>> # <<n, p>>
    BY <1>1, <2>2, <2>6
  <2> QED
    BY <2>5, <2>6
<1>6. ASSUME NEW n \in Node, NEW layer \in {"transport", "session"}, ReceiveNewMsg(n, layer)
      PROVE  UNCHANGED <<xmitRec, transID>>
  BY <1>6 DEF ReceiveNewMsg, sendVars
<1>7. ASSUME NEW n \in Node, NEW kind \in ResetKinds, Reset(n, kind)
      PROVE  NumbersGrow
  <2>1. ResetAs(n, kind) /\ kind # "over"
    BY <1>7, ResetTyped, TsaAssumption DEF Sound
  <2>2. /\ restart'[n] = kind
        /\ \A o \in Node : o # n => xmitRec'[o] = xmitRec[o] /\ transID'[o] = transID[o]
    BY <2>1 DEF ResetAs
  <2> QED
    BY <1>1, <2>1, <2>2 DEF NumbersGrow
<1>8. ASSUME NEW n \in Node, RestartOver(n)
      PROVE  UNCHANGED <<xmitRec, transID>>
  BY <1>8 DEF RestartOver
<1>9. CASE Next
  BY <1>2, <1>3, <1>4, <1>5, <1>6, <1>7, <1>8, <1>9, CalmSteps DEF Calm
<1>10. CASE UNCHANGED vars
  BY <1>2, <1>10 DEF vars, sendVars
<1> QED
  BY <1>9, <1>10

\* A node that may send again gets no acknowledgement of what it sent before.
LEMMA NoAcksLeft ==
  ASSUME Sound, [Next]_vars, NEW n \in Node, restart[n] # "over", restart'[n] = "over"
  PROVE  \A m \in Message : \A t \in 0 .. MaxTid : m.src = n => ~InFlight(AckFrame(m, t))
<1>1. Quiet(n)
  <2>1. restart' = restart => FALSE
    OBVIOUS
  <2>2. ASSUME NEW o \in Node, RestartOver(o)
        PROVE  Quiet(n)
    <3>1. Quiet(o) /\ \A k \in Node : k # o => restart'[k] = restart[k]
      BY <2>2, RestartOverTyped DEF Sound
    <3> QED
      BY <3>1
  <2>3. ASSUME NEW o \in Node, NEW kind \in ResetKinds, Reset(o, kind)
        PROVE  FALSE
    <3>1. ResetAs(o, kind) /\ kind # "over"
      BY <2>3, ResetTyped, TsaAssumption DEF Sound
    <3> QED
      BY <3>1 DEF ResetAs
  <2>4. ASSUME NEW o \in Node, NEW p \in Priority,
               \/ Retry(o, p)
               \/ \E layer \in {"transport", "session"} : SendNewMsg(o, p, layer)
        PROVE  FALSE
    BY <2>1, <2>4 DEF Retry, SendNewMsg
  <2>5. ASSUME NEW o \in Node, NEW layer \in {"transport", "session"}, ReceiveNewMsg(o, layer)
        PROVE  FALSE
    BY <2>1, <2>5 DEF ReceiveNewMsg, sendVars
  <2>6. CASE Next
    BY <2>1, <2>2, <2>3, <2>4, <2>5, <2>6, CalmSteps DEF Calm, Ending
  <2> QED
    BY <2>1, <2>6 DEF vars, sendVars
<1> SUFFICES ASSUME NEW m \in Message, NEW t \in 0 .. MaxTid, m.src = n
             PROVE  ~InFlight(AckFrame(m, t))
  OBVIOUS
<1>2. PICK f : f = AckFrame(m, t)
  OBVIOUS
<1>3. f.src \in Node /\ f.dst = n /\ f.priority \in Priority
  BY <1>2, AckFrameIs
<1> QED
  BY <1>1, <1>2, <1>3 DEF InFlight, Queued, Quiet

LEMMA AnswersFlowStep ==
  ASSUME Sound, RoomToDeliver, Told, [Next]_vars
  PROVE  AnswersFlow
<1>1. ASSUME NEW n \in Node, NEW p \in Priority, NEW layer \in {"transport", "session"},
             SendNewMsg(n, p, layer)
      PROVE  AnswersFlow
  <2>1. PICK m, t : Typed' /\ SentAs(n, p, layer, m, t)
    BY <1>1, SendNewMsgTyped DEF Sound
  <2>2. m \in Message /\ t \in 0 .. MaxTid /\ FlightKept({MessageFrame(m, t)})
    BY <2>1, UseAfterSending DEF SentAs
  <2>3. MessageFrame(m, t).kind \in Service
    BY <2>2, FramesOfUse
  <2> QED
    BY <2>2, <2>3 DEF FlightKept, Service, AnswersFlow
<1> QED
  BY <1>1, TellingStep DEF Telling

LEMMA AcksBelowStep ==
  ASSUME Sound, Told, Sequential', AcksBelow, NumbersLast, RoomToDeliver, [Next]_vars
  PROVE  AcksBelow'
<1>1. AnswersFlow /\ NumbersGrow /\ Typed'
  BY AnswersFlowStep, NumbersGrowStep, TypedStep DEF Sound
<1> SUFFICES ASSUME NEW m \in Message, NEW t \in 0 .. MaxTid, restart'[m.src] = "over",
                    InFlight(AckFrame(m, t))'
             PROVE  /\ t <= transID'[m.src][m.priority]
                    /\ xmitRec'[m.src][m.priority].status = "unused"
                          => t < transID'[m.src][m.priority]
  BY DEF AcksBelow
<1>2. PICK f : f = AckFrame(m, t)
  OBVIOUS
<1>3. /\ f \in Frame /\ f.kind = "ack" /\ f.src = m.dst /\ f.dst = m.src
      /\ f.priority = m.priority /\ f.transNum = t
      /\ m.src \in Node /\ m.dst \in Node /\ m.priority \in Priority
  BY <1>2, AckFrameIs
<1>4. CASE InFlight(f)
  <2>1. restart[m.src] = "over"
    BY <1>2, <1>3, <1>4, NoAcksLeft
  <2>2. /\ t <= transID[m.src][m.priority]
        /\ xmitRec[m.src][m.priority].status = "unused" => t < transID[m.src][m.priority]
    BY <1>2, <1>4, <2>1 DEF AcksBelow
  <2>3. transID[m.src][m.priority] \in Nat /\ transID'[m.src][m.priority] \in Nat
    BY <1>1, <1>3, TypedParts DEF Sound, NumbersTyped
  <2>4. \/ transID'[m.src][m.priority] > transID[m.src][m.priority]
        \/ /\ transID'[m.src][m.priority] >= transID[m.src][m.priority]
           /\ xmitRec'[m.src][m.priority].status = "unused"
                 => xmitRec[m.src][m.priority].status = "unused"
    BY <1>1, <1>3, <2>1 DEF NumbersGrow
  <2> QED
    BY <2>2, <2>3, <2>4
<1>5. CASE ~InFlight(f)
  <2>1. PICK i \in RR : /\ recvRec'[m.dst][i].status # "unused"
                        /\ recvRec'[m.dst][i].src = m.src
                        /\ recvRec'[m.dst][i].priority = m.priority
                        /\ recvRec'[m.dst][i].transNum = t
    BY <1>1, <1>2, <1>3, <1>5 DEF AnswersFlow
  <2>2. PICK o \in Message : /\ o.src = m.src /\ o.priority = m.priority /\ InUse(o, t)'
    BY <1>1, <1>3, <2>1, AnswerIsRecorded
  <2> QED
    BY <2>2 DEF Sequential, TidsBelow
<1> QED
  BY <1>4, <1>5

LEMMA AcksBelowInit == Init => AcksBelow
BY InitUse, AckFrameIs DEF AcksBelow

\* So the promise is kept by nodes that power up, when the delay after it outlasts the
\* receive timers and none has come to its last number since: retries, lost, late and
\* repeated frames and power-ups of the sender neither deliver a message twice nor
\* confirm what was not delivered.
THEOREM PowerUpKeepsPromise ==
  ASSUME ResetKinds \subseteq {"powerup"}, DelayOutlasts, \A m \in Message : m.dst \notin ResetNodes
  PROVE  Spec /\ []NumbersLast /\ []RoomToDeliver => ImplementsMessageService
<1> DEFINE I == Sound /\ Told /\ Sequential /\ AcksBelow
<1>1. Init => I
  BY SoundInit, ToldInit, SequentialInit, AcksBelowInit
<1>2. I /\ NumbersLast => NumbersAreFresh /\ AcksAreFresh
  BY SequentialFresh, AcksFresh DEF Sound
<1>3. I /\ NumbersLast /\ RoomToDeliver /\ [Next]_vars => I'
  BY <1>2, SoundStep, ToldStep, SequentialStep, AcksBelowStep
<1> QED
  BY <1>1, <1>2, <1>3, PromiseIsKept, PTL DEF Spec

=============================================================================
