---------------------------- MODULE Forwarder_proofs ----------------------------
(***************************************************************************)
(* Proofs about the forwarding core, for any rules, messages and bounds.   *)
(***************************************************************************)
EXTENDS Forwarder, FiniteSetTheorems, SequenceTheorems, TLAPS

(***************************************************************************)
(* Operators the model is built from                                       *)
(***************************************************************************)

\* Changing an element keeps the type and the length of a sequence.
LEMMA ExceptKeeps ==
    ASSUME NEW S, NEW s \in Seq(S), NEW i, NEW x, i \in DOMAIN s => x \in S
    PROVE  /\ [s EXCEPT ![i] = x] \in Seq(S)
           /\ Len([s EXCEPT ![i] = x]) = Len(s)
           /\ DOMAIN [s EXCEPT ![i] = x] = DOMAIN s
  <1>1. CASE i \in DOMAIN s
    BY <1>1, ExceptSeq
  <1>2. CASE i \notin DOMAIN s
    <2>1. [s EXCEPT ![i] = x] = s
      BY <1>2
    <2> QED BY <2>1
  <1> QED BY <1>1, <1>2

\* The kind of a task says which record it is.
LEMMA TaskKinds ==
    ASSUME NEW t \in Task \cup {Idle}
    PROVE  /\ t.kind = "forward" => t \in ForwardTask
           /\ t.kind = "native" => t \in NativeTask
           /\ t.kind = "stats" => t \in StatsTask
           /\ t.kind = "map" => t \in MapTask
           /\ t.kind = "edit" => t \in EditTask
           /\ t.kind = "delete" => t \in DeleteTask
           /\ t # Idle => t \in Task
  BY DEF Task, Idle, ForwardTask, NativeTask, StatsTask, MapTask, EditTask, DeleteTask

\* SetCopiedMessageID keeps a list of references a list of references.
LEMMA WithCopiedIdType ==
    ASSUME NEW list \in Seq(Ref), NEW ref \in Ref
    PROVE  WithCopiedId(list, ref) \in Seq(Ref)
  <1> DEFINE same == {i \in DOMAIN list : list[i].rule = ref.rule /\ list[i].dst = ref.dst}
             new == [i \in DOMAIN list |-> IF i \in First(same) THEN ref ELSE list[i]]
  <1>1. new \in [1..Len(list) -> Ref]
    <2>1. DOMAIN list = 1..Len(list)
      OBVIOUS
    <2>2. \A i \in DOMAIN list : list[i] \in Ref
      OBVIOUS
    <2> QED BY <2>1, <2>2
  <1>2. new \in Seq(Ref)
    BY <1>1
  <1>3. Append(list, ref) \in Seq(Ref)
    OBVIOUS
  <1> QED BY <1>2, <1>3 DEF WithCopiedId

\* The ids of the two spaces correspond one to one, and 0 is in neither.
LEMMA PermCopy ==
    /\ \A t \in TmpIds : Perm(t) \in PermIds /\ CopyOf(Perm(t)) = t /\ Perm(t) # 0
    /\ \A p \in PermIds : CopyOf(p) \in TmpIds /\ Perm(CopyOf(p)) = p /\ p # 0
    /\ 0 \notin TmpIds /\ 0 \notin PermIds
  BY BoundAssumption DEF TmpIds, PermIds, Perm, CopyOf

\* resolveReplyTo answers with a permanent id or with 0.
LEMMA ReplyToType ==
    ASSUME TypeOK, NEW m \in Messages, NEW d
    PROVE  ReplyTo(m, d) \subseteq PermIds \cup {0}
  <1> DEFINE list == IF ReplyOf[m] = NoMsg THEN <<>> ELSE copied[ReplyOf[m]]
  <1>1. list \in Seq(Ref)
    BY ConfigAssumption DEF TypeOK
  <1>2. \A i \in First(ReplyTargets(list, d)) : newId[list[i].tmp] \in PermIds \cup {0}
    <2> TAKE i \in First(ReplyTargets(list, d))
    <2>1. i \in DOMAIN list
      BY DEF First, ReplyTargets
    <2>2. list[i] \in Ref
      BY <1>1, <2>1
    <2>3. list[i].tmp \in TmpIds
      BY <2>2 DEF Ref
    <2> HIDE DEF list
    <2> QED BY <2>3 DEF TypeOK
  <1> QED BY <1>2 DEF ReplyTo

\* The statistics of a destination go up by a number.
LEMMA FiniteNat ==
    ASSUME NEW t \in Rules, NEW d
    PROVE  Cardinality({i \in DOMAIN RuleCfg[t].to : RuleCfg[t].to[i] = d}) \in Nat
  <1> DEFINE to == RuleCfg[t].to
  <1>1. to \in Seq(Dsts)
    BY ConfigAssumption DEF RuleConfig
  <1>2. DOMAIN to = 1..Len(to) /\ Len(to) \in Nat
    BY <1>1
  <1>3. IsFiniteSet(1..Len(to))
    BY <1>2, FS_Interval
  <1>4. IsFiniteSet({i \in DOMAIN to : to[i] = d})
    BY <1>2, <1>3, FS_Subset
  <1> QED BY <1>4, FS_CardinalityType

(***************************************************************************)
(* Type correctness                                                        *)
(***************************************************************************)

\* A stored permanent id, the previous version a forward works for, and the previous
\* version a next-link goroutine edits are messages Telegram has.
LinkersSound ==
    /\ sending # Idle => (sending.prev # 0 => CopyOf(sending.prev) \in DOMAIN chat)
    /\ \A l \in linkers : CopyOf(l.prev) \in DOMAIN chat

\* The initial state has its shape.
LEMMA TypeInit == Init => TypeOK
  <1> SUFFICES ASSUME Init PROVE TypeOK
    OBVIOUS
  <1>1. MaxReloads \in Nat /\ MaxCrashes \in Nat /\ MaxCopies \in Nat
    BY BoundAssumption
  <1>2. /\ <<>> \in Seq(Copy) /\ <<>> \in Seq(Task) /\ <<>> \in Seq(Ref)
        /\ <<>> \in Seq(Messages) /\ <<>> \in Seq(Fact) /\ <<>> \in Seq(Write)
        /\ Len(<<>>) = 0
    OBVIOUS
  <1>3. /\ srcVer \in [Messages -> Versions \cup {0}]
        /\ copied \in [Messages -> Seq(Ref)]
        /\ newId \in [TmpIds -> PermIds \cup {0}]
        /\ tmpId \in [PermIds -> TmpIds \cup {0}]
        /\ answer \in [TmpIds -> Messages \cup {NoMsg}]
        /\ writes \in Seq(Write) /\ torn \subseteq TmpIds
        /\ viewed \in [Dsts -> Nat] /\ forwarded \in [Dsts -> Nat]
        /\ facts \in [Messages -> Seq(Fact)]
        /\ clock \in [Messages -> Nat]
    BY <1>2 DEF Init
  <1>4. /\ srcGone \subseteq Messages /\ rules \subseteq Rules
        /\ ingress \in Ingress \cup {Idle} /\ resolvers \subseteq Resolver
        /\ task \in Task \cup {Idle} /\ sending \in Sending \cup {Idle}
        /\ linkers \subseteq Linker /\ gaveUp \subseteq Messages
        /\ needRetry \in BOOLEAN
    BY DEF Init
  <1>5. /\ chat \in Seq(Copy) /\ Len(chat) <= MaxCopies
        /\ queue \in Seq(Task) /\ refs \in Seq(Ref) /\ ids \in Seq(Messages)
        /\ reloads \in 0..MaxReloads /\ crashes \in 0..MaxCrashes
    BY <1>1, <1>2 DEF Init
  <1> QED BY <1>3, <1>4, <1>5 DEF TypeOK

\* Queueing a task keeps the queue a queue of tasks.
LEMMA EnqueueType ==
    ASSUME queue \in Seq(Task), NEW t \in Task, Enqueue(t)
    PROVE  queue' \in Seq(Task)
  BY DEF Enqueue

\* The update loop keeps the types.
LEMMA TypeUpdateLoop ==
    ASSUME TypeOK, UpdateLoop
    PROVE  TypeOK'
  <1> USE DEF TypeOK, telegramVars, workerVars, storeVars, statsVars, pushVars, boundVars
  <1>1. CASE ingress = Idle
    BY <1>1 DEF UpdateLoop, SkipRule, RouteOk, RouteDst, RouteStats, RouteAside
  <1>2. CASE ingress # Idle
    <2>1. /\ ingress \in Ingress /\ ingress.msg \in Messages
          /\ ingress.rules \in Seq(Rules) /\ ingress.rules # <<>>
          /\ ingress.to \in Seq(Dsts)
          /\ Head(ingress.rules) \in Rules
      BY <1>2 DEF Ingress
    <2>2. Rest \in Ingress \cup {Idle}
      <3>1. CASE Len(ingress.rules) = 1
        BY <3>1 DEF Rest
      <3>2. CASE Len(ingress.rules) # 1
        <4>1. Tail(ingress.rules) \in Seq(Rules) /\ Tail(ingress.rules) # <<>>
          <5> HIDE DEF TypeOK
          <5> DEFINE rs == ingress.rules
          <5>1. rs \in Seq(Rules) /\ rs # <<>> /\ Len(rs) # 1
            BY <2>1, <3>2
          <5> HIDE DEF rs
          <5>2. Tail(rs) \in Seq(Rules) /\ Len(Tail(rs)) = Len(rs) - 1 /\ Len(rs) # 0
            BY <5>1, HeadTailProperties, EmptySeq
          <5>3. Len(Tail(rs)) # 0
            BY <5>1, <5>2, LenProperties
          <5>4. Tail(rs) # <<>>
            BY <5>3
          <5> QED BY <5>2, <5>4 DEF rs
        <4> QED BY <3>2, <4>1, <2>1 DEF Rest, Ingress
      <3> QED BY <3>1, <3>2
    <2>3. /\ RuleCfg[Head(ingress.rules)] \in RuleConfig
          /\ RuleCfg[Head(ingress.rules)].to \in Seq(Dsts)
      BY <2>1, ConfigAssumption DEF RuleConfig
    <2>4. 1 \in Versions
      BY BoundAssumption DEF Versions
    <2>5. CASE SkipRule
      BY <2>5, <2>2 DEF SkipRule
    <2>6. CASE RouteOk
      <3>1. facts' \in [Messages -> Seq(Fact)]
        <4>1. clock[ingress.msg] + 1 \in Nat
          BY <2>1
        <4>2. [event |-> "new", ver |-> 1, at |-> clock[ingress.msg] + 1] \in Fact
          BY <4>1, <2>4 DEF Fact
        <4>3. Append(facts[ingress.msg],
                     [event |-> "new", ver |-> 1, at |-> clock[ingress.msg] + 1])
                \in Seq(Fact)
          BY <4>2, <2>1
        <4> QED BY <4>3, <2>6 DEF RouteOk
      <3>2. ingress' \in Ingress
        BY <2>6, <2>1, <2>3 DEF RouteOk, Ingress
      <3>3. clock' \in [Messages -> Nat]
        BY <2>6, <2>1 DEF RouteOk, Stamp
      <3> QED BY <2>6, <3>1, <3>2, <3>3 DEF RouteOk
    <2>7. CASE RouteDst
      <3>1. Head(ingress.to) \in Dsts /\ Tail(ingress.to) \in Seq(Dsts)
        BY <2>7, <2>1 DEF RouteDst
      <3>2. [kind |-> "forward", msg |-> ingress.msg, rule |-> Head(ingress.rules),
             dst |-> Head(ingress.to), ver |-> 1] \in Task
        BY <3>1, <2>1, <2>4 DEF Task, ForwardTask
      <3>3. queue' \in Seq(Task)
        <4>1. CASE AlreadyMarked(Head(ingress.to))
          BY <4>1, <2>7 DEF RouteDst
        <4>2. CASE ~AlreadyMarked(Head(ingress.to))
          BY <4>2, <2>7, <3>2, EnqueueType DEF RouteDst
        <4> QED BY <4>1, <4>2
      <3>4. ingress' \in Ingress
        BY <3>1, <2>1, <2>7 DEF RouteDst, Ingress
      <3> QED BY <2>7, <3>3, <3>4 DEF RouteDst
    <2>8. CASE RouteStats
      <3>1. [kind |-> "stats", rule |-> Head(ingress.rules), ok |-> ingress.mode = "ok"]
              \in Task
        BY <2>1 DEF Task, StatsTask
      <3>2. queue' \in Seq(Task)
        BY <3>1, <2>8 DEF RouteStats, Enqueue
      <3> QED BY <2>8, <2>2, <3>2 DEF RouteStats
    <2>9. ASSUME NEW v \in {"check", "other"}, RouteAside(v) PROVE TypeOK'
      <3> DEFINE aside == RuleCfg[Head(ingress.rules)][v]
      <3>1. aside \in Dsts \cup {NoChat}
        <4>1. CASE v = "check"
          BY <4>1, <2>3 DEF RuleConfig
        <4>2. CASE v = "other"
          BY <4>2, <2>3 DEF RuleConfig
        <4> QED BY <4>1, <4>2
      <3>2. ASSUME aside # NoChat
            PROVE  [kind |-> "native", msg |-> ingress.msg, rule |-> Head(ingress.rules),
                    dst |-> aside, ver |-> 1] \in Task
        BY <3>1, <3>2, <2>1, <2>4 DEF Task, NativeTask
      <3>3. queue' \in Seq(Task)
        <4>1. CASE aside = NoChat
          BY <4>1, <2>9 DEF RouteAside
        <4>2. CASE aside # NoChat
          <5>1. queue' = Append(queue, [kind |-> "native", msg |-> ingress.msg,
                                        rule |-> Head(ingress.rules), dst |-> aside,
                                        ver |-> 1])
            BY <4>2, <2>9 DEF RouteAside, Enqueue
          <5> QED BY <3>2, <4>2, <5>1
        <4> QED BY <4>1, <4>2
      <3>4. ingress' \in Ingress
        BY <2>1, <2>9 DEF RouteAside, Ingress
      <3> QED BY <2>9, <3>3, <3>4 DEF RouteAside
    <2> QED BY <2>5, <2>6, <2>7, <2>8, <2>9 DEF UpdateLoop
  <1> QED BY <1>1, <1>2

\* What Telegram does keeps the types.
LEMMA TypeTelegram ==
    ASSUME TypeOK, Telegram
    PROVE  TypeOK'
  <1> USE DEF TypeOK, telegramVars, workerVars, storeVars, statsVars, pushVars, boundVars
  <1>1. 1 \in Versions
    BY BoundAssumption DEF Versions
  <1>2. ASSUME NEW m \in Messages, OnNewMessage(m) PROVE TypeOK'
    <2>1. RuleOrder # <<>> =>
            [kind |-> "new", msg |-> m, rules |-> RuleOrder, mode |-> "none",
             to |-> <<>>, marked |-> {}, rs |-> rules] \in Ingress
      BY ConfigAssumption DEF Ingress
    <2>2. ingress' \in Ingress \cup {Idle}
      BY <1>2, <2>1 DEF OnNewMessage
    <2>3. srcVer' \in [Messages -> Versions \cup {0}]
      BY <1>2, <1>1 DEF OnNewMessage
    <2> QED BY <1>2, <2>2, <2>3 DEF OnNewMessage
  <1>3. ASSUME NEW m \in Messages, OnEditUpdate(m) PROVE TypeOK'
    <2>1. srcVer[m] + 1 \in Versions
      BY <1>3, BoundAssumption DEF OnEditUpdate, Versions
    <2>2. [msg |-> m, for |-> srcVer[m] + 1, ver |-> 0] \in Resolver
      BY <2>1 DEF Resolver
    <2> QED BY <1>3, <2>1, <2>2 DEF OnEditUpdate
  <1>4. ASSUME NEW batch \in Batches, OnDeletedMessages(batch) PROVE TypeOK'
    <2>1. batch \in Seq(Messages) \ {<<>>}
      <3>1. PICK n \in 1..Cardinality(Messages) : batch \in [1..n -> Messages]
        BY DEF Batches
      <3>2. Cardinality(Messages) \in Nat
        BY ConfigAssumption, FS_CardinalityType
      <3>3. n \in Nat /\ n >= 1
        BY <3>1, <3>2
      <3>4. batch \in Seq(Messages) /\ Len(batch) = n
        BY <3>1, <3>3, LenProperties
      <3> QED BY <3>3, <3>4
    <2>2. clock' \in [Messages -> Nat]
      <3>1. CASE rules = {}
        BY <1>4, <3>1 DEF OnDeletedMessages
      <3>2. CASE rules # {}
        <4>1. \A m \in Messages : clock[m] \in Nat /\ clock[m] + 1 \in Nat
          OBVIOUS
        <4> QED BY <1>4, <3>2, <4>1 DEF OnDeletedMessages
      <3> QED BY <3>1, <3>2
    <2>3. 0 \in 0..MaxRetry
      BY BoundAssumption
    <2>4. [kind |-> "delete", ids |-> batch, rs |-> rules, attempt |-> 0, at |-> clock']
            \in Task
      BY <2>1, <2>2, <2>3 DEF Task, DeleteTask
    <2>5. queue' \in Seq(Task)
      <3>1. CASE rules = {}
        BY <1>4, <3>1 DEF OnDeletedMessages
      <3>2. CASE rules # {}
        <4>1. queue' = Append(queue, [kind |-> "delete", ids |-> batch, rs |-> rules,
                                      attempt |-> 0, at |-> clock'])
          BY <1>4, <3>2 DEF OnDeletedMessages, Enqueue
        <4> QED BY <2>4, <4>1
      <3> QED BY <3>1, <3>2
    <2>6. srcGone' \subseteq Messages
      BY <1>4, <2>1 DEF OnDeletedMessages
    <2> QED BY <1>4, <2>2, <2>5, <2>6 DEF OnDeletedMessages
  <1>a. ASSUME NEW t \in DOMAIN chat
        PROVE  /\ t \in TmpIds /\ chat[t] \in Copy
               /\ \A st \in {"sent", "forwarded", "failed"} :
                    LET new == [chat EXCEPT ![t].status = st] IN
                    new \in Seq(Copy) /\ Len(new) <= MaxCopies
    <2> HIDE DEF TypeOK
    <2>1. chat \in Seq(Copy) /\ Len(chat) <= MaxCopies
      BY DEF TypeOK
    <2>2. t \in TmpIds /\ chat[t] \in Copy
      BY <2>1, <1>a, BoundAssumption DEF TmpIds
    <2>3. ASSUME NEW st \in {"sent", "forwarded", "failed"}
          PROVE  [chat[t] EXCEPT !.status = st] \in Copy
      BY <2>2 DEF Copy
    <2> QED BY <2>1, <2>2, <2>3, ExceptKeeps
  <1>5. ASSUME NEW t \in DOMAIN chat, OnMessageSendSucceeded(t) PROVE TypeOK'
    <2>2. [kind |-> "map", tmp |-> t, new |-> Perm(t)] \in Task
      BY <1>a, PermCopy DEF Task, MapTask
    <2>3. queue' \in Seq(Task)
      BY <1>5, <2>2 DEF OnMessageSendSucceeded, Enqueue
    <2>5. chat' \in Seq(Copy) /\ Len(chat') <= MaxCopies
      BY <1>5, <1>a DEF OnMessageSendSucceeded
    <2> QED BY <1>5, <2>3, <2>5 DEF OnMessageSendSucceeded
  <1>6. ASSUME NEW t \in DOMAIN chat, SendFailed(t) PROVE TypeOK'
    <2>2. chat' \in Seq(Copy) /\ Len(chat') <= MaxCopies
      BY <1>6, <1>a DEF SendFailed
    <2> QED BY <1>6, <2>2 DEF SendFailed
  <1> QED BY <1>2, <1>3, <1>4, <1>5, <1>6 DEF Telegram

\* The head of the queue is a task of its kind.
LEMMA HeadTask ==
    ASSUME TypeOK, NEW k, NextTaskIs(k)
    PROVE  /\ Head(queue) \in Task /\ Tail(queue) \in Seq(Task) /\ task = Idle
           /\ k = "forward" => Head(queue) \in ForwardTask
           /\ k = "native" => Head(queue) \in NativeTask
           /\ k = "stats" => Head(queue) \in StatsTask
           /\ k = "map" => Head(queue) \in MapTask
           /\ k = "edit" => Head(queue) \in EditTask
           /\ k = "delete" => Head(queue) \in DeleteTask
  <1>1. queue \in Seq(Task) /\ queue # <<>>
    BY DEF TypeOK, NextTaskIs
  <1>2. Head(queue) \in Task /\ Tail(queue) \in Seq(Task)
    BY <1>1
  <1>3. Head(queue).kind = k /\ task = Idle
    BY DEF NextTaskIs
  <1> QED BY <1>2, <1>3, TaskKinds

\* A native forward adds a message to the destination, or nothing.
LEMMA ForwardsType ==
    ASSUME TypeOK, NEW t, t.msg \in Messages, t.rule \in Rules, t.dst \in Dsts,
           Forwards(t)
    PROVE  chat' \in Seq(Copy) /\ Len(chat') <= MaxCopies
  <1>1. chat \in Seq(Copy) /\ Len(chat) <= MaxCopies
    BY DEF TypeOK
  <1>2. CASE chat' = chat
    BY <1>1, <1>2
  <1>3. CASE chat' # chat
    <2> DEFINE new == [status |-> "native", msg |-> t.msg, rule |-> t.rule,
                       dst |-> t.dst, ver |-> srcVer[t.msg],
                       replyTo |-> 0, next |-> {}]
    <2>1. new \in Copy
      BY DEF TypeOK, Copy
    <2>2. chat' = Append(chat, new) /\ Len(chat) < MaxCopies
      BY <1>3 DEF Forwards
    <2> HIDE DEF new
    <2>3. chat' \in Seq(Copy) /\ Len(chat') = Len(chat) + 1
      BY <1>1, <2>1, <2>2
    <2> QED BY <1>1, <2>2, <2>3, BoundAssumption
  <1> QED BY <1>2, <1>3

\* The writes of a task are writes of the maps.
LEMMA WritesTyped ==
    ASSUME NEW t \in TmpIds, NEW p \in PermIds, NEW m \in Messages \cup {NoMsg}
    PROVE  /\ Mapping(t, p) \in Seq(Write) /\ Unmapping(t, p) \in Seq(Write)
           /\ Answering(t, m) \in Seq(Write)
  <1>1. /\ [map |-> "newId", at |-> t, val |-> p] \in Write
        /\ [map |-> "newId", at |-> t, val |-> 0] \in Write
        /\ [map |-> "tmpId", at |-> p, val |-> t] \in Write
        /\ [map |-> "tmpId", at |-> p, val |-> 0] \in Write
        /\ [map |-> "answer", at |-> t, val |-> m] \in Write
        /\ [map |-> "answer", at |-> t, val |-> NoMsg] \in Write
    BY DEF Write
  <1> QED BY <1>1 DEF Mapping, Unmapping, Answering

\* The write under way is of one of the maps, and the rest are writes.
LEMMA HeadWrite ==
    ASSUME TypeOK, writes # <<>>
    PROVE  /\ Head(writes) \in Write /\ Tail(writes) \in Seq(Write)
           /\ CopyWritten(Head(writes)) \in TmpIds
  <1>1. Head(writes) \in Write /\ Tail(writes) \in Seq(Write)
    <2>1. writes \in Seq(Write)
      BY DEF TypeOK
    <2> QED BY <2>1
  <1>2. CopyWritten(Head(writes)) \in TmpIds
    BY <1>1, PermCopy DEF Write, CopyWritten
  <1> QED BY <1>1, <1>2

\* A write keeps the types.
LEMMA TypeWrite ==
    ASSUME TypeOK, WriteNext
    PROVE  TypeOK'
  <1> USE DEF telegramVars, workerVars, storeVars, statsVars, pushVars, boundVars
  <1> DEFINE w == Head(writes)
  <1>1. w \in Write /\ Tail(writes) \in Seq(Write) /\ CopyWritten(w) \in TmpIds
    BY HeadWrite DEF WriteNext
  <1>2. /\ w.map = "newId" => w.at \in TmpIds /\ w.val \in PermIds \cup {0}
        /\ w.map = "tmpId" => w.at \in PermIds /\ w.val \in TmpIds \cup {0}
        /\ w.map = "answer" => w.at \in TmpIds /\ w.val \in Messages \cup {NoMsg}
    BY <1>1 DEF Write
  <1>3. /\ newId' = newId \/ (w.map = "newId" /\ newId' = [newId EXCEPT ![w.at] = w.val])
        /\ tmpId' = tmpId \/ (w.map = "tmpId" /\ tmpId' = [tmpId EXCEPT ![w.at] = w.val])
        /\ answer' = answer \/ (w.map = "answer" /\ answer' = [answer EXCEPT ![w.at] = w.val])
        /\ torn' = torn \/ torn' = torn \cup {CopyWritten(w)}
        /\ writes' = Tail(writes)
    BY DEF WriteNext
  <1> HIDE DEF w
  <1>4. /\ newId' \in [TmpIds -> PermIds \cup {0}]
        /\ tmpId' \in [PermIds -> TmpIds \cup {0}]
        /\ answer' \in [TmpIds -> Messages \cup {NoMsg}]
        /\ torn' \subseteq TmpIds /\ writes' \in Seq(Write)
    BY <1>1, <1>2, <1>3 DEF TypeOK
  <1> QED BY <1>4 DEF WriteNext, TypeOK

\* The tasks that map ids, count and forward natively keep the types.
LEMMA TypeRun ==
    ASSUME TypeOK, RunMap \/ RunStats \/ RunNative
    PROVE  TypeOK'
  <1> USE DEF telegramVars, workerVars, storeVars, statsVars, pushVars, boundVars
  <1>1. CASE RunMap
    <2>1. Head(queue) \in MapTask /\ Tail(queue) \in Seq(Task)
      BY <1>1, HeadTask DEF RunMap
    <2>2. Head(queue).tmp \in TmpIds /\ Head(queue).new \in PermIds
      BY <2>1 DEF MapTask
    <2>3. writes' \in Seq(Write)
      BY <1>1, <2>2, WritesTyped DEF RunMap
    <2> QED BY <1>1, <2>1, <2>3 DEF RunMap, Dequeue, TypeOK
  <1>2. CASE RunStats
    <2>1. Head(queue) \in StatsTask /\ Tail(queue) \in Seq(Task)
      BY <1>2, HeadTask DEF RunStats
    <2>2. Head(queue).rule \in Rules
      BY <2>1 DEF StatsTask
    <2> DEFINE to == RuleCfg[Head(queue).rule].to
               n(d) == Cardinality({i \in DOMAIN to : to[i] = d})
               Plus(count) == [d \in Dsts |-> count[d] + n(d)]
    <2>3. \A d \in Dsts : n(d) \in Nat
      BY <2>2, FiniteNat
    <2>4. ASSUME NEW count \in [Dsts -> Nat] PROVE Plus(count) \in [Dsts -> Nat]
      <3> HIDE DEF n
      <3>1. \A d \in Dsts : count[d] + n(d) \in Nat
        BY <2>3
      <3> QED BY <3>1
    <2>5. viewed \in [Dsts -> Nat] /\ forwarded \in [Dsts -> Nat]
      BY DEF TypeOK
    <2>6. viewed' = Plus(viewed) /\ (forwarded' = Plus(forwarded) \/ forwarded' = forwarded)
      BY <1>2 DEF RunStats
    <2> HIDE DEF Plus
    <2>7. viewed' \in [Dsts -> Nat] /\ forwarded' \in [Dsts -> Nat]
      BY <2>4, <2>5, <2>6
    <2> QED BY <1>2, <2>1, <2>7 DEF RunStats, Dequeue, TypeOK
  <1>3. CASE RunNative
    <2>1. Head(queue) \in NativeTask /\ Tail(queue) \in Seq(Task)
      BY <1>3, HeadTask DEF RunNative
    <2>2. chat' \in Seq(Copy) /\ Len(chat') <= MaxCopies
      BY <1>3, <2>1, ForwardsType DEF RunNative, NativeTask
    <2> QED BY <1>3, <2>1, <2>2 DEF RunNative, Dequeue, TypeOK
  <1> QED BY <1>1, <1>2, <1>3

\* The forwardMessage call keeps the types.
LEMMA TypeForward ==
    ASSUME TypeOK,
           StartForward \/ SendCopy \/ SendCopyFails \/ ForwardNatively \/ RecordCopy
    PROVE  TypeOK'
  <1> USE DEF telegramVars, workerVars, storeVars, statsVars, pushVars, boundVars
  <1>a. ASSUME ReturnFromForward
        PROVE  task' \in Task \cup {Idle} /\ sending' \in Sending \cup {Idle}
    BY <1>a DEF ReturnFromForward, TypeOK
  <1>b. ASSUME sending # Idle
        PROVE  /\ sending \in Sending
               /\ sending.msg \in Messages /\ sending.rule \in Rules
               /\ sending.dst \in Dsts /\ sending.ver \in Versions
               /\ sending.prev \in PermIds \cup {0} /\ sending.tmp \in TmpIds \cup {0}
    BY <1>b DEF TypeOK, Sending
  <1>1. CASE StartForward
    <2> DEFINE t == Head(queue)
               new == [kind |-> "send", msg |-> t.msg, rule |-> t.rule, dst |-> t.dst,
                       ver |-> t.ver, prev |-> 0, tmp |-> 0]
    <2>1. t \in ForwardTask /\ t \in Task /\ Tail(queue) \in Seq(Task)
      BY <1>1, HeadTask DEF StartForward
    <2>2. new \in Sending
      BY <2>1 DEF ForwardTask, Sending
    <2>3. task' = t /\ sending' = new /\ queue' = Tail(queue)
      BY <1>1 DEF StartForward, Dequeue
    <2> HIDE DEF t, new
    <2> QED BY <1>1, <2>1, <2>2, <2>3 DEF StartForward, TypeOK
  <1>2. CASE SendCopy
    <2>1. sending # Idle /\ Len(chat) < MaxCopies
      BY <1>2 DEF SendCopy
    <2>2. PICK p \in ReplyTo(sending.msg, sending.dst) :
            chat' = Append(chat, [status |-> "pending", msg |-> sending.msg,
                                  rule |-> sending.rule, dst |-> sending.dst,
                                  ver |-> sending.ver, replyTo |-> p, next |-> {}])
      BY <1>2 DEF SendCopy
    <2>3. p \in PermIds \cup {0}
      BY <1>b, <2>1, ReplyToType
    <2>4. [status |-> "pending", msg |-> sending.msg, rule |-> sending.rule,
           dst |-> sending.dst, ver |-> sending.ver, replyTo |-> p, next |-> {}] \in Copy
      BY <1>b, <2>1, <2>3 DEF Copy
    <2>5. chat \in Seq(Copy) /\ Len(chat) \in Nat
      BY DEF TypeOK
    <2>6. chat' \in Seq(Copy) /\ Len(chat') = Len(chat) + 1
      BY <2>2, <2>4, <2>5
    <2>7. Len(chat) + 1 \in TmpIds /\ Len(chat) + 1 <= MaxCopies
      BY <2>1, <2>5, BoundAssumption DEF TmpIds
    <2>8. sending' \in Sending
      <3>1. sending' = [sending EXCEPT !.tmp = Len(chat) + 1]
        BY <1>2 DEF SendCopy
      <3> QED BY <3>1, <1>b, <2>1, <2>7 DEF Sending
    <2> QED BY <1>2, <2>6, <2>7, <2>8 DEF SendCopy, TypeOK
  <1>3. CASE SendCopyFails
    BY <1>3, <1>a DEF SendCopyFails, TypeOK
  <1>4. CASE ForwardNatively
    <2>1. chat' \in Seq(Copy) /\ Len(chat') <= MaxCopies
      BY <1>4, <1>b, ForwardsType DEF ForwardNatively
    <2> QED BY <1>4, <1>a, <2>1 DEF ForwardNatively, TypeOK
  <1>5. CASE RecordCopy
    <2> DEFINE m == sending.msg
               ref == [rule |-> sending.rule, dst |-> sending.dst, tmp |-> sending.tmp]
               link == [tmp |-> sending.tmp, prev |-> sending.prev,
                        left |-> MaxLinkTries, new |-> 0, seen |-> {}]
    <2>1. sending # Idle /\ sending.tmp # 0
      BY <1>5 DEF RecordCopy
    <2>2. m \in Messages /\ ref \in Ref /\ sending.tmp \in TmpIds
      BY <1>b, <2>1 DEF Ref
    <2>3. sending.prev # 0 => link \in Linker
      BY <1>b, <2>1, BoundAssumption DEF Linker
    <2>4. linkers' \subseteq Linker
      BY <1>5, <2>3 DEF RecordCopy, TypeOK
    <2>5. copied' \in [Messages -> Seq(Ref)]
      <3>1. copied \in [Messages -> Seq(Ref)] /\ copied[m] \in Seq(Ref)
        BY <2>2 DEF TypeOK
      <3>2. WithCopiedId(copied[m], ref) \in Seq(Ref)
        BY <2>2, <3>1, WithCopiedIdType
      <3>3. copied' = copied \/ copied' = [copied EXCEPT ![m] = WithCopiedId(copied[m], ref)]
        BY <1>5 DEF RecordCopy
      <3> HIDE DEF m, ref
      <3> QED BY <3>1, <3>2, <3>3
    <2>6. writes' \in Seq(Write)
      <3>1. Answering(sending.tmp, m) \in Seq(Write)
        <4>1. Perm(sending.tmp) \in PermIds
          BY <2>2, PermCopy
        <4> QED BY <2>2, <4>1, WritesTyped
      <3> QED BY <1>5, <3>1 DEF RecordCopy
    <2> HIDE DEF m, ref, link
    <2> QED BY <1>5, <1>a, <2>4, <2>5, <2>6 DEF RecordCopy, TypeOK
  <1> QED BY <1>1, <1>2, <1>3, <1>4, <1>5

\* The ref a loop visits.
LEMMA VisitedRef ==
    ASSUME TypeOK, refs # <<>>
    PROVE  /\ Head(refs) \in Ref /\ Tail(refs) \in Seq(Ref)
           /\ Head(refs).rule \in Rules /\ Head(refs).dst \in Dsts
           /\ Head(refs).tmp \in TmpIds
           /\ newId[Head(refs).tmp] \in PermIds \cup {0}
  <1>1. refs \in Seq(Ref)
    BY DEF TypeOK
  <1>2. Head(refs) \in Ref /\ Tail(refs) \in Seq(Ref)
    BY <1>1
  <1>3. /\ Head(refs).rule \in Rules /\ Head(refs).dst \in Dsts
        /\ Head(refs).tmp \in TmpIds
    BY <1>2 DEF Ref
  <1> QED BY <1>2, <1>3 DEF TypeOK

\* A task that ends is retried within its budget.
LEMMA FinishType ==
    ASSUME TypeOK, NEW ms \in SUBSET Messages, task \in EditTask \cup DeleteTask,
           Finish(ms)
    PROVE  /\ task' \in Task \cup {Idle} /\ queue' \in Seq(Task)
           /\ gaveUp' \subseteq Messages
  <1>1. task.attempt < MaxRetry => Retried(task) \in Task
    <2>1. CASE task \in EditTask
      BY <2>1, BoundAssumption DEF EditTask, Task, Retried
    <2>2. CASE task \in DeleteTask
      <3>1. task.attempt \in 0..MaxRetry /\ MaxRetry \in Nat
        BY <2>2, BoundAssumption DEF DeleteTask
      <3>2. task.attempt < MaxRetry => task.attempt + 1 \in 0..MaxRetry
        BY <3>1
      <3>3. task.attempt < MaxRetry =>
              [task EXCEPT !.attempt = task.attempt + 1] \in DeleteTask
        BY <2>2, <3>2 DEF DeleteTask
      <3> QED BY <3>3 DEF Task, Retried
    <2> QED BY <2>1, <2>2
  <1>2. queue \in Seq(Task) /\ gaveUp \subseteq Messages
    BY DEF TypeOK
  <1>3. queue' \in Seq(Task)
    <2>1. CASE needRetry /\ MayRetry(task)
      BY <1>1, <1>2, <2>1, EnqueueType DEF Finish, MayRetry
    <2>2. CASE ~(needRetry /\ MayRetry(task))
      BY <1>2, <2>2 DEF Finish
    <2> QED BY <2>1, <2>2
  <1>4. gaveUp' \subseteq Messages
    BY <1>2 DEF Finish
  <1> QED BY <1>3, <1>4 DEF Finish

Edits == \/ StartEdit \/ EditUnconfirmed \/ EditSkipped \/ EditAsNewVersion
         \/ EditInPlace \/ FinishEdit

Deletes == \/ StartDelete \/ DeleteIndelible \/ DeleteUnconfirmed \/ DeleteCopy
           \/ DeleteNextId \/ FinishDelete

\* editMessages keeps the types.
LEMMA TypeEdits ==
    ASSUME TypeOK, Edits
    PROVE  TypeOK'
  <1> USE DEF telegramVars, workerVars, storeVars, statsVars, pushVars, boundVars
  <1>a. ASSUME task.kind = "edit"
        PROVE  /\ task \in EditTask /\ task \in Task
               /\ task.msg \in Messages /\ task.ver \in Versions
    BY <1>a, TaskKinds DEF TypeOK, EditTask, Task
  <1>1. CASE StartEdit
    <2> DEFINE t == Head(queue)
               fact == [event |-> "edited", ver |-> t.ver, at |-> t.at]
    <2>1. t \in EditTask /\ t \in Task /\ Tail(queue) \in Seq(Task)
      BY <1>1, HeadTask DEF StartEdit
    <2>2. t.msg \in Messages /\ fact \in Fact
      BY <2>1 DEF EditTask, Fact
    <2>3. facts' \in [Messages -> Seq(Fact)]
      <3>1. facts \in [Messages -> Seq(Fact)] /\ Append(facts[t.msg], fact) \in Seq(Fact)
        BY <2>2 DEF TypeOK
      <3>2. \/ facts' = facts
            \/ facts' = [facts EXCEPT ![t.msg] = Append(facts[t.msg], fact)]
        BY <1>1 DEF StartEdit
      <3> HIDE DEF t, fact
      <3> QED BY <3>1, <3>2
    <2>4. copied[t.msg] \in Seq(Ref)
      BY <2>2 DEF TypeOK
    <2>5. task' = t /\ queue' = Tail(queue) /\ refs' = copied[t.msg] /\ needRetry' = FALSE
      BY <1>1 DEF StartEdit, Dequeue
    <2> HIDE DEF t, fact
    <2> QED BY <1>1, <2>1, <2>3, <2>4, <2>5 DEF StartEdit, TypeOK
  <1>2. CASE EditUnconfirmed
    <2>1. Tail(refs) \in Seq(Ref)
      BY <1>2, VisitedRef DEF EditUnconfirmed, Visiting
    <2> QED BY <1>2, <2>1 DEF EditUnconfirmed, TypeOK
  <1>3. CASE EditSkipped
    <2>1. Tail(refs) \in Seq(Ref)
      BY <1>3, VisitedRef DEF EditSkipped, Visiting
    <2> QED BY <1>3, <2>1 DEF EditSkipped, TypeOK
  <1>4. CASE EditAsNewVersion
    <2>1. task.kind = "edit" /\ refs # <<>>
      BY <1>4 DEF EditAsNewVersion, Visiting
    <2>2. Tail(refs) \in Seq(Ref)
      BY <2>1, VisitedRef
    <2>3. sending' \in Sending
      BY <1>4, <2>1, <1>a, VisitedRef DEF EditAsNewVersion, Sending
    <2> QED BY <1>4, <2>2, <2>3 DEF EditAsNewVersion, TypeOK
  <1>5. CASE EditInPlace
    <2> DEFINE t == CopyOf(newId[Head(refs).tmp])
    <2>1. task.kind = "edit" /\ refs # <<>>
      BY <1>5 DEF EditInPlace, Visiting
    <2>2. Tail(refs) \in Seq(Ref) /\ Head(refs).tmp \in TmpIds
      BY <2>1, VisitedRef
    <2>3. task.msg \in Messages /\ task.ver \in Versions
      BY <2>1, <1>a
    <2>4. chat \in Seq(Copy) /\ Len(chat) <= MaxCopies
      BY DEF TypeOK
    <2>5. t \in DOMAIN chat => [chat[t] EXCEPT !.ver = task.ver] \in Copy
      <3> HIDE DEF t
      <3>1. t \in DOMAIN chat => chat[t] \in Copy
        BY <2>4
      <3> QED BY <2>3, <3>1 DEF Copy
    <2>6. \/ chat' = chat
          \/ chat' = [chat EXCEPT ![t] = [chat[t] EXCEPT !.ver = task.ver]]
      BY <1>5 DEF EditInPlace
    <2>7. chat' \in Seq(Copy) /\ Len(chat') <= MaxCopies
      <3> HIDE DEF t
      <3> QED BY <2>4, <2>5, <2>6, ExceptKeeps
    <2>8. writes' \in Seq(Write)
      <3>1. Perm(Head(refs).tmp) \in PermIds
        BY <2>2, PermCopy
      <3> QED BY <1>5, <2>2, <2>3, <3>1, WritesTyped DEF EditInPlace
    <2> QED BY <1>5, <2>2, <2>7, <2>8 DEF EditInPlace, TypeOK
  <1>6. CASE FinishEdit
    <2>1. task \in EditTask /\ {task.msg} \in SUBSET Messages /\ Finish({task.msg})
      BY <1>6, <1>a DEF FinishEdit
    <2> QED BY <1>6, <2>1, FinishType DEF FinishEdit, TypeOK
  <1> QED BY <1>1, <1>2, <1>3, <1>4, <1>5, <1>6 DEF Edits

\* deleteMessages keeps the types.
LEMMA TypeDeletes ==
    ASSUME TypeOK, Deletes
    PROVE  TypeOK'
  <1> USE DEF telegramVars, workerVars, storeVars, statsVars, pushVars, boundVars
  <1>1. CASE StartDelete
    <2> DEFINE t == Head(queue)
               fact(m) == [event |-> "deleted", ver |-> 0, at |-> t.at[m]]
    <2>1. t \in DeleteTask /\ t \in Task /\ Tail(queue) \in Seq(Task)
      BY <1>1, HeadTask DEF StartDelete
    <2>2. t.ids \in Seq(Messages) /\ t.ids # <<>> /\ t.at \in [Messages -> Nat]
      BY <2>1 DEF DeleteTask
    <2>3. Head(t.ids) \in Messages /\ copied[Head(t.ids)] \in Seq(Ref)
      <3>1. copied \in [Messages -> Seq(Ref)]
        BY DEF TypeOK
      <3>2. Head(t.ids) \in Messages
        <4> DEFINE s == t.ids
        <4>1. s \in Seq(Messages) /\ s # <<>>
          BY <2>2
        <4> HIDE DEF s
        <4>2. Head(s) \in Messages
          BY <4>1, HeadTailProperties
        <4> QED BY <4>2 DEF s
      <3> QED BY <3>1, <3>2
    <2>4. facts' \in [Messages -> Seq(Fact)]
      <3>1. ASSUME NEW m \in Messages
            PROVE  Append(facts[m], fact(m)) \in Seq(Fact) /\ facts[m] \in Seq(Fact)
        <4>1. fact(m) \in Fact
          BY <2>2 DEF Fact
        <4>2. facts[m] \in Seq(Fact)
          BY DEF TypeOK
        <4> HIDE DEF fact
        <4> QED BY <4>1, <4>2
      <3> QED BY <1>1, <3>1 DEF StartDelete
    <2>5. /\ task' = t /\ queue' = Tail(queue) /\ ids' = t.ids
          /\ refs' = copied[Head(t.ids)] /\ needRetry' = FALSE
      BY <1>1 DEF StartDelete, Dequeue
    <2> HIDE DEF t
    <2> QED BY <1>1, <2>1, <2>2, <2>3, <2>4, <2>5 DEF StartDelete, TypeOK
  <1>2. CASE DeleteIndelible
    <2>1. Tail(refs) \in Seq(Ref)
      BY <1>2, VisitedRef DEF DeleteIndelible, Visiting
    <2> QED BY <1>2, <2>1 DEF DeleteIndelible, TypeOK
  <1>3. CASE DeleteUnconfirmed
    <2>1. Tail(refs) \in Seq(Ref)
      BY <1>3, VisitedRef DEF DeleteUnconfirmed, Visiting
    <2> QED BY <1>3, <2>1 DEF DeleteUnconfirmed, TypeOK
  <1>4. CASE DeleteCopy
    <2> DEFINE p == newId[Head(refs).tmp]
               t == CopyOf(p)
    <2>1. refs # <<>> /\ p # 0
      BY <1>4 DEF DeleteCopy, Visiting
    <2>2. Tail(refs) \in Seq(Ref) /\ Head(refs).tmp \in TmpIds /\ p \in PermIds
      BY <2>1, VisitedRef
    <2>3. chat \in Seq(Copy) /\ Len(chat) <= MaxCopies
      BY DEF TypeOK
    <2>4. t \in DOMAIN chat => [chat[t] EXCEPT !.status = "deleted"] \in Copy
      <3> HIDE DEF t
      <3>1. t \in DOMAIN chat => chat[t] \in Copy
        BY <2>3
      <3> QED BY <3>1 DEF Copy
    <2>5. \/ chat' = chat
          \/ chat' = [chat EXCEPT ![t] = [chat[t] EXCEPT !.status = "deleted"]]
      BY <1>4 DEF DeleteCopy
    <2>6. chat' \in Seq(Copy) /\ Len(chat') <= MaxCopies
      <3> HIDE DEF t
      <3> QED BY <2>3, <2>4, <2>5, ExceptKeeps
    <2>7. writes' \in Seq(Write)
      BY <1>4, <2>2, WritesTyped DEF DeleteCopy
    <2> QED BY <1>4, <2>2, <2>6, <2>7 DEF DeleteCopy, TypeOK
  <1>5. CASE DeleteNextId
    <2>1. ids \in Seq(Messages) /\ ids # <<>> /\ copied \in [Messages -> Seq(Ref)]
      BY <1>5 DEF DeleteNextId, TypeOK
    <2>2. Tail(ids) \in Seq(Messages) /\ Head(ids) \in Messages
      BY <2>1
    <2>3. refs' \in Seq(Ref)
      <3>1. CASE Tail(ids) = <<>>
        BY <1>5, <3>1 DEF DeleteNextId
      <3>2. CASE Tail(ids) # <<>>
        <4>1. Head(Tail(ids)) \in Messages
          BY <2>2, <3>2
        <4> QED BY <1>5, <2>1, <3>2, <4>1 DEF DeleteNextId
      <3> QED BY <3>1, <3>2
    <2>4. copied' \in [Messages -> Seq(Ref)]
      <3>1. <<>> \in Seq(Ref)
        OBVIOUS
      <3>2. copied' = copied \/ copied' = [copied EXCEPT ![Head(ids)] = <<>>]
        BY <1>5 DEF DeleteNextId
      <3> QED BY <2>1, <2>2, <3>1, <3>2
    <2> QED BY <1>5, <2>2, <2>3, <2>4 DEF DeleteNextId, TypeOK
  <1>6. CASE FinishDelete
    <2> DEFINE ms == {task.ids[i] : i \in DOMAIN task.ids}
    <2>1. task \in DeleteTask
      BY <1>6, TaskKinds DEF FinishDelete, TypeOK
    <2>2. ms \in SUBSET Messages
      BY <2>1 DEF DeleteTask
    <2>3. Finish(ms)
      BY <1>6 DEF FinishDelete
    <2> HIDE DEF ms
    <2> QED BY <1>6, <2>1, <2>2, <2>3, FinishType DEF FinishDelete, TypeOK
  <1> QED BY <1>1, <1>2, <1>3, <1>4, <1>5, <1>6 DEF Deletes

\* The goroutines, a reload and a crash keep the types.
LEMMA TypeRest ==
    ASSUME TypeOK, LinkersSound,
           \/ \E g \in resolvers : Resolve(g)
           \/ \E l \in linkers : NextLink(l)
           \/ \E rs \in SUBSET Rules : SetRuleSetWithPush(rs)
           \/ Crash
    PROVE  TypeOK'
  <1> USE DEF telegramVars, workerVars, storeVars, statsVars, pushVars, boundVars
  <1>a. ASSUME NEW g \in resolvers
        PROVE  g \in Resolver /\ g.msg \in Messages /\ g.ver \in Versions \cup {0}
    BY <1>a DEF TypeOK, Resolver
  <1>b. ASSUME NEW l \in linkers
        PROVE  /\ l \in Linker /\ l.tmp \in TmpIds /\ l.prev \in PermIds
               /\ l.left \in 1..MaxLinkTries /\ l.new \in PermIds \cup {0}
               /\ CopyOf(l.prev) \in DOMAIN chat /\ chat[CopyOf(l.prev)] \in Copy
               /\ l.seen \subseteq PermIds
    BY <1>b DEF TypeOK, Linker, LinkersSound
  <1>1. ASSUME NEW g \in resolvers, ResolveEdit(g) PROVE TypeOK'
    <2>1. [g EXCEPT !.ver = srcVer[g.msg]] \in Resolver
      BY <1>a DEF TypeOK, Resolver
    <2> QED BY <1>1, <2>1 DEF ResolveEdit, TypeOK
  <1>2. ASSUME NEW g \in resolvers, OnEditedMessage(g) PROVE TypeOK'
    <2> DEFINE new == [kind |-> "edit", msg |-> g.msg, ver |-> g.ver, rs |-> rules,
                       attempt |-> 0, at |-> clock[g.msg] + 1]
    <2>1. new \in Task
      <3>1. /\ g.msg \in Messages /\ g.ver \in Versions /\ rules \in SUBSET Rules
            /\ clock[g.msg] + 1 \in Nat
        BY <1>2, <1>a DEF OnEditedMessage, TypeOK
      <3>2. 0 \in 0..MaxRetry
        BY BoundAssumption
      <3>3. new \in EditTask
        BY <3>1, <3>2 DEF EditTask
      <3> QED BY <3>3 DEF Task
    <2>2. queue' \in Seq(Task) /\ clock' \in [Messages -> Nat]
      <3>1. CASE rules = {}
        BY <1>2, <3>1 DEF OnEditedMessage, TypeOK
      <3>2. CASE rules # {}
        <4>1. Enqueue(new) /\ Stamp(g.msg)
          BY <1>2, <3>2 DEF OnEditedMessage
        <4>2. queue' \in Seq(Task)
          BY <2>1, <4>1, EnqueueType DEF TypeOK
        <4>3. clock' \in [Messages -> Nat]
          BY <1>a, <4>1 DEF Stamp, TypeOK
        <4> QED BY <4>2, <4>3
      <3> QED BY <3>1, <3>2
    <2> QED BY <1>2, <2>2 DEF OnEditedMessage, TypeOK
  <1>3. ASSUME NEW l \in linkers, LinkPoll(l) PROVE TypeOK'
    <2>1. l.left # 1 => [l EXCEPT !.left = @ - 1] \in Linker
      BY <1>b, BoundAssumption DEF Linker
    <2>2. linkers' \subseteq Linker
      BY <1>3, <2>1 DEF LinkPoll, TypeOK
    <2> QED BY <1>3, <2>2 DEF LinkPoll, TypeOK
  <1>4. ASSUME NEW l \in linkers, LinkRead(l) PROVE TypeOK'
    <2>1. chat[CopyOf(l.prev)].next \subseteq PermIds /\ newId[l.tmp] \in PermIds \cup {0}
      BY <1>b DEF Copy, TypeOK
    <2>2. [l EXCEPT !.new = newId[l.tmp], !.seen = chat[CopyOf(l.prev)].next] \in Linker
      BY <1>b, <2>1 DEF Linker
    <2>3. linkers' \subseteq Linker
      BY <1>4, <2>2 DEF LinkRead, TypeOK
    <2> QED BY <1>4, <2>3 DEF LinkRead, TypeOK
  <1>5. ASSUME NEW l \in linkers, LinkWrite(l) PROVE TypeOK'
    <2> DEFINE t == CopyOf(l.prev)
               new == [chat[t] EXCEPT !.next = l.seen \cup {l.new}]
    <2>1. t \in DOMAIN chat /\ chat[t] \in Copy /\ l.new \in PermIds
      BY <1>5, <1>b DEF LinkWrite
    <2>2. new \in Copy
      BY <1>b, <2>1 DEF Copy
    <2>3. chat \in Seq(Copy) /\ Len(chat) <= MaxCopies
      BY DEF TypeOK
    <2>4. chat' = chat \/ chat' = [chat EXCEPT ![t] = new]
      BY <1>5 DEF LinkWrite, LinksOldVersion
    <2>5. chat' \in Seq(Copy) /\ Len(chat') <= MaxCopies
      <3> HIDE DEF t, new
      <3> QED BY <2>2, <2>3, <2>4, ExceptKeeps
    <2> QED BY <1>5, <2>5 DEF LinkWrite, TypeOK
  <1>6. ASSUME NEW rs \in SUBSET Rules, SetRuleSetWithPush(rs) PROVE TypeOK'
    BY <1>6, BoundAssumption DEF SetRuleSetWithPush, TypeOK
  <1>7. CASE Crash
    <2>1. /\ <<>> \in Seq(Task) /\ <<>> \in Seq(Ref) /\ <<>> \in Seq(Messages)
          /\ <<>> \in Seq(Write)
      OBVIOUS
    <2>2. crashes' \in 0..MaxCrashes
      BY <1>7, BoundAssumption DEF Crash, TypeOK
    <2>3. /\ ingress' = Idle /\ resolvers' = {} /\ queue' = <<>> /\ linkers' = {}
          /\ task' = Idle /\ refs' = <<>> /\ ids' = <<>> /\ needRetry' = FALSE
          /\ sending' = Idle /\ writes' = <<>>
          /\ UNCHANGED <<srcVer, srcGone, chat, rules, copied, newId, tmpId, answer,
                         viewed, forwarded, facts, clock, gaveUp, reloads>>
      BY <1>7 DEF Crash
    <2>4. torn' \subseteq TmpIds
      <3>1. \A i \in DOMAIN writes : CopyWritten(writes[i]) \in TmpIds
        <4>1. \A i \in DOMAIN writes : writes[i] \in Write
          BY DEF TypeOK
        <4> QED BY <4>1, PermCopy DEF Write, CopyWritten
      <3>2. torn' \subseteq torn \cup {CopyWritten(writes[i]) : i \in DOMAIN writes}
        BY <1>7 DEF Crash
      <3> QED BY <3>1, <3>2 DEF TypeOK
    <2> QED BY <2>1, <2>2, <2>3, <2>4 DEF TypeOK
  <1> QED BY <1>1, <1>2, <1>3, <1>4, <1>5, <1>6, <1>7 DEF Resolve, NextLink

\* Every step keeps the types.  The next-link goroutines and versioning forwards need
\* to know that the message they write to exists (LinkersSound).
LEMMA TypeStep ==
    ASSUME TypeOK, LinkersSound, [Next]_vars
    PROVE  TypeOK'
  <1>1. CASE Worker
    BY <1>1, TypeWrite, TypeRun, TypeForward, TypeEdits, TypeDeletes
       DEF Worker, WorkStep, Edits, Deletes
  <1>2. CASE UNCHANGED vars
    BY <1>2 DEF TypeOK, vars, telegramVars, workerVars, storeVars, statsVars, pushVars,
                boundVars
  <1> QED BY <1>1, <1>2, TypeUpdateLoop, TypeTelegram, TypeRest DEF Next

(***************************************************************************)
(* The id mappings agree                                                   *)
(***************************************************************************)
Delivered == {"sent", "forwarded"}

\* A queued mapping is about a delivered message, and the first one about it.
MapTasksSound ==
    /\ \A i \in DOMAIN queue : queue[i].kind = "map" =>
         LET t == queue[i].tmp IN
         /\ t \in DOMAIN chat /\ chat[t].status \in Delivered
         /\ queue[i].new = Perm(t) /\ newId[t] = 0
    /\ \A i, j \in DOMAIN queue :
         queue[i].kind = "map" /\ queue[j].kind = "map" /\ queue[i].tmp = queue[j].tmp
         => i = j

\* The two maps say the same of a copy that was not taken down.
Agrees(t) ==
    /\ newId[t] # 0 <=> tmpId[Perm(t)] # 0
    /\ newId[t] # 0 => chat[t].status # "deleted"

\* Where the worker is between the writes of a task that are about one copy: what of them
\* is still to be made, and what the store knows without it, unless a write was lost.
MapsBoth(t) ==
    /\ writes = <<[map |-> "newId", at |-> t, val |-> Perm(t)],
                  [map |-> "tmpId", at |-> Perm(t), val |-> t]>>
    /\ t \in DOMAIN chat /\ chat[t].status \in Delivered
    /\ \A i \in DOMAIN queue : queue[i].kind = "map" => queue[i].tmp # t
MapsBack(t) ==
    /\ writes = <<[map |-> "tmpId", at |-> Perm(t), val |-> t]>>
    /\ t \in DOMAIN chat /\ chat[t].status \in Delivered
    /\ t \in torn \/ newId[t] # 0
UnmapsAll(t) ==
    /\ writes = <<[map |-> "newId", at |-> t, val |-> 0],
                  [map |-> "tmpId", at |-> Perm(t), val |-> 0],
                  [map |-> "answer", at |-> t, val |-> NoMsg]>>
    /\ t \in DOMAIN chat
UnmapsBack(t) ==
    /\ writes = <<[map |-> "tmpId", at |-> Perm(t), val |-> 0],
                  [map |-> "answer", at |-> t, val |-> NoMsg]>>
    /\ t \in torn \/ newId[t] = 0
    /\ t \in DOMAIN chat
Answers(t) ==
    /\ \E m \in Messages \cup {NoMsg} : writes = <<[map |-> "answer", at |-> t, val |-> m]>>
    /\ t \in torn \/ Agrees(t)
WritesOf(t) == MapsBoth(t) \/ MapsBack(t) \/ UnmapsAll(t) \/ UnmapsBack(t) \/ Answers(t)
WritesSound == writes # <<>> => \E t \in TmpIds : WritesOf(t)

\* The inductive invariant.
IdInv == TypeOK /\ IdMapsAgree /\ MapTasksSound /\ WritesSound /\ LinkersSound

\* The inductive invariant holds of an empty store.
LEMMA IdInit == Init => IdInv
  <1> SUFFICES ASSUME Init PROVE IdInv
    OBVIOUS
  <1>1. TypeOK
    BY TypeInit
  <1>2. IdMapsAgree
    BY PermCopy DEF Init, IdMapsAgree
  <1>3. MapTasksSound
    BY DEF Init, MapTasksSound
  <1>4. LinkersSound /\ WritesSound
    BY DEF Init, LinkersSound, WritesSound
  <1> QED BY <1>1, <1>2, <1>3, <1>4 DEF IdInv

\* What most steps do: they add no mapping task, and delivered messages and deleted ones
\* stay so.
QueueKeeps ==
    \E o \in {0, 1} : \A i \in DOMAIN queue' :
      queue'[i].kind = "map" => i + o \in DOMAIN queue /\ queue'[i] = queue[i + o]

ChatKeeps ==
    /\ DOMAIN chat \subseteq DOMAIN chat'
    /\ \A t \in DOMAIN chat :
         /\ chat[t].status \in Delivered => chat'[t].status \in Delivered
         /\ chat[t].status = "deleted" => chat'[t].status = "deleted"

\* Taking the head off shifts the indices by one.
LEMMA TailShifts ==
    ASSUME NEW S, NEW q \in Seq(S), q # <<>>
    PROVE  \A i \in DOMAIN Tail(q) : i + 1 \in DOMAIN q /\ Tail(q)[i] = q[i + 1]
  <1> DEFINE r == Tail(q)
  <1>1. /\ r \in Seq(S) /\ Len(r) = Len(q) - 1
        /\ \A i \in 1..Len(r) : r[i] = q[i + 1]
    BY HeadTailProperties
  <1> HIDE DEF r
  <1>2. DOMAIN r = 1..Len(r) /\ DOMAIN q = 1..Len(q) /\ Len(q) \in Nat
    BY <1>1
  <1>3. \A i \in DOMAIN r : i + 1 \in DOMAIN q /\ r[i] = q[i + 1]
    BY <1>1, <1>2
  <1> QED BY <1>3 DEF r

\* What an appended sequence holds.
LEMMA AppendExtends ==
    ASSUME NEW S, NEW q \in Seq(S), NEW x \in S
    PROVE  \A i \in DOMAIN Append(q, x) :
             \/ i \in DOMAIN q /\ Append(q, x)[i] = q[i]
             \/ Append(q, x)[i] = x
  <1> DEFINE r == Append(q, x)
  <1>1. /\ r \in Seq(S) /\ Len(r) = Len(q) + 1 /\ r[Len(q) + 1] = x
        /\ \A i \in 1..Len(q) : r[i] = q[i]
    BY AppendProperties
  <1> HIDE DEF r
  <1>2. DOMAIN r = 1..Len(r) /\ DOMAIN q = 1..Len(q) /\ Len(q) \in Nat
    BY <1>1
  <1>3. \A i \in DOMAIN r : (i \in DOMAIN q /\ r[i] = q[i]) \/ r[i] = x
    BY <1>1, <1>2
  <1> QED BY <1>3 DEF r

\* Appending leaves the elements where they are.
LEMMA AppendKeeps ==
    ASSUME NEW S, NEW q \in Seq(S), NEW x \in S
    PROVE  /\ DOMAIN q \subseteq DOMAIN Append(q, x)
           /\ \A i \in DOMAIN q : Append(q, x)[i] = q[i]
  <1> DEFINE r == Append(q, x)
  <1>1. /\ r \in Seq(S) /\ Len(r) = Len(q) + 1
        /\ \A i \in 1..Len(q) : r[i] = q[i]
    BY AppendProperties
  <1> HIDE DEF r
  <1>2. DOMAIN r = 1..Len(r) /\ DOMAIN q = 1..Len(q) /\ Len(q) \in Nat
    BY <1>1
  <1>3. DOMAIN q \subseteq DOMAIN r /\ \A i \in DOMAIN q : r[i] = q[i]
    BY <1>1, <1>2
  <1> QED BY <1>3 DEF r

\* The ways a step may change the queue without adding a mapping task.
LEMMA QueueSteps ==
    ASSUME TypeOK,
           \/ queue' = queue
           \/ queue' = <<>>
           \/ queue # <<>> /\ queue' = Tail(queue)
           \/ \E x \in Task : x.kind # "map" /\ queue' = Append(queue, x)
    PROVE  QueueKeeps
  <1>1. queue \in Seq(Task) /\ DOMAIN queue = 1..Len(queue) /\ Len(queue) \in Nat
    BY DEF TypeOK
  <1>2. CASE queue' = queue
    <2>1. \A i \in DOMAIN queue' : i + 0 \in DOMAIN queue /\ queue'[i] = queue[i + 0]
      BY <1>1, <1>2
    <2> QED BY <2>1 DEF QueueKeeps
  <1>3. CASE queue' = <<>>
    <2>1. DOMAIN queue' = {}
      BY <1>3
    <2> QED BY <2>1 DEF QueueKeeps
  <1>4. CASE queue # <<>> /\ queue' = Tail(queue)
    <2>1. \A i \in DOMAIN queue' : i + 1 \in DOMAIN queue /\ queue'[i] = queue[i + 1]
      BY <1>1, <1>4, TailShifts
    <2> QED BY <2>1 DEF QueueKeeps
  <1>5. ASSUME NEW x \in Task, x.kind # "map", queue' = Append(queue, x)
        PROVE  QueueKeeps
    <2>1. ASSUME NEW i \in DOMAIN queue', queue'[i].kind = "map"
          PROVE  i + 0 \in DOMAIN queue /\ queue'[i] = queue[i + 0]
      <3>1. \/ i \in DOMAIN queue /\ queue'[i] = queue[i]
            \/ queue'[i] = x
        <4>1. i \in DOMAIN Append(queue, x)
          BY <1>5, <2>1
        <4>2. \/ i \in DOMAIN queue /\ Append(queue, x)[i] = queue[i]
              \/ Append(queue, x)[i] = x
          BY <1>1, <4>1, AppendExtends
        <4> QED BY <1>5, <4>2
      <3>2. i \in DOMAIN queue /\ queue'[i] = queue[i]
        BY <3>1, <1>5, <2>1
      <3> QED BY <3>2, <1>1
    <2> QED BY <2>1 DEF QueueKeeps
  <1> QED BY <1>2, <1>3, <1>4, <1>5

\* A copy that no write is about any more is one the maps agree on.
Settles == \A t \in (torn \cup Unwritten) \ (torn' \cup Unwritten') : Agrees(t)

\* The message a stored id names.
LEMMA StoredId ==
    ASSUME TypeOK, IdMapsAgree, NEW t \in TmpIds, newId[t] # 0 \/ tmpId[Perm(t)] # 0
    PROVE  t \in DOMAIN chat /\ chat[t].status \in Delivered \cup {"deleted"}
  <1>1. t <= Len(chat) /\ chat[t].status \in Delivered \cup {"deleted"}
    BY DEF IdMapsAgree, Delivered
  <1> QED BY <1>1 DEF TmpIds, TypeOK

\* A step that leaves the two id maps alone and keeps messages delivered or deleted keeps
\* the maps in agreement,
LEMMA QuietIds ==
    ASSUME TypeOK, TypeOK', IdMapsAgree, UNCHANGED <<newId, tmpId>>, ChatKeeps, Settles
    PROVE  IdMapsAgree'
  <1>1. ASSUME NEW t \in TmpIds, newId[t] # 0 \/ tmpId[Perm(t)] # 0
        PROVE  /\ t <= Len(chat') /\ chat'[t].status \in {"sent", "forwarded", "deleted"}
               /\ chat[t].status # "deleted" => chat'[t].status # "deleted"
    <2>1. t \in DOMAIN chat /\ chat[t].status \in Delivered \cup {"deleted"}
      BY <1>1, StoredId
    <2>2. /\ t \in DOMAIN chat' /\ chat'[t].status \in Delivered \cup {"deleted"}
          /\ chat[t].status # "deleted" => chat'[t].status \in Delivered
      BY <2>1 DEF ChatKeeps
    <2>3. chat' \in Seq(Copy)
      BY DEF TypeOK
    <2> QED BY <2>2, <2>3 DEF Delivered
  <1>2. ASSUME NEW t \in TmpIds \ (torn' \cup Unwritten')
        PROVE  /\ newId[t] # 0 <=> tmpId[Perm(t)] # 0
               /\ newId[t] # 0 => chat'[t].status # "deleted"
    <2>1. Agrees(t)
      BY <1>2 DEF Settles, IdMapsAgree, Agrees
    <2> QED BY <1>1, <2>1 DEF Agrees
  <1> QED BY <1>1, <1>2 DEF IdMapsAgree

\* and one that adds no mapping task either keeps the queued ones sound.
LEMMA QuietTasks ==
    ASSUME TypeOK, TypeOK', MapTasksSound, UNCHANGED newId, QueueKeeps, ChatKeeps
    PROVE  MapTasksSound'
  <1>1. PICK o \in {0, 1} : \A i \in DOMAIN queue' :
          queue'[i].kind = "map" => i + o \in DOMAIN queue /\ queue'[i] = queue[i + o]
    BY DEF QueueKeeps
  <1>2. DOMAIN queue' \subseteq Nat
    BY DEF TypeOK
  <1>3. ASSUME NEW i \in DOMAIN queue', queue'[i].kind = "map"
        PROVE  LET t == queue'[i].tmp IN
               /\ t \in DOMAIN chat' /\ chat'[t].status \in Delivered
               /\ queue'[i].new = Perm(t) /\ newId'[t] = 0
    BY <1>1, <1>3 DEF MapTasksSound, ChatKeeps
  <1>4. ASSUME NEW i \in DOMAIN queue', NEW j \in DOMAIN queue',
               queue'[i].kind = "map", queue'[j].kind = "map",
               queue'[i].tmp = queue'[j].tmp
        PROVE  i = j
    <2>1. i + o = j + o
      BY <1>1, <1>4 DEF MapTasksSound
    <2> QED BY <1>2, <2>1
  <1> QED BY <1>3, <1>4 DEF MapTasksSound

\* A step of another than the worker leaves the worker where it is.
LEMMA WritesStay ==
    ASSUME TypeOK, IdMapsAgree, WritesSound, UNCHANGED <<newId, tmpId, writes, torn>>,
           ChatKeeps,
           \A i \in DOMAIN queue' : queue'[i].kind = "map" =>
             \/ \E j \in DOMAIN queue : queue'[i] = queue[j]
             \/ queue'[i].tmp \notin DOMAIN chat
             \/ chat[queue'[i].tmp].status \notin Delivered
    PROVE  WritesSound'
  <1> SUFFICES ASSUME writes # <<>>
               PROVE  \E t \in TmpIds : WritesOf(t)'
    BY DEF WritesSound
  <1>1. PICK t \in TmpIds : WritesOf(t)
    BY DEF WritesSound
  <1>2. CASE MapsBoth(t)
    <2>1. t \in DOMAIN chat /\ chat[t].status \in Delivered
      BY <1>2 DEF MapsBoth
    <2>2. \A i \in DOMAIN queue' : queue'[i].kind = "map" => queue'[i].tmp # t
      BY <1>2, <2>1 DEF MapsBoth
    <2>3. t \in DOMAIN chat' /\ chat'[t].status \in Delivered
      BY <2>1 DEF ChatKeeps
    <2> QED BY <1>2, <2>2, <2>3 DEF MapsBoth, WritesOf
  <1>3. CASE MapsBack(t)
    <2>1. t \in DOMAIN chat' /\ chat'[t].status \in Delivered
      BY <1>3 DEF ChatKeeps, MapsBack
    <2> QED BY <1>3, <2>1 DEF MapsBack, WritesOf
  <1>4. CASE UnmapsAll(t)
    BY <1>4 DEF ChatKeeps, UnmapsAll, WritesOf
  <1>5. CASE UnmapsBack(t)
    BY <1>5 DEF ChatKeeps, UnmapsBack, WritesOf
  <1>6. CASE Answers(t)
    <2>1. Agrees(t) => Agrees(t)'
      <3>1. newId[t] # 0 => t \in DOMAIN chat /\ chat[t].status \in Delivered \cup {"deleted"}
        BY StoredId
      <3>2. newId[t] # 0 /\ chat[t].status # "deleted" => chat'[t].status # "deleted"
        BY <3>1 DEF ChatKeeps, Delivered
      <3> QED BY <3>2 DEF Agrees
    <2> QED BY <1>6, <2>1 DEF Answers, WritesOf
  <1> QED BY <1>1, <1>2, <1>3, <1>4, <1>5, <1>6 DEF WritesOf

\* Telegram confirms a message: its mapping is queued once.
LEMMA ConfirmStep ==
    ASSUME IdInv, NEW t \in DOMAIN chat, OnMessageSendSucceeded(t), TypeOK'
    PROVE  IdMapsAgree' /\ MapTasksSound' /\ WritesSound' /\ LinkersSound'
  <1> DEFINE new == [kind |-> "map", tmp |-> t, new |-> Perm(t)]
  <1>1. /\ chat[t].status \notin Delivered /\ chat[t].status # "deleted"
        /\ DOMAIN chat' = DOMAIN chat
        /\ chat'[t].status \in Delivered
        /\ \A u \in DOMAIN chat : u # t => chat'[u] = chat[u]
    <2>1. chat \in Seq(Copy) /\ chat[t] \in Copy
      BY DEF IdInv, TypeOK
    <2>2. PICK st \in Delivered : chat' = [chat EXCEPT ![t] = [chat[t] EXCEPT !.status = st]]
      BY DEF OnMessageSendSucceeded, Delivered
    <2>3. chat[t].status \notin Delivered /\ chat[t].status # "deleted"
      BY DEF OnMessageSendSucceeded, Delivered
    <2>4. [chat[t] EXCEPT !.status = st].status = st
      BY <2>1 DEF Copy
    <2> QED BY <2>1, <2>2, <2>3, <2>4
  <1>2. UNCHANGED <<newId, tmpId, writes, torn, linkers, sending>>
    BY DEF OnMessageSendSucceeded, storeVars, workerVars
  <1>3. t \in TmpIds /\ newId[t] = 0
    <2>1. t \in TmpIds
      BY BoundAssumption DEF IdInv, TypeOK, TmpIds
    <2>2. newId[t] # 0 => chat[t].status \in Delivered \cup {"deleted"}
      BY <2>1, StoredId DEF IdInv
    <2> QED BY <1>1, <2>1, <2>2
  <1>4. queue' = Append(queue, new) /\ queue \in Seq(Task)
    BY DEF OnMessageSendSucceeded, Enqueue, IdInv, TypeOK
  <1>5. /\ DOMAIN queue' = 1..(Len(queue) + 1) /\ DOMAIN queue = 1..Len(queue)
        /\ Len(queue) \in Nat /\ queue'[Len(queue) + 1] = new
        /\ \A i \in DOMAIN queue : queue'[i] = queue[i]
    BY <1>4, AppendProperties
  <1>6. \A i \in DOMAIN queue : queue[i].kind = "map" => queue[i].tmp # t
    BY <1>1 DEF IdInv, MapTasksSound
  <1>7. MapTasksSound'
    <2>1. ASSUME NEW i \in DOMAIN queue', queue'[i].kind = "map"
          PROVE  LET u == queue'[i].tmp IN
                 /\ u \in DOMAIN chat' /\ chat'[u].status \in Delivered
                 /\ queue'[i].new = Perm(u) /\ newId'[u] = 0
      <3>1. CASE i = Len(queue) + 1
        BY <3>1, <1>1, <1>2, <1>3, <1>5
      <3>2. CASE i \in DOMAIN queue
        BY <3>2, <2>1, <1>1, <1>2, <1>5, <1>6 DEF IdInv, MapTasksSound
      <3> QED BY <3>1, <3>2, <1>5
    <2>2. ASSUME NEW i \in DOMAIN queue', NEW j \in DOMAIN queue',
                 queue'[i].kind = "map", queue'[j].kind = "map",
                 queue'[i].tmp = queue'[j].tmp
          PROVE  i = j
      <3> HIDE DEF new
      <3>1. new.tmp = t
        BY DEF new
      <3>2. CASE i \in DOMAIN queue /\ j \in DOMAIN queue
        BY <3>2, <2>2, <1>5 DEF IdInv, MapTasksSound
      <3>3. CASE i = Len(queue) + 1 /\ j \in DOMAIN queue
        BY <3>1, <3>3, <2>2, <1>5, <1>6
      <3>4. CASE j = Len(queue) + 1 /\ i \in DOMAIN queue
        BY <3>1, <3>4, <2>2, <1>5, <1>6
      <3> QED BY <3>2, <3>3, <3>4, <1>5
    <2> QED BY <2>1, <2>2 DEF MapTasksSound
  <1>8. ChatKeeps
    BY <1>1 DEF ChatKeeps
  <1>9. IdMapsAgree'
    <2>1. Settles
      BY <1>2 DEF Settles, Unwritten
    <2> QED BY <1>2, <1>8, <2>1, QuietIds DEF IdInv
  <1>10. WritesSound'
    <2>1. \A i \in DOMAIN queue' : queue'[i].kind = "map" =>
            \/ \E j \in DOMAIN queue : queue'[i] = queue[j]
            \/ queue'[i].tmp = t
      BY <1>5
    <2> QED BY <1>1, <1>2, <1>8, <2>1, WritesStay DEF IdInv
  <1>11. LinkersSound'
    BY <1>1, <1>2 DEF IdInv, LinkersSound
  <1> QED BY <1>7, <1>9, <1>10, <1>11

\* What is left of the writes after the next one.
LEMMA TailWrites ==
    ASSUME NEW a, NEW b, NEW c
    PROVE  /\ Head(<<a>>) = a /\ Tail(<<a>>) = <<>>
           /\ Head(<<a, b>>) = a /\ Tail(<<a, b>>) = <<b>>
           /\ Head(<<a, b, c>>) = a /\ Tail(<<a, b, c>>) = <<b, c>>
  OBVIOUS

\* The writes of a task are about one copy.
LEMMA OneWritten ==
    ASSUME NEW t \in TmpIds, WritesOf(t)
    PROVE  Unwritten = {t} /\ writes # <<>>
  <1>1. CopyOf(Perm(t)) = t
    BY PermCopy
  <1>2. writes # <<>> /\ 1 \in DOMAIN writes /\ \A i \in DOMAIN writes : CopyWritten(writes[i]) = t
    BY <1>1 DEF WritesOf, MapsBoth, MapsBack, UnmapsAll, UnmapsBack, Answers, CopyWritten
  <1> QED BY <1>2 DEF Unwritten

\* A step that touches the store only of one copy keeps the maps in agreement, if what it
\* leaves of that copy does.
LEMMA OneCopyStep ==
    ASSUME IdInv, TypeOK', NEW t \in TmpIds, t \in DOMAIN chat,
           DOMAIN chat' = DOMAIN chat, \A u \in DOMAIN chat : u # t => chat'[u] = chat[u],
           \A u \in TmpIds : u # t => newId'[u] = newId[u] /\ tmpId'[Perm(u)] = tmpId[Perm(u)],
           newId'[t] \in {0, Perm(t)}, tmpId'[Perm(t)] \in {0, t},
           newId'[t] # 0 \/ tmpId'[Perm(t)] # 0
             => chat'[t].status \in {"sent", "forwarded", "deleted"},
           torn \subseteq torn', Unwritten \subseteq {t},
           t \in torn' \cup Unwritten' \/ Agrees(t)'
    PROVE  IdMapsAgree'
  <1>a. /\ chat \in Seq(Copy) /\ chat' \in Seq(Copy)
        /\ newId' \in [TmpIds -> PermIds \cup {0}] /\ tmpId' \in [PermIds -> TmpIds \cup {0}]
    BY DEF IdInv, TypeOK
  <1>b. Len(chat') = Len(chat)
    BY <1>a
  <1>1. \A u \in TmpIds : newId'[u] # 0 => newId'[u] = Perm(u)
    BY DEF IdInv, IdMapsAgree
  <1>2. \A u \in TmpIds : tmpId'[Perm(u)] # 0 => tmpId'[Perm(u)] = u
    BY PermCopy DEF IdInv, IdMapsAgree
  <1>3. \A p \in PermIds : tmpId'[p] # 0 => tmpId'[p] = CopyOf(p)
    BY <1>2, PermCopy
  <1>4. ASSUME NEW u \in TmpIds, newId'[u] # 0 \/ tmpId'[Perm(u)] # 0
        PROVE  u <= Len(chat') /\ chat'[u].status \in {"sent", "forwarded", "deleted"}
    <2>1. CASE u = t
      <3>1. t <= Len(chat)
        BY <1>a
      <3> QED BY <1>4, <1>b, <2>1, <3>1
    <2>2. CASE u # t
      <3>1. newId[u] # 0 \/ tmpId[Perm(u)] # 0
        BY <1>4, <2>2
      <3>2. u \in DOMAIN chat /\ chat[u].status \in Delivered \cup {"deleted"} /\ u <= Len(chat)
        BY <3>1, <1>a, StoredId DEF IdInv
      <3> QED BY <1>b, <2>2, <3>2 DEF Delivered
    <2> QED BY <2>1, <2>2
  <1>5. ASSUME NEW u \in TmpIds \ (torn' \cup Unwritten')
        PROVE  /\ newId'[u] # 0 <=> tmpId'[Perm(u)] # 0
               /\ newId'[u] # 0 => chat'[u].status # "deleted"
    <2>1. CASE u = t
      BY <1>5, <2>1 DEF Agrees
    <2>2. CASE u # t
      <3>1. u \notin torn \cup Unwritten
        BY <1>5, <2>2
      <3>2. /\ newId[u] # 0 <=> tmpId[Perm(u)] # 0
            /\ newId[u] # 0 => chat[u].status # "deleted"
        BY <3>1 DEF IdInv, IdMapsAgree
      <3>3. newId[u] # 0 => u \in DOMAIN chat
        BY StoredId DEF IdInv
      <3> QED BY <2>2, <3>2, <3>3
    <2> QED BY <2>1, <2>2
  <1> QED BY <1>1, <1>3, <1>4, <1>5 DEF IdMapsAgree

\* What a write is about, and what it does.
LEMMA WriteEffect ==
    ASSUME WriteNext
    PROVE  LET w == Head(writes) IN
           /\ writes' = Tail(writes)
           /\ UNCHANGED <<chat, queue, linkers, sending, srcVer, srcGone, copied, task, refs>>
           /\ \/ /\ newId' = IF w.map = "newId" THEN [newId EXCEPT ![w.at] = w.val] ELSE newId
                 /\ tmpId' = IF w.map = "tmpId" THEN [tmpId EXCEPT ![w.at] = w.val] ELSE tmpId
                 /\ answer' = IF w.map = "answer" THEN [answer EXCEPT ![w.at] = w.val]
                              ELSE answer
                 /\ torn' = torn
              \/ /\ "store" \in Faults /\ UNCHANGED <<newId, tmpId, answer>>
                 /\ torn' = torn \cup (IF Tears(w) THEN {CopyWritten(w)} ELSE {})
  BY DEF WriteNext, telegramVars, workerVars

\* The worker makes a write, or fails to.
LEMMA WriteStep ==
    ASSUME IdInv, WriteNext, TypeOK'
    PROVE  IdMapsAgree' /\ MapTasksSound' /\ WritesSound' /\ LinkersSound'
  <1>a. /\ newId \in [TmpIds -> PermIds \cup {0}] /\ tmpId \in [PermIds -> TmpIds \cup {0}]
        /\ chat \in Seq(Copy) /\ queue \in Seq(Task) /\ torn \subseteq TmpIds
    BY DEF IdInv, TypeOK
  <1>b. writes' = Tail(writes) /\ UNCHANGED <<chat, queue, linkers, sending>>
    BY WriteEffect
  <1>c. PICK t \in TmpIds : WritesOf(t)
    BY DEF WriteNext, WritesSound, IdInv
  <1>d. Unwritten = {t} /\ Perm(t) \in PermIds /\ CopyOf(Perm(t)) = t /\ t # 0 /\ Perm(t) # 0
    BY <1>c, OneWritten, PermCopy
  <1>e. \A u \in TmpIds : u # t => Perm(u) \in PermIds /\ Perm(u) # Perm(t)
    BY PermCopy
  <1>f. /\ newId[t] \in {0, Perm(t)} /\ tmpId[Perm(t)] \in {0, t}
        /\ newId[t] # 0 \/ tmpId[Perm(t)] # 0
             => t \in DOMAIN chat /\ chat[t].status \in {"sent", "forwarded", "deleted"}
    BY <1>d, StoredId DEF IdInv, IdMapsAgree, Delivered
  <1>g. LinkersSound'
    BY <1>b DEF IdInv, LinkersSound
  <1>h. newId' = newId => MapTasksSound'
    BY <1>b DEF IdInv, MapTasksSound
  \* Another map than newId is written, or newId loses its key, or is left as it is.
  <1>i. ASSUME newId'[t] = 0, \A u \in TmpIds : u # t => newId'[u] = newId[u]
        PROVE  MapTasksSound'
    <2>1. \A u \in DOMAIN chat : u \in TmpIds
      BY <1>a, BoundAssumption DEF TmpIds, IdInv, TypeOK
    <2> QED BY <1>b, <1>i, <2>1 DEF IdInv, MapTasksSound
  <1>1. CASE MapsBoth(t)
    <2> DEFINE a == [map |-> "newId", at |-> t, val |-> Perm(t)]
               b == [map |-> "tmpId", at |-> Perm(t), val |-> t]
    <2>1. Head(writes) = a /\ writes' = <<b>>
      BY <1>1, <1>b, TailWrites DEF MapsBoth
    <2>2. \/ newId' = [newId EXCEPT ![t] = Perm(t)] /\ tmpId' = tmpId /\ torn' = torn
          \/ newId' = newId /\ tmpId' = tmpId /\ torn' = torn \cup {t}
      <3>1. a.map = "newId" /\ a.at = t /\ a.val = Perm(t) /\ Tears(a) /\ CopyWritten(a) = t
        BY DEF Tears, CopyWritten
      <3> HIDE DEF a
      <3> QED BY <2>1, <3>1, WriteEffect
    <2>3. t \in DOMAIN chat /\ chat[t].status \in Delivered
      BY <1>1 DEF MapsBoth
    <2>4. WritesOf(t)'
      <3>1. t \in torn' \/ newId'[t] # 0
        BY <2>2, <1>a, <1>d
      <3> QED BY <1>b, <2>1, <2>3, <3>1 DEF MapsBack, WritesOf
    <2>5. Unwritten' = {t}
      <3>1. writes' = <<b>> /\ CopyWritten(b) = t
        BY <2>1, <1>d DEF CopyWritten
      <3> HIDE DEF b
      <3> QED BY <3>1 DEF Unwritten
    <2>6. IdMapsAgree'
      <3>1. \A u \in TmpIds : u # t => newId'[u] = newId[u] /\ tmpId'[Perm(u)] = tmpId[Perm(u)]
        BY <2>2, <1>a
      <3>2. newId'[t] \in {0, Perm(t)} /\ tmpId'[Perm(t)] \in {0, t} /\ torn \subseteq torn'
        BY <2>2, <1>a, <1>f
      <3> QED BY <1>b, <1>d, <2>3, <2>5, <3>1, <3>2, OneCopyStep DEF Delivered
    <2>7. MapTasksSound'
      <3>1. CASE newId' = newId
        BY <3>1, <1>h
      <3>2. CASE newId' = [newId EXCEPT ![t] = Perm(t)]
        <4>1. \A i \in DOMAIN queue : queue[i].kind = "map" => queue[i].tmp # t
          BY <1>1 DEF MapsBoth
        <4>2. \A u : u # t => newId'[u] = newId[u]
          BY <3>2, <1>a
        <4> QED BY <1>b, <4>1, <4>2 DEF IdInv, MapTasksSound
      <3> QED BY <2>2, <3>1, <3>2
    <2> QED BY <1>g, <2>4, <2>6, <2>7 DEF WritesSound
  <1>2. CASE MapsBack(t)
    <2> DEFINE a == [map |-> "tmpId", at |-> Perm(t), val |-> t]
    <2>1. Head(writes) = a /\ writes' = <<>>
      BY <1>2, <1>b, TailWrites DEF MapsBack
    <2>2. \/ newId' = newId /\ tmpId' = [tmpId EXCEPT ![Perm(t)] = t] /\ torn' = torn
          \/ newId' = newId /\ tmpId' = tmpId /\ torn' = torn \cup {t}
      <3>1. /\ a.map = "tmpId" /\ a.at = Perm(t) /\ a.val = t /\ Tears(a)
            /\ CopyWritten(a) = t
        BY <1>d DEF Tears, CopyWritten
      <3> HIDE DEF a
      <3> QED BY <2>1, <3>1, WriteEffect
    <2>3. /\ t \in DOMAIN chat /\ chat[t].status \in Delivered
          /\ t \in torn \/ newId[t] # 0
      BY <1>2 DEF MapsBack
    <2>4. IdMapsAgree'
      <3>1. \A u \in TmpIds : u # t => newId'[u] = newId[u] /\ tmpId'[Perm(u)] = tmpId[Perm(u)]
        BY <2>2, <1>a, <1>e
      <3>2. newId'[t] \in {0, Perm(t)} /\ tmpId'[Perm(t)] \in {0, t} /\ torn \subseteq torn'
        BY <2>2, <1>a, <1>d, <1>f
      <3>3. t \in torn' \/ Agrees(t)'
        <4>1. CASE t \in torn'
          BY <4>1
        <4>2. CASE t \notin torn'
          <5>1. newId'[t] # 0 /\ tmpId'[Perm(t)] = t
            BY <4>2, <2>2, <2>3, <1>a, <1>d
          <5>2. chat'[t].status # "deleted"
            BY <1>b, <2>3 DEF Delivered
          <5> QED BY <5>1, <5>2, <1>d DEF Agrees
        <4> QED BY <4>1, <4>2
      <3> QED BY <1>b, <1>d, <2>3, <3>1, <3>2, <3>3, OneCopyStep DEF Delivered
    <2> QED BY <1>g, <1>h, <2>1, <2>2, <2>4 DEF WritesSound
  <1>3. CASE UnmapsAll(t)
    <2> DEFINE a == [map |-> "newId", at |-> t, val |-> 0]
               b == [map |-> "tmpId", at |-> Perm(t), val |-> 0]
               c == [map |-> "answer", at |-> t, val |-> NoMsg]
    <2>1. Head(writes) = a /\ writes' = <<b, c>>
      BY <1>3, <1>b, TailWrites DEF UnmapsAll
    <2>2. \/ newId' = [newId EXCEPT ![t] = 0] /\ tmpId' = tmpId /\ torn' = torn
          \/ newId' = newId /\ tmpId' = tmpId /\ torn' = torn \cup {t}
      <3>1. a.map = "newId" /\ a.at = t /\ a.val = 0 /\ Tears(a) /\ CopyWritten(a) = t
        BY DEF Tears, CopyWritten
      <3> HIDE DEF a
      <3> QED BY <2>1, <3>1, WriteEffect
    <2>3. t \in DOMAIN chat
      BY <1>3 DEF UnmapsAll
    <2>4. WritesOf(t)'
      <3>1. t \in torn' \/ newId'[t] = 0
        BY <2>2, <1>a
      <3> QED BY <1>b, <2>1, <2>3, <3>1 DEF UnmapsBack, WritesOf
    <2>5. Unwritten' = {t}
      <3>1. writes' = <<b, c>> /\ CopyWritten(b) = t /\ CopyWritten(c) = t
        BY <2>1, <1>d DEF CopyWritten
      <3> HIDE DEF b, c
      <3> QED BY <3>1 DEF Unwritten
    <2>6. /\ \A u \in TmpIds : u # t => newId'[u] = newId[u] /\ tmpId'[Perm(u)] = tmpId[Perm(u)]
          /\ newId'[t] \in {0, newId[t]} /\ tmpId'[Perm(t)] = tmpId[Perm(t)] /\ torn \subseteq torn'
      BY <2>2, <1>a
    <2>7. IdMapsAgree'
      BY <1>b, <1>d, <1>f, <2>3, <2>5, <2>6, OneCopyStep
    <2>8. MapTasksSound'
      <3>1. CASE newId' = newId
        BY <3>1, <1>h
      <3>2. CASE newId'[t] = 0
        BY <3>2, <2>6, <1>i
      <3> QED BY <2>2, <3>1, <3>2, <1>a
    <2> QED BY <1>g, <2>4, <2>7, <2>8 DEF WritesSound
  <1>4. CASE UnmapsBack(t)
    <2> DEFINE a == [map |-> "tmpId", at |-> Perm(t), val |-> 0]
               b == [map |-> "answer", at |-> t, val |-> NoMsg]
    <2>1. Head(writes) = a /\ writes' = <<b>>
      BY <1>4, <1>b, TailWrites DEF UnmapsBack
    <2>2. \/ newId' = newId /\ tmpId' = [tmpId EXCEPT ![Perm(t)] = 0] /\ torn' = torn
          \/ newId' = newId /\ tmpId' = tmpId /\ torn' = torn \cup {t}
      <3>1. /\ a.map = "tmpId" /\ a.at = Perm(t) /\ a.val = 0 /\ Tears(a)
            /\ CopyWritten(a) = t
        BY <1>d DEF Tears, CopyWritten
      <3> HIDE DEF a
      <3> QED BY <2>1, <3>1, WriteEffect
    <2>3. t \in DOMAIN chat /\ (t \in torn \/ newId[t] = 0)
      BY <1>4 DEF UnmapsBack
    <2>4. WritesOf(t)'
      <3>1. t \in torn' \/ Agrees(t)'
        <4>1. CASE t \in torn'
          BY <4>1
        <4>2. CASE t \notin torn'
          <5>1. newId'[t] = 0 /\ tmpId'[Perm(t)] = 0
            BY <4>2, <2>2, <2>3, <1>a, <1>d
          <5> QED BY <5>1 DEF Agrees
        <4> QED BY <4>1, <4>2
      <3> QED BY <2>1, <3>1 DEF Answers, WritesOf
    <2>5. Unwritten' = {t}
      <3>1. writes' = <<b>> /\ CopyWritten(b) = t
        BY <2>1 DEF CopyWritten
      <3> HIDE DEF b
      <3> QED BY <3>1 DEF Unwritten
    <2>6. /\ \A u \in TmpIds : u # t => newId'[u] = newId[u] /\ tmpId'[Perm(u)] = tmpId[Perm(u)]
          /\ newId'[t] = newId[t] /\ tmpId'[Perm(t)] \in {0, tmpId[Perm(t)]}
          /\ torn \subseteq torn'
      BY <2>2, <1>a, <1>d, <1>e
    <2>7. IdMapsAgree'
      BY <1>b, <1>d, <1>f, <2>3, <2>5, <2>6, OneCopyStep
    <2> QED BY <1>g, <1>h, <2>2, <2>4, <2>7 DEF WritesSound
  <1>5. CASE Answers(t)
    <2>1. PICK m : writes = <<[map |-> "answer", at |-> t, val |-> m]>>
      BY <1>5 DEF Answers
    <2> DEFINE a == [map |-> "answer", at |-> t, val |-> m]
    <2>2. Head(writes) = a /\ writes' = <<>>
      BY <2>1, <1>b, TailWrites
    <2>3. newId' = newId /\ tmpId' = tmpId /\ torn \subseteq torn'
      <3>1. a.map = "answer"
        OBVIOUS
      <3> HIDE DEF a
      <3> QED BY <2>2, <3>1, WriteEffect
    <2>4. Settles
      BY <1>5, <1>d, <2>3 DEF Settles, Answers
    <2>5. ChatKeeps
      BY <1>b DEF ChatKeeps
    <2> QED BY <1>g, <1>h, <2>2, <2>3, <2>4, <2>5, QuietIds DEF WritesSound, IdInv
  <1> QED BY <1>c, <1>1, <1>2, <1>3, <1>4, <1>5 DEF WritesOf

\* The worker deletes a copy; its mappings are still to go.
LEMMA UnmapStep ==
    ASSUME IdInv, writes = <<>>, DeleteCopy, TypeOK'
    PROVE  IdMapsAgree' /\ MapTasksSound' /\ WritesSound' /\ LinkersSound'
  <1>t. PICK t \in TmpIds : t = Head(refs).tmp
    BY VisitedRef DEF DeleteCopy, Visiting, IdInv
  <1>1. newId[t] # 0
    BY <1>t DEF DeleteCopy
  <1>2. newId[t] = Perm(t) /\ CopyOf(Perm(t)) = t
    BY <1>1, PermCopy DEF IdInv, IdMapsAgree
  <1>3. /\ chat' = chat \/ chat' = [chat EXCEPT ![t].status = "deleted"]
        /\ writes' = Unmapping(t, Perm(t))
        /\ UNCHANGED <<newId, tmpId, torn, queue, linkers, sending>>
    BY <1>t, <1>2 DEF DeleteCopy
  <1>4. /\ chat \in Seq(Copy) /\ chat' \in Seq(Copy)
        /\ newId[t] \in {0, Perm(t)} /\ tmpId[Perm(t)] \in {0, t}
    BY <1>2, PermCopy DEF IdInv, TypeOK, IdMapsAgree
  <1>5. t \in DOMAIN chat /\ chat[t].status \in Delivered \cup {"deleted"}
    BY <1>1, StoredId DEF IdInv
  <1>7. /\ DOMAIN chat' = DOMAIN chat
        /\ \A u \in DOMAIN chat : u # t => chat'[u] = chat[u]
        /\ chat'[t].status \in {"sent", "forwarded", "deleted"}
    <2>1. chat[t] \in Copy
      BY <1>4, <1>5
    <2>2. [chat[t] EXCEPT !.status = "deleted"].status = "deleted"
      BY <2>1 DEF Copy
    <2> QED BY <1>3, <1>4, <1>5, <2>2 DEF Delivered
  <1>8. WritesOf(t)' /\ Unwritten' = {t} /\ Unwritten = {}
    <2>1. WritesOf(t)'
      BY <1>3, <1>5, <1>7 DEF Unmapping, UnmapsAll, WritesOf
    <2>2. \A i \in DOMAIN writes' : CopyWritten(writes'[i]) = t
      BY <1>2, <1>3 DEF Unmapping, CopyWritten
    <2>3. 1 \in DOMAIN writes'
      BY <1>3 DEF Unmapping
    <2> QED BY <2>1, <2>2, <2>3 DEF Unwritten
  <1>9. IdMapsAgree'
    BY <1>3, <1>4, <1>5, <1>7, <1>8, OneCopyStep
  <1>10. MapTasksSound'
    <2>1. ASSUME NEW i \in DOMAIN queue, queue[i].kind = "map"
          PROVE  LET u == queue[i].tmp IN
                 /\ u \in DOMAIN chat' /\ chat'[u].status \in Delivered
                 /\ queue[i].new = Perm(u) /\ newId'[u] = 0
      <3>1. LET u == queue[i].tmp IN
            /\ u \in DOMAIN chat /\ chat[u].status \in Delivered
            /\ queue[i].new = Perm(u) /\ newId[u] = 0
        BY <2>1 DEF IdInv, MapTasksSound
      <3>2. queue[i].tmp # t
        BY <3>1, <1>1
      <3> QED BY <3>1, <3>2, <1>3, <1>7
    <2> QED BY <2>1, <1>3 DEF IdInv, MapTasksSound
  <1>11. LinkersSound'
    BY <1>3, <1>7 DEF IdInv, LinkersSound
  <1>12. WritesSound'
    BY <1>8 DEF WritesSound
  <1> QED BY <1>9, <1>10, <1>11, <1>12

\* The ways a step may change the messages in the destinations and keep delivered ones.
LEMMA ChatSteps ==
    ASSUME TypeOK,
           \/ chat' = chat
           \/ \E x \in Copy : chat' = Append(chat, x)
           \/ \E t : \E y : /\ chat' = [chat EXCEPT ![t] = y]
                            /\ t \in DOMAIN chat =>
                                 /\ chat[t].status \in Delivered => y.status \in Delivered
                                 /\ chat[t].status = "deleted" => y.status = "deleted"
    PROVE  ChatKeeps
  <1>1. chat \in Seq(Copy)
    BY DEF TypeOK
  <1>2. CASE chat' = chat
    BY <1>2 DEF ChatKeeps
  <1>3. ASSUME NEW x \in Copy, chat' = Append(chat, x) PROVE ChatKeeps
    <2>1. /\ DOMAIN chat \subseteq DOMAIN chat'
          /\ \A i \in DOMAIN chat : chat'[i] = chat[i]
      BY <1>1, <1>3, AppendKeeps
    <2> QED BY <2>1 DEF ChatKeeps
  <1>4. ASSUME NEW t, NEW y, chat' = [chat EXCEPT ![t] = y],
               t \in DOMAIN chat =>
                 /\ chat[t].status \in Delivered => y.status \in Delivered
                 /\ chat[t].status = "deleted" => y.status = "deleted"
        PROVE  ChatKeeps
    BY <1>1, <1>4 DEF ChatKeeps
  <1> QED BY <1>2, <1>3, <1>4

\* The other steps of the update loop and of Telegram.
LEMMA QuietIngress ==
    ASSUME IdInv,
           \/ UpdateLoop
           \/ \E m \in Messages : OnNewMessage(m) \/ OnEditUpdate(m)
           \/ \E b \in Batches : OnDeletedMessages(b)
           \/ \E t \in DOMAIN chat : SendFailed(t)
    PROVE  /\ UNCHANGED <<newId, tmpId, writes, torn, linkers, sending>> /\ QueueKeeps /\ ChatKeeps
  <1> USE DEF telegramVars, workerVars, storeVars, statsVars, pushVars, boundVars
  <1>a. TypeOK /\ queue \in Seq(Task)
    BY DEF IdInv, TypeOK
  <1>b. ASSUME NEW x, x.kind # "map", queue' = Append(queue, x), TypeOK' PROVE QueueKeeps
    <2>1. queue' \in Seq(Task)
      BY <1>b DEF TypeOK
    <2>2. Len(queue') = Len(queue) + 1 /\ queue'[Len(queue) + 1] = x
      BY <1>a, <1>b
    <2>3. x \in Task
      BY <1>a, <2>1, <2>2
    <2> QED BY <1>a, <1>b, <2>3, QueueSteps
  <1>1. CASE UpdateLoop
    <2>1. TypeOK'
      BY <1>1, <1>a, TypeUpdateLoop
    <2>2. UNCHANGED <<newId, tmpId, writes, torn, linkers, sending, chat>>
      BY <1>1 DEF UpdateLoop, SkipRule, RouteOk, RouteDst, RouteStats, RouteAside
    <2>3. ChatKeeps
      BY <2>2 DEF ChatKeeps
    <2>4. QueueKeeps
      <3>1. CASE SkipRule \/ RouteOk
        <4>1. queue' = queue
          BY <3>1 DEF SkipRule, RouteOk
        <4> QED BY <4>1, <1>a, QueueSteps
      <3>2. CASE RouteDst
        <4>1. CASE queue' = queue
          BY <4>1, <1>a, QueueSteps
        <4>2. CASE queue' # queue
          <5>1. queue' = Append(queue, [kind |-> "forward", msg |-> ingress.msg,
                                        rule |-> Head(ingress.rules),
                                        dst |-> Head(ingress.to), ver |-> 1])
            BY <3>2, <4>2 DEF RouteDst, Enqueue
          <5> QED BY <5>1, <2>1, <1>b
        <4> QED BY <4>1, <4>2
      <3>3. CASE RouteStats
        <4>1. queue' = Append(queue, [kind |-> "stats", rule |-> Head(ingress.rules),
                                      ok |-> ingress.mode = "ok"])
          BY <3>3 DEF RouteStats, Enqueue
        <4> QED BY <4>1, <2>1, <1>b
      <3>4. ASSUME NEW v \in {"check", "other"}, RouteAside(v) PROVE QueueKeeps
        <4>1. CASE queue' = queue
          BY <4>1, <1>a, QueueSteps
        <4>2. CASE queue' # queue
          <5>1. queue' = Append(queue, [kind |-> "native", msg |-> ingress.msg,
                                        rule |-> Head(ingress.rules),
                                        dst |-> RuleCfg[Head(ingress.rules)][v],
                                        ver |-> 1])
            BY <3>4, <4>2 DEF RouteAside, Enqueue
          <5> QED BY <5>1, <2>1, <1>b
        <4> QED BY <4>1, <4>2
      <3> QED BY <1>1, <3>1, <3>2, <3>3, <3>4 DEF UpdateLoop
    <2> QED BY <2>2, <2>3, <2>4
  <1>2. ASSUME NEW m \in Messages, OnNewMessage(m) \/ OnEditUpdate(m)
        PROVE  UNCHANGED <<newId, tmpId, writes, torn, linkers, sending, chat, queue>>
    BY <1>2 DEF OnNewMessage, OnEditUpdate
  <1>3. ASSUME NEW b \in Batches, OnDeletedMessages(b)
        PROVE  UNCHANGED <<newId, tmpId, writes, torn, linkers, sending, chat>> /\ QueueKeeps
    <2>1. TypeOK'
      BY <1>3, <1>a, TypeTelegram DEF Telegram
    <2>2. CASE queue' = queue
      BY <2>2, <1>3, <1>a, QueueSteps DEF OnDeletedMessages
    <2>3. CASE queue' # queue
      <3>1. queue' = Append(queue, [kind |-> "delete", ids |-> b, rs |-> rules,
                                    attempt |-> 0, at |-> clock'])
        BY <1>3, <2>3 DEF OnDeletedMessages, Enqueue
      <3>2. QueueKeeps
        BY <3>1, <2>1, <1>b
      <3> QED BY <3>2, <1>3 DEF OnDeletedMessages
    <2> QED BY <2>2, <2>3
  <1>4. ASSUME NEW t \in DOMAIN chat, SendFailed(t)
        PROVE  UNCHANGED <<newId, tmpId, writes, torn, linkers, sending, queue>> /\ ChatKeeps
    <2>1. chat[t].status \notin Delivered /\ chat[t].status # "deleted"
      BY <1>4 DEF SendFailed, Delivered
    <2>2. chat' = [chat EXCEPT ![t] = [chat[t] EXCEPT !.status = "failed"]]
      BY <1>4 DEF SendFailed
    <2>3. ChatKeeps
      BY <1>a, <2>1, <2>2, ChatSteps
    <2> QED BY <1>4, <2>3 DEF SendFailed
  <1>5. queue' = queue => QueueKeeps
    BY <1>a, QueueSteps
  <1>6. chat' = chat => ChatKeeps
    BY <1>a, ChatSteps
  <1> QED BY <1>1, <1>2, <1>3, <1>4, <1>5, <1>6

\* The other steps of the worker.
QuietWork == \/ RunMap \/ RunStats \/ RunNative
             \/ StartForward \/ SendCopy \/ SendCopyFails \/ ForwardNatively \/ RecordCopy
             \/ Edits
             \/ StartDelete \/ DeleteIndelible \/ DeleteUnconfirmed \/ DeleteNextId
             \/ FinishDelete

\* The worker's other steps add no mapping task,
LEMMA QuietQueue ==
    ASSUME IdInv, QuietWork, TypeOK'
    PROVE  QueueKeeps
  <1>a. TypeOK /\ queue \in Seq(Task)
    BY DEF IdInv, TypeOK
  <1>b. queue # <<>> /\ queue' = Tail(queue) => QueueKeeps
    BY <1>a, QueueSteps
  <1>c. queue' = queue => QueueKeeps
    BY <1>a, QueueSteps
  <1>d. ASSUME NEW ms, Finish(ms), task.kind \in {"edit", "delete"}
        PROVE  QueueKeeps
    <2>1. CASE queue' = queue
      BY <2>1, <1>c
    <2>2. CASE queue' # queue
      <3>1. queue' = Append(queue, Retried(task))
        BY <1>d, <2>2 DEF Finish, Enqueue
      <3>2. Retried(task).kind = task.kind
        BY <1>d, <1>a, TaskKinds DEF Retried, TypeOK, EditTask, DeleteTask
      <3>3. Retried(task) \in Task
        <4>1. queue' \in Seq(Task)
          BY DEF TypeOK
        <4>2. Len(queue') = Len(queue) + 1 /\ queue'[Len(queue) + 1] = Retried(task)
          BY <1>a, <3>1
        <4> QED BY <1>a, <4>1, <4>2
      <3> QED BY <1>a, <1>d, <3>1, <3>2, <3>3, QueueSteps
    <2> QED BY <2>1, <2>2
  <1>1. CASE RunMap \/ RunStats \/ RunNative \/ StartForward \/ StartEdit \/ StartDelete
    BY <1>1, <1>b DEF RunMap, RunStats, RunNative, StartForward, StartEdit, StartDelete,
                      NextTaskIs, Dequeue
  <1>2. CASE SendCopy \/ SendCopyFails \/ ForwardNatively \/ RecordCopy
    BY <1>2, <1>c DEF SendCopy, SendCopyFails, ForwardNatively, RecordCopy
  <1>3. CASE EditUnconfirmed \/ EditSkipped \/ EditAsNewVersion \/ EditInPlace
    BY <1>3, <1>c DEF EditUnconfirmed, EditSkipped, EditAsNewVersion, EditInPlace
  <1>4. CASE DeleteIndelible \/ DeleteUnconfirmed \/ DeleteNextId
    BY <1>4, <1>c DEF DeleteIndelible, DeleteUnconfirmed, DeleteNextId
  <1>5. CASE FinishEdit
    BY <1>5, <1>d DEF FinishEdit
  <1>6. CASE FinishDelete
    BY <1>6, <1>d DEF FinishDelete
  <1> QED BY <1>1, <1>2, <1>3, <1>4, <1>5, <1>6 DEF QuietWork, Edits

\* keep delivered messages delivered,
LEMMA QuietChat ==
    ASSUME IdInv, QuietWork, TypeOK'
    PROVE  ChatKeeps
  <1>a. TypeOK /\ chat \in Seq(Copy) /\ chat' \in Seq(Copy)
    BY DEF IdInv, TypeOK
  <1>b. chat' = chat => ChatKeeps
    BY <1>a, ChatSteps
  <1>c. ASSUME NEW x, chat' = Append(chat, x) PROVE ChatKeeps
    <2>1. Len(chat') = Len(chat) + 1 /\ chat'[Len(chat) + 1] = x
      BY <1>a, <1>c
    <2>2. x \in Copy
      BY <1>a, <2>1
    <2> QED BY <1>a, <1>c, <2>2, ChatSteps
  <1>d. ASSUME NEW t, Forwards(t) PROVE ChatKeeps
    BY <1>b, <1>c, <1>d DEF Forwards
  <1>1. CASE RunNative \/ ForwardNatively
    BY <1>1, <1>d DEF RunNative, ForwardNatively
  <1>2. CASE SendCopy
    BY <1>2, <1>c DEF SendCopy
  <1>3. CASE EditInPlace
    <2> DEFINE t == CopyOf(newId[Head(refs).tmp])
               y == [chat[t] EXCEPT !.ver = task.ver]
    <2>1. CASE chat' = chat
      BY <2>1, <1>b
    <2>2. CASE chat' # chat
      <3>1. chat' = [chat EXCEPT ![t] = y]
        BY <1>3, <2>2 DEF EditInPlace
      <3>2. t \in DOMAIN chat => y.status = chat[t].status
        <4> HIDE DEF t
        <4>1. t \in DOMAIN chat => chat[t] \in Copy
          BY <1>a
        <4> QED BY <4>1 DEF Copy
      <3> HIDE DEF t, y
      <3> QED BY <1>a, <3>1, <3>2, ChatSteps
    <2> QED BY <2>1, <2>2
  <1>4. CASE \/ RunMap \/ RunStats \/ StartForward \/ SendCopyFails \/ RecordCopy
             \/ StartEdit \/ EditUnconfirmed \/ EditSkipped \/ EditAsNewVersion
             \/ FinishEdit \/ StartDelete \/ DeleteIndelible \/ DeleteUnconfirmed
             \/ DeleteNextId \/ FinishDelete
    <2>1. chat' = chat
      BY <1>4 DEF RunMap, RunStats, StartForward, SendCopyFails, RecordCopy, StartEdit,
                  EditUnconfirmed, EditSkipped, EditAsNewVersion, FinishEdit,
                  StartDelete, DeleteIndelible, DeleteUnconfirmed, DeleteNextId,
                  FinishDelete, telegramVars
    <2> QED BY <1>b, <2>1
  <1> QED BY <1>1, <1>2, <1>3, <1>4 DEF QuietWork, Edits

\* leave the two id maps alone,
LEMMA QuietMaps ==
    ASSUME QuietWork
    PROVE  UNCHANGED <<newId, tmpId, torn>>
  BY DEF QuietWork, Edits, RunMap, RunStats, RunNative, StartForward, SendCopy, SendCopyFails,
         ForwardNatively, RecordCopy, StartEdit, EditUnconfirmed, EditSkipped,
         EditAsNewVersion, EditInPlace, FinishEdit, StartDelete, DeleteIndelible,
         DeleteUnconfirmed, DeleteNextId, FinishDelete, storeVars

\* have next only writes the maps are ready for,
LEMMA QuietWrites ==
    ASSUME IdInv, writes = <<>>, QuietWork, TypeOK', QueueKeeps, ChatKeeps
    PROVE  WritesSound'
  <1>a. UNCHANGED <<newId, tmpId, torn>>
    BY QuietMaps
  <1>b. Unwritten = {}
    BY DEF Unwritten
  <1>c. ASSUME NEW t \in TmpIds, NEW m \in Messages \cup {NoMsg}, writes' = Answering(t, m)
        PROVE  WritesSound'
    <2>1. t \in torn \/ Agrees(t)
      BY <1>b DEF IdInv, IdMapsAgree, Agrees
    <2>2. Agrees(t) => Agrees(t)'
      <3>1. newId[t] # 0 => t \in DOMAIN chat /\ chat[t].status \in Delivered \cup {"deleted"}
        BY StoredId DEF IdInv
      <3>2. newId[t] # 0 /\ chat[t].status # "deleted" => chat'[t].status # "deleted"
        BY <3>1 DEF ChatKeeps, Delivered
      <3> QED BY <1>a, <3>2 DEF Agrees
    <2> QED BY <1>a, <1>c, <2>1, <2>2 DEF Answering, Answers, WritesOf, WritesSound
  <1>1. CASE RunMap
    <2>t. PICK t : t = Head(queue).tmp
      OBVIOUS
    <2>1. queue \in Seq(Task) /\ queue # <<>> /\ Head(queue).kind = "map"
      BY <1>1 DEF RunMap, NextTaskIs, IdInv, TypeOK
    <2>2. /\ 1 \in DOMAIN queue /\ queue[1] = Head(queue)
          /\ DOMAIN queue \subseteq Nat /\ queue' = Tail(queue)
      BY <1>1, <2>1 DEF RunMap, Dequeue
    <2>3. /\ t \in DOMAIN chat /\ chat[t].status \in Delivered
          /\ Head(queue).new = Perm(t)
      BY <2>t, <2>1, <2>2 DEF IdInv, MapTasksSound
    <2>4. t \in TmpIds
      <3>1. chat \in Seq(Copy) /\ Len(chat) <= MaxCopies
        BY DEF IdInv, TypeOK
      <3>2. t \in 1..Len(chat) /\ Len(chat) \in Nat
        BY <2>3, <3>1
      <3> QED BY <3>1, <3>2, BoundAssumption DEF TmpIds
    <2>5. ASSUME NEW i \in DOMAIN queue', queue'[i].kind = "map"
          PROVE  queue'[i].tmp # t
      <3>1. \A k \in DOMAIN queue' : k + 1 \in DOMAIN queue /\ queue'[k] = queue[k + 1]
        BY <2>1, <2>2, TailShifts
      <3>2. DOMAIN queue' = 1..Len(queue') /\ Len(queue') \in Nat
        BY DEF TypeOK
      <3>3. queue[i + 1].kind = "map" /\ i + 1 # 1 /\ i + 1 \in DOMAIN queue
        BY <3>1, <3>2, <2>5
      <3> QED BY <2>t, <3>1, <3>3, <2>1, <2>2 DEF IdInv, MapTasksSound
    <2>6. writes' = Mapping(t, Perm(t)) /\ chat' = chat
      BY <1>1, <2>t, <2>3 DEF RunMap, telegramVars
    <2>7. MapsBoth(t)'
      BY <2>3, <2>5, <2>6 DEF Mapping, MapsBoth
    <2> QED BY <2>4, <2>7 DEF WritesSound, WritesOf
  <1>2. CASE RecordCopy
    <2>1. /\ sending # Idle /\ sending.tmp # 0
          /\ writes' = <<>> \/ writes' = Answering(sending.tmp, sending.msg)
      BY <1>2 DEF RecordCopy
    <2>2. sending.tmp \in TmpIds /\ sending.msg \in Messages
      BY <2>1 DEF IdInv, TypeOK, Sending
    <2> QED BY <1>c, <2>1, <2>2 DEF WritesSound
  <1>3. CASE EditInPlace
    <2>1. /\ task.kind = "edit" /\ refs # <<>>
          /\ \/ writes' = Answering(Head(refs).tmp, task.msg)
             \/ writes' = Answering(Head(refs).tmp, NoMsg)
      BY <1>3 DEF EditInPlace, Visiting
    <2>2. Head(refs).tmp \in TmpIds
      BY <2>1, VisitedRef DEF IdInv
    <2>3. task.msg \in Messages
      BY <2>1, TaskKinds DEF IdInv, TypeOK, EditTask
    <2> QED BY <1>c, <2>1, <2>2, <2>3
  <1>4. CASE writes' = <<>>
    BY <1>4 DEF WritesSound
  <1>5. CASE ~(RunMap \/ RecordCopy \/ EditInPlace)
    <2>1. writes' = writes
      BY <1>5 DEF QuietWork, Edits, RunStats, RunNative, StartForward, SendCopy,
                  SendCopyFails, ForwardNatively, StartEdit, EditUnconfirmed,
                  EditSkipped, EditAsNewVersion, FinishEdit, StartDelete,
                  DeleteIndelible, DeleteUnconfirmed, DeleteNextId, FinishDelete,
                  storeVars
    <2> QED BY <1>4, <2>1
  <1> QED BY <1>1, <1>2, <1>3, <1>5

\* and start next-link goroutines only on messages that exist.
LEMMA QuietLinks ==
    ASSUME IdInv, QuietWork, ChatKeeps
    PROVE  LinkersSound'
  <1> USE DEF telegramVars, workerVars, storeVars, statsVars, pushVars, boundVars
  <1>a. \A t \in DOMAIN chat : t \in DOMAIN chat'
    BY DEF ChatKeeps
  <1>1. CASE UNCHANGED <<linkers, sending>>
    BY <1>1, <1>a DEF IdInv, LinkersSound
  <1>2. CASE StartForward
    <2>1. sending'.prev = 0 /\ linkers' = linkers
      BY <1>2 DEF StartForward
    <2> QED BY <2>1, <1>a DEF IdInv, LinkersSound
  <1>3. CASE SendCopy
    <2>1. sending'.prev = sending.prev /\ sending # Idle /\ linkers' = linkers
      <3>1. sending # Idle /\ sending \in Sending
        BY <1>3 DEF SendCopy, IdInv, TypeOK
      <3>2. sending' = [sending EXCEPT !.tmp = Len(chat) + 1] /\ linkers' = linkers
        BY <1>3 DEF SendCopy
      <3> QED BY <3>1, <3>2 DEF Sending
    <2> QED BY <2>1, <1>a DEF IdInv, LinkersSound
  <1>4. CASE SendCopyFails \/ ForwardNatively
    <2>1. sending' = Idle /\ linkers' = linkers
      BY <1>4 DEF SendCopyFails, ForwardNatively, ReturnFromForward
    <2> QED BY <2>1, <1>a DEF IdInv, LinkersSound
  <1>5. CASE RecordCopy
    <2>1. sending' = Idle /\ sending # Idle
      BY <1>5 DEF RecordCopy, ReturnFromForward
    <2>2. \A l \in linkers' : l \in linkers \/ (sending.prev # 0 /\ l.prev = sending.prev)
      BY <1>5 DEF RecordCopy
    <2> QED BY <2>1, <2>2, <1>a DEF IdInv, LinkersSound
  <1>6. CASE EditAsNewVersion
    <2> DEFINE t == Head(refs).tmp
    <2>1. sending'.prev = newId[t] /\ newId[t] # 0 /\ linkers' = linkers /\ t \in TmpIds
      BY <1>6, VisitedRef DEF EditAsNewVersion, Visiting, IdInv
    <2>2. newId[t] = Perm(t)
      BY <2>1 DEF IdInv, IdMapsAgree
    <2>3. CopyOf(newId[t]) = t
      BY <2>1, <2>2, PermCopy
    <2>4. t \in DOMAIN chat
      BY <2>1, StoredId DEF IdInv
    <2> HIDE DEF t
    <2> QED BY <2>1, <2>3, <2>4, <1>a DEF IdInv, LinkersSound
  <1>7. CASE RunMap \/ RunStats \/ RunNative
    BY <1>7, <1>1 DEF RunMap, RunStats, RunNative
  <1>8. CASE StartEdit \/ EditUnconfirmed \/ EditSkipped \/ EditInPlace \/ FinishEdit
    BY <1>8, <1>1 DEF StartEdit, EditUnconfirmed, EditSkipped, EditInPlace, FinishEdit
  <1>9. CASE StartDelete \/ DeleteIndelible \/ DeleteUnconfirmed \/ DeleteNextId
             \/ FinishDelete
    BY <1>9, <1>1 DEF StartDelete, DeleteIndelible, DeleteUnconfirmed, DeleteNextId,
                      FinishDelete
  <1> QED BY <1>2, <1>3, <1>4, <1>5, <1>6, <1>7, <1>8, <1>9 DEF QuietWork, Edits

\* A crash loses the writes that were not made yet.
LEMMA CrashSettles ==
    ASSUME IdInv, Crash
    PROVE  Settles /\ WritesSound'
  <1>1. /\ writes' = <<>>
        /\ torn' = torn \cup {CopyWritten(writes[i]) : i \in {j \in DOMAIN writes : Tears(writes[j])}}
    BY DEF Crash
  <1>2. ASSUME NEW t \in TmpIds, WritesOf(t), t \notin torn' PROVE Agrees(t)
    <2>1. CASE Answers(t)
      BY <1>1, <1>2, <2>1 DEF Answers
    <2>2. CASE ~Answers(t)
      <3>1. /\ 1 \in DOMAIN writes /\ Tears(writes[1]) /\ CopyWritten(writes[1]) = t
        BY <1>2, <2>2, PermCopy
           DEF WritesOf, MapsBoth, MapsBack, UnmapsAll, UnmapsBack, Tears, CopyWritten
      <3> QED BY <1>1, <1>2, <3>1
    <2> QED BY <2>1, <2>2
  <1>3. writes # <<>> => \E t \in TmpIds : WritesOf(t) /\ Unwritten = {t}
    BY OneWritten DEF IdInv, WritesSound
  <1>4. writes = <<>> => Unwritten = {}
    BY DEF Unwritten
  <1>5. Settles
    BY <1>1, <1>2, <1>3, <1>4 DEF Settles
  <1> QED BY <1>1, <1>5 DEF WritesSound

\* The goroutines, a reload and a crash.
LEMMA QuietRest ==
    ASSUME IdInv, TypeOK',
           \/ \E g \in resolvers : Resolve(g)
           \/ \E l \in linkers : NextLink(l)
           \/ \E rs \in SUBSET Rules : SetRuleSetWithPush(rs)
           \/ Crash
    PROVE  /\ UNCHANGED <<newId, tmpId>> /\ QueueKeeps /\ ChatKeeps /\ LinkersSound'
           /\ UNCHANGED <<writes, torn>> \/ Crash
  <1> USE DEF telegramVars, workerVars, storeVars, statsVars, pushVars, boundVars
  <1>a. TypeOK /\ queue \in Seq(Task) /\ chat \in Seq(Copy)
    BY DEF IdInv, TypeOK
  <1>b. /\ queue' = queue \/ queue' = <<>> => QueueKeeps
        /\ chat' = chat => ChatKeeps
    BY <1>a, QueueSteps, ChatSteps
  <1>c. UNCHANGED <<chat, sending>> /\ linkers' \subseteq linkers => LinkersSound'
    BY DEF IdInv, LinkersSound
  <1>1. ASSUME NEW g \in resolvers, ResolveEdit(g)
        PROVE  UNCHANGED <<newId, tmpId, writes, torn, queue, chat, sending, linkers>>
    BY <1>1 DEF ResolveEdit
  <1>2. ASSUME NEW g \in resolvers, OnEditedMessage(g)
        PROVE  UNCHANGED <<newId, tmpId, writes, torn, chat, sending, linkers>> /\ QueueKeeps
    <2>1. UNCHANGED <<newId, tmpId, writes, torn, chat, sending, linkers>>
      BY <1>2 DEF OnEditedMessage
    <2>2. CASE queue' = queue
      BY <2>1, <2>2, <1>b
    <2>3. CASE queue' # queue
      <3> DEFINE new == [kind |-> "edit", msg |-> g.msg, ver |-> g.ver, rs |-> rules,
                         attempt |-> 0, at |-> clock[g.msg] + 1]
      <3>1. queue' = Append(queue, new)
        BY <1>2, <2>3 DEF OnEditedMessage, Enqueue
      <3>2. new.kind # "map"
        OBVIOUS
      <3> HIDE DEF new
      <3>3. queue' \in Seq(Task)
        BY DEF TypeOK
      <3>4. Len(queue') = Len(queue) + 1 /\ queue'[Len(queue) + 1] = new
        BY <1>a, <3>1
      <3>5. new \in Task
        BY <1>a, <3>3, <3>4
      <3> QED BY <1>a, <2>1, <3>1, <3>2, <3>5, QueueSteps
    <2> QED BY <2>2, <2>3
  <1>3. ASSUME NEW l \in linkers, LinkPoll(l) \/ LinkRead(l)
        PROVE  UNCHANGED <<newId, tmpId, writes, torn, queue, chat, sending>> /\ LinkersSound'
    <2>1. UNCHANGED <<newId, tmpId, writes, torn, queue, chat, sending>>
      BY <1>3 DEF LinkPoll, LinkRead
    <2>2. l \in Linker
      BY DEF IdInv, TypeOK
    <2>3. \A k \in linkers' : k \in linkers \/ k.prev = l.prev
      <3>1. CASE LinkPoll(l)
        <4>1. [l EXCEPT !.left = @ - 1].prev = l.prev
          BY <2>2 DEF Linker
        <4> QED BY <3>1, <4>1 DEF LinkPoll
      <3>2. CASE LinkRead(l)
        <4> DEFINE seen == [l EXCEPT !.new = newId[l.tmp], !.seen = chat[CopyOf(l.prev)].next]
        <4>1. seen.prev = l.prev
          BY <2>2 DEF Linker
        <4>2. linkers' \subseteq linkers \cup {seen}
          BY <3>2 DEF LinkRead
        <4> QED BY <4>1, <4>2
      <3> QED BY <1>3, <3>1, <3>2
    <2> QED BY <2>1, <2>3 DEF IdInv, LinkersSound
  <1>4. ASSUME NEW l \in linkers, LinkWrite(l)
        PROVE  UNCHANGED <<newId, tmpId, writes, torn, queue, sending>> /\ LinkersSound' /\ ChatKeeps
    <2> DEFINE t == CopyOf(l.prev)
               y == [chat[t] EXCEPT !.next = l.seen \cup {l.new}]
    <2>1. UNCHANGED <<newId, tmpId, writes, torn, queue, sending>> /\ linkers' = linkers \ {l}
      BY <1>4 DEF LinkWrite
    <2>2. chat' = chat \/ chat' = [chat EXCEPT ![t] = y]
      BY <1>4 DEF LinkWrite, LinksOldVersion
    <2>3. y.status = chat[t].status
      <3>1. chat[t] \in Copy
        BY <1>a DEF IdInv, LinkersSound
      <3> HIDE DEF t
      <3> QED BY <3>1 DEF Copy
    <2> HIDE DEF t, y
    <2>4. DOMAIN chat' = DOMAIN chat
      BY <2>2
    <2>5. ChatKeeps
      BY <1>a, <2>2, <2>3, ChatSteps
    <2> QED BY <2>1, <2>4, <2>5 DEF IdInv, LinkersSound
  <1>5. ASSUME NEW rs \in SUBSET Rules, SetRuleSetWithPush(rs)
        PROVE  UNCHANGED <<newId, tmpId, writes, torn, queue, chat, sending, linkers>>
    BY <1>5 DEF SetRuleSetWithPush
  <1>6. CASE Crash
    <2>1. /\ UNCHANGED <<newId, tmpId, chat>> /\ queue' = <<>> /\ linkers' = {}
          /\ sending' = Idle
      BY <1>6 DEF Crash
    <2>2. LinkersSound'
      BY <2>1 DEF LinkersSound
    <2> QED BY <1>b, <1>6, <2>1, <2>2
  <1>7. UNCHANGED <<newId, tmpId, writes, torn, queue, chat, sending, linkers>> =>
          UNCHANGED <<newId, tmpId, writes, torn>> /\ QueueKeeps /\ ChatKeeps /\ LinkersSound'
    BY <1>b, <1>c
  <1> QED BY <1>b, <1>c, <1>1, <1>2, <1>3, <1>4, <1>5, <1>6, <1>7 DEF Resolve, NextLink

\* The inductive invariant is kept by every step of the engine.
LEMMA IdStep == IdInv /\ [Next]_vars => IdInv'
  <1> SUFFICES ASSUME IdInv, [Next]_vars PROVE IdInv'
    OBVIOUS
  <1>1. TypeOK'
    BY TypeStep DEF IdInv
  <1>2. ASSUME UNCHANGED <<newId, tmpId>>, Settles, QueueKeeps, ChatKeeps, WritesSound',
               LinkersSound'
        PROVE  IdInv'
    BY <1>1, <1>2, QuietIds, QuietTasks DEF IdInv
  <1>3. ASSUME UNCHANGED <<newId, tmpId, writes, torn>>, QueueKeeps, ChatKeeps, LinkersSound'
        PROVE  IdInv'
    <2>1. Settles
      BY <1>3 DEF Settles, Unwritten
    <2>2. \A i \in DOMAIN queue' : queue'[i].kind = "map" =>
            \E j \in DOMAIN queue : queue'[i] = queue[j]
      BY <1>3 DEF QueueKeeps
    <2>3. WritesSound'
      BY <1>3, <2>2, WritesStay DEF IdInv
    <2> QED BY <1>2, <1>3, <2>1, <2>3
  <1>4. ASSUME UNCHANGED <<linkers, sending>>, ChatKeeps PROVE LinkersSound'
    BY <1>4 DEF IdInv, LinkersSound, ChatKeeps
  <1>5. CASE UpdateLoop
    BY <1>5, <1>3, <1>4, QuietIngress
  <1>6. CASE Telegram
    <2>1. ASSUME NEW t \in DOMAIN chat, OnMessageSendSucceeded(t) PROVE IdInv'
      BY <2>1, <1>1, ConfirmStep DEF IdInv
    <2>2. CASE ~ \E t \in DOMAIN chat : OnMessageSendSucceeded(t)
      <3>1. /\ UNCHANGED <<newId, tmpId, writes, torn, linkers, sending>>
            /\ QueueKeeps /\ ChatKeeps
        BY <1>6, <2>2, QuietIngress DEF Telegram
      <3> QED BY <3>1, <1>3, <1>4
    <2> QED BY <2>1, <2>2
  <1>7. CASE Worker
    <2>1. CASE WriteNext
      BY <2>1, <1>1, WriteStep DEF IdInv
    <2>2. CASE writes = <<>> /\ DeleteCopy
      BY <2>2, <1>1, UnmapStep DEF IdInv
    <2>3. CASE writes = <<>> /\ QuietWork
      <3>1. /\ UNCHANGED <<newId, tmpId, torn>> /\ QueueKeeps /\ ChatKeeps
            /\ WritesSound' /\ LinkersSound'
        BY <2>3, <1>1, QuietQueue, QuietChat, QuietMaps, QuietLinks, QuietWrites
      <3>2. Settles
        BY <2>3, <3>1 DEF Settles, Unwritten
      <3> QED BY <3>1, <3>2, <1>2
    <2> QED BY <1>7, <2>1, <2>2, <2>3 DEF Worker, WorkStep, QuietWork, Edits
  <1>8. CASE \/ \E g \in resolvers : Resolve(g)
             \/ \E l \in linkers : NextLink(l)
             \/ \E rs \in SUBSET Rules : SetRuleSetWithPush(rs)
             \/ Crash
    <2>1. /\ UNCHANGED <<newId, tmpId>> /\ QueueKeeps /\ ChatKeeps /\ LinkersSound'
          /\ UNCHANGED <<writes, torn>> \/ Crash
      BY <1>8, <1>1, QuietRest
    <2> QED BY <2>1, <1>2, <1>3, CrashSettles
  <1>9. CASE UNCHANGED vars
    <2>1. UNCHANGED <<newId, tmpId, writes, torn, queue, chat, sending, linkers>>
      BY <1>9 DEF vars, telegramVars, workerVars, storeVars
    <2>2. QueueKeeps /\ ChatKeeps
      BY <2>1, QueueSteps, ChatSteps DEF IdInv
    <2> QED BY <2>1, <2>2, <1>3, <1>4
  <1> QED BY <1>5, <1>6, <1>7, <1>8, <1>9 DEF Next

\* The state of the core keeps its shape: in particular the retry budget of edits and
\* deletes is never exceeded, and every stored id belongs to the id space of its bucket.
THEOREM TypeCorrect == Spec => []TypeOK
  <1>1. IdInv => TypeOK
    BY DEF IdInv
  <1> QED BY IdInit, IdStep, <1>1, PTL DEF Spec

\* SetNewMessageID and SetTmpMessageID against the deletes of deleteMessages, each a write
\* that may fail, with crashes between any two: for any rules, messages, retry budget and
\* number of crashes a stored id is the right one, of a message that was delivered; and the
\* two maps say the same, and nothing of a deleted message, except of a copy whose writes are
\* under way or had one lost.
THEOREM IdMapsAlwaysAgree == Spec => []IdMapsAgree
  <1>1. IdInv => IdMapsAgree
    BY DEF IdInv
  <1> QED BY IdInit, IdStep, <1>1, PTL DEF Spec

(***************************************************************************)
(* Copies, references to them, replies and links                           *)
(***************************************************************************)
\* A reference is true of a copy that was sent, not forwarded, for that message.
Natively == {"native", "forwarded"}
Shows(messages, ref, m) ==
    /\ ref.tmp \in DOMAIN messages
    /\ SameRoute(messages[ref.tmp], [msg |-> m, rule |-> ref.rule, dst |-> ref.dst])
    /\ messages[ref.tmp].status \notin Natively
TrueRefs(messages, list, m) == \A i \in DOMAIN list : Shows(messages, list[i], m)

Distinct(list) == \A i, j \in DOMAIN list :
                    i # j => list[i].rule # list[j].rule \/ list[i].dst # list[j].dst

\* A deletion is of messages deleted at the source.
GoneIn(t, gone) == t.kind = "delete" => \A i \in DOMAIN t.ids : t.ids[i] \in gone

ListsSound == \A m \in Messages : TrueRefs(chat, copied[m], m) /\ Distinct(copied[m])

DeletesSound == GoneIn(task, srcGone) /\ \A i \in DOMAIN queue : GoneIn(queue[i], srcGone)

\* What is left of the list an edit or a deletion walks through is of its message.
WalkSound ==
    /\ task.kind = "edit" => TrueRefs(chat, refs, task.msg)
    /\ task.kind = "delete" =>
         /\ \A i \in DOMAIN ids : ids[i] \in srcGone
         /\ IF ids = <<>> THEN refs = <<>> ELSE TrueRefs(chat, refs, Head(ids))

\* A link leads to a later message of the same route that was confirmed once.
LinkTrue(messages, t, p) ==
    /\ CopyOf(p) \in DOMAIN messages /\ t < CopyOf(p)
    /\ SameRoute(messages[t], messages[CopyOf(p)])
    /\ messages[CopyOf(p)].status \in {"sent", "deleted"}

\* What was sent and is not recorded yet is a copy for its reference, and still there; a
\* version follows a message of its route.
SentRef == [rule |-> sending.rule, dst |-> sending.dst, tmp |-> sending.tmp]
SendingSound ==
    sending # Idle =>
      /\ task.kind \in {"forward", "edit"}
      /\ sending.tmp # 0 => /\ Shows(chat, SentRef, sending.msg)
                            /\ chat[sending.tmp].status # "deleted"
      /\ sending.prev # 0 => /\ SameRoute(chat[CopyOf(sending.prev)], sending)
                             /\ sending.tmp # 0 => CopyOf(sending.prev) < sending.tmp

AnswersSound ==
    \A t \in TmpIds : answer[t] # NoMsg =>
      /\ t \in DOMAIN chat /\ chat[t].msg = answer[t]
      /\ chat[t].status = "deleted" => t \in torn \cup Unwritten

\* So is an answer that is still to be written.
PendingSound ==
    \A t \in TmpIds, m \in Messages : writes = Answering(t, m) =>
      t \in DOMAIN chat /\ chat[t].msg = m /\ (chat[t].status = "deleted" => t \in torn)

RepliesSound ==
    \A t \in DOMAIN chat : chat[t].replyTo # 0 =>
      LET target == CopyOf(chat[t].replyTo) IN
      /\ target \in DOMAIN chat
      /\ chat[target].dst = chat[t].dst /\ chat[target].msg = ReplyOf[chat[t].msg]

\* The links in the chats, and those the goroutines have in hand.
LinksSound ==
    /\ \A t \in DOMAIN chat : \A p \in chat[t].next : LinkTrue(chat, t, p)
    /\ \A l \in linkers : LET t == CopyOf(l.prev) IN
         /\ t < l.tmp /\ l.tmp \in DOMAIN chat
         /\ SameRoute(chat[t], chat[l.tmp]) /\ chat[l.tmp].status \notin Natively
         /\ \A p \in l.seen \cup ({l.new} \ {0}) : LinkTrue(chat, t, p)

CopyInv == /\ IdInv /\ ListsSound /\ DeletesSound /\ WalkSound /\ SendingSound
           /\ AnswersSound /\ PendingSound /\ RepliesSound /\ LinksSound

LEMMA CopyInit == Init => CopyInv
  <1> SUFFICES ASSUME Init PROVE CopyInv
    OBVIOUS
  <1>1. ListsSound
    BY DEF Init, ListsSound, TrueRefs, Distinct
  <1>2. DeletesSound /\ WalkSound
    BY DEF Init, DeletesSound, WalkSound, GoneIn, Idle
  <1>3. SendingSound /\ AnswersSound /\ PendingSound /\ RepliesSound /\ LinksSound
    BY DEF Init, SendingSound, AnswersSound, PendingSound, Answering, RepliesSound, LinksSound
  <1> QED BY <1>1, <1>2, <1>3, IdInit DEF CopyInv

\* What no step does to a message of a destination.
ChatStable ==
    \A t \in DOMAIN chat :
        /\ t \in DOMAIN chat'
        /\ chat'[t].msg = chat[t].msg /\ chat'[t].rule = chat[t].rule
        /\ chat'[t].dst = chat[t].dst /\ chat'[t].replyTo = chat[t].replyTo
        /\ chat[t].status \notin Natively => chat'[t].status \notin Natively
        /\ chat[t].status \in {"sent", "deleted"} => chat'[t].status \in {"sent", "deleted"}

NothingDeleted ==
    \A t \in DOMAIN chat : chat[t].status # "deleted" => chat'[t].status # "deleted"

NoNewLinks ==
    \A t \in DOMAIN chat' : chat'[t].next = IF t \in DOMAIN chat THEN chat[t].next ELSE {}

\* Nothing or a message is added.
LEMMA ChatAppended ==
    ASSUME TypeOK, NEW x \in Copy, chat' = Append(chat, x), x.next = {}
    PROVE  ChatStable /\ NothingDeleted /\ NoNewLinks
  <1>1. chat \in Seq(Copy)
    BY DEF TypeOK
  <1>2. /\ DOMAIN chat \subseteq DOMAIN chat'
        /\ \A t \in DOMAIN chat : chat'[t] = chat[t]
    BY <1>1, AppendKeeps
  <1>3. \A t \in DOMAIN chat' : (t \in DOMAIN chat /\ chat'[t] = chat[t]) \/ chat'[t] = x
    BY <1>1, AppendExtends
  <1>4. \A t \in DOMAIN chat' : t \notin DOMAIN chat => chat'[t].next = {}
    BY <1>3
  <1> QED BY <1>2, <1>4 DEF ChatStable, NothingDeleted, NoNewLinks

\* The status or the version of a message changes.
Changed(t, st, v) ==
    /\ chat' = [chat EXCEPT ![t] = [chat[t] EXCEPT !.status = st, !.ver = v]]
    /\ t \in DOMAIN chat =>
         /\ chat[t].status \notin Natively => st \notin Natively
         /\ chat[t].status \in {"sent", "deleted"} => st \in {"sent", "deleted"}

LEMMA ChatChanged ==
    ASSUME TypeOK, NEW t, NEW st, NEW v, Changed(t, st, v)
    PROVE  /\ ChatStable /\ NoNewLinks /\ DOMAIN chat' = DOMAIN chat
           /\ (t \in DOMAIN chat => chat[t].status = st \/ st # "deleted") => NothingDeleted
  <1> USE DEF Changed
  <1>1. DOMAIN chat' = DOMAIN chat
    OBVIOUS
  <1>2. \A u \in DOMAIN chat : chat[u] \in Copy
    BY DEF TypeOK
  <1>3. \A u \in DOMAIN chat : u # t => chat'[u] = chat[u]
    OBVIOUS
  <1>4. t \in DOMAIN chat =>
          /\ chat'[t].msg = chat[t].msg /\ chat'[t].rule = chat[t].rule
          /\ chat'[t].dst = chat[t].dst /\ chat'[t].replyTo = chat[t].replyTo
          /\ chat'[t].next = chat[t].next /\ chat'[t].status = st
    BY <1>2 DEF Copy
  <1>5. ChatStable
    BY <1>1, <1>3, <1>4 DEF ChatStable
  <1>6. NoNewLinks
    BY <1>1, <1>3, <1>4 DEF NoNewLinks
  <1>7. (t \in DOMAIN chat => chat[t].status = st \/ st # "deleted") => NothingDeleted
    BY <1>3, <1>4 DEF NothingDeleted
  <1> QED BY <1>1, <1>5, <1>6, <1>7

\* A message that stays as it is.
LEMMA ChatUnchanged ==
    ASSUME chat' = chat
    PROVE  ChatStable /\ NothingDeleted /\ NoNewLinks
  BY DEF ChatStable, NothingDeleted, NoNewLinks

\* The copy a deletion takes down is the one its reference names.
LEMMA DeletedCopy ==
    ASSUME CopyInv, DeleteCopy
    PROVE  LET c == Head(refs) IN
           /\ c.tmp \in DOMAIN chat /\ c.tmp \in TmpIds /\ CopyOf(newId[c.tmp]) = c.tmp
           /\ chat[c.tmp].status \in {"sent", "deleted"} /\ chat[c.tmp].msg \in srcGone
           /\ chat[c.tmp].rule = c.rule
           /\ UNCHANGED chat \/ chat' = [chat EXCEPT ![c.tmp].status = "deleted"]
           /\ writes' = Unmapping(c.tmp, Perm(c.tmp))
  <1> DEFINE c == Head(refs)
  <1>1. refs # <<>> /\ newId[c.tmp] # 0 /\ task.kind = "delete"
    BY DEF DeleteCopy, Visiting
  <1>2. c.tmp \in TmpIds /\ newId[c.tmp] \in PermIds
    BY <1>1, VisitedRef DEF CopyInv, IdInv
  <1>3. newId[c.tmp] = Perm(c.tmp) /\ chat[c.tmp].status \in Delivered \cup {"deleted"}
    BY <1>1, <1>2, StoredId DEF CopyInv, IdInv, IdMapsAgree
  <1>4. CopyOf(newId[c.tmp]) = c.tmp
    BY <1>2, <1>3, PermCopy
  <1>5. ids # <<>> /\ TrueRefs(chat, refs, Head(ids)) /\ (\A i \in DOMAIN ids : ids[i] \in srcGone)
    BY <1>1 DEF CopyInv, WalkSound
  <1>6. Shows(chat, c, Head(ids))
    <2>1. refs \in Seq(Ref) /\ refs # <<>>
      BY <1>1 DEF CopyInv, IdInv, TypeOK
    <2>2. 1 \in DOMAIN refs /\ refs[1] = c
      BY <2>1
    <2> QED BY <1>5, <2>2 DEF TrueRefs
  <1>7. Head(ids) \in srcGone
    <2>1. ids \in Seq(Messages) /\ ids # <<>>
      BY <1>5 DEF CopyInv, IdInv, TypeOK
    <2>2. 1 \in DOMAIN ids /\ ids[1] = Head(ids)
      BY <2>1
    <2> QED BY <1>5, <2>2
  <1>8. chat[c.tmp].status \in {"sent", "deleted"}
    BY <1>3, <1>6 DEF Shows, Natively, Delivered
  <1>9. /\ UNCHANGED chat \/ chat' = [chat EXCEPT ![c.tmp].status = "deleted"]
        /\ writes' = Unmapping(c.tmp, Perm(c.tmp))
    BY <1>3, <1>4 DEF DeleteCopy
  <1> QED BY <1>2, <1>4, <1>6, <1>7, <1>8, <1>9 DEF Shows, SameRoute

\* A native forward that Telegram takes.
LEMMA ForwardsStable ==
    ASSUME TypeOK, TypeOK', NEW t, Forwards(t)
    PROVE  /\ ChatStable /\ NothingDeleted /\ NoNewLinks
           /\ \A u \in DOMAIN chat' : u \notin DOMAIN chat => chat'[u].replyTo = 0
  <1>1. CASE chat' = chat
    BY <1>1, ChatUnchanged
  <1>2. CASE chat' # chat
    <2> DEFINE x == [status |-> "native", msg |-> t.msg, rule |-> t.rule,
                     dst |-> t.dst, ver |-> srcVer[t.msg], replyTo |-> 0, next |-> {}]
    <2>1. chat' = Append(chat, x) /\ x.next = {} /\ x.replyTo = 0
      BY <1>2 DEF Forwards
    <2> HIDE DEF x
    <2>2. chat \in Seq(Copy) /\ chat' \in Seq(Copy)
      BY DEF TypeOK
    <2>3. Len(chat') = Len(chat) + 1 /\ chat'[Len(chat) + 1] = x
      BY <2>1, <2>2
    <2>4. x \in Copy
      BY <2>2, <2>3
    <2>5. \A u \in DOMAIN chat' : (u \in DOMAIN chat /\ chat'[u] = chat[u]) \/ chat'[u] = x
      BY <2>1, <2>2, <2>4, AppendExtends
    <2> QED BY <2>1, <2>4, <2>5, ChatAppended
  <1> QED BY <1>1, <1>2

\* What SendCopy adds.
LEMMA SendCopyAdds ==
    ASSUME TypeOK, TypeOK', SendCopy
    PROVE  /\ ChatStable /\ NothingDeleted /\ NoNewLinks
           /\ sending \in Sending /\ sending' = [sending EXCEPT !.tmp = Len(chat) + 1]
           /\ \A u \in DOMAIN chat' : u \in DOMAIN chat \/ u = Len(chat) + 1
           /\ LET new == chat'[Len(chat) + 1] IN
              /\ Len(chat) + 1 \in DOMAIN chat'
              /\ new.msg = sending.msg /\ new.rule = sending.rule
              /\ new.dst = sending.dst /\ new.status = "pending"
              /\ new.replyTo \in ReplyTo(sending.msg, sending.dst)
  <1>1. PICK p \in ReplyTo(sending.msg, sending.dst) :
          chat' = Append(chat, [status |-> "pending", msg |-> sending.msg,
                                rule |-> sending.rule, dst |-> sending.dst,
                                ver |-> sending.ver, replyTo |-> p, next |-> {}])
    BY DEF SendCopy
  <1> DEFINE x == [status |-> "pending", msg |-> sending.msg,
                   rule |-> sending.rule, dst |-> sending.dst,
                   ver |-> sending.ver, replyTo |-> p, next |-> {}]
  <1>2. /\ x.next = {} /\ x.replyTo = p /\ x.msg = sending.msg /\ x.rule = sending.rule
        /\ x.dst = sending.dst /\ x.status = "pending" /\ chat' = Append(chat, x)
    BY <1>1
  <1> HIDE DEF x
  <1>3. chat \in Seq(Copy) /\ chat' \in Seq(Copy)
    BY DEF TypeOK
  <1>4. /\ Len(chat') = Len(chat) + 1 /\ chat'[Len(chat) + 1] = x
        /\ DOMAIN chat' = 1..(Len(chat) + 1) /\ DOMAIN chat = 1..Len(chat) /\ Len(chat) \in Nat
    BY <1>2, <1>3
  <1>5. x \in Copy
    BY <1>3, <1>4
  <1>6. \A u \in DOMAIN chat' : u \in DOMAIN chat \/ u = Len(chat) + 1
    BY <1>4
  <1>7. ChatStable /\ NothingDeleted /\ NoNewLinks
    BY <1>2, <1>5, ChatAppended
  <1>8. sending \in Sending /\ sending' = [sending EXCEPT !.tmp = Len(chat) + 1]
    BY DEF SendCopy, TypeOK
  <1>9. Len(chat) + 1 \in DOMAIN chat'
    BY <1>4
  <1> QED BY <1>2, <1>4, <1>6, <1>7, <1>8, <1>9

\* The text a next-link goroutine writes.
LEMMA LinkWritten ==
    ASSUME CopyInv, NEW l \in linkers, LinkWrite(l)
    PROVE  /\ ChatStable /\ NothingDeleted /\ DOMAIN chat' = DOMAIN chat
           /\ \A u \in DOMAIN chat : chat'[u].next = chat[u].next
                                  \/ (u = CopyOf(l.prev) /\ chat'[u].next = l.seen \cup {l.new})
  <1> DEFINE t == CopyOf(l.prev)
  <1>1. t \in DOMAIN chat /\ chat[t] \in Copy
    BY DEF CopyInv, IdInv, LinkersSound, TypeOK
  <1>2. chat' = chat \/ chat' = [chat EXCEPT ![t] = [chat[t] EXCEPT !.next = l.seen \cup {l.new}]]
    BY DEF LinkWrite, LinksOldVersion
  <1> HIDE DEF t
  <1>3. DOMAIN chat' = DOMAIN chat
    BY <1>2
  <1>4. \A u \in DOMAIN chat : chat'[u] = chat[u]
             \/ (u = t /\ chat'[u] = [chat[u] EXCEPT !.next = l.seen \cup {l.new}])
    BY <1>1, <1>2
  <1>5. \A u \in DOMAIN chat :
          /\ chat'[u].msg = chat[u].msg /\ chat'[u].rule = chat[u].rule
          /\ chat'[u].dst = chat[u].dst /\ chat'[u].replyTo = chat[u].replyTo
          /\ chat'[u].status = chat[u].status
          /\ chat'[u].next = chat[u].next
             \/ (u = t /\ chat'[u].next = l.seen \cup {l.new})
    BY <1>1, <1>4 DEF Copy
  <1> QED BY <1>3, <1>5 DEF ChatStable, NothingDeleted, t

\* New messages reply to nothing.
OldReplies == \A u \in DOMAIN chat' : u \notin DOMAIN chat => chat'[u].replyTo = 0

\* What a step does to the messages of the destinations.
LEMMA ChatStep ==
    ASSUME CopyInv, TypeOK', [Next]_vars
    PROVE  /\ ChatStable
           /\ NothingDeleted \/ (writes = <<>> /\ DeleteCopy)
           /\ NoNewLinks \/ \E l \in linkers : LinkWrite(l)
           /\ OldReplies \/ SendCopy
  <1> USE DEF telegramVars
  <1>a. TypeOK
    BY DEF CopyInv, IdInv
  <1>b. chat' = chat => ChatStable /\ NothingDeleted /\ NoNewLinks /\ OldReplies
    BY ChatUnchanged DEF OldReplies
  <1>c. DOMAIN chat' = DOMAIN chat => OldReplies
    BY DEF OldReplies
  <1>d. \A u \in DOMAIN chat : chat[u] \in Copy
    BY <1>a DEF TypeOK
  <1>e. ASSUME NEW t, NEW st,
               /\ chat' = [chat EXCEPT ![t] = [chat[t] EXCEPT !.status = st]]
               /\ t \in DOMAIN chat =>
                    /\ chat[t].status \notin Natively => st \notin Natively
                    /\ chat[t].status \in {"sent", "deleted"} => st \in {"sent", "deleted"}
        PROVE  Changed(t, st, chat[t].ver)
    <2> DEFINE y == [chat[t] EXCEPT !.status = st]
               z == [chat[t] EXCEPT !.status = st, !.ver = chat[t].ver]
    <2>1. chat' = [chat EXCEPT ![t] = y]
      BY <1>e
    <2>2. t \in DOMAIN chat => y = z
      BY <1>d DEF Copy
    <2> HIDE DEF y, z
    <2>3. chat' = [chat EXCEPT ![t] = z]
      BY <2>1, <2>2
    <2> QED BY <2>3, <1>e DEF Changed, z
  <1>1. CASE UpdateLoop
    <2>1. chat' = chat
      BY <1>1 DEF UpdateLoop, SkipRule, RouteOk, RouteDst, RouteStats, RouteAside
    <2> QED BY <2>1, <1>b
  <1>2. CASE Telegram
    <2>1. ASSUME NEW m \in Messages, OnNewMessage(m) \/ OnEditUpdate(m)
          PROVE  chat' = chat
      BY <2>1 DEF OnNewMessage, OnEditUpdate
    <2>2. ASSUME NEW b \in Batches, OnDeletedMessages(b) PROVE chat' = chat
      BY <2>2 DEF OnDeletedMessages
    <2>3. ASSUME NEW t \in DOMAIN chat, OnMessageSendSucceeded(t)
          PROVE  ChatStable /\ NothingDeleted /\ NoNewLinks /\ OldReplies
      <3>1. CASE chat[t].status = "pending" /\ chat' = [chat EXCEPT ![t].status = "sent"]
        <4>1. Changed(t, "sent", chat[t].ver)
          BY <3>1, <1>e DEF Natively
        <4> QED BY <4>1, <1>a, <1>c, ChatChanged
      <3>2. CASE chat[t].status = "native" /\ chat' = [chat EXCEPT ![t].status = "forwarded"]
        <4>1. Changed(t, "forwarded", chat[t].ver)
          BY <3>2, <1>e DEF Natively
        <4> QED BY <4>1, <1>a, <1>c, ChatChanged
      <3> QED BY <2>3, <3>1, <3>2 DEF OnMessageSendSucceeded
    <2>4. ASSUME NEW t \in DOMAIN chat, SendFailed(t)
          PROVE  ChatStable /\ NothingDeleted /\ NoNewLinks /\ OldReplies
      <3>1. /\ chat[t].status \in {"pending", "native"}
            /\ chat' = [chat EXCEPT ![t].status = "failed"]
        BY <2>4 DEF SendFailed
      <3>2. Changed(t, "failed", chat[t].ver)
        BY <3>1, <1>e DEF Natively
      <3> QED BY <3>2, <1>a, <1>c, ChatChanged
    <2> QED BY <1>2, <1>b, <2>1, <2>2, <2>3, <2>4 DEF Telegram
  <1>3. CASE RunNative \/ ForwardNatively
    <2>1. \E t : Forwards(t)
      BY <1>3 DEF RunNative, ForwardNatively
    <2> QED BY <2>1, <1>a, ForwardsStable DEF OldReplies
  <1>4. CASE SendCopy
    BY <1>4, <1>a, SendCopyAdds
  <1>5. CASE EditInPlace
    <2> DEFINE t == CopyOf(newId[Head(refs).tmp])
               y == [chat[t] EXCEPT !.ver = task.ver]
               z == [chat[t] EXCEPT !.status = chat[t].status, !.ver = task.ver]
    <2>1. chat' = chat \/ chat' = [chat EXCEPT ![t] = y]
      BY <1>5 DEF EditInPlace
    <2>2. t \in DOMAIN chat => y = z
      <3> HIDE DEF t
      <3> QED BY <1>d DEF Copy
    <2> HIDE DEF t, y
    <2>3. CASE chat' = [chat EXCEPT ![t] = y]
      <3>1. chat' = [chat EXCEPT ![t] = z]
        <4> HIDE DEF z
        <4> QED BY <2>2, <2>3
      <3>2. Changed(t, chat[t].status, task.ver)
        BY <3>1 DEF Changed
      <3> QED BY <3>2, <1>a, <1>c, ChatChanged
    <2> QED BY <2>1, <2>3, <1>b
  <1>6. CASE writes = <<>> /\ DeleteCopy
    <2>1. LET c == Head(refs) IN
          /\ chat[c.tmp].status \in {"sent", "deleted"}
          /\ UNCHANGED chat \/ chat' = [chat EXCEPT ![c.tmp].status = "deleted"]
      BY <1>6, DeletedCopy
    <2>2. CASE chat' # chat
      <3> DEFINE t == Head(refs).tmp
      <3>1. /\ chat[t].status \in {"sent", "deleted"}
            /\ chat' = [chat EXCEPT ![t].status = "deleted"]
        BY <2>1, <2>2
      <3>2. Changed(t, "deleted", chat[t].ver)
        BY <3>1, <1>e DEF Natively
      <3> QED BY <3>2, <1>6, <1>a, <1>c, ChatChanged
    <2> QED BY <2>2, <1>b, <1>6
  <1>7. ASSUME NEW l \in linkers, LinkWrite(l)
        PROVE  ChatStable /\ NothingDeleted /\ OldReplies
    BY <1>7, <1>c, LinkWritten
  <1>8. CASE \/ WriteNext \/ RunMap \/ RunStats \/ StartForward \/ SendCopyFails \/ RecordCopy
             \/ StartEdit \/ EditUnconfirmed \/ EditSkipped \/ EditAsNewVersion
             \/ FinishEdit \/ StartDelete \/ DeleteIndelible \/ DeleteUnconfirmed
             \/ DeleteNextId \/ FinishDelete
    <2>1. chat' = chat
      BY <1>8 DEF WriteNext, RunMap, RunStats, StartForward, SendCopyFails, RecordCopy, StartEdit,
                  EditUnconfirmed, EditSkipped, EditAsNewVersion, FinishEdit,
                  StartDelete, DeleteIndelible, DeleteUnconfirmed, DeleteNextId,
                  FinishDelete
    <2> QED BY <2>1, <1>b
  <1>9. CASE \/ \E g \in resolvers : Resolve(g)
             \/ \E l \in linkers : LinkPoll(l) \/ LinkRead(l)
             \/ \E rs \in SUBSET Rules : SetRuleSetWithPush(rs)
             \/ Crash \/ UNCHANGED vars
    <2>1. chat' = chat
      BY <1>9 DEF Resolve, ResolveEdit, OnEditedMessage, LinkPoll, LinkRead,
                  SetRuleSetWithPush, Crash, vars
    <2> QED BY <2>1, <1>b
  <1> QED BY <1>1, <1>2, <1>3, <1>4, <1>5, <1>6, <1>7, <1>8, <1>9 DEF Next, Worker, WorkStep, NextLink

\* What survives in the lists and links while messages stay as they are.
LEMMA RefsStay ==
    ASSUME ChatStable, NEW list, NEW m, TrueRefs(chat, list, m)
    PROVE  TrueRefs(chat', list, m)
  BY DEF ChatStable, TrueRefs, Shows, SameRoute, Natively

LEMMA LinkStays ==
    ASSUME ChatStable, NEW t \in DOMAIN chat, NEW p, LinkTrue(chat, t, p)
    PROVE  LinkTrue(chat', t, p)
  BY DEF ChatStable, LinkTrue, SameRoute

LEMMA TailRefs ==
    ASSUME NEW list \in Seq(Ref), list # <<>>, NEW m, NEW messages, TrueRefs(messages, list, m)
    PROVE  TrueRefs(messages, Tail(list), m) /\ Shows(messages, Head(list), m)
  <1>1. \A i \in DOMAIN Tail(list) : i + 1 \in DOMAIN list /\ Tail(list)[i] = list[i + 1]
    BY TailShifts
  <1>2. 1 \in DOMAIN list /\ Head(list) = list[1]
    OBVIOUS
  <1> QED BY <1>1, <1>2 DEF TrueRefs

\* SetCopiedMessageID keeps a list true and without a second entry for a route.
LEMMA WithCopiedIdSound ==
    ASSUME NEW list \in Seq(Ref), NEW ref \in Ref, NEW messages, NEW m,
           TrueRefs(messages, list, m), Distinct(list), Shows(messages, ref, m)
    PROVE  TrueRefs(messages, WithCopiedId(list, ref), m) /\ Distinct(WithCopiedId(list, ref))
  <1> DEFINE same == {i \in DOMAIN list : list[i].rule = ref.rule /\ list[i].dst = ref.dst}
             new == [i \in DOMAIN list |-> IF i \in First(same) THEN ref ELSE list[i]]
  <1>1. CASE same = {}
    <2> DEFINE r == Append(list, ref)
    <2>1. /\ r \in Seq(Ref) /\ Len(r) = Len(list) + 1 /\ r[Len(list) + 1] = ref
          /\ \A i \in 1..Len(list) : r[i] = list[i]
      BY AppendProperties
    <2>2. WithCopiedId(list, ref) = r
      BY <1>1 DEF WithCopiedId
    <2> HIDE DEF r
    <2>3. DOMAIN r = 1..Len(r) /\ DOMAIN list = 1..Len(list) /\ Len(list) \in Nat
      BY <2>1
    <2>4. TrueRefs(messages, r, m)
      BY <2>1, <2>3 DEF TrueRefs
    <2>5. ASSUME NEW i \in DOMAIN r, NEW j \in DOMAIN r, i # j
          PROVE  r[i].rule # r[j].rule \/ r[i].dst # r[j].dst
      <3>1. CASE i \in DOMAIN list /\ j \in DOMAIN list
        BY <3>1, <2>1, <2>3, <2>5 DEF Distinct
      <3>2. CASE i \notin DOMAIN list
        BY <3>2, <1>1, <2>1, <2>3, <2>5
      <3>3. CASE j \notin DOMAIN list
        BY <3>3, <1>1, <2>1, <2>3, <2>5
      <3> QED BY <3>1, <3>2, <3>3
    <2> QED BY <2>2, <2>4, <2>5 DEF Distinct
  <1>2. CASE same # {}
    <2>1. WithCopiedId(list, ref) = new /\ DOMAIN new = DOMAIN list
      BY <1>2 DEF WithCopiedId
    <2>2. First(same) \subseteq same
      BY DEF First
    <2>3. \A i, j \in same : i = j
      BY DEF Distinct
    <2>4. \A i \in DOMAIN list : new[i] = ref \/ new[i] = list[i]
      OBVIOUS
    <2>5. TrueRefs(messages, new, m)
      BY <2>1, <2>4 DEF TrueRefs
    <2>6. \A i \in DOMAIN list : i \in same => new[i].rule = list[i].rule /\ new[i].dst = list[i].dst
      OBVIOUS
    <2>7. \A i \in DOMAIN list : i \notin same => new[i] = list[i]
      BY <2>2
    <2>8. \A i \in DOMAIN list : new[i].rule = list[i].rule /\ new[i].dst = list[i].dst
      BY <2>6, <2>7
    <2>9. Distinct(new)
      <3> HIDE DEF new, same
      <3> QED BY <2>1, <2>8 DEF Distinct
    <2> QED BY <2>1, <2>5, <2>9
  <1> QED BY <1>1, <1>2

Others == \/ UpdateLoop \/ Telegram
          \/ \E g \in resolvers : Resolve(g)
          \/ \E rs \in SUBSET Rules : SetRuleSetWithPush(rs)
          \/ UNCHANGED vars

\* The worker's variables and the copied lists and answers are the worker's own.
LEMMA WorkersOwn ==
    ASSUME Others \/ \E l \in linkers : NextLink(l)
    PROVE  UNCHANGED <<workerVars, storeVars>>
  <1> USE DEF workerVars, storeVars
  <1>1. CASE UpdateLoop
    BY <1>1 DEF UpdateLoop, SkipRule, RouteOk, RouteDst, RouteStats, RouteAside
  <1>2. CASE Telegram
    BY <1>2 DEF Telegram, OnNewMessage, OnEditUpdate, OnDeletedMessages,
                OnMessageSendSucceeded, SendFailed
  <1>3. CASE \E g \in resolvers : Resolve(g)
    BY <1>3 DEF Resolve, ResolveEdit, OnEditedMessage
  <1>4. CASE \E rs \in SUBSET Rules : SetRuleSetWithPush(rs)
    BY <1>4 DEF SetRuleSetWithPush
  <1>5. CASE \E l \in linkers : NextLink(l)
    BY <1>5 DEF NextLink, LinkPoll, LinkRead, LinkWrite
  <1>6. CASE UNCHANGED vars
    BY <1>6 DEF vars
  <1> QED BY <1>1, <1>2, <1>3, <1>4, <1>5, <1>6 DEF Others

\* The goroutines of the links and the messages' links.
LEMMA LinkersOwn ==
    ASSUME Others
    PROVE  UNCHANGED linkers
  <1>1. CASE UpdateLoop
    BY <1>1 DEF UpdateLoop, SkipRule, RouteOk, RouteDst, RouteStats, RouteAside
  <1>2. CASE Telegram
    BY <1>2 DEF Telegram, OnNewMessage, OnEditUpdate, OnDeletedMessages,
                OnMessageSendSucceeded, SendFailed
  <1>3. CASE \E g \in resolvers : Resolve(g)
    BY <1>3 DEF Resolve, ResolveEdit, OnEditedMessage
  <1>4. CASE \E rs \in SUBSET Rules : SetRuleSetWithPush(rs)
    BY <1>4 DEF SetRuleSetWithPush
  <1>5. CASE UNCHANGED vars
    BY <1>5 DEF vars
  <1> QED BY <1>1, <1>2, <1>3, <1>4, <1>5 DEF Others

\* Who changes what.
LEMMA Frame ==
    ASSUME [Next]_vars
    PROVE  /\ copied' = copied \/ RecordCopy \/ DeleteNextId
           /\ linkers' = linkers \/ linkers' = {} \/ RecordCopy
              \/ \E l \in linkers : NextLink(l)
           /\ \/ UNCHANGED <<task, refs, ids, sending>>
              \/ StartForward \/ SendCopy \/ SendCopyFails \/ ForwardNatively \/ RecordCopy
              \/ Edits \/ Deletes \/ Crash
  <1> USE DEF workerVars, storeVars
  <1>1. CASE Others \/ \E l \in linkers : NextLink(l)
    BY <1>1, WorkersOwn, LinkersOwn
  <1>2. CASE WriteNext \/ RunMap \/ RunStats \/ RunNative
    BY <1>2 DEF WriteNext, RunMap, RunStats, RunNative
  <1>3. CASE StartForward \/ SendCopy \/ SendCopyFails \/ ForwardNatively \/ RecordCopy
    BY <1>3 DEF StartForward, SendCopy, SendCopyFails, ForwardNatively
  <1>4. CASE Edits
    BY <1>4 DEF Edits, StartEdit, EditUnconfirmed, EditSkipped, EditAsNewVersion, EditInPlace,
                FinishEdit
  <1>5. CASE Deletes
    BY <1>5 DEF Deletes, StartDelete, DeleteIndelible, DeleteUnconfirmed, DeleteCopy,
                DeleteNextId, FinishDelete
  <1>6. CASE Crash
    BY <1>6 DEF Crash
  <1> QED BY <1>1, <1>2, <1>3, <1>4, <1>5, <1>6 DEF Next, Worker, WorkStep, Others, Edits, Deletes

\* The writes of a task are the worker's: one by one, and more only when all are made.
LEMMA Writers ==
    ASSUME [Next]_vars
    PROVE  \/ UNCHANGED <<answer, writes, torn>>
           \/ WriteNext
           \/ Crash
           \/ /\ writes = <<>> /\ UNCHANGED <<answer, torn>>
              /\ RunMap \/ RecordCopy \/ EditInPlace \/ DeleteCopy
  <1> USE DEF storeVars
  <1>1. CASE Others \/ \E l \in linkers : NextLink(l)
    BY <1>1, WorkersOwn
  <1>2. CASE RunStats \/ RunNative \/ StartForward \/ SendCopy \/ SendCopyFails \/ ForwardNatively
    BY <1>2 DEF RunStats, RunNative, StartForward, SendCopy, SendCopyFails, ForwardNatively
  <1>3. CASE StartEdit \/ EditUnconfirmed \/ EditSkipped \/ EditAsNewVersion \/ FinishEdit
    BY <1>3 DEF StartEdit, EditUnconfirmed, EditSkipped, EditAsNewVersion, FinishEdit
  <1>4. CASE StartDelete \/ DeleteIndelible \/ DeleteUnconfirmed \/ DeleteNextId \/ FinishDelete
    BY <1>4 DEF StartDelete, DeleteIndelible, DeleteUnconfirmed, DeleteNextId, FinishDelete
  <1>5. CASE writes = <<>> /\ (RunMap \/ RecordCopy \/ EditInPlace \/ DeleteCopy)
    BY <1>5 DEF RunMap, RecordCopy, EditInPlace, DeleteCopy
  <1> QED BY <1>1, <1>2, <1>3, <1>4, <1>5 DEF Next, Worker, WorkStep, Others

\* Copied lists stay true of the messages they name.
LEMMA ListsStep ==
    ASSUME CopyInv, TypeOK', [Next]_vars, ChatStable
    PROVE  ListsSound'
  <1>a. copied \in [Messages -> Seq(Ref)]
    BY DEF CopyInv, IdInv, TypeOK
  <1>b. ASSUME NEW m \in Messages
        PROVE  TrueRefs(chat', copied[m], m) /\ Distinct(copied[m])
    BY <1>b, RefsStay DEF CopyInv, ListsSound
  <1>1. CASE copied' = copied
    BY <1>1, <1>b DEF ListsSound
  <1>2. CASE RecordCopy
    <2>1. /\ sending # Idle /\ sending.tmp # 0
          /\ \/ copied' = [copied EXCEPT ![sending.msg] =
                              WithCopiedId(copied[sending.msg], SentRef)]
             \/ copied' = copied
      BY <1>2 DEF RecordCopy, SentRef
    <2>2. sending.msg \in Messages /\ SentRef \in Ref
      BY <2>1 DEF CopyInv, IdInv, TypeOK, Sending, Ref, SentRef
    <2>3. Shows(chat, SentRef, sending.msg)
      BY <2>1 DEF CopyInv, SendingSound
    <2>4. Shows(chat', SentRef, sending.msg)
      BY <2>3 DEF ChatStable, Shows, SameRoute, Natively
    <2> DEFINE new == WithCopiedId(copied[sending.msg], SentRef)
    <2>5. TrueRefs(chat', new, sending.msg) /\ Distinct(new)
      BY <1>a, <1>b, <2>2, <2>4, WithCopiedIdSound
    <2>6. ASSUME NEW m \in Messages
          PROVE  copied'[m] = copied[m] \/ (m = sending.msg /\ copied'[m] = new)
      BY <1>a, <2>1, <2>6
    <2> HIDE DEF new
    <2>7. \A m \in Messages : TrueRefs(chat', copied'[m], m) /\ Distinct(copied'[m])
      BY <1>b, <2>5, <2>6
    <2> QED BY <2>7 DEF ListsSound
  <1>3. CASE DeleteNextId
    <2>1. copied' = copied \/ copied' = [copied EXCEPT ![Head(ids)] = <<>>]
      BY <1>3 DEF DeleteNextId
    <2>2. \A m \in Messages : copied'[m] = copied[m] \/ copied'[m] = <<>>
      BY <1>a, <2>1
    <2>3. \A m : TrueRefs(chat', <<>>, m) /\ Distinct(<<>>)
      BY DEF TrueRefs, Distinct
    <2>4. \A m \in Messages : TrueRefs(chat', copied'[m], m) /\ Distinct(copied'[m])
      BY <1>b, <2>2, <2>3
    <2> QED BY <2>4 DEF ListsSound
  <1> QED BY <1>1, <1>2, <1>3, Frame

\* Telegram's deletions are for good.
LEMMA GoneStays ==
    ASSUME [Next]_vars
    PROVE  srcGone \subseteq srcGone'
  <1> USE DEF telegramVars
  <1>1. CASE UpdateLoop
    BY <1>1 DEF UpdateLoop, SkipRule, RouteOk, RouteDst, RouteStats, RouteAside
  <1>2. CASE Telegram
    BY <1>2 DEF Telegram, OnNewMessage, OnEditUpdate, OnDeletedMessages,
                OnMessageSendSucceeded, SendFailed
  <1>3. CASE Worker
    <2>1. CASE WriteNext \/ RunMap \/ RunStats \/ RunNative \/ StartForward \/ SendCopy \/ SendCopyFails
               \/ ForwardNatively \/ RecordCopy
      BY <2>1 DEF WriteNext, RunMap, RunStats, RunNative, StartForward, SendCopy, SendCopyFails,
                  ForwardNatively, RecordCopy
    <2>2. CASE Edits
      BY <2>2 DEF Edits, StartEdit, EditUnconfirmed, EditSkipped, EditAsNewVersion,
                  EditInPlace, FinishEdit
    <2>3. CASE Deletes
      BY <2>3 DEF Deletes, StartDelete, DeleteIndelible, DeleteUnconfirmed, DeleteCopy,
                  DeleteNextId, FinishDelete
    <2> QED BY <1>3, <2>1, <2>2, <2>3 DEF Worker, WorkStep, Edits, Deletes
  <1>4. CASE \/ \E g \in resolvers : Resolve(g)
             \/ \E l \in linkers : NextLink(l)
             \/ \E rs \in SUBSET Rules : SetRuleSetWithPush(rs)
             \/ Crash \/ UNCHANGED vars
    BY <1>4 DEF Resolve, ResolveEdit, OnEditedMessage, NextLink, LinkPoll, LinkRead, LinkWrite,
                SetRuleSetWithPush, Crash, vars
  <1> QED BY <1>1, <1>2, <1>3, <1>4 DEF Next

\* What is appended to a queue of tasks is a task.
LEMMA AppendedTask ==
    ASSUME queue \in Seq(Task), queue' \in Seq(Task), NEW x, queue' = Append(queue, x)
    PROVE  x \in Task
  <1>1. Len(queue') = Len(queue) + 1 /\ queue'[Len(queue) + 1] = x
    OBVIOUS
  <1> QED BY <1>1

QueueMoves ==
    \/ queue' = queue
    \/ queue' = <<>>
    \/ queue # <<>> /\ queue' = Tail(queue)
    \/ \E x : queue' = Append(queue, x) /\ GoneIn(x, srcGone')

\* A deletion that is queued, or queued again, is of messages deleted at the source.
LEMMA MovesOfQueue ==
    ASSUME CopyInv, [Next]_vars
    PROVE  QueueMoves
  <1>a. TypeOK /\ queue \in Seq(Task) /\ srcGone \subseteq srcGone'
    BY GoneStays DEF CopyInv, IdInv, TypeOK
  <1>b. ASSUME NEW x, queue' = Append(queue, x), x.kind # "delete" PROVE QueueMoves
    BY <1>b DEF QueueMoves, GoneIn
  <1>c. ASSUME NEW ms, Finish(ms), task.kind \in {"edit", "delete"} PROVE QueueMoves
    <2>1. CASE queue' = queue
      BY <2>1 DEF QueueMoves
    <2>2. CASE queue' # queue
      <3>1. queue' = Append(queue, Retried(task))
        BY <1>c, <2>2 DEF Finish, Enqueue
      <3>2. /\ Retried(task).kind = task.kind
            /\ task.kind = "delete" => Retried(task).ids = task.ids
        BY <1>c, <1>a, TaskKinds DEF Retried, TypeOK, EditTask, DeleteTask
      <3>3. GoneIn(task, srcGone)
        BY DEF CopyInv, DeletesSound
      <3>4. GoneIn(Retried(task), srcGone')
        BY <1>a, <3>2, <3>3 DEF GoneIn
      <3> QED BY <3>1, <3>4 DEF QueueMoves
    <2> QED BY <2>1, <2>2
  <1>1. CASE UpdateLoop
    <2>1. CASE SkipRule \/ RouteOk
      BY <2>1 DEF SkipRule, RouteOk, QueueMoves
    <2>2. CASE RouteDst
      <3> DEFINE x == [kind |-> "forward", msg |-> ingress.msg, rule |-> Head(ingress.rules),
                       dst |-> Head(ingress.to), ver |-> 1]
      <3>1. queue' = queue \/ queue' = Append(queue, x)
        BY <2>2 DEF RouteDst, Enqueue
      <3>2. x.kind # "delete"
        OBVIOUS
      <3> QED BY <3>1, <3>2, <1>b DEF QueueMoves
    <2>3. CASE RouteStats
      <3> DEFINE x == [kind |-> "stats", rule |-> Head(ingress.rules), ok |-> ingress.mode = "ok"]
      <3>1. queue' = Append(queue, x)
        BY <2>3 DEF RouteStats, Enqueue
      <3>2. x.kind # "delete"
        OBVIOUS
      <3> QED BY <3>1, <3>2, <1>b
    <2>4. ASSUME NEW v \in {"check", "other"}, RouteAside(v) PROVE QueueMoves
      <3> DEFINE x == [kind |-> "native", msg |-> ingress.msg, rule |-> Head(ingress.rules),
                       dst |-> RuleCfg[Head(ingress.rules)][v], ver |-> 1]
      <3>1. queue' = queue \/ queue' = Append(queue, x)
        BY <2>4 DEF RouteAside, Enqueue
      <3>2. x.kind # "delete"
        OBVIOUS
      <3> QED BY <3>1, <3>2, <1>b DEF QueueMoves
    <2> QED BY <1>1, <2>1, <2>2, <2>3, <2>4 DEF UpdateLoop
  <1>2. CASE Telegram
    <2>1. ASSUME NEW m \in Messages, OnNewMessage(m) \/ OnEditUpdate(m) PROVE queue' = queue
      BY <2>1 DEF OnNewMessage, OnEditUpdate
    <2>2. ASSUME NEW b \in Batches, OnDeletedMessages(b) PROVE QueueMoves
      <3> DEFINE x == [kind |-> "delete", ids |-> b, rs |-> rules, attempt |-> 0, at |-> clock']
      <3>1. queue' = queue \/ queue' = Append(queue, x)
        BY <2>2 DEF OnDeletedMessages, Enqueue
      <3>2. srcGone' = srcGone \cup {b[i] : i \in DOMAIN b}
        BY <2>2 DEF OnDeletedMessages
      <3>3. GoneIn(x, srcGone')
        BY <3>2 DEF GoneIn
      <3> QED BY <3>1, <3>3 DEF QueueMoves
    <2>3. ASSUME NEW t \in DOMAIN chat, OnMessageSendSucceeded(t) PROVE QueueMoves
      <3> DEFINE x == [kind |-> "map", tmp |-> t, new |-> Perm(t)]
      <3>1. queue' = Append(queue, x)
        BY <2>3 DEF OnMessageSendSucceeded, Enqueue
      <3>2. x.kind # "delete"
        OBVIOUS
      <3> QED BY <3>1, <3>2, <1>b
    <2>4. ASSUME NEW t \in DOMAIN chat, SendFailed(t) PROVE queue' = queue
      BY <2>4 DEF SendFailed
    <2> QED BY <1>2, <2>1, <2>2, <2>3, <2>4 DEF Telegram, QueueMoves
  <1>3. CASE RunMap \/ RunStats \/ RunNative \/ StartForward \/ StartEdit \/ StartDelete
    BY <1>3 DEF RunMap, RunStats, RunNative, StartForward, StartEdit, StartDelete,
                NextTaskIs, Dequeue, QueueMoves
  <1>4. CASE WriteNext \/ SendCopy \/ SendCopyFails \/ ForwardNatively \/ RecordCopy
    BY <1>4 DEF WriteNext, SendCopy, SendCopyFails, ForwardNatively, RecordCopy, QueueMoves
  <1>5. CASE EditUnconfirmed \/ EditSkipped \/ EditAsNewVersion \/ EditInPlace
    BY <1>5 DEF EditUnconfirmed, EditSkipped, EditAsNewVersion, EditInPlace, QueueMoves
  <1>6. CASE DeleteIndelible \/ DeleteUnconfirmed \/ DeleteCopy \/ DeleteNextId
    BY <1>6 DEF DeleteIndelible, DeleteUnconfirmed, DeleteCopy, DeleteNextId, QueueMoves
  <1>7. CASE FinishEdit \/ FinishDelete
    BY <1>7, <1>c DEF FinishEdit, FinishDelete
  <1>8. ASSUME NEW g \in resolvers, Resolve(g) PROVE QueueMoves
    <2> DEFINE x == [kind |-> "edit", msg |-> g.msg, ver |-> g.ver, rs |-> rules,
                     attempt |-> 0, at |-> clock[g.msg] + 1]
    <2>1. queue' = queue \/ queue' = Append(queue, x)
      BY <1>8 DEF Resolve, ResolveEdit, OnEditedMessage, Enqueue
    <2>2. x.kind # "delete"
      OBVIOUS
    <2> QED BY <2>1, <2>2, <1>b DEF QueueMoves
  <1>9. CASE \/ \E l \in linkers : NextLink(l)
             \/ \E rs \in SUBSET Rules : SetRuleSetWithPush(rs)
             \/ Crash \/ UNCHANGED vars
    BY <1>9 DEF NextLink, LinkPoll, LinkRead, LinkWrite, SetRuleSetWithPush, Crash, vars,
                QueueMoves
  <1> QED BY <1>1, <1>2, <1>3, <1>4, <1>5, <1>6, <1>7, <1>8, <1>9 DEF Next, Worker, WorkStep

\* The head of the queue, as the worker takes it.
TakesHead == queue # <<>> /\ task' = Head(queue)

LEMMA Takes ==
    ASSUME [Next]_vars
    PROVE  \/ task' = task \/ task' = Idle
           \/ TakesHead /\ (StartForward \/ StartEdit \/ StartDelete)
  <1> USE DEF workerVars
  <1>1. CASE Others \/ \E l \in linkers : NextLink(l)
    BY <1>1, WorkersOwn
  <1>2. CASE WriteNext \/ RunMap \/ RunStats \/ RunNative \/ SendCopy \/ SendCopyFails \/ ForwardNatively
             \/ RecordCopy
    BY <1>2 DEF WriteNext, RunMap, RunStats, RunNative, SendCopy, SendCopyFails, ForwardNatively,
                RecordCopy, ReturnFromForward
  <1>3. CASE StartForward \/ StartEdit \/ StartDelete
    BY <1>3 DEF StartForward, StartEdit, StartDelete, NextTaskIs, TakesHead
  <1>4. CASE EditUnconfirmed \/ EditSkipped \/ EditAsNewVersion \/ EditInPlace \/ FinishEdit
    BY <1>4 DEF EditUnconfirmed, EditSkipped, EditAsNewVersion, EditInPlace, FinishEdit, Finish
  <1>5. CASE DeleteIndelible \/ DeleteUnconfirmed \/ DeleteCopy \/ DeleteNextId \/ FinishDelete
    BY <1>5 DEF DeleteIndelible, DeleteUnconfirmed, DeleteCopy, DeleteNextId, FinishDelete,
                Finish
  <1>6. CASE Crash
    BY <1>6 DEF Crash
  <1> QED BY <1>1, <1>2, <1>3, <1>4, <1>5, <1>6 DEF Next, Worker, WorkStep, Others

LEMMA DeletesStep ==
    ASSUME CopyInv, TypeOK', [Next]_vars
    PROVE  DeletesSound'
  <1>a. queue \in Seq(Task) /\ queue' \in Seq(Task) /\ srcGone \subseteq srcGone'
    BY GoneStays DEF CopyInv, IdInv, TypeOK
  <1>b. \A t : GoneIn(t, srcGone) => GoneIn(t, srcGone')
    BY <1>a DEF GoneIn
  <1>c. GoneIn(task, srcGone') /\ \A i \in DOMAIN queue : GoneIn(queue[i], srcGone')
    BY <1>b DEF CopyInv, DeletesSound
  <1>1. GoneIn(task', srcGone')
    <2>1. CASE TakesHead
      <3>1. 1 \in DOMAIN queue /\ queue[1] = Head(queue)
        BY <1>a, <2>1 DEF TakesHead
      <3> QED BY <1>c, <2>1, <3>1 DEF TakesHead
    <2>2. CASE task' = Idle
      BY <2>2 DEF GoneIn, Idle
    <2> QED BY <1>c, <2>1, <2>2, Takes
  <1>2. \A i \in DOMAIN queue' : GoneIn(queue'[i], srcGone')
    <2>1. CASE queue' = queue
      BY <2>1, <1>c
    <2>2. CASE queue' = <<>>
      BY <2>2
    <2>3. CASE queue # <<>> /\ queue' = Tail(queue)
      <3>1. \A i \in DOMAIN queue' : i + 1 \in DOMAIN queue /\ queue'[i] = queue[i + 1]
        BY <1>a, <2>3, TailShifts
      <3> QED BY <3>1, <1>c
    <2>4. ASSUME NEW x, queue' = Append(queue, x), GoneIn(x, srcGone')
          PROVE  \A i \in DOMAIN queue' : GoneIn(queue'[i], srcGone')
      <3>1. x \in Task
        BY <1>a, <2>4, AppendedTask
      <3>2. \A i \in DOMAIN queue' : (i \in DOMAIN queue /\ queue'[i] = queue[i]) \/ queue'[i] = x
        BY <1>a, <2>4, <3>1, AppendExtends
      <3> QED BY <3>2, <1>c, <2>4
    <2> QED BY <2>1, <2>2, <2>3, <2>4, MovesOfQueue DEF QueueMoves
  <1> QED BY <1>1, <1>2 DEF DeletesSound

\* What a loop has left to visit stays true while the worker does something else with it
\* than to take it up.
LEMMA WalkKeeps ==
    ASSUME CopyInv, TypeOK', ChatStable, srcGone \subseteq srcGone',
           task' = task \/ task' = Idle,
           ids' = ids,
           refs' = refs \/ (refs # <<>> /\ refs' = Tail(refs))
    PROVE  WalkSound'
  <1>a. refs \in Seq(Ref)
    BY DEF CopyInv, IdInv, TypeOK
  <1>1. ASSUME NEW m, TrueRefs(chat, refs, m) PROVE TrueRefs(chat', refs', m)
    <2>1. TrueRefs(chat, refs', m)
      BY <1>1, <1>a, TailRefs
    <2> QED BY <2>1, RefsStay
  <1>2. CASE task' = Idle
    BY <1>2 DEF WalkSound, Idle
  <1>3. CASE task' = task
    <2>1. task.kind = "edit" => TrueRefs(chat', refs', task.msg)
      BY <1>1 DEF CopyInv, WalkSound
    <2>2. task.kind = "delete" => \A i \in DOMAIN ids : ids[i] \in srcGone'
      BY DEF CopyInv, WalkSound
    <2>3. task.kind = "delete" /\ ids = <<>> => refs' = <<>>
      BY DEF CopyInv, WalkSound
    <2>4. task.kind = "delete" /\ ids # <<>> => TrueRefs(chat', refs', Head(ids))
      BY <1>1 DEF CopyInv, WalkSound
    <2> QED BY <1>3, <2>1, <2>2, <2>3, <2>4 DEF WalkSound
  <1> QED BY <1>2, <1>3

LEMMA WalkStep ==
    ASSUME CopyInv, TypeOK', [Next]_vars, ChatStable
    PROVE  WalkSound'
  <1>a. TypeOK /\ srcGone \subseteq srcGone'
    BY GoneStays DEF CopyInv, IdInv
  <1>b. \A m \in Messages : TrueRefs(chat', copied[m], m)
    BY RefsStay DEF CopyInv, ListsSound
  <1>1. CASE UNCHANGED <<task, refs, ids, sending>>
    BY <1>1, <1>a, WalkKeeps
  <1>2. CASE StartForward
    <2>1. task'.kind = "forward"
      BY <1>2 DEF StartForward, NextTaskIs
    <2> QED BY <2>1 DEF WalkSound
  <1>3. CASE SendCopy \/ SendCopyFails \/ ForwardNatively \/ RecordCopy
    <2>1. UNCHANGED <<refs, ids>> /\ (task' = task \/ task' = Idle)
      BY <1>3 DEF SendCopy, SendCopyFails, ForwardNatively, RecordCopy, ReturnFromForward
    <2> QED BY <2>1, <1>a, WalkKeeps
  <1>4. CASE StartEdit
    <2>1. Head(queue) \in EditTask
      BY <1>4, <1>a, HeadTask DEF StartEdit
    <2>2. Head(queue).msg \in Messages /\ Head(queue).kind = "edit"
      BY <2>1 DEF EditTask
    <2>3. task' = Head(queue) /\ refs' = copied[Head(queue).msg]
      BY <1>4 DEF StartEdit
    <2> QED BY <1>b, <2>2, <2>3 DEF WalkSound
  <1>5. CASE EditUnconfirmed \/ EditSkipped \/ EditAsNewVersion \/ EditInPlace
    <2>1. UNCHANGED <<task, ids>> /\ refs # <<>> /\ refs' = Tail(refs)
      BY <1>5 DEF EditUnconfirmed, EditSkipped, EditAsNewVersion, EditInPlace, Visiting
    <2> QED BY <2>1, <1>a, WalkKeeps
  <1>6. CASE FinishEdit \/ FinishDelete
    <2>1. UNCHANGED <<refs, ids>> /\ task' = Idle
      BY <1>6 DEF FinishEdit, FinishDelete, Finish
    <2> QED BY <2>1, <1>a, WalkKeeps
  <1>7. CASE StartDelete
    <2> DEFINE list == Head(queue).ids
    <2>1. Head(queue) \in DeleteTask /\ queue # <<>> /\ queue \in Seq(Task)
      BY <1>7, <1>a, HeadTask DEF StartDelete, NextTaskIs, TypeOK
    <2>2. list \in Seq(Messages) /\ list # <<>> /\ Head(queue).kind = "delete"
      BY <2>1 DEF DeleteTask
    <2>3. task' = Head(queue) /\ ids' = list /\ refs' = copied[Head(list)]
      BY <1>7 DEF StartDelete
    <2>4. 1 \in DOMAIN queue /\ queue[1] = Head(queue)
      BY <2>1
    <2>5. \A i \in DOMAIN list : list[i] \in srcGone'
      BY <1>a, <2>2, <2>4 DEF CopyInv, DeletesSound, GoneIn
    <2> HIDE DEF list
    <2>6. Head(list) \in Messages
      BY <2>2
    <2> QED BY <1>b, <2>2, <2>3, <2>5, <2>6 DEF WalkSound
  <1>8. CASE DeleteIndelible \/ DeleteUnconfirmed \/ DeleteCopy
    <2>1. UNCHANGED <<task, ids>> /\ refs # <<>> /\ refs' = Tail(refs)
      BY <1>8 DEF DeleteIndelible, DeleteUnconfirmed, DeleteCopy, Visiting
    <2> QED BY <2>1, <1>a, WalkKeeps
  <1>9. CASE DeleteNextId
    <2>1. /\ ids # <<>> /\ ids \in Seq(Messages) /\ task.kind = "delete" /\ task' = task
          /\ ids' = Tail(ids)
          /\ refs' = IF Tail(ids) = <<>> THEN <<>> ELSE copied[Head(Tail(ids))]
      BY <1>9, <1>a DEF DeleteNextId, TypeOK
    <2>2. \A i \in DOMAIN ids' : i + 1 \in DOMAIN ids /\ ids'[i] = ids[i + 1]
      BY <2>1, TailShifts
    <2>3. \A i \in DOMAIN ids' : ids'[i] \in srcGone'
      BY <1>a, <2>1, <2>2 DEF CopyInv, WalkSound
    <2>4. ids' # <<>> => Head(ids') \in Messages /\ refs' = copied[Head(ids')]
      BY <2>1
    <2> QED BY <1>b, <2>1, <2>3, <2>4 DEF WalkSound
  <1>10. CASE Crash
    <2>1. task' = Idle
      BY <1>10 DEF Crash
    <2> QED BY <2>1 DEF WalkSound, Idle
  <1> QED BY <1>1, <1>2, <1>3, <1>4, <1>5, <1>6, <1>7, <1>8, <1>9, <1>10, Frame
          DEF Edits, Deletes

LEMMA SendingStep ==
    ASSUME CopyInv, TypeOK', [Next]_vars, ChatStable
    PROVE  SendingSound'
  <1>a. TypeOK
    BY DEF CopyInv, IdInv
  <1>b. ASSUME sending # Idle
        PROVE  /\ sending \in Sending /\ sending.kind = "send"
               /\ task.kind \in {"forward", "edit"}
               /\ sending.prev # 0 => CopyOf(sending.prev) \in DOMAIN chat
    BY <1>b DEF CopyInv, SendingSound, IdInv, TypeOK, Sending, LinkersSound
  <1>c. ASSUME sending' = Idle PROVE SendingSound'
    BY <1>c DEF SendingSound
  <1>1. CASE UNCHANGED <<task, sending>> /\ NothingDeleted
    <2>1. ASSUME sending # Idle, sending.tmp # 0
          PROVE  Shows(chat', SentRef, sending.msg) /\ chat'[sending.tmp].status # "deleted"
      <3>1. Shows(chat, SentRef, sending.msg) /\ chat[sending.tmp].status # "deleted"
        BY <2>1 DEF CopyInv, SendingSound
      <3> QED BY <1>1, <3>1 DEF ChatStable, NothingDeleted, Shows, SameRoute, SentRef
    <2>2. ASSUME sending # Idle, sending.prev # 0
          PROVE  /\ SameRoute(chat'[CopyOf(sending.prev)], sending)
                 /\ sending.tmp # 0 => CopyOf(sending.prev) < sending.tmp
      BY <2>2, <1>b DEF CopyInv, SendingSound, ChatStable, SameRoute
    <2> QED BY <1>1, <1>b, <2>1, <2>2 DEF SendingSound, SentRef
  <1>2. CASE StartForward
    <2>1. Head(queue).kind = "forward" /\ task' = Head(queue) /\ sending'.prev = 0 /\ sending'.tmp = 0
      BY <1>2 DEF StartForward, NextTaskIs
    <2> QED BY <2>1 DEF SendingSound
  <1>3. CASE SendCopy
    <2>1. /\ sending # Idle /\ task' = task
      BY <1>3 DEF SendCopy
    <2>2. sending' = [sending EXCEPT !.tmp = Len(chat) + 1]
      BY <1>3 DEF SendCopy
    <2>3. /\ sending'.tmp = Len(chat) + 1 /\ sending'.msg = sending.msg
          /\ sending'.rule = sending.rule /\ sending'.dst = sending.dst
          /\ sending'.prev = sending.prev
      BY <1>b, <2>1, <2>2 DEF Sending
    <2> DEFINE new == chat'[Len(chat) + 1]
    <2>4. /\ Len(chat) + 1 \in DOMAIN chat'
          /\ new.msg = sending.msg /\ new.rule = sending.rule
          /\ new.dst = sending.dst /\ new.status = "pending"
      BY <1>3, <1>a, SendCopyAdds
    <2>5. Shows(chat', SentRef', sending'.msg) /\ chat'[sending'.tmp].status # "deleted"
      BY <2>3, <2>4 DEF Shows, SentRef, SameRoute, Natively
    <2>6. ASSUME sending'.prev # 0
          PROVE  /\ SameRoute(chat'[CopyOf(sending'.prev)], sending')
                 /\ CopyOf(sending'.prev) < sending'.tmp
      <3>1. CopyOf(sending.prev) \in DOMAIN chat /\ SameRoute(chat[CopyOf(sending.prev)], sending)
        BY <2>1, <2>3, <2>6, <1>b DEF CopyInv, SendingSound
      <3>2. CopyOf(sending.prev) < Len(chat) + 1
        BY <3>1, <1>a DEF TypeOK
      <3> QED BY <2>3, <3>1, <3>2 DEF ChatStable, SameRoute
    <2> QED BY <1>b, <2>1, <2>5, <2>6 DEF SendingSound
  <1>4. CASE SendCopyFails \/ ForwardNatively \/ RecordCopy
    BY <1>4, <1>c DEF SendCopyFails, ForwardNatively, RecordCopy, ReturnFromForward
  <1>5. CASE EditAsNewVersion
    <2> DEFINE c == Head(refs)
    <2>1. /\ task.kind = "edit" /\ refs # <<>> /\ newId[c.tmp] # 0 /\ task' = task
          /\ sending'.msg = task.msg /\ sending'.rule = c.rule /\ sending'.dst = c.dst
          /\ sending'.prev = newId[c.tmp] /\ sending'.tmp = 0
      BY <1>5 DEF EditAsNewVersion, Visiting
    <2>2. c.tmp \in TmpIds /\ refs \in Seq(Ref)
      BY <1>a, <2>1, VisitedRef DEF TypeOK
    <2>3. newId[c.tmp] = Perm(c.tmp)
      BY <2>1, <2>2 DEF CopyInv, IdInv, IdMapsAgree
    <2>4. CopyOf(newId[c.tmp]) = c.tmp
      BY <2>2, <2>3, PermCopy
    <2>5. Shows(chat, c, task.msg)
      BY <2>1, <2>2, TailRefs DEF CopyInv, WalkSound
    <2>6. Shows(chat', c, task.msg)
      BY <2>5 DEF ChatStable, Shows, SameRoute, Natively
    <2> HIDE DEF c
    <2>7. SameRoute(chat'[CopyOf(sending'.prev)], sending')
      BY <2>1, <2>4, <2>6 DEF Shows, SameRoute
    <2> QED BY <2>1, <2>7 DEF SendingSound
  <1>6. CASE StartEdit \/ EditUnconfirmed \/ EditSkipped \/ EditInPlace \/ FinishEdit
    <2>1. CASE sending = Idle
      <3>1. sending' = sending
        BY <1>6 DEF StartEdit, EditUnconfirmed, EditSkipped, EditInPlace, FinishEdit
      <3> QED BY <2>1, <3>1, <1>c
    <2>2. CASE sending # Idle
      <3>1. task # Idle
        BY <2>2, <1>b DEF Idle
      <3> QED BY <1>6, <2>2, <3>1 DEF StartEdit, NextTaskIs, EditUnconfirmed, EditSkipped,
                                     EditInPlace, FinishEdit, Visiting
    <2> QED BY <2>1, <2>2
  <1>7. CASE Deletes
    <2>1. task = Idle \/ task.kind = "delete"
      BY <1>7 DEF Deletes, StartDelete, NextTaskIs, DeleteIndelible, DeleteUnconfirmed, DeleteCopy,
                  DeleteNextId, FinishDelete, Visiting
    <2>2. sending = Idle
      BY <2>1, <1>b DEF Idle
    <2>3. sending' = sending
      BY <1>7 DEF Deletes, StartDelete, DeleteIndelible, DeleteUnconfirmed, DeleteCopy,
                  DeleteNextId, FinishDelete
    <2> QED BY <2>2, <2>3, <1>c
  <1>8. CASE Crash
    BY <1>8, <1>c DEF Crash
  <1>9. CASE UNCHANGED <<task, refs, ids, sending>>
    <2>1. CASE DeleteCopy
      BY <2>1, <1>7 DEF Deletes
    <2>2. CASE ~DeleteCopy
      BY <2>2, <1>9, <1>1, ChatStep
    <2> QED BY <2>1, <2>2
  <1> QED BY <1>2, <1>3, <1>4, <1>5, <1>6, <1>7, <1>8, <1>9, Frame DEF Edits

\* What the store says and will say of a copy, while the copy stays and no write is lost.
LEMMA AnswersKeep ==
    ASSUME CopyInv, ChatStable, NothingDeleted
    PROVE  /\ \A t \in TmpIds : answer[t] # NoMsg =>
                /\ t \in DOMAIN chat' /\ chat'[t].msg = answer[t]
                /\ chat'[t].status = "deleted" => t \in torn \cup Unwritten
           /\ \A t \in TmpIds, m \in Messages : writes = Answering(t, m) =>
                /\ t \in DOMAIN chat' /\ chat'[t].msg = m
                /\ chat'[t].status = "deleted" => t \in torn
  BY DEF CopyInv, AnswersSound, PendingSound, ChatStable, NothingDeleted

\* The worker writes an answer or deletes one, or fails to.
LEMMA AnswerWritten ==
    ASSUME CopyInv, TypeOK', WriteNext
    PROVE  AnswersSound' /\ PendingSound'
  <1>a. /\ answer \in [TmpIds -> Messages \cup {NoMsg}] /\ writes \in Seq(Write)
        /\ WritesSound /\ AnswersSound /\ PendingSound
    BY DEF CopyInv, IdInv, TypeOK
  <1>b. /\ writes # <<>> /\ writes' = Tail(writes) /\ chat' = chat
    BY WriteEffect DEF WriteNext
  <1>1. PICK u \in TmpIds : WritesOf(u)
    BY <1>a, <1>b DEF WritesSound
  <1>2. Unwritten = {u}
    BY <1>1, OneWritten
  <1>w. PICK w : w = Head(writes)
    OBVIOUS
  <1>3. \/ /\ answer' = IF w.map = "answer" THEN [answer EXCEPT ![w.at] = w.val] ELSE answer
           /\ torn' = torn
        \/ /\ answer' = answer
           /\ torn' = torn \cup (IF Tears(w) THEN {CopyWritten(w)} ELSE {})
    BY <1>w, WriteEffect
  <1>4. CASE w.map = "answer"
    <2>1. PICK m \in Messages \cup {NoMsg} :
            writes = <<[map |-> "answer", at |-> u, val |-> m]>>
      BY <1>1, <1>w, <1>4, TailWrites
         DEF WritesOf, MapsBoth, MapsBack, UnmapsAll, UnmapsBack, Answers
    <2>2. writes' = <<>> /\ w = [map |-> "answer", at |-> u, val |-> m]
      BY <1>b, <1>w, <2>1, TailWrites
    <2>3. PendingSound'
      BY <2>2 DEF PendingSound, Answering
    <2>4. CopyWritten(w) = u /\ (Tears(w) <=> chat[u].status = "deleted")
      BY <2>2 DEF CopyWritten, Tears
    <2>5. m # NoMsg =>
            u \in DOMAIN chat /\ chat[u].msg = m /\ (chat[u].status = "deleted" => u \in torn)
      BY <1>a, <2>1 DEF PendingSound, Answering
    <2>6. ASSUME NEW t \in TmpIds, answer'[t] # NoMsg
          PROVE  /\ t \in DOMAIN chat /\ chat[t].msg = answer'[t]
                 /\ chat[t].status = "deleted" => t \in torn'
      <3>1. CASE answer' = answer /\ torn' = torn \cup (IF Tears(w) THEN {CopyWritten(w)} ELSE {})
        BY <1>a, <1>2, <2>4, <2>6, <3>1 DEF AnswersSound
      <3>2. CASE answer' = [answer EXCEPT ![u] = m] /\ torn' = torn
        <4>1. CASE t = u
          BY <1>a, <2>5, <2>6, <3>2, <4>1
        <4>2. CASE t # u
          BY <1>a, <1>2, <2>6, <3>2, <4>2 DEF AnswersSound
        <4> QED BY <4>1, <4>2
      <3> QED BY <1>3, <1>4, <2>2, <3>1, <3>2
    <2> QED BY <1>b, <2>3, <2>6 DEF AnswersSound
  <1>5. CASE w.map # "answer"
    <2>1. \/ MapsBoth(u) /\ writes' = <<[map |-> "tmpId", at |-> Perm(u), val |-> u]>>
          \/ MapsBack(u) /\ writes' = <<>>
          \/ /\ UnmapsAll(u)
             /\ writes' = <<[map |-> "tmpId", at |-> Perm(u), val |-> 0],
                            [map |-> "answer", at |-> u, val |-> NoMsg]>>
          \/ UnmapsBack(u) /\ writes' = <<[map |-> "answer", at |-> u, val |-> NoMsg]>>
      <3>1. CASE MapsBoth(u)
        BY <1>b, <3>1, TailWrites DEF MapsBoth
      <3>2. CASE MapsBack(u)
        BY <1>b, <3>2, TailWrites DEF MapsBack
      <3>3. CASE UnmapsAll(u)
        BY <1>b, <3>3, TailWrites DEF UnmapsAll
      <3>4. CASE UnmapsBack(u)
        BY <1>b, <3>4, TailWrites DEF UnmapsBack
      <3>5. CASE Answers(u)
        BY <1>w, <1>5, <3>5, TailWrites DEF Answers
      <3> QED BY <1>1, <3>1, <3>2, <3>3, <3>4, <3>5 DEF WritesOf
    <2>2. PendingSound'
      BY <2>1, ConfigAssumption DEF PendingSound, Answering
    <2>3. answer' = answer /\ torn \subseteq torn'
      BY <1>3, <1>5
    <2>4. chat[u].status = "deleted" => u \in Unwritten'
      <3>1. MapsBoth(u) \/ MapsBack(u) => chat[u].status # "deleted"
        BY DEF MapsBoth, MapsBack, Delivered
      <3>2. CASE ~MapsBoth(u) /\ ~MapsBack(u)
        <4>1. \/ writes' = <<[map |-> "tmpId", at |-> Perm(u), val |-> 0],
                              [map |-> "answer", at |-> u, val |-> NoMsg]>>
              \/ writes' = <<[map |-> "answer", at |-> u, val |-> NoMsg]>>
          BY <2>1, <3>2
        <4>2. 1 \in DOMAIN writes' /\ CopyWritten(writes'[1]) = u
          BY <4>1, PermCopy DEF CopyWritten
        <4> QED BY <4>2 DEF Unwritten
      <3> QED BY <3>1, <3>2
    <2>5. ASSUME NEW t \in TmpIds, answer'[t] # NoMsg
          PROVE  /\ t \in DOMAIN chat /\ chat[t].msg = answer'[t]
                 /\ chat[t].status = "deleted" => t \in torn' \cup Unwritten'
      BY <1>a, <1>2, <2>3, <2>4, <2>5 DEF AnswersSound
    <2> QED BY <1>b, <2>2, <2>5 DEF AnswersSound
  <1> QED BY <1>4, <1>5

\* An answer leads to the source of its copy.
LEMMA AnswersStep ==
    ASSUME CopyInv, TypeOK', [Next]_vars, ChatStable
    PROVE  AnswersSound' /\ PendingSound'
  <1>a. /\ TypeOK /\ answer \in [TmpIds -> Messages \cup {NoMsg}]
        /\ AnswersSound /\ PendingSound /\ WritesSound
    BY DEF CopyInv, IdInv, TypeOK
  <1>1. CASE WriteNext
    BY <1>1, AnswerWritten
  <1>2. CASE Crash
    <2>1. /\ answer' = answer /\ chat' = chat /\ writes' = <<>>
          /\ torn' = torn \cup {CopyWritten(writes[i]) : i \in {j \in DOMAIN writes : Tears(writes[j])}}
      BY <1>2 DEF Crash, telegramVars
    <2>2. PendingSound'
      BY <2>1 DEF PendingSound, Answering
    <2>3. ASSUME NEW t \in TmpIds, answer[t] # NoMsg, chat[t].status = "deleted"
          PROVE  t \in torn'
      <3>1. CASE t \in torn
        BY <2>1, <3>1
      <3>2. CASE t \notin torn
        <4>1. PICK i \in DOMAIN writes : t = CopyWritten(writes[i])
          BY <1>a, <2>3, <3>2 DEF AnswersSound, Unwritten
        <4>2. Tears(writes[i])
          BY <2>3, <4>1 DEF Tears, CopyWritten
        <4> QED BY <2>1, <4>1, <4>2
      <3> QED BY <3>1, <3>2
    <2> QED BY <1>a, <2>1, <2>2, <2>3 DEF AnswersSound
  <1>3. CASE UNCHANGED <<answer, writes, torn>> /\ NothingDeleted
    <2>1. Unwritten' = Unwritten
      BY <1>3 DEF Unwritten
    <2> QED BY <1>3, <2>1, AnswersKeep DEF AnswersSound, PendingSound
  <1>4. CASE /\ writes = <<>> /\ UNCHANGED <<answer, torn>> /\ NothingDeleted
             /\ RunMap \/ RecordCopy \/ EditInPlace
    <2>1. Unwritten = {}
      BY <1>4 DEF Unwritten
    <2>2. AnswersSound'
      BY <1>4, <2>1, AnswersKeep DEF AnswersSound
    <2>3. CASE RecordCopy
      <3>1. sending # Idle /\ sending.tmp # 0
        BY <2>3 DEF RecordCopy
      <3>2. /\ sending.tmp \in DOMAIN chat' /\ chat'[sending.tmp].msg = sending.msg
            /\ chat'[sending.tmp].status # "deleted"
        BY <3>1, <1>4 DEF CopyInv, SendingSound, Shows, SameRoute, SentRef, ChatStable,
                          NothingDeleted
      <3>3. writes' = <<>> \/ writes' = Answering(sending.tmp, sending.msg)
        BY <2>3 DEF RecordCopy
      <3>4. \A t \in TmpIds, m \in Messages :
              writes' = Answering(t, m) => t = sending.tmp /\ m = sending.msg
        BY <3>3 DEF Answering
      <3> QED BY <2>2, <3>2, <3>4 DEF PendingSound
    <2>4. CASE EditInPlace
      <3>c. PICK c : c = Head(refs)
        OBVIOUS
      <3>1. task.kind = "edit" /\ refs # <<>> /\ newId[c.tmp] # 0
        BY <2>4, <3>c DEF EditInPlace, Visiting
      <3>2. c.tmp \in TmpIds /\ refs \in Seq(Ref)
        BY <1>a, <3>c, <3>1, VisitedRef DEF TypeOK
      <3>3. Shows(chat, c, task.msg)
        BY <3>c, <3>1, <3>2, TailRefs DEF CopyInv, WalkSound
      <3>4. c.tmp \in torn \/ chat[c.tmp].status # "deleted"
        BY <2>1, <3>1, <3>2 DEF CopyInv, IdInv, IdMapsAgree
      <3>5. /\ c.tmp \in DOMAIN chat' /\ chat'[c.tmp].msg = task.msg
            /\ chat'[c.tmp].status = "deleted" => c.tmp \in torn
        BY <1>4, <3>3, <3>4 DEF ChatStable, NothingDeleted, Shows, SameRoute
      <3>6. writes' = Answering(c.tmp, task.msg) \/ writes' = Answering(c.tmp, NoMsg)
        BY <2>4, <3>c DEF EditInPlace
      <3>7. \A t \in TmpIds, m \in Messages :
              writes' = Answering(t, m) => t = c.tmp /\ m = task.msg
        BY <3>6, ConfigAssumption DEF Answering
      <3> QED BY <1>4, <2>2, <3>5, <3>7 DEF PendingSound
    <2>5. CASE RunMap
      <3>1. PICK t, p : writes' = Mapping(t, p)
        BY <2>5 DEF RunMap
      <3>2. \A u, m : writes' # Answering(u, m)
        BY <3>1 DEF Mapping, Answering
      <3> QED BY <2>2, <3>2 DEF PendingSound
    <2> QED BY <1>4, <2>3, <2>4, <2>5
  <1>5. CASE writes = <<>> /\ DeleteCopy
    <2>c. PICK c : c = Head(refs)
      OBVIOUS
    <2>1. /\ c.tmp \in DOMAIN chat /\ c.tmp \in TmpIds
          /\ UNCHANGED chat \/ chat' = [chat EXCEPT ![c.tmp].status = "deleted"]
          /\ writes' = Unmapping(c.tmp, Perm(c.tmp)) /\ UNCHANGED <<answer, torn>>
      BY <1>5, <2>c, DeletedCopy DEF DeleteCopy
    <2>3. c.tmp \in Unwritten' /\ \A u, m : writes' # Answering(u, m)
      <3>1. 1 \in DOMAIN writes' /\ CopyWritten(writes'[1]) = c.tmp
        BY <2>1 DEF Unmapping, CopyWritten
      <3>2. \A u, m : writes' # Answering(u, m)
        BY <2>1 DEF Unmapping, Answering
      <3> QED BY <3>1, <3>2 DEF Unwritten
    <2>4. Unwritten = {}
      BY <1>5 DEF Unwritten
    <2>5. ASSUME NEW t \in TmpIds, answer[t] # NoMsg
          PROVE  /\ t \in DOMAIN chat' /\ chat'[t].msg = answer[t]
                 /\ chat'[t].status = "deleted" => t \in torn' \cup Unwritten'
      <3>1. /\ t \in DOMAIN chat /\ chat[t].msg = answer[t]
            /\ chat[t].status = "deleted" => t \in torn
        BY <1>a, <2>4, <2>5 DEF AnswersSound
      <3>2. t \in DOMAIN chat' /\ chat'[t].msg = chat[t].msg
        BY <3>1 DEF ChatStable
      <3>3. t # c.tmp => chat'[t] = chat[t]
        BY <2>1, <3>1
      <3> QED BY <2>1, <2>3, <3>1, <3>2, <3>3
    <2> QED BY <2>1, <2>3, <2>5 DEF AnswersSound, PendingSound
  <1>6. NothingDeleted \/ (writes = <<>> /\ DeleteCopy)
    BY ChatStep
  <1> QED BY <1>1, <1>2, <1>3, <1>4, <1>5, <1>6, Writers

\* A confirmed copy of the answered message in the same chat.
LEMMA ReplyTarget ==
    ASSUME CopyInv, NEW m \in Messages, NEW d, NEW p \in ReplyTo(m, d), p # 0
    PROVE  CopyOf(p) \in DOMAIN chat /\ chat[CopyOf(p)].dst = d /\ chat[CopyOf(p)].msg = ReplyOf[m]
  <1>a. TypeOK
    BY DEF CopyInv, IdInv
  <1> DEFINE list == IF ReplyOf[m] = NoMsg THEN <<>> ELSE copied[ReplyOf[m]]
  <1>1. list \in Seq(Ref)
    BY <1>a, ConfigAssumption DEF TypeOK
  <1>2. PICK i \in First(ReplyTargets(list, d)) : p = newId[list[i].tmp]
    BY DEF ReplyTo
  <1>3. i \in DOMAIN list /\ list[i].dst = d /\ newId[list[i].tmp] # 0
    BY <1>2 DEF First, ReplyTargets
  <1>4. ReplyOf[m] # NoMsg /\ ReplyOf[m] \in Messages /\ list = copied[ReplyOf[m]]
    BY <1>3, ConfigAssumption
  <1>5. Shows(chat, list[i], ReplyOf[m])
    BY <1>3, <1>4 DEF CopyInv, ListsSound, TrueRefs
  <1>6. list[i] \in Ref
    BY <1>1, <1>3
  <1> HIDE DEF list
  <1>7. list[i].tmp \in TmpIds
    BY <1>6 DEF Ref
  <1>8. p = Perm(list[i].tmp)
    BY <1>2, <1>3, <1>7 DEF CopyInv, IdInv, IdMapsAgree
  <1>9. CopyOf(p) = list[i].tmp
    BY <1>7, <1>8, PermCopy
  <1> QED BY <1>3, <1>5, <1>9 DEF Shows, SameRoute

LEMMA RepliesStep ==
    ASSUME CopyInv, TypeOK', [Next]_vars, ChatStable
    PROVE  RepliesSound'
  <1>1. ASSUME NEW t \in DOMAIN chat, chat'[t].replyTo # 0
        PROVE  LET target == CopyOf(chat'[t].replyTo) IN
               /\ target \in DOMAIN chat'
               /\ chat'[target].dst = chat'[t].dst /\ chat'[target].msg = ReplyOf[chat'[t].msg]
    BY <1>1 DEF CopyInv, RepliesSound, ChatStable
  <1>2. CASE OldReplies
    BY <1>1, <1>2 DEF RepliesSound, OldReplies
  <1>3. CASE SendCopy
    <2> DEFINE new == chat'[Len(chat) + 1]
    <2>1. /\ sending \in Sending
          /\ \A u \in DOMAIN chat' : u \in DOMAIN chat \/ u = Len(chat) + 1
          /\ new.msg = sending.msg /\ new.dst = sending.dst
          /\ new.replyTo \in ReplyTo(sending.msg, sending.dst)
      BY <1>3, SendCopyAdds DEF CopyInv, IdInv
    <2>2. sending.msg \in Messages
      BY <2>1 DEF Sending
    <2>3. ASSUME new.replyTo # 0
          PROVE  /\ CopyOf(new.replyTo) \in DOMAIN chat
                 /\ chat[CopyOf(new.replyTo)].dst = new.dst
                 /\ chat[CopyOf(new.replyTo)].msg = ReplyOf[new.msg]
      BY <2>1, <2>2, <2>3, ReplyTarget
    <2>4. ASSUME new.replyTo # 0
          PROVE  /\ CopyOf(new.replyTo) \in DOMAIN chat'
                 /\ chat'[CopyOf(new.replyTo)].dst = new.dst
                 /\ chat'[CopyOf(new.replyTo)].msg = ReplyOf[new.msg]
      BY <2>3, <2>4 DEF ChatStable
    <2> QED BY <1>1, <2>1, <2>4 DEF RepliesSound
  <1> QED BY <1>2, <1>3, ChatStep

\* A goroutine that has something in hand, in terms of the messages it is about.
InHand(messages, l) ==
    LET t == CopyOf(l.prev) IN
    /\ t \in DOMAIN messages /\ t < l.tmp /\ l.tmp \in DOMAIN messages
    /\ SameRoute(messages[t], messages[l.tmp]) /\ messages[l.tmp].status \notin Natively
    /\ \A p \in l.seen \cup ({l.new} \ {0}) : LinkTrue(messages, t, p)

LEMMA LinksStep ==
    ASSUME CopyInv, TypeOK', [Next]_vars, ChatStable
    PROVE  LinksSound'
  <1>a. TypeOK
    BY DEF CopyInv, IdInv
  <1>b. ASSUME NEW l \in linkers PROVE InHand(chat, l)
    BY <1>b DEF CopyInv, LinksSound, InHand, IdInv, LinkersSound
  <1>c. ASSUME NEW l, InHand(chat, l) PROVE InHand(chat', l)
    <2> DEFINE t == CopyOf(l.prev)
    <2>1. /\ t \in DOMAIN chat /\ t < l.tmp /\ l.tmp \in DOMAIN chat
          /\ SameRoute(chat[t], chat[l.tmp]) /\ chat[l.tmp].status \notin Natively
          /\ \A p \in l.seen \cup ({l.new} \ {0}) : LinkTrue(chat, t, p)
      BY <1>c DEF InHand
    <2> HIDE DEF t
    <2>2. \A p \in l.seen \cup ({l.new} \ {0}) : LinkTrue(chat', t, p)
      BY <2>1, LinkStays
    <2>3. t \in DOMAIN chat' /\ l.tmp \in DOMAIN chat'
      BY <2>1 DEF ChatStable
    <2>4. SameRoute(chat'[t], chat'[l.tmp]) /\ chat'[l.tmp].status \notin Natively
      BY <2>1 DEF ChatStable, SameRoute
    <2> QED BY <2>1, <2>2, <2>3, <2>4 DEF InHand, t
  <1>d. ASSUME NEW t \in DOMAIN chat, NEW p \in chat[t].next PROVE LinkTrue(chat', t, p)
    BY LinkStays DEF CopyInv, LinksSound
  <1>1. \A t \in DOMAIN chat' : \A p \in chat'[t].next : LinkTrue(chat', t, p)
    <2>1. CASE NoNewLinks
      BY <2>1, <1>d DEF NoNewLinks
    <2>2. ASSUME NEW l \in linkers, LinkWrite(l)
          PROVE  \A t \in DOMAIN chat' : \A p \in chat'[t].next : LinkTrue(chat', t, p)
      <3>1. /\ DOMAIN chat' = DOMAIN chat
            /\ \A u \in DOMAIN chat : chat'[u].next = chat[u].next
                  \/ (u = CopyOf(l.prev) /\ chat'[u].next = l.seen \cup {l.new})
        BY <2>2, LinkWritten
      <3>2. l.new # 0
        BY <2>2 DEF LinkWrite
      <3>3. \A p \in l.seen \cup {l.new} : LinkTrue(chat', CopyOf(l.prev), p)
        BY <3>2, <1>b, <1>c DEF InHand
      <3> QED BY <3>1, <3>3, <1>d
    <2> QED BY <2>1, <2>2, ChatStep
  <1>2. \A l \in linkers' : InHand(chat', l)
    <2>1. CASE linkers' = linkers \/ linkers' = {}
      BY <2>1, <1>b, <1>c
    <2>2. CASE RecordCopy
      <3> DEFINE new == [tmp |-> sending.tmp, prev |-> sending.prev,
                         left |-> MaxLinkTries, new |-> 0, seen |-> {}]
      <3>1. /\ sending # Idle /\ sending.tmp # 0
            /\ linkers' = linkers \/ (sending.prev # 0 /\ linkers' = linkers \cup {new})
        BY <2>2 DEF RecordCopy
      <3>2. ASSUME sending.prev # 0 PROVE InHand(chat, new)
        <4>1. CopyOf(sending.prev) \in DOMAIN chat
          BY <3>1, <3>2 DEF CopyInv, IdInv, LinkersSound
        <4>2. /\ SameRoute(chat[CopyOf(sending.prev)], sending)
              /\ CopyOf(sending.prev) < sending.tmp
              /\ Shows(chat, SentRef, sending.msg)
          BY <3>1, <3>2 DEF CopyInv, SendingSound
        <4>3. /\ sending.tmp \in DOMAIN chat /\ chat[sending.tmp].status \notin Natively
              /\ SameRoute(chat[CopyOf(sending.prev)], chat[sending.tmp])
          BY <4>2 DEF Shows, SentRef, SameRoute
        <4> QED BY <4>1, <4>2, <4>3 DEF InHand
      <3> HIDE DEF new
      <3> QED BY <3>1, <3>2, <1>b, <1>c
    <2>3. ASSUME NEW l \in linkers, NextLink(l) PROVE \A k \in linkers' : InHand(chat', k)
      <3>1. l \in Linker /\ InHand(chat, l)
        BY <1>a, <1>b DEF TypeOK
      <3>2. CASE LinkPoll(l)
        <4>1. InHand(chat, [l EXCEPT !.left = l.left - 1])
          BY <3>1 DEF InHand, Linker
        <4>2. \A k \in linkers' : k \in linkers \/ k = [l EXCEPT !.left = l.left - 1]
          BY <3>2 DEF LinkPoll
        <4> QED BY <4>1, <4>2, <1>b, <1>c
      <3>3. CASE LinkRead(l)
        <4> DEFINE t == CopyOf(l.prev)
                   k == [l EXCEPT !.new = newId[l.tmp], !.seen = chat[t].next]
        <4>1. newId[l.tmp] # 0 /\ l.tmp \in TmpIds
          BY <3>1, <3>3 DEF LinkRead, Linker
        <4>2. newId[l.tmp] = Perm(l.tmp) /\ chat[l.tmp].status \in Delivered \cup {"deleted"}
          BY <4>1, StoredId DEF CopyInv, IdInv, IdMapsAgree
        <4>3. CopyOf(newId[l.tmp]) = l.tmp
          BY <4>1, <4>2, PermCopy
        <4>4. LinkTrue(chat, t, newId[l.tmp])
          BY <3>1, <4>2, <4>3 DEF InHand, LinkTrue, Natively, Delivered
        <4>5. \A p \in chat[t].next : LinkTrue(chat, t, p)
          BY <3>1 DEF InHand, CopyInv, LinksSound
        <4>6. k.tmp = l.tmp /\ k.prev = l.prev /\ k.new = newId[l.tmp] /\ k.seen = chat[t].next
          BY <3>1 DEF Linker
        <4>7. \A j \in linkers' : j \in linkers \/ j = k
          BY <3>3 DEF LinkRead
        <4> HIDE DEF k
        <4>8. InHand(chat, k)
          BY <3>1, <4>4, <4>5, <4>6 DEF InHand
        <4> QED BY <4>7, <4>8, <1>b, <1>c
      <3>4. CASE LinkWrite(l)
        <4>1. linkers' \subseteq linkers
          BY <3>4 DEF LinkWrite
        <4> QED BY <4>1, <1>b, <1>c
      <3> QED BY <2>3, <3>2, <3>3, <3>4 DEF NextLink
    <2> QED BY <2>1, <2>2, <2>3, Frame
  <1> QED BY <1>1, <1>2 DEF LinksSound, InHand

\* The inductive invariant of copies, references, answers, replies and links.
LEMMA CopyStep == CopyInv /\ [Next]_vars => CopyInv'
  <1> SUFFICES ASSUME CopyInv, [Next]_vars PROVE CopyInv'
    OBVIOUS
  <1>1. IdInv'
    BY IdStep DEF CopyInv
  <1>2. TypeOK'
    BY <1>1 DEF IdInv
  <1>3. ChatStable
    BY <1>2, ChatStep
  <1> QED BY <1>1, <1>2, <1>3, ListsStep, DeletesStep, WalkStep, SendingStep, AnswersStep,
             RepliesStep, LinksStep DEF CopyInv

LEMMA CopySafety == Spec => []CopyInv
  BY CopyInit, CopyStep, PTL DEF Spec

\* What the store says of a copy is true of it: SetCopiedMessageID, SetAnswerMessageID and
\* DeleteAnswerMessageID against versions, edits, deletions, and failures and crashes between
\* any two writes.  An answer outlives the copy only until its deletion is written, or if a
\* write about the copy was lost.
THEOREM StoreIsTrue == Spec => []CopyRefsSound
  <1>1. CopyInv => CopyRefsSound
    <2> SUFFICES ASSUME CopyInv PROVE CopyRefsSound
      OBVIOUS
    <2>1. chat \in Seq(Copy)
      BY DEF CopyInv, IdInv, TypeOK
    <2>2. \A t \in DOMAIN chat : t <= Len(chat)
      BY <2>1
    <2>3. ASSUME NEW m \in Messages, NEW i \in DOMAIN copied[m]
          PROVE  LET c == copied[m][i] IN
                 /\ c.tmp <= Len(chat)
                 /\ SameRoute(chat[c.tmp], [msg |-> m, rule |-> c.rule, dst |-> c.dst])
                 /\ \A j \in DOMAIN copied[m] : i # j =>
                      copied[m][j].rule # c.rule \/ copied[m][j].dst # c.dst
      BY <2>2, <2>3 DEF CopyInv, ListsSound, TrueRefs, Shows, Distinct
    <2>4. \A t \in TmpIds : answer[t] # NoMsg =>
            /\ t <= Len(chat) /\ chat[t].msg = answer[t]
            /\ chat[t].status = "deleted" => t \in torn \cup Unwritten
      BY <2>2 DEF CopyInv, AnswersSound
    <2> QED BY <2>3, <2>4 DEF CopyRefsSound
  <1> QED BY <1>1, CopySafety, PTL

\* deleteMessages takes down copies of messages deleted at the source only, and none of a
\* rule the task knows to be Indelible, however old the list it walks through is.
THEOREM DeletesOnlyWhatWasDeleted == Spec => NeverDeletesUnasked
  <1> DEFINE A == \A t \in DOMAIN chat :
                    chat[t].status # "deleted" /\ chat'[t].status = "deleted" =>
                      /\ chat[t].status = "sent"
                      /\ chat[t].msg \in srcGone
                      /\ chat[t].rule \in task.rs => ~RuleCfg[chat[t].rule].indelible
  <1>1. CopyInv /\ [Next]_vars => [A]_vars
    <2> SUFFICES ASSUME CopyInv, [Next]_vars,
                        NEW t \in DOMAIN chat, chat[t].status # "deleted",
                        chat'[t].status = "deleted"
                 PROVE  /\ chat[t].status = "sent"
                        /\ chat[t].msg \in srcGone
                        /\ chat[t].rule \in task.rs => ~RuleCfg[chat[t].rule].indelible
      OBVIOUS
    <2>1. TypeOK'
      BY IdStep DEF CopyInv, IdInv
    <2>2. DeleteCopy
      BY <2>1, ChatStep DEF NothingDeleted
    <2> DEFINE c == Head(refs)
    <2>3. /\ chat[c.tmp].status \in {"sent", "deleted"} /\ chat[c.tmp].msg \in srcGone
          /\ chat[c.tmp].rule = c.rule
          /\ UNCHANGED chat \/ chat' = [chat EXCEPT ![c.tmp].status = "deleted"]
      BY <2>2, DeletedCopy
    <2>4. ~Keeps(c)
      BY <2>2 DEF DeleteCopy
    <2> HIDE DEF c
    <2>5. t = c.tmp
      BY <2>3
    <2> QED BY <2>3, <2>4, <2>5 DEF Keeps
  <1> QED BY <1>1, CopySafety, PTL DEF NeverDeletesUnasked, Spec

\* A reply is sent as a reply to a copy of the answered message in the same chat.
THEOREM RepliesKeepTheirThread == Spec => []RepliesStayInThread
  <1>1. CopyInv => RepliesStayInThread
    BY DEF CopyInv, RepliesSound, RepliesStayInThread
  <1> QED BY <1>1, CopySafety, PTL

\* runNextLinkWorkflow writes links to later, confirmed versions of the same copy only,
\* although it reads a text and writes it back while the worker goes on.
THEOREM LinksLeadToVersions == Spec => []LinksFollowVersions
  <1>1. CopyInv => LinksFollowVersions
    <2> SUFFICES ASSUME CopyInv, NEW t \in DOMAIN chat, NEW p \in chat[t].next
                 PROVE  /\ t < CopyOf(p) /\ CopyOf(p) <= Len(chat)
                        /\ SameRoute(chat[t], chat[CopyOf(p)])
                        /\ chat[CopyOf(p)].status \in {"sent", "deleted"}
      BY DEF LinksFollowVersions
    <2>1. LinkTrue(chat, t, p)
      BY DEF CopyInv, LinksSound
    <2>2. chat \in Seq(Copy)
      BY DEF CopyInv, IdInv, TypeOK
    <2> QED BY <2>1, <2>2 DEF LinkTrue
  <1> QED BY <1>1, CopySafety, PTL

(***************************************************************************)
(* One fact for an event                                                   *)
(***************************************************************************)

\* Task t, a first attempt, will submit a fact of message m, with this stamp.
Tells(t, m) ==
    \/ t.kind = "edit" /\ t.attempt = 0 /\ t.msg = m
    \/ t.kind = "delete" /\ t.attempt = 0 /\ m \in {t.ids[i] : i \in DOMAIN t.ids}
StampOf(t, m) == IF t.kind = "edit" THEN t.at ELSE t.at[m]

\* The stamps of a message's facts, submitted or waiting in the queue with their task, are
\* all different, and none is ahead of the clock.
Stamps(fs, q, c, m) ==
    /\ \A i \in DOMAIN fs : fs[i].at <= c
    /\ \A i, j \in DOMAIN fs : i # j => fs[i].at # fs[j].at
    /\ \A k \in DOMAIN q : Tells(q[k], m) =>
         StampOf(q[k], m) <= c /\ \A i \in DOMAIN fs : fs[i].at # StampOf(q[k], m)
    /\ \A k, l \in DOMAIN q : Tells(q[k], m) /\ Tells(q[l], m) /\ k # l =>
         StampOf(q[k], m) # StampOf(q[l], m)

FactsInv == IdInv /\ \A m \in Messages : Stamps(facts[m], queue, clock[m], m)

LEMMA FactsInit == Init => FactsInv
  <1> SUFFICES ASSUME Init, NEW m \in Messages PROVE Stamps(facts[m], queue, clock[m], m)
    BY IdInit DEF FactsInv
  <1> QED BY DEF Init, Stamps

\* A stamp is a number.
LEMMA StampTyped ==
    ASSUME NEW t \in Task, NEW m \in Messages, Tells(t, m)
    PROVE  StampOf(t, m) \in Nat
  BY TaskKinds DEF Tells, StampOf, EditTask, DeleteTask

\* The worker takes a task away.
LEMMA TailStamps ==
    ASSUME NEW fs \in Seq(Fact), NEW q \in Seq(Task), NEW c \in Nat, NEW m \in Messages,
           Stamps(fs, q, c, m), q # <<>>
    PROVE  Stamps(fs, Tail(q), c, m)
  <1>1. \A i \in DOMAIN Tail(q) : i + 1 \in DOMAIN q /\ Tail(q)[i] = q[i + 1]
    BY TailShifts
  <1>2. DOMAIN Tail(q) \subseteq Nat
    <2>1. Tail(q) \in Seq(Task)
      OBVIOUS
    <2> QED BY <2>1
  <1>3. \A k, l \in DOMAIN Tail(q) : k # l => k + 1 # l + 1
    BY <1>2
  <1> DEFINE r == Tail(q)
  <1> HIDE DEF r
  <1> QED BY <1>1, <1>3 DEF Stamps, r

\* Where an appended sequence holds what.
LEMMA AppendedAtTheEnd ==
    ASSUME NEW S, NEW q \in Seq(S), NEW x \in S
    PROVE  LET n == Len(q) + 1 IN
           /\ DOMAIN Append(q, x) = DOMAIN q \cup {n} /\ n \notin DOMAIN q
           /\ Append(q, x)[n] = x /\ \A i \in DOMAIN q : Append(q, x)[i] = q[i]
  <1> DEFINE r == Append(q, x)
  <1>1. /\ r \in Seq(S) /\ Len(r) = Len(q) + 1 /\ r[Len(q) + 1] = x
        /\ \A i \in 1..Len(q) : r[i] = q[i]
    BY AppendProperties
  <1> HIDE DEF r
  <1>2. DOMAIN r = 1..Len(r) /\ DOMAIN q = 1..Len(q) /\ Len(q) \in Nat
    BY <1>1
  <1>3. LET n == Len(q) + 1 IN
        /\ DOMAIN r = DOMAIN q \cup {n} /\ n \notin DOMAIN q
        /\ r[n] = x /\ \A i \in DOMAIN q : r[i] = q[i]
    BY <1>1, <1>2
  <1> QED BY <1>3 DEF r

\* A task is queued whose stamp, if it has one, was just taken.
LEMMA AppendStamps ==
    ASSUME NEW fs \in Seq(Fact), NEW q \in Seq(Task), NEW c \in Nat, NEW m \in Messages,
           Stamps(fs, q, c, m), NEW x \in Task, NEW d \in Nat, c <= d,
           Tells(x, m) => StampOf(x, m) > c /\ StampOf(x, m) <= d
    PROVE  Stamps(fs, Append(q, x), d, m)
  <1> DEFINE r == Append(q, x)
             n == Len(q) + 1
  <1>1. /\ DOMAIN r = DOMAIN q \cup {n} /\ n \notin DOMAIN q
        /\ r[n] = x /\ \A i \in DOMAIN q : r[i] = q[i]
    BY AppendedAtTheEnd
  <1>2. \A i \in DOMAIN fs : fs[i].at \in Nat /\ fs[i].at <= c
    <2>1. \A i \in DOMAIN fs : fs[i].at \in Nat
      <3>1. \A i \in DOMAIN fs : fs[i] \in Fact
        OBVIOUS
      <3> QED BY <3>1 DEF Fact
    <2> QED BY <2>1 DEF Stamps
  <1>3. \A k \in DOMAIN q : Tells(q[k], m) => StampOf(q[k], m) \in Nat /\ StampOf(q[k], m) <= c
    <2>1. \A k \in DOMAIN q : q[k] \in Task
      OBVIOUS
    <2> QED BY <2>1, StampTyped DEF Stamps
  <1>4. Tells(x, m) => StampOf(x, m) \in Nat
    BY StampTyped
  <1> HIDE DEF r, n
  <1>5. \A i \in DOMAIN fs : fs[i].at <= d
    BY <1>2
  <1>6. \A k \in DOMAIN r : Tells(r[k], m) =>
          StampOf(r[k], m) <= d /\ \A i \in DOMAIN fs : fs[i].at # StampOf(r[k], m)
    <2>1. ASSUME NEW k \in DOMAIN q, Tells(r[k], m)
          PROVE  StampOf(r[k], m) <= d /\ \A i \in DOMAIN fs : fs[i].at # StampOf(r[k], m)
      <3>1. r[k] = q[k]
        BY <1>1
      <3>2. StampOf(q[k], m) \in Nat /\ StampOf(q[k], m) <= c
        BY <1>3, <2>1, <3>1
      <3>3. \A i \in DOMAIN fs : fs[i].at # StampOf(q[k], m)
        BY <2>1, <3>1 DEF Stamps
      <3> QED BY <3>1, <3>2, <3>3
    <2>2. ASSUME Tells(r[n], m)
          PROVE  StampOf(r[n], m) <= d /\ \A i \in DOMAIN fs : fs[i].at # StampOf(r[n], m)
      BY <1>1, <1>2, <1>4, <2>2
    <2> QED BY <1>1, <2>1, <2>2
  <1>7. ASSUME NEW k \in DOMAIN r, NEW l \in DOMAIN r, Tells(r[k], m), Tells(r[l], m), k # l
        PROVE  StampOf(r[k], m) # StampOf(r[l], m)
    <2>1. CASE k \in DOMAIN q /\ l \in DOMAIN q
      BY <1>1, <1>7, <2>1 DEF Stamps
    <2>2. CASE k = n /\ l \in DOMAIN q
      BY <1>1, <1>3, <1>4, <1>7, <2>2
    <2>3. CASE l = n /\ k \in DOMAIN q
      BY <1>1, <1>3, <1>4, <1>7, <2>3
    <2> QED BY <1>1, <1>7, <2>1, <2>2, <2>3
  <1>8. \A i, j \in DOMAIN fs : i # j => fs[i].at # fs[j].at
    BY DEF Stamps
  <1>9. Stamps(fs, r, d, m)
    BY <1>5, <1>6, <1>7, <1>8 DEF Stamps
  <1> QED BY <1>9 DEF r

\* A fact is submitted whose stamp no other has.
LEMMA FactStamps ==
    ASSUME NEW fs \in Seq(Fact), NEW q \in Seq(Task), NEW c \in Nat, NEW m \in Messages,
           Stamps(fs, q, c, m), NEW f \in Fact, NEW d \in Nat, c <= d, f.at <= d,
           \A i \in DOMAIN fs : fs[i].at # f.at,
           \A k \in DOMAIN q : Tells(q[k], m) => StampOf(q[k], m) # f.at
    PROVE  Stamps(Append(fs, f), q, d, m)
  <1> DEFINE r == Append(fs, f)
             n == Len(fs) + 1
  <1>1. /\ DOMAIN r = DOMAIN fs \cup {n} /\ n \notin DOMAIN fs
        /\ r[n] = f /\ \A i \in DOMAIN fs : r[i] = fs[i]
    BY AppendedAtTheEnd
  <1>2. \A i \in DOMAIN fs : fs[i].at \in Nat /\ fs[i].at <= c
    <2>1. \A i \in DOMAIN fs : fs[i].at \in Nat
      <3>1. \A i \in DOMAIN fs : fs[i] \in Fact
        OBVIOUS
      <3> QED BY <3>1 DEF Fact
    <2> QED BY <2>1 DEF Stamps
  <1>3. \A k \in DOMAIN q : Tells(q[k], m) => StampOf(q[k], m) \in Nat /\ StampOf(q[k], m) <= c
    <2>1. \A k \in DOMAIN q : q[k] \in Task
      OBVIOUS
    <2> QED BY <2>1, StampTyped DEF Stamps
  <1> HIDE DEF r, n
  <1>4. \A i \in DOMAIN r : r[i].at <= d
    BY <1>1, <1>2
  <1>5. \A i, j \in DOMAIN r : i # j => r[i].at # r[j].at
    BY <1>1 DEF Stamps
  <1>6. \A k \in DOMAIN q : Tells(q[k], m) =>
          StampOf(q[k], m) <= d /\ \A i \in DOMAIN r : r[i].at # StampOf(q[k], m)
    BY <1>1, <1>3 DEF Stamps
  <1>7. Stamps(r, q, d, m)
    BY <1>4, <1>5, <1>6 DEF Stamps
  <1> QED BY <1>7 DEF r

\* The stamp of the queue's head is no other's.
LEMMA HeadStamps ==
    ASSUME NEW fs \in Seq(Fact), NEW q \in Seq(Task), NEW c \in Nat, NEW m \in Messages,
           Stamps(fs, q, c, m), q # <<>>, NEW f \in Fact, Tells(Head(q), m),
           f.at = StampOf(Head(q), m)
    PROVE  Stamps(Append(fs, f), Tail(q), c, m)
  <1>1. \A i \in DOMAIN Tail(q) : i + 1 \in DOMAIN q /\ Tail(q)[i] = q[i + 1]
    BY TailShifts
  <1>2. 1 \in DOMAIN q /\ q[1] = Head(q) /\ Tail(q) \in Seq(Task)
    OBVIOUS
  <1>3. f.at <= c /\ \A i \in DOMAIN fs : fs[i].at # f.at
    BY <1>2 DEF Stamps
  <1>4. \A k \in DOMAIN Tail(q) : k + 1 # 1
    <2> DEFINE r == Tail(q)
    <2>1. r \in Seq(Task)
      BY <1>2
    <2> HIDE DEF r
    <2>2. \A k \in DOMAIN r : k + 1 # 1
      BY <2>1
    <2> QED BY <2>2 DEF r
  <1>5. \A k \in DOMAIN Tail(q) : Tells(Tail(q)[k], m) => StampOf(Tail(q)[k], m) # f.at
    <2> SUFFICES ASSUME NEW k \in DOMAIN Tail(q), Tells(Tail(q)[k], m)
                 PROVE  StampOf(Tail(q)[k], m) # f.at
      OBVIOUS
    <2>1. k + 1 \in DOMAIN q /\ Tail(q)[k] = q[k + 1] /\ k + 1 # 1
      BY <1>1, <1>4
    <2> QED BY <1>2, <2>1 DEF Stamps
  <1>6. Stamps(fs, Tail(q), c, m)
    BY TailStamps
  <1>7. c <= c
    OBVIOUS
  <1> DEFINE r == Tail(q)
  <1>8. r \in Seq(Task) /\ Stamps(fs, r, c, m)
        /\ \A k \in DOMAIN r : Tells(r[k], m) => StampOf(r[k], m) # f.at
    BY <1>2, <1>5, <1>6
  <1> HIDE DEF r
  <1>9. Stamps(Append(fs, f), r, c, m)
    BY <1>3, <1>7, <1>8, FactStamps
  <1> QED BY <1>9 DEF r

(***************************************************************************)
(* How a step moves the facts of message m                                 *)
(***************************************************************************)

\* Nothing is stamped and nothing told.
Untold(m) ==
    /\ facts'[m] = facts[m] /\ clock'[m] = clock[m]
    /\ \/ queue' = queue \/ queue' = <<>>
       \/ queue # <<>> /\ queue' = Tail(queue)

\* A task is queued, of an older event or with the stamp just taken.
Queued(m) ==
    /\ facts'[m] = facts[m] /\ clock[m] <= clock'[m]
    /\ \E x \in Task : /\ queue' = Append(queue, x)
                       /\ Tells(x, m) => StampOf(x, m) = clock[m] + 1 /\ clock'[m] = clock[m] + 1

\* A fact is told at once, or by the task that carries it.
ToldAtOnce(m) ==
    /\ queue' = queue /\ clock'[m] = clock[m] + 1
    /\ \E f \in Fact : f.at = clock[m] + 1 /\ facts'[m] = Append(facts[m], f)
ToldByTask(m) ==
    /\ queue # <<>> /\ queue' = Tail(queue) /\ clock'[m] = clock[m]
    /\ Tells(Head(queue), m)
    /\ \E f \in Fact : f.at = StampOf(Head(queue), m) /\ facts'[m] = Append(facts[m], f)

StampMoves(m) == Untold(m) \/ Queued(m) \/ ToldAtOnce(m) \/ ToldByTask(m)

LEMMA StampsStep ==
    ASSUME FactsInv, TypeOK', NEW m \in Messages, StampMoves(m)
    PROVE  Stamps(facts'[m], queue', clock'[m], m)
  <1> DEFINE fs == facts[m]
             c == clock[m]
             d == clock'[m]
  <1>1. fs \in Seq(Fact) /\ queue \in Seq(Task) /\ c \in Nat /\ d \in Nat
    BY DEF FactsInv, IdInv, TypeOK
  <1>2. Stamps(fs, queue, c, m)
    BY DEF FactsInv
  <1>3. \A i \in DOMAIN fs : fs[i].at \in Nat /\ fs[i].at <= c
    <2>1. \A i \in DOMAIN fs : fs[i].at \in Nat
      <3>1. \A i \in DOMAIN fs : fs[i] \in Fact
        BY <1>1
      <3> QED BY <3>1 DEF Fact
    <2> QED BY <2>1, <1>2 DEF Stamps
  <1>4. CASE Untold(m)
    <2>1. CASE queue' = queue
      BY <1>2, <1>4, <2>1 DEF Untold
    <2>2. CASE queue' = <<>>
      <3>1. Stamps(fs, <<>>, c, m)
        BY <1>2 DEF Stamps
      <3> QED BY <1>4, <2>2, <3>1 DEF Untold
    <2>3. CASE queue # <<>> /\ queue' = Tail(queue)
      <3>1. Stamps(fs, Tail(queue), c, m)
        BY <1>1, <1>2, <2>3, TailStamps
      <3> QED BY <1>4, <2>3, <3>1 DEF Untold
    <2> QED BY <1>4, <2>1, <2>2, <2>3 DEF Untold
  <1>5. CASE Queued(m)
    <2>1. PICK x \in Task : /\ queue' = Append(queue, x)
                            /\ Tells(x, m) => StampOf(x, m) = c + 1 /\ d = c + 1
      BY <1>5 DEF Queued
    <2>2. c <= d /\ (Tells(x, m) => StampOf(x, m) > c /\ StampOf(x, m) <= d)
      BY <1>1, <1>5, <2>1 DEF Queued
    <2>3. Stamps(fs, Append(queue, x), d, m)
      <3> HIDE DEF fs, c, d
      <3> QED BY <1>1, <1>2, <2>2, AppendStamps
    <2> QED BY <1>5, <2>1, <2>3 DEF Queued
  <1>6. CASE ToldAtOnce(m)
    <2>1. PICK f \in Fact : f.at = c + 1 /\ facts'[m] = Append(fs, f)
      BY <1>6 DEF ToldAtOnce
    <2>2. d = c + 1 /\ queue' = queue
      BY <1>6 DEF ToldAtOnce
    <2>3. c <= d /\ f.at <= d /\ \A i \in DOMAIN fs : fs[i].at # f.at
      BY <1>1, <1>3, <2>1, <2>2
    <2>4. \A k \in DOMAIN queue : Tells(queue[k], m) => StampOf(queue[k], m) # f.at
      <3> SUFFICES ASSUME NEW k \in DOMAIN queue, Tells(queue[k], m)
                   PROVE  StampOf(queue[k], m) # f.at
        OBVIOUS
      <3>1. queue[k] \in Task
        BY <1>1
      <3>2. StampOf(queue[k], m) \in Nat
        BY <3>1, StampTyped
      <3>3. StampOf(queue[k], m) <= c
        BY <1>2 DEF Stamps
      <3> QED BY <1>1, <2>1, <3>2, <3>3
    <2>5. Stamps(Append(fs, f), queue, d, m)
      <3> HIDE DEF fs, c, d
      <3> QED BY <1>1, <1>2, <2>3, <2>4, FactStamps
    <2> QED BY <2>1, <2>2, <2>5
  <1>7. CASE ToldByTask(m)
    <2>1. PICK f \in Fact : f.at = StampOf(Head(queue), m) /\ facts'[m] = Append(fs, f)
      BY <1>7 DEF ToldByTask
    <2>2. queue # <<>> /\ queue' = Tail(queue) /\ d = c /\ Tells(Head(queue), m)
      BY <1>7 DEF ToldByTask
    <2>3. Stamps(Append(fs, f), Tail(queue), c, m)
      <3> HIDE DEF fs, c, d
      <3> QED BY <1>1, <1>2, <2>1, <2>2, HeadStamps
    <2> QED BY <2>1, <2>2, <2>3
  <1> QED BY <1>4, <1>5, <1>6, <1>7 DEF StampMoves

\* A retry carries no emission.
LEMMA RetriedIsSilent ==
    ASSUME TypeOK, task.kind \in {"edit", "delete"}, NEW m
    PROVE  ~Tells(Retried(task), m)
  <1>1. task \in Task \cup {Idle}
    BY DEF TypeOK
  <1>2. CASE task.kind = "edit"
    <2>1. task \in EditTask
      BY <1>1, <1>2, TaskKinds
    <2>2. Retried(task).attempt = task.attempt + 1 /\ task.attempt \in Nat
      BY <2>1, BoundAssumption DEF Retried, EditTask
    <2> QED BY <2>2 DEF Tells
  <1>3. CASE task.kind = "delete"
    <2>1. task \in DeleteTask
      BY <1>1, <1>3, TaskKinds
    <2>2. Retried(task).attempt = task.attempt + 1 /\ task.attempt \in Nat
      BY <2>1, BoundAssumption DEF Retried, DeleteTask
    <2> QED BY <2>2 DEF Tells
  <1> QED BY <1>2, <1>3

LEMMA StampsMove ==
    ASSUME FactsInv, TypeOK', [Next]_vars, NEW m \in Messages
    PROVE  StampMoves(m)
  <1> USE DEF pushVars
  <1>a. /\ TypeOK /\ queue \in Seq(Task) /\ queue' \in Seq(Task)
        /\ clock \in [Messages -> Nat] /\ clock' \in [Messages -> Nat]
        /\ facts \in [Messages -> Seq(Fact)]
    BY DEF FactsInv, IdInv, TypeOK
  <1>b. ASSUME UNCHANGED pushVars,
               queue' = queue \/ queue' = <<>> \/ (queue # <<>> /\ queue' = Tail(queue))
        PROVE  StampMoves(m)
    BY <1>b DEF StampMoves, Untold
  <1>c. ASSUME UNCHANGED pushVars, NEW x, queue' = Append(queue, x), ~Tells(x, m)
        PROVE  StampMoves(m)
    <2>1. x \in Task
      BY <1>a, <1>c, AppendedTask
    <2>2. facts'[m] = facts[m] /\ clock[m] <= clock'[m]
      BY <1>a, <1>c
    <2> QED BY <1>c, <2>1, <2>2 DEF StampMoves, Queued
  <1>d. ASSUME NEW x, x.kind \notin {"edit", "delete"} PROVE ~Tells(x, m)
    BY <1>d DEF Tells
  <1>1. CASE UpdateLoop
    <2>1. CASE SkipRule
      BY <2>1, <1>b DEF SkipRule
    <2>2. CASE RouteOk
      <3> DEFINE n == ingress.msg
                 f == [event |-> "new", ver |-> 1, at |-> clock[n] + 1]
      <3>1. /\ queue' = queue /\ clock' = [clock EXCEPT ![n] = @ + 1]
            /\ facts' = [facts EXCEPT ![n] = Append(@, f)]
        BY <2>2 DEF RouteOk, Stamp
      <3>2. CASE n = m
        <4>1. f \in Fact
          BY <1>a, <3>2, BoundAssumption DEF Fact, Versions
        <4>2. f.at = clock[m] + 1
          BY <3>2
        <4> HIDE DEF n, f
        <4>3. facts'[m] = Append(facts[m], f) /\ clock'[m] = clock[m] + 1
          BY <1>a, <3>1, <3>2
        <4> QED BY <3>1, <4>1, <4>2, <4>3 DEF StampMoves, ToldAtOnce
      <3>3. CASE n # m
        <4> HIDE DEF n, f
        <4>1. facts'[m] = facts[m] /\ clock'[m] = clock[m]
          BY <1>a, <3>1, <3>3
        <4> QED BY <3>1, <4>1 DEF StampMoves, Untold
      <3> QED BY <3>2, <3>3
    <2>3. CASE RouteDst
      <3> DEFINE x == [kind |-> "forward", msg |-> ingress.msg, rule |-> Head(ingress.rules),
                       dst |-> Head(ingress.to), ver |-> 1]
      <3>1. (queue' = queue \/ queue' = Append(queue, x)) /\ UNCHANGED pushVars
        BY <2>3 DEF RouteDst, Enqueue
      <3>2. x.kind \notin {"edit", "delete"}
        OBVIOUS
      <3> QED BY <3>1, <3>2, <1>b, <1>c, <1>d
    <2>4. CASE RouteStats
      <3> DEFINE x == [kind |-> "stats", rule |-> Head(ingress.rules), ok |-> ingress.mode = "ok"]
      <3>1. queue' = Append(queue, x) /\ UNCHANGED pushVars
        BY <2>4 DEF RouteStats, Enqueue
      <3>2. x.kind \notin {"edit", "delete"}
        OBVIOUS
      <3> QED BY <3>1, <3>2, <1>c, <1>d
    <2>5. ASSUME NEW v \in {"check", "other"}, RouteAside(v) PROVE StampMoves(m)
      <3> DEFINE x == [kind |-> "native", msg |-> ingress.msg, rule |-> Head(ingress.rules),
                       dst |-> RuleCfg[Head(ingress.rules)][v], ver |-> 1]
      <3>1. (queue' = queue \/ queue' = Append(queue, x)) /\ UNCHANGED pushVars
        BY <2>5 DEF RouteAside, Enqueue
      <3>2. x.kind \notin {"edit", "delete"}
        OBVIOUS
      <3> QED BY <3>1, <3>2, <1>b, <1>c, <1>d
    <2> QED BY <1>1, <2>1, <2>2, <2>3, <2>4, <2>5 DEF UpdateLoop
  <1>2. CASE Telegram
    <2>1. ASSUME NEW n \in Messages, OnNewMessage(n) \/ OnEditUpdate(n) PROVE StampMoves(m)
      BY <2>1, <1>b DEF OnNewMessage, OnEditUpdate
    <2>2. ASSUME NEW b \in Batches, OnDeletedMessages(b) PROVE StampMoves(m)
      <3> DEFINE gone == {b[i] : i \in DOMAIN b}
                 x == [kind |-> "delete", ids |-> b, rs |-> rules, attempt |-> 0, at |-> clock']
      <3>1. CASE UNCHANGED <<queue, clock>>
        BY <2>2, <3>1, <1>b DEF OnDeletedMessages
      <3>2. CASE /\ queue' = Append(queue, x) /\ facts' = facts
                 /\ clock' = [n \in Messages |-> IF n \in gone THEN clock[n] + 1 ELSE clock[n]]
        <4>1. x \in Task
          BY <1>a, <3>2, AppendedTask
        <4>2. Tells(x, m) => m \in gone /\ StampOf(x, m) = clock'[m]
          BY DEF Tells, StampOf
        <4> HIDE DEF x, gone
        <4>3. clock[m] <= clock'[m] /\ (m \in gone => clock'[m] = clock[m] + 1)
          BY <1>a, <3>2
        <4> QED BY <3>2, <4>1, <4>2, <4>3 DEF StampMoves, Queued
      <3> QED BY <2>2, <3>1, <3>2 DEF OnDeletedMessages, Enqueue
    <2>3. ASSUME NEW t \in DOMAIN chat, OnMessageSendSucceeded(t) PROVE StampMoves(m)
      <3> DEFINE x == [kind |-> "map", tmp |-> t, new |-> Perm(t)]
      <3>1. queue' = Append(queue, x) /\ UNCHANGED pushVars
        BY <2>3 DEF OnMessageSendSucceeded, Enqueue
      <3>2. x.kind \notin {"edit", "delete"}
        OBVIOUS
      <3> QED BY <3>1, <3>2, <1>c, <1>d
    <2>4. ASSUME NEW t \in DOMAIN chat, SendFailed(t) PROVE StampMoves(m)
      BY <2>4, <1>b DEF SendFailed
    <2> QED BY <1>2, <2>1, <2>2, <2>3, <2>4 DEF Telegram
  <1>3. CASE RunMap \/ RunStats \/ RunNative \/ StartForward
    BY <1>3, <1>b DEF RunMap, RunStats, RunNative, StartForward, NextTaskIs, Dequeue
  <1>4. CASE StartEdit
    <2> DEFINE t == Head(queue)
               f == [event |-> "edited", ver |-> t.ver, at |-> t.at]
    <2>1. /\ queue # <<>> /\ queue' = Tail(queue) /\ clock' = clock /\ NextTaskIs("edit")
          /\ facts' = IF ~Emits(t) THEN facts ELSE [facts EXCEPT ![t.msg] = Append(@, f)]
      BY <1>4 DEF StartEdit, NextTaskIs, Dequeue
    <2>2. t \in EditTask
      BY <1>a, <2>1, HeadTask
    <2>3. f \in Fact /\ f.at = StampOf(t, m) /\ (Emits(t) /\ t.msg = m => Tells(t, m))
      BY <2>2 DEF EditTask, Fact, StampOf, Tells, Emits
    <2> HIDE DEF f
    <2>4. CASE Emits(t) /\ t.msg = m
      <3>1. facts'[m] = Append(facts[m], f)
        BY <1>a, <2>1, <2>4
      <3> QED BY <2>1, <2>3, <2>4, <3>1 DEF StampMoves, ToldByTask
    <2>5. CASE ~(Emits(t) /\ t.msg = m)
      <3>1. facts'[m] = facts[m]
        BY <1>a, <2>1, <2>5
      <3> QED BY <2>1, <3>1 DEF StampMoves, Untold
    <2> QED BY <2>4, <2>5
  <1>5. CASE StartDelete
    <2> DEFINE t == Head(queue)
               gone == {t.ids[i] : i \in DOMAIN t.ids}
               f == [event |-> "deleted", ver |-> 0, at |-> t.at[m]]
    <2>1. /\ queue # <<>> /\ queue' = Tail(queue) /\ clock' = clock /\ NextTaskIs("delete")
          /\ facts' = [n \in Messages |->
                         IF Emits(t) /\ n \in gone
                         THEN Append(facts[n], [event |-> "deleted", ver |-> 0, at |-> t.at[n]])
                         ELSE facts[n]]
      BY <1>5 DEF StartDelete, NextTaskIs, Dequeue
    <2>2. t \in DeleteTask
      BY <1>a, <2>1, HeadTask
    <2>3. f \in Fact /\ f.at = StampOf(t, m) /\ (Emits(t) /\ m \in gone => Tells(t, m))
      BY <2>2 DEF DeleteTask, Fact, StampOf, Tells, Emits
    <2>4. facts'[m] = IF Emits(t) /\ m \in gone THEN Append(facts[m], f) ELSE facts[m]
      BY <2>1
    <2> HIDE DEF f, gone
    <2>5. CASE Emits(t) /\ m \in gone
      BY <2>1, <2>3, <2>4, <2>5 DEF StampMoves, ToldByTask
    <2>6. CASE ~(Emits(t) /\ m \in gone)
      BY <2>1, <2>4, <2>6 DEF StampMoves, Untold
    <2> QED BY <2>5, <2>6
  <1>6. CASE WriteNext \/ SendCopy \/ SendCopyFails \/ ForwardNatively \/ RecordCopy
    BY <1>6, <1>b DEF WriteNext, SendCopy, SendCopyFails, ForwardNatively, RecordCopy
  <1>7. CASE EditUnconfirmed \/ EditSkipped \/ EditAsNewVersion \/ EditInPlace
    BY <1>7, <1>b DEF EditUnconfirmed, EditSkipped, EditAsNewVersion, EditInPlace
  <1>8. CASE DeleteIndelible \/ DeleteUnconfirmed \/ DeleteCopy \/ DeleteNextId
    BY <1>8, <1>b DEF DeleteIndelible, DeleteUnconfirmed, DeleteCopy, DeleteNextId
  <1>9. CASE FinishEdit \/ FinishDelete
    <2>1. /\ task.kind \in {"edit", "delete"} /\ UNCHANGED pushVars
          /\ queue' = queue \/ queue' = Append(queue, Retried(task))
      BY <1>9 DEF FinishEdit, FinishDelete, Finish, Enqueue
    <2> QED BY <1>a, <1>b, <1>c, <2>1, RetriedIsSilent
  <1>10. ASSUME NEW g \in resolvers, Resolve(g) PROVE StampMoves(m)
    <2> DEFINE n == g.msg
               x == [kind |-> "edit", msg |-> g.msg, ver |-> g.ver, rs |-> rules,
                     attempt |-> 0, at |-> clock[g.msg] + 1]
    <2>1. facts' = facts
      BY <1>10 DEF Resolve, ResolveEdit, OnEditedMessage
    <2>2. CASE UNCHANGED <<queue, clock>>
      BY <2>1, <2>2, <1>b
    <2>3. CASE queue' = Append(queue, x) /\ clock' = [clock EXCEPT ![n] = @ + 1]
      <3>1. x \in Task
        BY <1>a, <2>3, AppendedTask
      <3>2. Tells(x, m) => n = m /\ StampOf(x, m) = clock[m] + 1
        BY DEF Tells, StampOf
      <3> HIDE DEF x, n
      <3>3. clock[m] <= clock'[m] /\ (n = m => clock'[m] = clock[m] + 1)
        BY <1>a, <2>3
      <3> QED BY <2>1, <2>3, <3>1, <3>2, <3>3 DEF StampMoves, Queued
    <2> QED BY <1>10, <2>2, <2>3 DEF Resolve, ResolveEdit, OnEditedMessage, Enqueue, Stamp
  <1>11. CASE \/ \E l \in linkers : NextLink(l)
              \/ \E rs \in SUBSET Rules : SetRuleSetWithPush(rs)
              \/ Crash \/ UNCHANGED vars
    BY <1>11, <1>b DEF NextLink, LinkPoll, LinkRead, LinkWrite, SetRuleSetWithPush, Crash, vars
  <1> QED BY <1>1, <1>2, <1>3, <1>4, <1>5, <1>6, <1>7, <1>8, <1>9, <1>10, <1>11
          DEF Next, Worker, WorkStep

LEMMA FactsStep == FactsInv /\ [Next]_vars => FactsInv'
  <1> SUFFICES ASSUME FactsInv, [Next]_vars PROVE FactsInv'
    OBVIOUS
  <1>1. IdInv' /\ TypeOK'
    BY IdStep DEF FactsInv, IdInv
  <1>2. ASSUME NEW m \in Messages PROVE Stamps(facts'[m], queue', clock'[m], m)
    BY <1>1, <1>2, StampsMove, StampsStep
  <1> QED BY <1>1, <1>2 DEF FactsInv

\* A retry of an edit or a deletion submits nothing again: no two facts of a message have
\* the same stamp, however often the task was queued and whatever was told in between.
THEOREM EventsAreToldOnce == Spec => []OneFactPerEvent
  <1>1. FactsInv => OneFactPerEvent
    BY DEF FactsInv, IdInv, Stamps, OneFactPerEvent
  <1> QED BY <1>1, FactsInit, FactsStep, PTL DEF Spec

(***************************************************************************)
(* One copy for a route                                                    *)
(***************************************************************************)

\* What belongs to the route of message m by rule r into chat d.
On(x, m, r, d) == x.msg = m /\ x.rule = r /\ x.dst = d
Routed(t) == t.kind \in {"forward", "native"}

\* A route is begun once a message of it is in its chat, waits in the queue or is being sent.
InChat(m, r, d)  == \E t \in DOMAIN chat : On(chat[t], m, r, d)
InQueue(m, r, d) == \E i \in DOMAIN queue : Routed(queue[i]) /\ On(queue[i], m, r, d)
IsSent(m, r, d)  == sending # Idle /\ On(sending, m, r, d)
Begun(m, r, d) == InChat(m, r, d) \/ InQueue(m, r, d) \/ IsSent(m, r, d)

\* The update loop has still to come to the route of its message by r into d.
Ahead(r, d) ==
    \/ \E i \in DOMAIN ingress.rules : i # 1 /\ ingress.rules[i] = r
    \/ r = Head(ingress.rules) /\ \/ ingress.mode = "none"
                                  \/ ingress.mode = "ok" /\ d \notin ingress.marked

SeenInv == \A m \in Messages, r \in Rules, d \in Dsts : Begun(m, r, d) => srcVer[m] # 0

AheadInv ==
    ingress # Idle =>
      /\ srcVer[ingress.msg] # 0
      /\ \A i, j \in DOMAIN ingress.rules : ingress.rules[i] = ingress.rules[j] => i = j
      /\ \A r \in Rules, d \in Dsts : Ahead(r, d) => ~Begun(ingress.msg, r, d)

OnceQueued ==
    \A i, j \in DOMAIN queue :
      Routed(queue[i]) /\ Routed(queue[j]) /\ SameRoute(queue[i], queue[j]) => i = j

\* The first message of a route is in one of the three places; what is sent into a route
\* that has one is a version, by a rule with CopyOnce, and other routes never have two.
NewVersion(r) == sending.prev # 0 /\ RuleCfg[r].copyOnce
OncePlaced ==
    \A m \in Messages, r \in Rules, d \in Dsts :
      /\ ~RuleCfg[r].copyOnce =>
           \A t, u \in DOMAIN chat : On(chat[t], m, r, d) /\ On(chat[u], m, r, d) => t = u
      /\ InQueue(m, r, d) => ~InChat(m, r, d) /\ ~IsSent(m, r, d)
      /\ IsSent(m, r, d) /\ sending.tmp = 0 /\ InChat(m, r, d) => NewVersion(r)

\* Only copies have a temporary id to record.
CopiesRecorded == sending # Idle /\ sending.tmp # 0 => RuleCfg[sending.rule].sendCopy

RouteInv ==
    CopyInv /\ SeenInv /\ AheadInv /\ OnceQueued /\ OncePlaced /\ CopiesRecorded

LEMMA RouteInit == Init => RouteInv
  <1> SUFFICES ASSUME Init PROVE RouteInv
    OBVIOUS
  <1>1. \A m, r, d : ~Begun(m, r, d)
    BY DEF Init, Begun, InChat, InQueue, IsSent
  <1>2. SeenInv /\ AheadInv
    BY <1>1 DEF Init, SeenInv, AheadInv
  <1>3. OnceQueued /\ OncePlaced /\ CopiesRecorded
    BY <1>1 DEF Init, OnceQueued, OncePlaced, CopiesRecorded, Begun
  <1> QED BY <1>2, <1>3, CopyInit DEF RouteInv

\* The routed tasks of the next queue are those of this one, maybe without the first.
QueueFrom ==
    \E o \in {0, 1} : \A i \in DOMAIN queue' :
      Routed(queue'[i]) => i + o \in DOMAIN queue /\ queue'[i] = queue[i + o]

LEMMA QueueFroms ==
    ASSUME TypeOK, TypeOK',
           \/ queue' = queue
           \/ queue' = <<>>
           \/ queue # <<>> /\ queue' = Tail(queue)
           \/ \E x : ~Routed(x) /\ queue' = Append(queue, x)
    PROVE  QueueFrom
  <1>1. /\ queue \in Seq(Task) /\ DOMAIN queue = 1..Len(queue) /\ Len(queue) \in Nat
        /\ queue' \in Seq(Task)
    BY DEF TypeOK
  <1>2. CASE queue' = queue
    <2>1. \A i \in DOMAIN queue' : i + 0 \in DOMAIN queue /\ queue'[i] = queue[i + 0]
      BY <1>1, <1>2
    <2> QED BY <2>1 DEF QueueFrom
  <1>3. CASE queue' = <<>>
    <2>1. DOMAIN queue' = {}
      BY <1>3
    <2> QED BY <2>1 DEF QueueFrom
  <1>4. CASE queue # <<>> /\ queue' = Tail(queue)
    <2>1. \A i \in DOMAIN queue' : i + 1 \in DOMAIN queue /\ queue'[i] = queue[i + 1]
      BY <1>1, <1>4, TailShifts
    <2> QED BY <2>1 DEF QueueFrom
  <1>5. ASSUME NEW x, ~Routed(x), queue' = Append(queue, x)
        PROVE  QueueFrom
    <2>0. x \in Task
      BY <1>1, <1>5, AppendedTask
    <2>1. ASSUME NEW i \in DOMAIN queue', Routed(queue'[i])
          PROVE  i + 0 \in DOMAIN queue /\ queue'[i] = queue[i + 0]
      <3>1. \/ i \in DOMAIN queue /\ queue'[i] = queue[i]
            \/ queue'[i] = x
        BY <1>1, <1>5, <2>0, <2>1, AppendExtends
      <3>2. i \in DOMAIN queue /\ queue'[i] = queue[i]
        BY <3>1, <1>5, <2>1
      <3> QED BY <3>2, <1>1
    <2> QED BY <2>1 DEF QueueFrom
  <1> QED BY <1>2, <1>3, <1>4, <1>5

Routes == RouteDst \/ \E v \in {"check", "other"} : RouteAside(v)

\* Only the update loop queues a task with a route.
LEMMA RoutesOfQueue ==
    ASSUME TypeOK, TypeOK', [Next]_vars
    PROVE  QueueFrom \/ Routes
  <1>a. \/ queue' = queue
        \/ queue' = <<>>
        \/ queue # <<>> /\ queue' = Tail(queue)
        \/ \E x : ~Routed(x) /\ queue' = Append(queue, x)
        => QueueFrom
    BY QueueFroms
  <1>b. ASSUME NEW x, x.kind \notin {"forward", "native"} PROVE ~Routed(x)
    BY <1>b DEF Routed
  <1>1. CASE UpdateLoop
    <2>1. CASE SkipRule \/ RouteOk
      BY <2>1, <1>a DEF SkipRule, RouteOk
    <2>2. CASE RouteStats
      <3> DEFINE x == [kind |-> "stats", rule |-> Head(ingress.rules), ok |-> ingress.mode = "ok"]
      <3>1. queue' = Append(queue, x)
        BY <2>2 DEF RouteStats, Enqueue
      <3>2. x.kind \notin {"forward", "native"}
        OBVIOUS
      <3> QED BY <3>1, <3>2, <1>a, <1>b
    <2> QED BY <1>1, <2>1, <2>2 DEF UpdateLoop, Routes
  <1>2. CASE Telegram
    <2>1. ASSUME NEW m \in Messages, OnNewMessage(m) \/ OnEditUpdate(m) PROVE QueueFrom
      BY <2>1, <1>a DEF OnNewMessage, OnEditUpdate
    <2>2. ASSUME NEW b \in Batches, OnDeletedMessages(b) PROVE QueueFrom
      <3> DEFINE x == [kind |-> "delete", ids |-> b, rs |-> rules, attempt |-> 0, at |-> clock']
      <3>1. queue' = queue \/ queue' = Append(queue, x)
        BY <2>2 DEF OnDeletedMessages, Enqueue
      <3>2. x.kind \notin {"forward", "native"}
        OBVIOUS
      <3> QED BY <3>1, <3>2, <1>a, <1>b
    <2>3. ASSUME NEW t \in DOMAIN chat, OnMessageSendSucceeded(t) PROVE QueueFrom
      <3> DEFINE x == [kind |-> "map", tmp |-> t, new |-> Perm(t)]
      <3>1. queue' = Append(queue, x)
        BY <2>3 DEF OnMessageSendSucceeded, Enqueue
      <3>2. x.kind \notin {"forward", "native"}
        OBVIOUS
      <3> QED BY <3>1, <3>2, <1>a, <1>b
    <2>4. ASSUME NEW t \in DOMAIN chat, SendFailed(t) PROVE QueueFrom
      BY <2>4, <1>a DEF SendFailed
    <2> QED BY <1>2, <2>1, <2>2, <2>3, <2>4 DEF Telegram
  <1>3. CASE RunMap \/ RunStats \/ RunNative \/ StartForward \/ StartEdit \/ StartDelete
    BY <1>3, <1>a DEF RunMap, RunStats, RunNative, StartForward, StartEdit, StartDelete,
                      NextTaskIs, Dequeue
  <1>4. CASE WriteNext \/ SendCopy \/ SendCopyFails \/ ForwardNatively \/ RecordCopy
    BY <1>4, <1>a DEF WriteNext, SendCopy, SendCopyFails, ForwardNatively, RecordCopy
  <1>5. CASE EditUnconfirmed \/ EditSkipped \/ EditAsNewVersion \/ EditInPlace
    BY <1>5, <1>a DEF EditUnconfirmed, EditSkipped, EditAsNewVersion, EditInPlace
  <1>6. CASE DeleteIndelible \/ DeleteUnconfirmed \/ DeleteCopy \/ DeleteNextId
    BY <1>6, <1>a DEF DeleteIndelible, DeleteUnconfirmed, DeleteCopy, DeleteNextId
  <1>7. CASE FinishEdit \/ FinishDelete
    <2>1. /\ task.kind \in {"edit", "delete"}
          /\ queue' = queue \/ queue' = Append(queue, Retried(task))
      BY <1>7 DEF FinishEdit, FinishDelete, Finish, Enqueue
    <2>2. Retried(task).kind = task.kind
      BY <2>1, TaskKinds DEF Retried, TypeOK, EditTask, DeleteTask
    <2>3. ~Routed(Retried(task))
      BY <2>1, <2>2 DEF Routed
    <2> QED BY <2>1, <2>3, <1>a
  <1>8. ASSUME NEW g \in resolvers, Resolve(g) PROVE QueueFrom
    <2> DEFINE x == [kind |-> "edit", msg |-> g.msg, ver |-> g.ver, rs |-> rules,
                     attempt |-> 0, at |-> clock[g.msg] + 1]
    <2>1. queue' = queue \/ queue' = Append(queue, x)
      BY <1>8 DEF Resolve, ResolveEdit, OnEditedMessage, Enqueue
    <2>2. x.kind \notin {"forward", "native"}
      OBVIOUS
    <2> QED BY <2>1, <2>2, <1>a, <1>b
  <1>9. CASE \/ \E l \in linkers : NextLink(l)
             \/ \E rs \in SUBSET Rules : SetRuleSetWithPush(rs)
             \/ Crash \/ UNCHANGED vars
    BY <1>9, <1>a DEF NextLink, LinkPoll, LinkRead, LinkWrite, SetRuleSetWithPush, Crash, vars
  <1> QED BY <1>1, <1>2, <1>3, <1>4, <1>5, <1>6, <1>7, <1>8, <1>9 DEF Next, Worker, WorkStep

\* The messages of the destinations stay, and one for x may be added.
Grows(x) ==
    \A t \in DOMAIN chat' : t \in DOMAIN chat \/ (t = Len(chat) + 1 /\ SameRoute(chat'[t], x))

LEMMA ForwardsAdds ==
    ASSUME TypeOK, TypeOK', NEW t, Forwards(t)
    PROVE  Grows(t)
  <1>1. CASE chat' = chat
    BY <1>1 DEF Forwards, Grows
  <1>2. CASE chat' # chat
    <2> DEFINE x == [status |-> "native", msg |-> t.msg, rule |-> t.rule,
                     dst |-> t.dst, ver |-> srcVer[t.msg], replyTo |-> 0, next |-> {}]
    <2>1. chat' = Append(chat, x) /\ SameRoute(x, t)
      BY <1>2 DEF Forwards, SameRoute
    <2> HIDE DEF x
    <2>2. chat \in Seq(Copy) /\ chat' \in Seq(Copy)
      BY DEF TypeOK
    <2>3. /\ Len(chat') = Len(chat) + 1 /\ chat'[Len(chat) + 1] = x
          /\ DOMAIN chat' = 1..(Len(chat) + 1) /\ DOMAIN chat = 1..Len(chat) /\ Len(chat) \in Nat
      BY <2>1, <2>2
    <2> QED BY <2>1, <2>3 DEF Grows
  <1> QED BY <1>1, <1>2

LEMMA MessagesAdded ==
    ASSUME CopyInv, TypeOK', [Next]_vars
    PROVE  \/ DOMAIN chat' \subseteq DOMAIN chat
           \/ RunNative /\ Grows(Head(queue))
           \/ (SendCopy \/ ForwardNatively) /\ Grows(sending)
  <1> USE DEF telegramVars
  <1>a. TypeOK
    BY DEF CopyInv, IdInv
  <1>1. CASE UpdateLoop
    BY <1>1 DEF UpdateLoop, SkipRule, RouteOk, RouteDst, RouteStats, RouteAside
  <1>2. CASE Telegram
    <2>1. ASSUME NEW m \in Messages, OnNewMessage(m) \/ OnEditUpdate(m) PROVE chat' = chat
      BY <2>1 DEF OnNewMessage, OnEditUpdate
    <2>2. ASSUME NEW b \in Batches, OnDeletedMessages(b) PROVE chat' = chat
      BY <2>2 DEF OnDeletedMessages
    <2>3. ASSUME NEW t \in DOMAIN chat, OnMessageSendSucceeded(t) \/ SendFailed(t)
          PROVE  DOMAIN chat' = DOMAIN chat
      BY <2>3 DEF OnMessageSendSucceeded, SendFailed
    <2> QED BY <1>2, <2>1, <2>2, <2>3 DEF Telegram
  <1>3. CASE RunNative
    BY <1>3, <1>a, ForwardsAdds DEF RunNative
  <1>4. CASE ForwardNatively
    BY <1>4, <1>a, ForwardsAdds DEF ForwardNatively
  <1>5. CASE SendCopy
    BY <1>5, <1>a, SendCopyAdds DEF Grows, SameRoute
  <1>6. CASE EditInPlace
    BY <1>6 DEF EditInPlace
  <1>7. CASE DeleteCopy
    BY <1>7 DEF DeleteCopy
  <1>8. ASSUME NEW l \in linkers, NextLink(l) PROVE DOMAIN chat' = DOMAIN chat
    BY <1>8 DEF NextLink, LinkPoll, LinkRead, LinkWrite
  <1>9. CASE \/ WriteNext \/ RunMap \/ RunStats \/ StartForward \/ SendCopyFails \/ RecordCopy
             \/ StartEdit \/ EditUnconfirmed \/ EditSkipped \/ EditAsNewVersion
             \/ FinishEdit \/ StartDelete \/ DeleteIndelible \/ DeleteUnconfirmed
             \/ DeleteNextId \/ FinishDelete
    BY <1>9 DEF WriteNext, RunMap, RunStats, StartForward, SendCopyFails, RecordCopy, StartEdit,
                EditUnconfirmed, EditSkipped, EditAsNewVersion, FinishEdit,
                StartDelete, DeleteIndelible, DeleteUnconfirmed, DeleteNextId, FinishDelete
  <1>10. CASE \/ \E g \in resolvers : Resolve(g)
              \/ \E rs \in SUBSET Rules : SetRuleSetWithPush(rs)
              \/ Crash \/ UNCHANGED vars
    BY <1>10 DEF Resolve, ResolveEdit, OnEditedMessage, SetRuleSetWithPush, Crash, vars
  <1> QED BY <1>1, <1>2, <1>3, <1>4, <1>5, <1>6, <1>7, <1>8, <1>9, <1>10 DEF Next, Worker, WorkStep

\* What the worker sends, and what the update loop is at.
LEMMA SendingMoves ==
    ASSUME [Next]_vars
    PROVE  sending' = sending \/ sending' = Idle \/ StartForward \/ SendCopy \/ EditAsNewVersion
  <1>1. CASE SendCopyFails \/ ForwardNatively \/ RecordCopy
    BY <1>1 DEF SendCopyFails, ForwardNatively, RecordCopy, ReturnFromForward
  <1>2. CASE Edits \/ Deletes
    BY <1>2 DEF Edits, Deletes, StartEdit, EditUnconfirmed, EditSkipped, EditInPlace, FinishEdit,
                StartDelete, DeleteIndelible, DeleteUnconfirmed, DeleteCopy, DeleteNextId,
                FinishDelete
  <1>3. CASE Crash
    BY <1>3 DEF Crash
  <1> QED BY <1>1, <1>2, <1>3, Frame

LEMMA IngressMoves ==
    ASSUME TypeOK, [Next]_vars
    PROVE  /\ \A m \in Messages : srcVer[m] # 0 => srcVer'[m] # 0
           /\ \/ ingress' = ingress \/ ingress' = Idle \/ SkipRule \/ RouteOk \/ RouteStats
              \/ Routes \/ \E m \in Messages : OnNewMessage(m)
  <1> DEFINE SeenStays == \A m \in Messages : srcVer[m] # 0 => srcVer'[m] # 0
  <1> USE DEF telegramVars
  <1>a. srcVer' = srcVer => SeenStays
    OBVIOUS
  <1>b. srcVer \in [Messages -> Versions \cup {0}]
    BY DEF TypeOK
  <1>1. CASE UpdateLoop
    BY <1>1, <1>a DEF UpdateLoop, SkipRule, RouteOk, RouteDst, RouteStats, RouteAside, Routes
  <1>2. CASE Telegram
    <2>1. ASSUME NEW m \in Messages, OnNewMessage(m) PROVE SeenStays
      BY <2>1, <1>b DEF OnNewMessage
    <2>2. ASSUME NEW m \in Messages, OnEditUpdate(m) PROVE SeenStays /\ ingress' = ingress
      <3>1. /\ srcVer[m] \in 1..(MaxVersion - 1)
            /\ srcVer' = [srcVer EXCEPT ![m] = @ + 1] /\ ingress' = ingress
        BY <2>2 DEF OnEditUpdate
      <3>2. srcVer[m] + 1 # 0
        BY <3>1, BoundAssumption
      <3>3. \A n \in Messages : srcVer'[n] = IF n = m THEN srcVer[m] + 1 ELSE srcVer[n]
        BY <1>b, <3>1
      <3> QED BY <3>1, <3>2, <3>3
    <2>3. ASSUME NEW b \in Batches, OnDeletedMessages(b) PROVE SeenStays /\ ingress' = ingress
      BY <2>3, <1>a DEF OnDeletedMessages
    <2>4. ASSUME NEW t \in DOMAIN chat, OnMessageSendSucceeded(t) \/ SendFailed(t)
          PROVE  SeenStays /\ ingress' = ingress
      BY <2>4, <1>a DEF OnMessageSendSucceeded, SendFailed
    <2> QED BY <1>2, <2>1, <2>2, <2>3, <2>4 DEF Telegram
  <1> HIDE DEF SeenStays
  <1>3. CASE \/ WriteNext \/ RunMap \/ RunStats \/ RunNative \/ StartForward \/ SendCopy \/ SendCopyFails
             \/ ForwardNatively \/ RecordCopy
    BY <1>3, <1>a DEF WriteNext, RunMap, RunStats, RunNative, StartForward, SendCopy, SendCopyFails,
                      ForwardNatively, RecordCopy
  <1>4. CASE Edits
    BY <1>4, <1>a DEF Edits, StartEdit, EditUnconfirmed, EditSkipped, EditAsNewVersion, EditInPlace,
                      FinishEdit
  <1>5. CASE Deletes
    BY <1>5, <1>a DEF Deletes, StartDelete, DeleteIndelible, DeleteUnconfirmed, DeleteCopy,
                      DeleteNextId, FinishDelete
  <1>6. CASE \/ \E g \in resolvers : Resolve(g)
             \/ \E l \in linkers : NextLink(l)
             \/ \E rs \in SUBSET Rules : SetRuleSetWithPush(rs)
             \/ Crash \/ UNCHANGED vars
    BY <1>6, <1>a DEF Resolve, ResolveEdit, OnEditedMessage, NextLink, LinkPoll, LinkRead, LinkWrite,
                      SetRuleSetWithPush, Crash, vars
  <1> QED BY <1>1, <1>2, <1>3, <1>4, <1>5, <1>6 DEF Next, Worker, WorkStep, Edits, Deletes, SeenStays

\* A new version is of a route that has a copy already, by a rule with CopyOnce.
LEMMA VersionsHaveCopies ==
    ASSUME CopyInv, EditAsNewVersion
    PROVE  /\ RuleCfg[sending'.rule].copyOnce
           /\ InChat(sending'.msg, sending'.rule, sending'.dst)
  <1> DEFINE c == Head(refs)
  <1>1. /\ task.kind = "edit" /\ refs # <<>> /\ RuleCfg[c.rule].copyOnce
        /\ sending'.msg = task.msg /\ sending'.rule = c.rule /\ sending'.dst = c.dst
    BY DEF EditAsNewVersion, Visiting
  <1>2. refs \in Seq(Ref)
    BY DEF CopyInv, IdInv, TypeOK
  <1>3. Shows(chat, c, task.msg)
    BY <1>1, <1>2, TailRefs DEF CopyInv, WalkSound
  <1> HIDE DEF c
  <1>4. On(chat[c.tmp], task.msg, c.rule, c.dst) /\ c.tmp \in DOMAIN chat
    BY <1>3 DEF Shows, SameRoute, On
  <1> QED BY <1>1, <1>4 DEF InChat

\* The task the worker takes to send something.
LEMMA HeadRouted ==
    ASSUME TypeOK, RunNative \/ StartForward
    PROVE  /\ queue # <<>> /\ queue \in Seq(Task) /\ queue' = Tail(queue)
           /\ 1 \in DOMAIN queue /\ queue[1] = Head(queue) /\ Routed(Head(queue))
  <1>1. queue # <<>> /\ queue \in Seq(Task) /\ queue' = Tail(queue) /\ Routed(Head(queue))
    BY DEF RunNative, StartForward, NextTaskIs, Dequeue, Routed, TypeOK
  <1> QED BY <1>1

\* Sending a copy leaves its route.
LEMMA SendCopyRoute ==
    ASSUME TypeOK, SendCopy
    PROVE  sending # Idle /\ SameRoute(sending', sending) /\ sending'.tmp = Len(chat) + 1
  <1>1. sending \in Sending /\ sending # Idle /\ sending' = [sending EXCEPT !.tmp = Len(chat) + 1]
    BY DEF SendCopy, TypeOK
  <1> QED BY <1>1 DEF Sending, SameRoute

BegunFrom == \A m \in Messages, r \in Rules, d \in Dsts : Begun(m, r, d)' => Begun(m, r, d)

\* No step but those of the update loop begins a route.
LEMMA NothingBegins ==
    ASSUME CopyInv, TypeOK', ChatStable, [Next]_vars, QueueFrom
    PROVE  BegunFrom
  <1>a. TypeOK
    BY DEF CopyInv, IdInv
  <1> SUFFICES ASSUME NEW m \in Messages, NEW r \in Rules, NEW d \in Dsts, Begun(m, r, d)'
               PROVE  Begun(m, r, d)
    BY DEF BegunFrom
  <1>b. RunNative \/ StartForward => queue # <<>> /\ (On(Head(queue), m, r, d) => InQueue(m, r, d))
    BY <1>a, HeadRouted DEF InQueue
  <1>1. CASE InChat(m, r, d)'
    <2>1. PICK t \in DOMAIN chat' : On(chat'[t], m, r, d)
      BY <1>1 DEF InChat
    <2>2. CASE t \in DOMAIN chat
      <3>1. On(chat[t], m, r, d)
        BY <2>1, <2>2 DEF ChatStable, On
      <3> QED BY <2>2, <3>1 DEF Begun, InChat
    <2>3. ASSUME NEW x, Grows(x), t \notin DOMAIN chat PROVE On(x, m, r, d)
      BY <2>1, <2>3 DEF Grows, On, SameRoute
    <2>4. (SendCopy \/ ForwardNatively) => sending # Idle
      BY DEF SendCopy, ForwardNatively
    <2> QED BY <1>b, <2>1, <2>2, <2>3, <2>4, MessagesAdded DEF Begun, IsSent
  <1>2. CASE InQueue(m, r, d)'
    <2>1. PICK i \in DOMAIN queue' : Routed(queue'[i]) /\ On(queue'[i], m, r, d)
      BY <1>2 DEF InQueue
    <2>2. \E j \in DOMAIN queue : queue[j] = queue'[i]
      BY <2>1 DEF QueueFrom
    <2> QED BY <2>1, <2>2 DEF Begun, InQueue
  <1>3. CASE IsSent(m, r, d)'
    <2>1. sending' # Idle /\ On(sending', m, r, d)
      BY <1>3 DEF IsSent
    <2>2. CASE sending' = sending
      BY <2>1, <2>2 DEF Begun, IsSent
    <2>3. CASE StartForward
      <3>1. On(Head(queue), m, r, d)
        BY <2>1, <2>3 DEF StartForward, On
      <3> QED BY <1>b, <2>3, <3>1 DEF Begun
    <2>4. CASE SendCopy
      BY <1>a, <2>1, <2>4, SendCopyRoute DEF Begun, IsSent, On, SameRoute
    <2>5. CASE EditAsNewVersion
      BY <2>1, <2>5, VersionsHaveCopies DEF Begun, On
    <2> QED BY <2>1, <2>2, <2>3, <2>4, <2>5, SendingMoves
  <1> QED BY <1>1, <1>2, <1>3 DEF Begun

\* A queue without a new route has each of its routes once.
LEMMA QueuedStaysOnce ==
    ASSUME TypeOK, TypeOK', OnceQueued, QueueFrom
    PROVE  OnceQueued'
  <1>1. PICK o \in {0, 1} : \A i \in DOMAIN queue' :
          Routed(queue'[i]) => i + o \in DOMAIN queue /\ queue'[i] = queue[i + o]
    BY DEF QueueFrom
  <1>2. \A i \in DOMAIN queue' : i \in Nat
    BY DEF TypeOK
  <1> SUFFICES ASSUME NEW i \in DOMAIN queue', NEW j \in DOMAIN queue',
                      Routed(queue'[i]), Routed(queue'[j]), SameRoute(queue'[i], queue'[j])
               PROVE  i = j
    BY DEF OnceQueued
  <1>3. i + o = j + o
    BY <1>1 DEF OnceQueued
  <1> QED BY <1>1, <1>2, <1>3

\* The route the worker takes from the queue is not in it again.
LEMMA TakenRouteLeaves ==
    ASSUME TypeOK, OnceQueued, RunNative \/ StartForward, NEW m, NEW r, NEW d,
           On(Head(queue), m, r, d)
    PROVE  ~InQueue(m, r, d)'
  <1>1. /\ queue # <<>> /\ queue \in Seq(Task) /\ queue' = Tail(queue)
        /\ 1 \in DOMAIN queue /\ queue[1] = Head(queue) /\ Routed(Head(queue))
    BY HeadRouted
  <1>2. \A i \in DOMAIN queue' : i + 1 \in DOMAIN queue /\ queue'[i] = queue[i + 1]
    BY <1>1, TailShifts
  <1>3. \A i \in DOMAIN queue' : i + 1 # 1
    <2> DEFINE q == queue'
    <2>1. q \in Seq(Task)
      BY <1>1
    <2> HIDE DEF q
    <2>2. \A i \in DOMAIN q : i + 1 # 1
      BY <2>1
    <2> QED BY <2>2 DEF q
  <1> SUFFICES ASSUME NEW i \in DOMAIN queue', Routed(queue'[i]), On(queue'[i], m, r, d)
               PROVE  FALSE
    BY DEF InQueue
  <1>4. SameRoute(queue[i + 1], queue[1])
    BY <1>1, <1>2 DEF On, SameRoute
  <1> QED BY <1>1, <1>2, <1>3, <1>4 DEF OnceQueued

LEMMA PlacedStaysOnce ==
    ASSUME RouteInv, TypeOK', ChatStable, [Next]_vars, QueueFrom
    PROVE  OncePlaced'
  <1>a. TypeOK /\ CopyInv /\ OnceQueued /\ OncePlaced /\ CopiesRecorded
    BY DEF RouteInv, CopyInv, IdInv
  <1> SUFFICES ASSUME NEW m \in Messages, NEW r \in Rules, NEW d \in Dsts
               PROVE  /\ ~RuleCfg[r].copyOnce =>
                           \A t, u \in DOMAIN chat' :
                             On(chat'[t], m, r, d) /\ On(chat'[u], m, r, d) => t = u
                      /\ InQueue(m, r, d)' => ~InChat(m, r, d)' /\ ~IsSent(m, r, d)'
                      /\ IsSent(m, r, d)' /\ sending'.tmp = 0 /\ InChat(m, r, d)' => NewVersion(r)'
    BY DEF OncePlaced
  <1>b. /\ ~RuleCfg[r].copyOnce =>
             \A t, u \in DOMAIN chat : On(chat[t], m, r, d) /\ On(chat[u], m, r, d) => t = u
        /\ InQueue(m, r, d) => ~InChat(m, r, d) /\ ~IsSent(m, r, d)
        /\ IsSent(m, r, d) /\ sending.tmp = 0 /\ InChat(m, r, d) => NewVersion(r)
    BY <1>a DEF OncePlaced
  <1>c. InQueue(m, r, d)' => InQueue(m, r, d)
    <2> SUFFICES ASSUME NEW i \in DOMAIN queue', Routed(queue'[i]), On(queue'[i], m, r, d)
                 PROVE  InQueue(m, r, d)
      BY DEF InQueue
    <2>1. \E j \in DOMAIN queue : queue[j] = queue'[i]
      BY DEF QueueFrom
    <2> QED BY <2>1 DEF InQueue
  <1>d. ASSUME RunNative \/ StartForward, On(Head(queue), m, r, d)
        PROVE  InQueue(m, r, d) /\ ~InQueue(m, r, d)'
    BY <1>a, <1>d, HeadRouted, TakenRouteLeaves DEF InQueue
  \* What a new message of the route comes from.
  <1>e. ASSUME NEW t \in DOMAIN chat', On(chat'[t], m, r, d)
        PROVE  \/ t \in DOMAIN chat /\ On(chat[t], m, r, d)
               \/ t = Len(chat) + 1 /\ RunNative /\ On(Head(queue), m, r, d)
               \/ /\ t = Len(chat) + 1 /\ (SendCopy \/ ForwardNatively)
                  /\ IsSent(m, r, d) /\ sending.tmp = 0
    <2>1. CASE t \in DOMAIN chat
      BY <1>e, <2>1 DEF ChatStable, On
    <2>2. ASSUME NEW x, Grows(x), t \notin DOMAIN chat PROVE t = Len(chat) + 1 /\ On(x, m, r, d)
      BY <1>e, <2>2 DEF Grows, On, SameRoute
    <2>3. (SendCopy \/ ForwardNatively) => sending # Idle /\ sending.tmp = 0
      BY <1>a DEF SendCopy, ForwardNatively, CopiesRecorded
    <2> QED BY <1>a, <1>e, <2>1, <2>2, <2>3, MessagesAdded DEF IsSent
  <1>1. ASSUME ~RuleCfg[r].copyOnce, NEW t \in DOMAIN chat', NEW u \in DOMAIN chat',
               On(chat'[t], m, r, d), On(chat'[u], m, r, d)
        PROVE  t = u
    <2>1. InChat(m, r, d) =>
            /\ ~(RunNative /\ On(Head(queue), m, r, d))
            /\ ~(IsSent(m, r, d) /\ sending.tmp = 0)
      BY <1>1, <1>b, <1>d DEF NewVersion
    <2>2. \A v \in DOMAIN chat : On(chat[v], m, r, d) => InChat(m, r, d)
      BY DEF InChat
    <2> QED BY <1>1, <1>b, <1>e, <2>1, <2>2
  <1>2. InQueue(m, r, d)' => ~InChat(m, r, d)'
    <2> SUFFICES ASSUME InQueue(m, r, d)', NEW t \in DOMAIN chat', On(chat'[t], m, r, d)
                 PROVE  FALSE
      BY DEF InChat
    <2>1. ~InChat(m, r, d) /\ ~IsSent(m, r, d)
      BY <1>b, <1>c
    <2>2. ~(t \in DOMAIN chat /\ On(chat[t], m, r, d))
      BY <2>1 DEF InChat
    <2> QED BY <1>d, <1>e, <2>1, <2>2
  <1>3. InQueue(m, r, d)' => ~IsSent(m, r, d)'
    <2> SUFFICES ASSUME InQueue(m, r, d)', sending' # Idle, On(sending', m, r, d)
                 PROVE  FALSE
      BY DEF IsSent
    <2>1. ~IsSent(m, r, d)
      BY <1>b, <1>c
    <2>2. CASE sending' = sending
      BY <2>1, <2>2 DEF IsSent
    <2>3. CASE StartForward
      <3>1. On(Head(queue), m, r, d)
        BY <2>3 DEF StartForward, On
      <3> QED BY <1>d, <2>3, <3>1
    <2>4. CASE SendCopy
      BY <1>a, <2>1, <2>4, SendCopyRoute DEF IsSent, On, SameRoute
    <2>5. CASE EditAsNewVersion
      <3>1. InChat(m, r, d)
        BY <1>a, <2>5, VersionsHaveCopies DEF On
      <3> QED BY <1>b, <1>c, <3>1
    <2> QED BY <2>2, <2>3, <2>4, <2>5, SendingMoves
  <1>4. IsSent(m, r, d)' /\ sending'.tmp = 0 /\ InChat(m, r, d)' => NewVersion(r)'
    <2> SUFFICES ASSUME sending' # Idle, On(sending', m, r, d), sending'.tmp = 0,
                        ~NewVersion(r)', NEW t \in DOMAIN chat', On(chat'[t], m, r, d)
                 PROVE  FALSE
      BY DEF InChat, IsSent
    <2>1. CASE sending' = sending
      <3>1. IsSent(m, r, d) /\ sending.tmp = 0 /\ ~InChat(m, r, d)
        BY <1>b, <2>1 DEF IsSent, NewVersion
      <3>2. ~(t \in DOMAIN chat /\ On(chat[t], m, r, d))
        BY <3>1 DEF InChat
      <3>3. ~RunNative
        <4>1. RunNative => task = Idle
          BY DEF RunNative, NextTaskIs
        <4>2. sending # Idle => task # Idle
          BY <1>a DEF CopyInv, SendingSound, Idle
        <4> QED BY <2>1, <4>1, <4>2
      <3>4. ~SendCopy
        <4>1. SendCopy => sending'.tmp = Len(chat) + 1
          BY <1>a, SendCopyRoute
        <4>2. Len(chat) + 1 # 0
          BY <1>a DEF TypeOK
        <4> QED BY <4>1, <4>2
      <3>5. ~ForwardNatively
        BY DEF ForwardNatively, ReturnFromForward
      <3> QED BY <1>e, <3>2, <3>3, <3>4, <3>5
    <2>2. CASE StartForward
      <3>1. On(Head(queue), m, r, d)
        BY <2>2 DEF StartForward, On
      <3>2. InQueue(m, r, d) /\ ~InChat(m, r, d)
        BY <1>b, <1>d, <2>2, <3>1
      <3>3. chat' = chat
        BY <2>2 DEF StartForward, telegramVars
      <3> QED BY <3>2, <3>3 DEF InChat
    <2>3. CASE SendCopy
      <3>1. Len(chat) + 1 # 0
        BY <1>a DEF TypeOK
      <3> QED BY <1>a, <2>3, <3>1, SendCopyRoute
    <2>4. CASE EditAsNewVersion
      <3>1. RuleCfg[r].copyOnce
        BY <1>a, <2>4, VersionsHaveCopies DEF On
      <3>2. sending'.prev # 0
        BY <2>4 DEF EditAsNewVersion
      <3> QED BY <3>1, <3>2 DEF NewVersion
    <2> QED BY <2>1, <2>2, <2>3, <2>4, SendingMoves
  <1> QED BY <1>1, <1>2, <1>3, <1>4

LEMMA RecordedStep ==
    ASSUME RouteInv, [Next]_vars
    PROVE  CopiesRecorded'
  <1>a. TypeOK
    BY DEF RouteInv, CopyInv, IdInv
  <1>1. CASE sending' = sending \/ sending' = Idle
    BY <1>1 DEF RouteInv, CopiesRecorded
  <1>2. CASE StartForward \/ EditAsNewVersion
    BY <1>2 DEF StartForward, EditAsNewVersion, CopiesRecorded
  <1>3. CASE SendCopy
    <2>1. sending'.rule = sending.rule /\ RuleCfg[sending.rule].sendCopy
      BY <1>3, <1>a, SendCopyRoute DEF SameRoute, SendCopy
    <2> QED BY <2>1 DEF CopiesRecorded
  <1> QED BY <1>1, <1>2, <1>3, SendingMoves

\* The update loop goes on: what it has ahead of it then, it has ahead of it now.
LEMMA AheadKept ==
    ASSUME RouteInv, TypeOK, BegunFrom, \A m \in Messages : srcVer[m] # 0 => srcVer'[m] # 0,
           ingress # Idle, ingress'.msg = ingress.msg,
           \A i, j \in DOMAIN ingress'.rules : ingress'.rules[i] = ingress'.rules[j] => i = j,
           \A r \in Rules, d \in Dsts : Ahead(r, d)' => Ahead(r, d)
    PROVE  AheadInv'
  <1>1. PICK m \in Messages : m = ingress.msg /\ m = ingress'.msg
    BY DEF TypeOK, Ingress, Idle
  <1>2. srcVer'[ingress'.msg] # 0
    BY <1>1 DEF RouteInv, AheadInv
  <1>3. ASSUME NEW r \in Rules, NEW d \in Dsts, Ahead(r, d)'
        PROVE  ~Begun(ingress.msg, r, d)'
    <2>1. ~Begun(m, r, d)
      BY <1>1, <1>3 DEF RouteInv, AheadInv
    <2>2. ~Begun(m, r, d)'
      BY <2>1 DEF BegunFrom
    <2> QED BY <1>1, <2>2 DEF Begun, InChat, InQueue, IsSent
  <1> QED BY <1>2, <1>3 DEF AheadInv

\* The loop's rules are named once, and so are those after the first.
LEMMA RestAhead ==
    ASSUME RouteInv, TypeOK, ingress # Idle, ingress' = Rest, ingress' # Idle
    PROVE  /\ ingress'.msg = ingress.msg
           /\ \A i, j \in DOMAIN ingress'.rules : ingress'.rules[i] = ingress'.rules[j] => i = j
           /\ \A r, d : Ahead(r, d)' => Ahead(r, d)
  <1>1. ingress \in Ingress
    BY DEF TypeOK
  <1> DEFINE q == ingress.rules
             s == Tail(q)
  <1>2. q \in Seq(Rules) /\ q # <<>>
    BY <1>1 DEF Ingress
  <1>3. /\ ingress'.msg = ingress.msg /\ ingress'.rules = s /\ ingress'.mode = "none"
    BY <1>1 DEF Rest, Ingress
  <1>4. \A i \in DOMAIN s : i + 1 \in DOMAIN q /\ s[i] = q[i + 1]
    BY <1>2, TailShifts
  <1>5. s \in Seq(Rules) /\ \A i, j \in DOMAIN q : q[i] = q[j] => i = j
    BY <1>2 DEF RouteInv, AheadInv
  <1>6. s # <<>>
    <2>1. Len(q) # 1
      BY DEF Rest
    <2>2. Len(s) = Len(q) - 1 /\ Len(q) \in Nat
      BY <1>2, HeadTailProperties
    <2>3. s = <<>> => Len(s) = 0
      BY EmptySeq
    <2> QED BY <2>1, <2>2, <2>3
  <1> HIDE DEF q, s
  <1>7. /\ \A i \in DOMAIN s : i + 1 # 1 /\ i \in Nat
        /\ 1 \in DOMAIN s /\ Head(s) = s[1]
    BY <1>5, <1>6
  <1>8. \A i, j \in DOMAIN s : s[i] = s[j] => i = j
    <2> SUFFICES ASSUME NEW i \in DOMAIN s, NEW j \in DOMAIN s, s[i] = s[j] PROVE i = j
      OBVIOUS
    <2>1. i + 1 = j + 1
      BY <1>4, <1>5
    <2> QED BY <1>7, <2>1
  <1>9. ASSUME NEW r, NEW i \in DOMAIN s, s[i] = r PROVE \E k \in DOMAIN q : k # 1 /\ q[k] = r
    BY <1>4, <1>7, <1>9
  <1>10. ASSUME NEW r, NEW d, Ahead(r, d)' PROVE Ahead(r, d)
    <2>1. \E i \in DOMAIN s : s[i] = r
      BY <1>3, <1>7, <1>10 DEF Ahead
    <2>2. \E k \in DOMAIN q : k # 1 /\ q[k] = r
      BY <2>1, <1>9
    <2> QED BY <2>2 DEF Ahead, q
  <1> QED BY <1>3, <1>8, <1>10

\* A step that queues no task with a route.
LEMMA NoRouteStep ==
    ASSUME RouteInv, TypeOK', CopyInv', ChatStable, [Next]_vars, QueueFrom,
           Routes => AheadInv'
    PROVE  RouteInv'
  <1>a. TypeOK /\ CopyInv
    BY DEF RouteInv, CopyInv, IdInv
  <1>b. BegunFrom
    BY <1>a, NothingBegins
  <1>c. \A m \in Messages : srcVer[m] # 0 => srcVer'[m] # 0
    BY <1>a, IngressMoves
  <1>1. SeenInv'
    <2> SUFFICES ASSUME NEW m \in Messages, NEW r \in Rules, NEW d \in Dsts, Begun(m, r, d)'
                 PROVE  srcVer'[m] # 0
      BY DEF SeenInv
    <2>1. Begun(m, r, d)
      BY <1>b DEF BegunFrom
    <2> QED BY <1>c, <2>1 DEF RouteInv, SeenInv
  <1>2. OnceQueued' /\ OncePlaced' /\ CopiesRecorded'
    BY <1>a, QueuedStaysOnce, PlacedStaysOnce, RecordedStep DEF RouteInv
  <1>3. AheadInv'
    <2>1. CASE ingress' = Idle
      BY <2>1 DEF AheadInv
    <2>2. CASE ingress' = ingress /\ ingress # Idle
      <3>1. \A r, d : Ahead(r, d)' => Ahead(r, d)
        BY <2>2 DEF Ahead
      <3>2. \A i, j \in DOMAIN ingress'.rules : ingress'.rules[i] = ingress'.rules[j] => i = j
        BY <2>2 DEF RouteInv, AheadInv
      <3> QED BY <1>a, <1>b, <1>c, <2>2, <3>1, <3>2, AheadKept
    <2>3. CASE SkipRule \/ RouteStats
      <3>1. ingress # Idle /\ ingress' = Rest
        BY <2>3 DEF SkipRule, RouteStats
      <3> QED BY <1>a, <1>b, <1>c, <2>1, <3>1, RestAhead, AheadKept
    <2>4. CASE RouteOk
      <3>1. /\ ingress # Idle /\ ingress.mode = "none" /\ ingress \in Ingress
            /\ ingress' = [ingress EXCEPT !.mode = "ok", !.to = RuleCfg[Head(ingress.rules)].to]
        BY <1>a, <2>4 DEF RouteOk, TypeOK
      <3>2. /\ ingress'.msg = ingress.msg /\ ingress'.rules = ingress.rules
        BY <3>1 DEF Ingress
      <3>3. \A r, d : Ahead(r, d)' => Ahead(r, d)
        BY <3>1, <3>2 DEF Ahead
      <3>4. \A i, j \in DOMAIN ingress'.rules : ingress'.rules[i] = ingress'.rules[j] => i = j
        BY <3>1, <3>2 DEF RouteInv, AheadInv
      <3> QED BY <1>a, <1>b, <1>c, <3>1, <3>2, <3>3, <3>4, AheadKept
    <2>5. ASSUME NEW m \in Messages, OnNewMessage(m), ingress' # Idle PROVE AheadInv'
      <3>1. /\ ingress'.msg = m /\ ingress'.rules = RuleOrder
            /\ srcVer[m] = 0 /\ srcVer' = [srcVer EXCEPT ![m] = 1]
        BY <2>5 DEF OnNewMessage
      <3>2. srcVer'[m] # 0
        BY <1>a, <3>1 DEF TypeOK
      <3>3. \A r \in Rules, d \in Dsts : ~Begun(m, r, d)'
        BY <1>b, <3>1 DEF RouteInv, SeenInv, BegunFrom
      <3>4. \A r \in Rules, d \in Dsts : ~Begun(ingress.msg, r, d)'
        BY <3>1, <3>3 DEF Begun, InChat, InQueue, IsSent
      <3> QED BY <3>1, <3>2, <3>4, OrderAssumption DEF AheadInv
    <2> QED BY <1>a, <2>1, <2>2, <2>3, <2>4, <2>5, IngressMoves
  <1> QED BY <1>1, <1>2, <1>3 DEF RouteInv

\* The update loop queues a task for the route it is at and leaves that route behind.
LEMMA RouteQueued ==
    ASSUME RouteInv, TypeOK', CopyInv', NEW x, Routed(x), queue' = Append(queue, x),
           UNCHANGED <<chat, sending, srcVer>>, ingress # Idle,
           x.msg = ingress.msg, x.rule = Head(ingress.rules), Ahead(x.rule, x.dst),
           ingress'.msg = ingress.msg, ingress'.rules = ingress.rules,
           \A r, d : Ahead(r, d)' => Ahead(r, d) /\ ~(r = x.rule /\ d = x.dst)
    PROVE  RouteInv'
  <1>a. TypeOK /\ CopyInv /\ queue \in Seq(Task) /\ queue' \in Seq(Task)
    BY DEF RouteInv, CopyInv, IdInv, TypeOK
  <1>b. x \in Task
    BY <1>a, AppendedTask
  <1>c. x.msg \in Messages /\ x.rule \in Rules /\ x.dst \in Dsts
    BY <1>b, TaskKinds DEF Routed, ForwardTask, NativeTask
  <1>d. ~Begun(x.msg, x.rule, x.dst)
    BY <1>c DEF RouteInv, AheadInv
  <1> DEFINE n == Len(queue) + 1
  <1>e. /\ DOMAIN queue' = DOMAIN queue \cup {n} /\ n \notin DOMAIN queue
        /\ queue'[n] = x /\ \A i \in DOMAIN queue : queue'[i] = queue[i]
    BY <1>a, <1>b, AppendedAtTheEnd
  <1> HIDE DEF n
  <1>f. \A m, r, d : InQueue(m, r, d)' => InQueue(m, r, d) \/ On(x, m, r, d)
    BY <1>e DEF InQueue
  <1>g. \A m, r, d : (InChat(m, r, d)' <=> InChat(m, r, d)) /\ (IsSent(m, r, d)' <=> IsSent(m, r, d))
    BY DEF InChat, IsSent
  <1>h. \A m, r, d : Begun(m, r, d)' => Begun(m, r, d) \/ On(x, m, r, d)
    BY <1>f, <1>g DEF Begun
  <1>1. SeenInv'
    <2> SUFFICES ASSUME NEW m \in Messages, NEW r \in Rules, NEW d \in Dsts, Begun(m, r, d)'
                 PROVE  srcVer'[m] # 0
      BY DEF SeenInv
    <2> QED BY <1>h DEF RouteInv, SeenInv, AheadInv, On
  <1>2. OnceQueued'
    <2>1. \A i \in DOMAIN queue : ~(Routed(queue[i]) /\ SameRoute(queue[i], x))
      BY <1>d DEF Begun, InQueue, On, SameRoute
    <2>2. \A i \in DOMAIN queue : ~(Routed(queue[i]) /\ SameRoute(x, queue[i]))
      BY <2>1 DEF SameRoute
    <2> QED BY <1>e, <2>1, <2>2 DEF RouteInv, OnceQueued
  <1>3. OncePlaced'
    <2> SUFFICES ASSUME NEW m \in Messages, NEW r \in Rules, NEW d \in Dsts
                 PROVE  /\ ~RuleCfg[r].copyOnce =>
                             \A t, u \in DOMAIN chat' :
                               On(chat'[t], m, r, d) /\ On(chat'[u], m, r, d) => t = u
                        /\ InQueue(m, r, d)' => ~InChat(m, r, d)' /\ ~IsSent(m, r, d)'
                        /\ IsSent(m, r, d)' /\ sending'.tmp = 0 /\ InChat(m, r, d)' => NewVersion(r)'
      BY DEF OncePlaced
    <2>1. On(x, m, r, d) => ~InChat(m, r, d) /\ ~IsSent(m, r, d)
      BY <1>d DEF On, Begun
    <2>2. NewVersion(r)' <=> NewVersion(r)
      BY DEF NewVersion
    <2> QED BY <1>f, <1>g, <2>1, <2>2 DEF RouteInv, OncePlaced
  <1>4. AheadInv'
    <2>1. PICK m \in Messages : m = ingress.msg /\ m = ingress'.msg
      BY <1>c
    <2>2. ASSUME NEW r \in Rules, NEW d \in Dsts, Ahead(r, d)' PROVE ~Begun(ingress.msg, r, d)'
      <3>1. ~Begun(m, r, d) /\ ~On(x, m, r, d)
        BY <2>1, <2>2 DEF RouteInv, AheadInv, On
      <3>2. ~Begun(m, r, d)'
        BY <1>h, <3>1
      <3> QED BY <2>1, <3>2 DEF Begun, InChat, InQueue, IsSent
    <2>3. srcVer'[ingress'.msg] # 0
      BY DEF RouteInv, AheadInv
    <2>4. \A i, j \in DOMAIN ingress'.rules : ingress'.rules[i] = ingress'.rules[j] => i = j
      BY DEF RouteInv, AheadInv
    <2> QED BY <2>2, <2>3, <2>4 DEF AheadInv
  <1>5. CopiesRecorded'
    BY DEF RouteInv, CopiesRecorded
  <1> QED BY <1>1, <1>2, <1>3, <1>4, <1>5 DEF RouteInv

LEMMA RoutesStep ==
    ASSUME RouteInv, TypeOK', CopyInv', ChatStable, [Next]_vars, Routes
    PROVE  RouteInv'
  <1>a. TypeOK /\ ingress # Idle /\ ingress \in Ingress
    BY DEF RouteInv, CopyInv, IdInv, Routes, RouteDst, RouteAside, TypeOK, Idle
  <1>b. UNCHANGED <<chat, sending, srcVer>>
    BY DEF Routes, RouteDst, RouteAside, telegramVars, workerVars
  <1>c. ingress.rules \in Seq(Rules) /\ ingress.rules # <<>>
    BY <1>a DEF Ingress, Idle
  <1>d. 1 \in DOMAIN ingress.rules /\ Head(ingress.rules) = ingress.rules[1]
    BY <1>c
  <1>e. \A i \in DOMAIN ingress.rules : ingress.rules[i] = Head(ingress.rules) => i = 1
    BY <1>a, <1>d DEF RouteInv, AheadInv
  <1>1. CASE RouteDst
    <2> DEFINE d0 == Head(ingress.to)
               x == [kind |-> "forward", msg |-> ingress.msg, rule |-> Head(ingress.rules),
                     dst |-> d0, ver |-> 1]
    <2>1. /\ ingress.mode = "ok"
          /\ ingress' = [ingress EXCEPT !.to = Tail(@), !.marked = @ \cup {d0}]
          /\ IF AlreadyMarked(d0) THEN UNCHANGED queue ELSE queue' = Append(queue, x)
      BY <1>1 DEF RouteDst, Enqueue
    <2>2. /\ ingress'.msg = ingress.msg /\ ingress'.rules = ingress.rules
          /\ ingress'.mode = "ok" /\ ingress'.marked = ingress.marked \cup {d0}
      BY <1>a, <2>1 DEF Ingress
    <2>3. x.msg = ingress.msg /\ x.rule = Head(ingress.rules) /\ x.dst = d0 /\ Routed(x)
      BY DEF Routed
    <2> HIDE DEF x, d0
    <2>4. \A r, d : Ahead(r, d)' => Ahead(r, d) /\ ~(r = Head(ingress.rules) /\ d = d0)
      BY <1>e, <2>1, <2>2 DEF Ahead
    <2>5. CASE AlreadyMarked(d0)
      <3>1. QueueFrom
        BY <1>a, <2>1, <2>5, QueueFroms
      <3>2. BegunFrom
        BY <3>1, NothingBegins DEF RouteInv
      <3>3. \A i, j \in DOMAIN ingress'.rules : ingress'.rules[i] = ingress'.rules[j] => i = j
        BY <1>a, <2>2 DEF RouteInv, AheadInv
      <3>4. AheadInv'
        BY <1>a, <1>b, <2>2, <2>4, <3>2, <3>3, AheadKept
      <3> QED BY <3>1, <3>4, NoRouteStep
    <2>6. CASE ~AlreadyMarked(d0)
      <3>1. Ahead(x.rule, x.dst)
        BY <2>1, <2>3, <2>6 DEF Ahead, AlreadyMarked
      <3>2. \A r, d : Ahead(r, d)' => Ahead(r, d) /\ ~(r = x.rule /\ d = x.dst)
        BY <2>3, <2>4
      <3> QED BY <1>a, <1>b, <2>1, <2>2, <2>3, <2>6, <3>1, <3>2, RouteQueued
    <2> QED BY <2>5, <2>6
  <1>2. ASSUME NEW v \in {"check", "other"}, RouteAside(v) PROVE RouteInv'
    <2> DEFINE d0 == RuleCfg[Head(ingress.rules)][v]
               x == [kind |-> "native", msg |-> ingress.msg, rule |-> Head(ingress.rules),
                     dst |-> d0, ver |-> 1]
    <2>1. /\ ingress.mode = "none" /\ ingress' = [ingress EXCEPT !.mode = v]
          /\ IF d0 = NoChat THEN UNCHANGED queue ELSE queue' = Append(queue, x)
      BY <1>2 DEF RouteAside, Enqueue
    <2>2. /\ ingress'.msg = ingress.msg /\ ingress'.rules = ingress.rules
          /\ ingress'.mode \notin {"none", "ok"}
      BY <1>a, <2>1 DEF Ingress
    <2>3. x.msg = ingress.msg /\ x.rule = Head(ingress.rules) /\ Routed(x)
      BY DEF Routed
    <2> HIDE DEF x, d0
    <2>4. \A r, d : Ahead(r, d)' => Ahead(r, d) /\ r # Head(ingress.rules)
      BY <1>e, <2>2 DEF Ahead
    <2>5. CASE d0 = NoChat
      <3>1. QueueFrom
        BY <1>a, <2>1, <2>5, QueueFroms
      <3>2. BegunFrom
        BY <3>1, NothingBegins DEF RouteInv
      <3>3. \A i, j \in DOMAIN ingress'.rules : ingress'.rules[i] = ingress'.rules[j] => i = j
        BY <1>a, <2>2 DEF RouteInv, AheadInv
      <3>4. AheadInv'
        BY <1>a, <1>b, <2>2, <2>4, <3>2, <3>3, AheadKept
      <3> QED BY <3>1, <3>4, NoRouteStep
    <2>6. CASE d0 # NoChat
      <3>1. Ahead(x.rule, x.dst)
        BY <2>1, <2>3 DEF Ahead
      <3>2. \A r, d : Ahead(r, d)' => Ahead(r, d) /\ ~(r = x.rule /\ d = x.dst)
        BY <2>3, <2>4
      <3> QED BY <1>a, <1>b, <2>1, <2>2, <2>3, <2>6, <3>1, <3>2, RouteQueued
    <2> QED BY <2>5, <2>6
  <1> QED BY <1>1, <1>2 DEF Routes

LEMMA RouteInvStep == RouteInv /\ [Next]_vars => RouteInv'
  <1> SUFFICES ASSUME RouteInv, [Next]_vars PROVE RouteInv'
    OBVIOUS
  <1>1. TypeOK /\ CopyInv /\ CopyInv' /\ TypeOK'
    BY CopyStep DEF RouteInv, CopyInv, IdInv
  <1>2. ChatStable
    BY <1>1, ChatStep
  <1>3. CASE Routes
    BY <1>1, <1>2, <1>3, RoutesStep
  <1>4. CASE ~Routes
    <2>1. QueueFrom
      BY <1>1, <1>4, RoutesOfQueue
    <2> QED BY <1>1, <1>2, <1>4, <2>1, NoRouteStep
  <1> QED BY <1>3, <1>4

\* A destination gets a message once from a rule without CopyOnce: whatever the rule names
\* twice, and however confirmations, edits, deletions, retries and crashes interleave.
THEOREM RoutesAreServedOnce == Spec => []OneCopyPerRoute
  <1>1. RouteInv => OneCopyPerRoute
    <2> SUFFICES ASSUME RouteInv, NEW t \in DOMAIN chat, NEW u \in DOMAIN chat,
                        SameRoute(chat[t], chat[u]), ~RuleCfg[chat[t].rule].copyOnce
                 PROVE  t = u
      BY DEF OneCopyPerRoute
    <2>1. chat[t].msg \in Messages /\ chat[t].rule \in Rules /\ chat[t].dst \in Dsts
      <3>1. chat[t] \in Copy
        BY DEF RouteInv, CopyInv, IdInv, TypeOK
      <3> QED BY <3>1 DEF Copy
    <2> QED BY <2>1 DEF RouteInv, OncePlaced, On, SameRoute
  <1> QED BY <1>1, RouteInit, RouteInvStep, PTL DEF Spec

(***************************************************************************)
(* What is still to be done                                                *)
(***************************************************************************)

\* The process is left to itself: it neither dies nor reads a new rules file, and what it
\* writes to its store is there.
Undisturbed == MaxCrashes = 0 /\ MaxReloads = 0 /\ "store" \notin Faults

Live(t) == chat[t].status \in {"pending", "sent"}
Plain(r) == ~RuleCfg[r].copyOnce
Named(t) == \E i \in DOMAIN copied[chat[t].msg] : copied[chat[t].msg][i].tmp = t
Unrecorded(t) == sending # Idle /\ sending.tmp = t

\* No copy of m waits behind place j of the queue, or none waits at all.
ForwardOf(t, m) == t.kind = "forward" /\ t.msg = m
NoForwards(m) == \A i \in DOMAIN queue : ~ForwardOf(queue[i], m)
Behind(j, m) == \A i \in DOMAIN queue : ForwardOf(queue[i], m) => i < j

\* What a step queues: a copy of the message the update loop is at, a resolved edit, a retry.
Queues(x) ==
    /\ queue' = Append(queue, x)
    /\ x.kind = "forward" => ingress # Idle /\ x.msg = ingress.msg /\ x.ver = 1
    /\ x.kind = "edit" =>
         \/ \E g \in resolvers : g.ver # 0 /\ x.msg = g.msg /\ x.ver = g.ver /\ x.rs = rules
         \/ task.kind = "edit" /\ x.msg = task.msg /\ x.ver = task.ver /\ x.rs = task.rs

TakesTask == RunMap \/ RunStats \/ RunNative \/ StartForward \/ StartEdit \/ StartDelete

LEMMA QueueCases ==
    ASSUME CopyInv, TypeOK', [Next]_vars
    PROVE  queue' = queue \/ TakesTask \/ (\E x \in Task : Queues(x)) \/ Crash
  <1>a. TypeOK /\ queue \in Seq(Task) /\ queue' \in Seq(Task)
    BY DEF CopyInv, IdInv, TypeOK
  <1>b. ASSUME NEW x, Queues(x) PROVE \E y \in Task : Queues(y)
    BY <1>a, <1>b, AppendedTask DEF Queues
  <1>c. ASSUME NEW ms, Finish(ms), task.kind \in {"edit", "delete"}
        PROVE  queue' = queue \/ \E x \in Task : Queues(x)
    <2>1. CASE queue' # queue
      <3>1. queue' = Append(queue, Retried(task))
        BY <1>c, <2>1 DEF Finish, Enqueue
      <3>2. /\ Retried(task).kind = task.kind
            /\ task.kind = "edit" =>
                 /\ Retried(task).msg = task.msg /\ Retried(task).ver = task.ver
                 /\ Retried(task).rs = task.rs
        BY <1>c, <1>a, TaskKinds DEF Retried, TypeOK, EditTask, DeleteTask
      <3>3. Queues(Retried(task))
        BY <1>c, <3>1, <3>2 DEF Queues
      <3> QED BY <3>3, <1>b
    <2> QED BY <2>1
  <1>1. CASE UpdateLoop
    <2>1. CASE SkipRule \/ RouteOk
      BY <2>1 DEF SkipRule, RouteOk
    <2>2. CASE RouteDst
      <3> DEFINE x == [kind |-> "forward", msg |-> ingress.msg, rule |-> Head(ingress.rules),
                       dst |-> Head(ingress.to), ver |-> 1]
      <3>1. ingress # Idle /\ (queue' = queue \/ queue' = Append(queue, x))
        BY <2>2 DEF RouteDst, Enqueue
      <3>2. queue' = queue \/ Queues(x)
        BY <3>1 DEF Queues
      <3> QED BY <3>2, <1>b
    <2>3. CASE RouteStats
      <3> DEFINE x == [kind |-> "stats", rule |-> Head(ingress.rules), ok |-> ingress.mode = "ok"]
      <3>1. Queues(x)
        BY <2>3 DEF RouteStats, Enqueue, Queues
      <3> QED BY <3>1, <1>b
    <2>4. ASSUME NEW v \in {"check", "other"}, RouteAside(v)
          PROVE  queue' = queue \/ \E x \in Task : Queues(x)
      <3> DEFINE x == [kind |-> "native", msg |-> ingress.msg, rule |-> Head(ingress.rules),
                       dst |-> RuleCfg[Head(ingress.rules)][v], ver |-> 1]
      <3>1. queue' = queue \/ Queues(x)
        BY <2>4 DEF RouteAside, Enqueue, Queues
      <3> QED BY <3>1, <1>b
    <2> QED BY <1>1, <2>1, <2>2, <2>3, <2>4 DEF UpdateLoop
  <1>2. CASE Telegram
    <2>1. ASSUME NEW m \in Messages, OnNewMessage(m) \/ OnEditUpdate(m) PROVE queue' = queue
      BY <2>1 DEF OnNewMessage, OnEditUpdate
    <2>2. ASSUME NEW b \in Batches, OnDeletedMessages(b)
          PROVE  queue' = queue \/ \E x \in Task : Queues(x)
      <3> DEFINE x == [kind |-> "delete", ids |-> b, rs |-> rules, attempt |-> 0, at |-> clock']
      <3>1. queue' = queue \/ Queues(x)
        BY <2>2 DEF OnDeletedMessages, Enqueue, Queues
      <3> QED BY <3>1, <1>b
    <2>3. ASSUME NEW t \in DOMAIN chat, OnMessageSendSucceeded(t)
          PROVE  \E x \in Task : Queues(x)
      <3> DEFINE x == [kind |-> "map", tmp |-> t, new |-> Perm(t)]
      <3>1. Queues(x)
        BY <2>3 DEF OnMessageSendSucceeded, Enqueue, Queues
      <3> QED BY <3>1, <1>b
    <2>4. ASSUME NEW t \in DOMAIN chat, SendFailed(t) PROVE queue' = queue
      BY <2>4 DEF SendFailed
    <2> QED BY <1>2, <2>1, <2>2, <2>3, <2>4 DEF Telegram
  <1>3. CASE WriteNext \/ SendCopy \/ SendCopyFails \/ ForwardNatively \/ RecordCopy
    BY <1>3 DEF WriteNext, SendCopy, SendCopyFails, ForwardNatively, RecordCopy
  <1>4. CASE EditUnconfirmed \/ EditSkipped \/ EditAsNewVersion \/ EditInPlace
    BY <1>4 DEF EditUnconfirmed, EditSkipped, EditAsNewVersion, EditInPlace
  <1>5. CASE DeleteIndelible \/ DeleteUnconfirmed \/ DeleteCopy \/ DeleteNextId
    BY <1>5 DEF DeleteIndelible, DeleteUnconfirmed, DeleteCopy, DeleteNextId
  <1>6. CASE FinishEdit \/ FinishDelete
    BY <1>6, <1>c DEF FinishEdit, FinishDelete
  <1>7. ASSUME NEW g \in resolvers, Resolve(g)
        PROVE  queue' = queue \/ \E x \in Task : Queues(x)
    <2> DEFINE x == [kind |-> "edit", msg |-> g.msg, ver |-> g.ver, rs |-> rules,
                     attempt |-> 0, at |-> clock[g.msg] + 1]
    <2>1. queue' = queue \/ Queues(x)
      BY <1>7 DEF Resolve, ResolveEdit, OnEditedMessage, Enqueue, Queues
    <2> QED BY <2>1, <1>b
  <1>8. CASE \/ \E l \in linkers : NextLink(l)
             \/ \E rs \in SUBSET Rules : SetRuleSetWithPush(rs)
             \/ UNCHANGED vars
    BY <1>8 DEF NextLink, LinkPoll, LinkRead, LinkWrite, SetRuleSetWithPush, vars
  <1> QED BY <1>1, <1>2, <1>3, <1>4, <1>5, <1>6, <1>7, <1>8 DEF Next, Worker, WorkStep, TakesTask

\* A task that waits behind all copies of its message still does, or is taken up with none
\* of them left.
LEMMA BehindKept ==
    ASSUME TypeOK, TypeOK', NEW m,
           queue' = queue \/ TakesTask \/ (\E x \in Task : queue' = Append(queue, x)
                                                          /\ ~ForwardOf(x, m))
    PROVE  /\ NoForwards(m) => NoForwards(m)'
           /\ \A j \in DOMAIN queue : Behind(j, m) =>
                \/ \E k \in DOMAIN queue' : queue'[k] = queue[j] /\ Behind(k, m)'
                \/ TakesTask /\ queue[j] = Head(queue) /\ NoForwards(m)'
  <1>a. queue \in Seq(Task)
    BY DEF TypeOK
  <1>b. DOMAIN queue = 1..Len(queue) /\ Len(queue) \in Nat
    BY <1>a
  <1>1. CASE queue' = queue
    BY <1>1 DEF NoForwards, Behind
  <1>2. CASE TakesTask
    <2>1. queue # <<>> /\ queue' = Tail(queue)
      BY <1>2 DEF TakesTask, RunMap, RunStats, RunNative, StartForward, StartEdit, StartDelete,
                  NextTaskIs, Dequeue
    <2>2. /\ DOMAIN queue' = 1..(Len(queue) - 1)
          /\ \A i \in DOMAIN queue' : i + 1 \in DOMAIN queue /\ queue'[i] = queue[i + 1]
      <3>1. Len(Tail(queue)) = Len(queue) - 1 /\ Tail(queue) \in Seq(Task)
        BY <1>a, <2>1
      <3>2. DOMAIN Tail(queue) = 1..(Len(queue) - 1)
        BY <3>1
      <3> QED BY <1>a, <2>1, <3>2, TailShifts
    <2>3. NoForwards(m) => NoForwards(m)'
      BY <2>2 DEF NoForwards
    <2>4. ASSUME NEW j \in DOMAIN queue, Behind(j, m), j # 1
          PROVE  \E k \in DOMAIN queue' : queue'[k] = queue[j] /\ Behind(k, m)'
      <3>1. j \in 2..Len(queue) /\ (j - 1) + 1 = j
        BY <1>b, <2>4
      <3>2. j - 1 \in DOMAIN queue'
        <4>1. j - 1 \in 1..(Len(queue) - 1)
          BY <1>b, <3>1
        <4> QED BY <2>2, <4>1
      <3>3. queue'[j - 1] = queue[j]
        BY <2>2, <3>1, <3>2
      <3>4. \A i \in DOMAIN queue' : ForwardOf(queue'[i], m) => i < j - 1
        <4> TAKE i \in DOMAIN queue'
        <4> HAVE ForwardOf(queue'[i], m)
        <4>1. i + 1 \in DOMAIN queue /\ ForwardOf(queue[i + 1], m)
          BY <2>2
        <4>2. i + 1 < j
          BY <2>4, <4>1 DEF Behind
        <4>3. i \in 1..(Len(queue) - 1)
          BY <2>2
        <4>4. i \in Nat /\ j \in Nat
          BY <1>b, <3>1, <4>3
        <4> QED BY <4>2, <4>4
      <3> QED BY <3>2, <3>3, <3>4 DEF Behind
    <2>5. ASSUME Behind(1, m) PROVE NoForwards(m)'
      <3>1. \A i \in DOMAIN queue : ~ForwardOf(queue[i], m)
        BY <1>b, <2>5 DEF Behind
      <3> QED BY <2>2, <3>1 DEF NoForwards
    <2>6. Head(queue) = queue[1]
      <3> HIDE DEF TakesTask
      <3> QED BY <1>a, <2>1
    <2> QED BY <1>2, <2>3, <2>4, <2>5, <2>6
  <1>3. ASSUME NEW x \in Task, queue' = Append(queue, x), ~ForwardOf(x, m)
        PROVE  /\ NoForwards(m) => NoForwards(m)'
               /\ \A j \in DOMAIN queue : Behind(j, m) =>
                    j \in DOMAIN queue' /\ queue'[j] = queue[j] /\ Behind(j, m)'
    <2>1. \A i \in DOMAIN queue' : (i \in DOMAIN queue /\ queue'[i] = queue[i]) \/ queue'[i] = x
      BY <1>a, <1>3, AppendExtends
    <2>2. DOMAIN queue \subseteq DOMAIN queue' /\ \A i \in DOMAIN queue : queue'[i] = queue[i]
      BY <1>a, <1>3, AppendKeeps
    <2>3. NoForwards(m) => NoForwards(m)'
      BY <1>3, <2>1 DEF NoForwards
    <2>4. \A j \in DOMAIN queue : Behind(j, m) => Behind(j, m)'
      BY <1>3, <2>1 DEF Behind
    <2> QED BY <2>2, <2>3, <2>4
  <1> QED BY <1>1, <1>2, <1>3

\* What is queued last waits behind every copy.
LEMMA LastIsBehind ==
    ASSUME TypeOK, NEW x \in Task, queue' = Append(queue, x), NEW m, ~ForwardOf(x, m)
    PROVE  \E k \in DOMAIN queue' : queue'[k] = x /\ Behind(k, m)'
  <1> DEFINE r == Append(queue, x)
  <1>1. /\ queue \in Seq(Task) /\ Len(queue) \in Nat
        /\ r \in Seq(Task) /\ Len(r) = Len(queue) + 1 /\ r[Len(queue) + 1] = x
    BY AppendProperties DEF TypeOK
  <1> HIDE DEF r
  <1>2. DOMAIN r = 1..(Len(queue) + 1)
    BY <1>1
  <1>3. \A i \in DOMAIN r : ForwardOf(r[i], m) => i < Len(queue) + 1
    BY <1>1, <1>2
  <1>4. queue' = r
    BY DEF r
  <1> QED BY <1>1, <1>2, <1>3, <1>4 DEF Behind

\* A copy that is there was there, or SendCopy has just made it; only an edit in place
\* changes its version.
LiveFrom(t) ==
    \/ /\ t \in DOMAIN chat /\ Live(t)
       /\ \/ chat'[t].ver = chat[t].ver
          \/ EditInPlace /\ t = Head(refs).tmp /\ chat'[t].ver = task.ver
    \/ SendCopy /\ t = Len(chat) + 1 /\ chat'[t].ver = sending.ver

\* The copy an edit in place changes is the one its reference names.
LEMMA EditedCopy ==
    ASSUME CopyInv, EditInPlace
    PROVE  CopyOf(newId[Head(refs).tmp]) = Head(refs).tmp
  <1> DEFINE c == Head(refs)
  <1>1. refs # <<>> /\ newId[c.tmp] # 0
    BY DEF EditInPlace, Visiting
  <1>2. c.tmp \in TmpIds /\ newId[c.tmp] \in PermIds
    BY <1>1, VisitedRef DEF CopyInv, IdInv
  <1>3. newId[c.tmp] = Perm(c.tmp)
    BY <1>1, <1>2 DEF CopyInv, IdInv, IdMapsAgree
  <1> QED BY <1>2, <1>3, PermCopy

\* A native forward is no copy.
LEMMA ForwardsNoCopy ==
    ASSUME TypeOK, TypeOK', NEW t, Forwards(t)
    PROVE  \A u \in DOMAIN chat' : Live(u)' => LiveFrom(u)
  <1>1. CASE chat' = chat
    BY <1>1 DEF Forwards, LiveFrom, Live
  <1>2. CASE chat' # chat
    <2> DEFINE x == [status |-> "native", msg |-> t.msg, rule |-> t.rule,
                     dst |-> t.dst, ver |-> srcVer[t.msg], replyTo |-> 0, next |-> {}]
    <2>1. chat' = Append(chat, x) /\ x.status = "native"
      BY <1>2 DEF Forwards
    <2> HIDE DEF x
    <2>2. chat \in Seq(Copy) /\ chat' \in Seq(Copy)
      BY DEF TypeOK
    <2>3. x \in Copy
      <3>1. Len(chat') = Len(chat) + 1 /\ chat'[Len(chat) + 1] = x
        BY <2>1, <2>2
      <3> QED BY <2>2, <3>1
    <2>4. \A u \in DOMAIN chat' : (u \in DOMAIN chat /\ chat'[u] = chat[u]) \/ chat'[u] = x
      BY <2>1, <2>2, <2>3, AppendExtends
    <2> QED BY <2>1, <2>4 DEF LiveFrom, Live
  <1> QED BY <1>1, <1>2

LEMMA LiveStep ==
    ASSUME CopyInv, TypeOK', [Next]_vars
    PROVE  \A t \in DOMAIN chat' : Live(t)' => LiveFrom(t)
  <1> DEFINE Goal == \A t \in DOMAIN chat' : Live(t)' => LiveFrom(t)
  <1> USE DEF telegramVars
  <1>a. TypeOK
    BY DEF CopyInv, IdInv
  <1>b. chat' = chat => Goal
    BY DEF LiveFrom, Live
  <1>d. \A u \in DOMAIN chat : chat[u] \in Copy
    BY <1>a DEF TypeOK
  <1>e. ASSUME NEW t, NEW st, st \in {"sent", "deleted", "failed", "forwarded"},
               chat' = [chat EXCEPT ![t].status = st],
               t \in DOMAIN chat /\ st = "sent" => Live(t)
        PROVE  Goal
    <2>1. DOMAIN chat' = DOMAIN chat
      BY <1>e
    <2>2. \A u \in DOMAIN chat : u # t => chat'[u] = chat[u]
      BY <1>e
    <2>3. t \in DOMAIN chat => chat'[t].ver = chat[t].ver /\ chat'[t].status = st
      BY <1>d, <1>e DEF Copy
    <2>4. \A u \in DOMAIN chat : Live(u)' =>
            Live(u) /\ chat'[u].ver = chat[u].ver
      BY <1>e, <2>2, <2>3 DEF Live
    <2> QED BY <2>1, <2>4 DEF LiveFrom
  <1> SUFFICES Goal
    OBVIOUS
  <1> HIDE DEF Goal
  <1>1. CASE UpdateLoop
    <2>1. chat' = chat
      BY <1>1 DEF UpdateLoop, SkipRule, RouteOk, RouteDst, RouteStats, RouteAside
    <2> QED BY <2>1, <1>b
  <1>2. CASE Telegram
    <2>1. ASSUME NEW m \in Messages, OnNewMessage(m) \/ OnEditUpdate(m)
          PROVE  chat' = chat
      BY <2>1 DEF OnNewMessage, OnEditUpdate
    <2>2. ASSUME NEW b \in Batches, OnDeletedMessages(b) PROVE chat' = chat
      BY <2>2 DEF OnDeletedMessages
    <2>3. ASSUME NEW t \in DOMAIN chat, OnMessageSendSucceeded(t) PROVE Goal
      <3>1. \/ chat[t].status = "pending" /\ chat' = [chat EXCEPT ![t].status = "sent"]
            \/ chat' = [chat EXCEPT ![t].status = "forwarded"]
        BY <2>3 DEF OnMessageSendSucceeded
      <3>2. chat[t].status = "pending" => Live(t)
        BY DEF Live
      <3> QED BY <3>1, <3>2, <1>e
    <2>4. ASSUME NEW t \in DOMAIN chat, SendFailed(t) PROVE Goal
      <3>1. chat' = [chat EXCEPT ![t].status = "failed"]
        BY <2>4 DEF SendFailed
      <3> QED BY <3>1, <1>e
    <2> QED BY <1>2, <1>b, <2>1, <2>2, <2>3, <2>4 DEF Telegram
  <1>3. CASE RunNative \/ ForwardNatively
    <2>1. \E t : Forwards(t)
      BY <1>3 DEF RunNative, ForwardNatively
    <2> QED BY <2>1, <1>a, ForwardsNoCopy DEF Goal
  <1>4. CASE SendCopy
    <2>1. PICK p \in ReplyTo(sending.msg, sending.dst) :
            chat' = Append(chat, [status |-> "pending", msg |-> sending.msg,
                                  rule |-> sending.rule, dst |-> sending.dst,
                                  ver |-> sending.ver, replyTo |-> p, next |-> {}])
      BY <1>4 DEF SendCopy
    <2> DEFINE x == [status |-> "pending", msg |-> sending.msg,
                     rule |-> sending.rule, dst |-> sending.dst,
                     ver |-> sending.ver, replyTo |-> p, next |-> {}]
    <2>2. chat' = Append(chat, x) /\ x.ver = sending.ver
      BY <2>1
    <2> HIDE DEF x
    <2>3. chat \in Seq(Copy) /\ chat' \in Seq(Copy)
      BY <1>a DEF TypeOK
    <2>4. /\ Len(chat') = Len(chat) + 1 /\ chat'[Len(chat) + 1] = x
          /\ DOMAIN chat' = 1..(Len(chat) + 1) /\ DOMAIN chat = 1..Len(chat) /\ Len(chat) \in Nat
      BY <2>2, <2>3
    <2>5. x \in Copy
      BY <2>3, <2>4
    <2>6. \A u \in DOMAIN chat : chat'[u] = chat[u]
      BY <2>2, <2>3, <2>5, AppendKeeps
    <2>7. \A u \in DOMAIN chat' : u \in DOMAIN chat \/ u = Len(chat) + 1
      BY <2>4
    <2> QED BY <1>4, <2>2, <2>4, <2>6, <2>7 DEF Goal, LiveFrom, Live
  <1>5. CASE EditInPlace
    <2> DEFINE t == Head(refs).tmp
    <2>1. CopyOf(newId[t]) = t
      BY <1>5, EditedCopy
    <2>2. chat' = chat \/ chat' = [chat EXCEPT ![t].ver = task.ver]
      BY <1>5, <2>1 DEF EditInPlace
    <2> HIDE DEF t
    <2>3. CASE chat' = [chat EXCEPT ![t].ver = task.ver]
      <3>1. DOMAIN chat' = DOMAIN chat
        BY <2>3
      <3>2. \A u \in DOMAIN chat : u # t => chat'[u] = chat[u]
        BY <2>3
      <3>3. t \in DOMAIN chat => chat'[t].ver = task.ver /\ chat'[t].status = chat[t].status
        BY <1>d, <2>3 DEF Copy
      <3> QED BY <1>5, <3>1, <3>2, <3>3 DEF Goal, LiveFrom, Live, t
    <2> QED BY <2>2, <2>3, <1>b
  <1>6. CASE DeleteCopy
    <2>1. chat' = chat \/ chat' = [chat EXCEPT ![Head(refs).tmp].status = "deleted"]
      BY <1>6, DeletedCopy
    <2> QED BY <2>1, <1>b, <1>e
  <1>7. ASSUME NEW l \in linkers, LinkWrite(l) PROVE Goal
    <2> DEFINE t == CopyOf(l.prev)
    <2>1. chat' = chat \/ chat' = [chat EXCEPT ![t].next = l.seen \cup {l.new}]
      BY <1>7 DEF LinkWrite, LinksOldVersion
    <2> HIDE DEF t
    <2>2. CASE chat' = [chat EXCEPT ![t].next = l.seen \cup {l.new}]
      <3>1. DOMAIN chat' = DOMAIN chat
        BY <2>2
      <3>2. \A u \in DOMAIN chat : u # t => chat'[u] = chat[u]
        BY <2>2
      <3>3. t \in DOMAIN chat => chat'[t].ver = chat[t].ver /\ chat'[t].status = chat[t].status
        BY <1>d, <2>2 DEF Copy
      <3> QED BY <3>1, <3>2, <3>3 DEF Goal, LiveFrom, Live
    <2> QED BY <2>1, <2>2, <1>b
  <1>8. CASE \/ WriteNext \/ RunMap \/ RunStats \/ StartForward \/ SendCopyFails \/ RecordCopy
             \/ StartEdit \/ EditUnconfirmed \/ EditSkipped \/ EditAsNewVersion
             \/ FinishEdit \/ StartDelete \/ DeleteIndelible \/ DeleteUnconfirmed
             \/ DeleteNextId \/ FinishDelete
    <2>1. chat' = chat
      BY <1>8 DEF WriteNext, RunMap, RunStats, StartForward, SendCopyFails, RecordCopy, StartEdit,
                  EditUnconfirmed, EditSkipped, EditAsNewVersion, FinishEdit,
                  StartDelete, DeleteIndelible, DeleteUnconfirmed, DeleteNextId,
                  FinishDelete
    <2> QED BY <2>1, <1>b
  <1>9. CASE \/ \E g \in resolvers : Resolve(g)
             \/ \E l \in linkers : LinkPoll(l) \/ LinkRead(l)
             \/ \E rs \in SUBSET Rules : SetRuleSetWithPush(rs)
             \/ Crash \/ UNCHANGED vars
    <2>1. chat' = chat
      BY <1>9 DEF Resolve, ResolveEdit, OnEditedMessage, LinkPoll, LinkRead,
                  SetRuleSetWithPush, Crash, vars
    <2> QED BY <2>1, <1>b
  <1> QED BY <1>1, <1>2, <1>3, <1>4, <1>5, <1>6, <1>7, <1>8, <1>9 DEF Next, Worker, WorkStep, NextLink

\* A step of the worker, with all writes made, or one that leaves it and the lists alone.
LEMMA WorkFrame ==
    ASSUME [Next]_vars, ~Crash
    PROVE  \/ UNCHANGED <<workerVars, copied>>
           \/ /\ writes = <<>>
              /\ \/ StartForward \/ SendCopy \/ SendCopyFails \/ ForwardNatively \/ RecordCopy
                 \/ Edits \/ Deletes
  <1>1. CASE Others \/ \E l \in linkers : NextLink(l)
    BY <1>1, WorkersOwn DEF storeVars
  <1>2. CASE WriteNext \/ RunMap \/ RunStats \/ RunNative
    BY <1>2 DEF WriteNext, RunMap, RunStats, RunNative, storeVars
  <1> QED BY <1>1, <1>2 DEF Next, Worker, WorkStep, Others, Edits, Deletes

\* The list names what was recorded, and what it named before save for the entry of the
\* same rule and destination.
LEMMA WithCopiedIdNames ==
    ASSUME NEW list \in Seq(Ref), NEW ref \in Ref, Distinct(list)
    PROVE  LET new == WithCopiedId(list, ref) IN
           /\ \E i \in DOMAIN new : new[i] = ref
           /\ \A i \in DOMAIN list :
                \/ \E j \in DOMAIN new : new[j] = list[i]
                \/ list[i].rule = ref.rule /\ list[i].dst = ref.dst
  <1> DEFINE same == {i \in DOMAIN list : list[i].rule = ref.rule /\ list[i].dst = ref.dst}
             new == [i \in DOMAIN list |-> IF i \in First(same) THEN ref ELSE list[i]]
  <1>1. CASE same = {}
    <2> DEFINE r == Append(list, ref)
    <2>1. /\ r \in Seq(Ref) /\ Len(r) = Len(list) + 1 /\ r[Len(list) + 1] = ref
          /\ \A i \in 1..Len(list) : r[i] = list[i]
      BY AppendProperties
    <2>2. WithCopiedId(list, ref) = r
      BY <1>1 DEF WithCopiedId
    <2> HIDE DEF r
    <2>3. DOMAIN r = 1..(Len(list) + 1) /\ DOMAIN list = 1..Len(list) /\ Len(list) \in Nat
      BY <2>1
    <2>4. Len(list) + 1 \in DOMAIN r /\ \A i \in DOMAIN list : i \in DOMAIN r
      BY <2>3
    <2> QED BY <2>1, <2>2, <2>3, <2>4
  <1>2. CASE same # {}
    <2>1. WithCopiedId(list, ref) = new /\ DOMAIN new = DOMAIN list
      BY <1>2 DEF WithCopiedId
    <2>2. PICK k \in same : TRUE
      BY <1>2
    <2>3. \A i \in same : i = k
      BY <2>2 DEF Distinct
    <2>4. k \in First(same) /\ k \in DOMAIN list
      <3>1. k \in 1..Len(list) /\ Len(list) \in Nat
        BY <2>2
      <3>2. k <= k
        BY <3>1
      <3> QED BY <2>2, <2>3, <3>2 DEF First
    <2>5. new[k] = ref
      BY <2>4
    <2>6. \A i \in DOMAIN list : i \notin same => new[i] = list[i]
      BY DEF First
    <2> HIDE DEF new
    <2> QED BY <2>1, <2>4, <2>5, <2>6
  <1> QED BY <1>1, <1>2

\* The store knows the copy, or the worker is about to tell it.
Known(t) == Named(t) \/ Unrecorded(t)

\* RecordCopy replaces no other copy of a route without versions.
LEMMA RecordedKnown ==
    ASSUME RouteInv, TypeOK', RecordCopy, "store" \notin Faults,
           NEW t \in DOMAIN chat, Plain(chat[t].rule), Known(t)
    PROVE  \E i \in DOMAIN copied'[chat[t].msg] : copied'[chat[t].msg][i].tmp = t
  <1> DEFINE m == sending.msg
             new == WithCopiedId(copied[m], SentRef)
  <1>1. /\ sending # Idle /\ sending.tmp # 0
        /\ copied' = [copied EXCEPT ![m] = new]
    BY DEF RecordCopy, SentRef
  <1>2. TypeOK /\ CopyInv /\ copied \in [Messages -> Seq(Ref)]
    BY DEF RouteInv, CopyInv, IdInv, TypeOK
  <1>3. m \in Messages /\ SentRef \in Ref /\ SentRef.tmp = sending.tmp
    BY <1>1, <1>2 DEF TypeOK, Sending, Ref, SentRef
  <1>4. TrueRefs(chat, copied[m], m) /\ Distinct(copied[m]) /\ copied[m] \in Seq(Ref)
    BY <1>2, <1>3 DEF CopyInv, ListsSound
  <1>5. Shows(chat, SentRef, m)
    BY <1>1, <1>2 DEF CopyInv, SendingSound
  <1>6. copied'[m] = new
    BY <1>1, <1>2, <1>3
  <1>7. /\ \E i \in DOMAIN new : new[i] = SentRef
        /\ \A i \in DOMAIN copied[m] :
             \/ \E j \in DOMAIN new : new[j] = copied[m][i]
             \/ copied[m][i].rule = SentRef.rule /\ copied[m][i].dst = SentRef.dst
    BY <1>3, <1>4, WithCopiedIdNames
  <1> HIDE DEF new
  <1>8. CASE Unrecorded(t)
    <2>1. t = SentRef.tmp /\ chat[t].msg = m
      BY <1>3, <1>5, <1>8 DEF Unrecorded, Shows, SameRoute
    <2> QED BY <1>6, <1>7, <2>1
  <1>9. CASE Named(t) /\ chat[t].msg # m
    <2>1. copied'[chat[t].msg] = copied[chat[t].msg]
      BY <1>1, <1>9
    <2> QED BY <1>9, <2>1 DEF Named
  <1>10. CASE Named(t) /\ chat[t].msg = m
    <2>1. PICK i \in DOMAIN copied[m] : copied[m][i].tmp = t
      BY <1>10 DEF Named
    <2>2. CASE \E j \in DOMAIN new : new[j] = copied[m][i]
      BY <1>6, <1>10, <2>1, <2>2
    <2>3. CASE copied[m][i].rule = SentRef.rule /\ copied[m][i].dst = SentRef.dst
      <3>1. Shows(chat, copied[m][i], m)
        BY <1>4 DEF TrueRefs
      <3> DEFINE r == SentRef.rule
                 d == SentRef.dst
                 u == SentRef.tmp
      <3>2. On(chat[t], m, r, d) /\ On(chat[u], m, r, d) /\ u \in DOMAIN chat
        BY <1>5, <2>1, <2>3, <3>1 DEF Shows, SameRoute, On
      <3>3. r \in Rules /\ d \in Dsts /\ ~RuleCfg[r].copyOnce
        BY <1>3, <3>2 DEF Ref, On, Plain
      <3>4. t = u
        BY <1>3, <3>2, <3>3 DEF RouteInv, OncePlaced
      <3> QED BY <1>6, <1>7, <1>10, <3>4
    <2> QED BY <1>7, <2>2, <2>3
  <1> QED BY <1>8, <1>9, <1>10 DEF Known

LEMMA KnownStep ==
    ASSUME RouteInv, TypeOK', [Next]_vars, ~Crash, "store" \notin Faults,
           NEW t \in DOMAIN chat', Live(t)', Plain(chat'[t].rule)
    PROVE  \/ Known(t)'
           \/ /\ t \in DOMAIN chat /\ Live(t)
              /\ \/ ~Known(t)
                 \/ DeleteNextId /\ ~needRetry /\ Head(ids) = chat[t].msg /\ Named(t)
  <1>a. TypeOK /\ CopyInv /\ copied \in [Messages -> Seq(Ref)]
    BY DEF RouteInv, CopyInv, IdInv, TypeOK
  <1>b. ChatStable
    BY <1>a, ChatStep
  <1>1. CASE t \notin DOMAIN chat
    <2>1. SendCopy /\ t = Len(chat) + 1
      BY <1>1, <1>a, LiveStep DEF LiveFrom
    <2>2. sending' # Idle /\ sending'.tmp = t
      <3>1. sending' = [sending EXCEPT !.tmp = Len(chat) + 1] /\ sending \in Sending
        BY <1>a, <2>1, SendCopyAdds
      <3> QED BY <2>1, <3>1 DEF Sending, Idle
    <2> QED BY <2>2 DEF Known, Unrecorded
  <1>2. CASE t \in DOMAIN chat
    <2> DEFINE m == chat[t].msg
    <2>a. Live(t) /\ chat'[t].msg = m /\ chat'[t].rule = chat[t].rule /\ m \in Messages
      <3>1. t # Len(chat) + 1
        BY <1>2, <1>a DEF TypeOK
      <3>2. Live(t)
        BY <1>a, <3>1, LiveStep DEF LiveFrom
      <3>3. chat[t] \in Copy
        BY <1>2, <1>a DEF TypeOK
      <3> QED BY <1>2, <1>b, <3>2, <3>3 DEF ChatStable, Copy
    <2> SUFFICES ASSUME Known(t)
                 PROVE  \/ Known(t)'
                        \/ DeleteNextId /\ ~needRetry /\ Head(ids) = m /\ Named(t)
      BY <1>2, <2>a
    <2> HIDE DEF m
    <2>b. copied' = copied /\ sending' = sending => Known(t)'
      BY <2>a DEF Known, Named, Unrecorded, m
    <2>c. ASSUME copied' = copied, sending = Idle PROVE Known(t)'
      BY <2>a, <2>c DEF Known, Named, Unrecorded, m
    <2>d. ASSUME sending # Idle
          PROVE  task.kind \in {"forward", "edit"} /\ task # Idle
      BY <2>d, <1>a DEF CopyInv, SendingSound, Idle
    <2>e. ASSUME copied' = copied, sending # Idle, sending.tmp = 0 PROVE Known(t)'
      <3>1. t # 0
        BY <1>2, <1>a DEF TypeOK
      <3> QED BY <2>a, <2>e, <3>1 DEF Known, Named, Unrecorded, m
    <2>1. CASE UNCHANGED <<workerVars, copied>>
      BY <2>1, <2>b DEF workerVars
    <2>2. CASE StartForward \/ StartEdit \/ StartDelete
      BY <2>2, <2>c, <2>d DEF StartForward, StartEdit, StartDelete, NextTaskIs, storeVars
    <2>3. CASE SendCopy \/ SendCopyFails
      BY <2>3, <2>e DEF SendCopy, SendCopyFails, storeVars
    <2>4. CASE ForwardNatively
      <3>1. sending # Idle /\ ~RuleCfg[sending.rule].sendCopy /\ copied' = copied
        BY <2>4 DEF ForwardNatively, storeVars
      <3>2. sending.tmp = 0
        BY <3>1 DEF RouteInv, CopiesRecorded
      <3> QED BY <3>1, <3>2, <2>e
    <2>5. CASE RecordCopy
      <3>1. \E i \in DOMAIN copied'[m] : copied'[m][i].tmp = t
        BY <1>2, <2>5, <2>a, RecordedKnown DEF m
      <3> QED BY <2>a, <3>1 DEF Known, Named
    <2>6. CASE EditUnconfirmed \/ EditSkipped \/ EditAsNewVersion \/ EditInPlace \/ FinishEdit
      BY <2>6, <2>c DEF EditUnconfirmed, EditSkipped, EditAsNewVersion, EditInPlace, FinishEdit,
                        Visiting, storeVars
    <2>7. CASE DeleteIndelible \/ DeleteUnconfirmed \/ DeleteCopy \/ FinishDelete
      BY <2>7, <2>b DEF DeleteIndelible, DeleteUnconfirmed, DeleteCopy, FinishDelete, storeVars
    <2>8. CASE DeleteNextId
      <3>1. CASE needRetry
        BY <2>8, <3>1, <2>b DEF DeleteNextId, KeepsList
      <3>2. CASE ~needRetry
        <4>1. copied' = [copied EXCEPT ![Head(ids)] = <<>>] /\ task.kind = "delete"
          BY <2>8, <3>2 DEF DeleteNextId, KeepsList
        <4>2. sending = Idle
          BY <4>1, <2>d
        <4>3. Named(t)
          BY <4>2 DEF Known, Unrecorded
        <4>4. CASE Head(ids) # m
          <5>1. copied'[m] = copied[m]
            BY <4>1, <4>4
          <5> QED BY <2>a, <4>3, <5>1 DEF Known, Named, m
        <4> QED BY <2>8, <3>2, <4>3, <4>4
      <3> QED BY <3>1, <3>2
    <2> QED BY <2>1, <2>2, <2>3, <2>4, <2>5, <2>6, <2>7, <2>8, WorkFrame DEF Edits, Deletes
  <1> QED BY <1>1, <1>2

\* Every element of a sequence is its head or in its tail.
LEMMA HeadOrTail ==
    ASSUME NEW S, NEW s \in Seq(S), s # <<>>, NEW k \in DOMAIN s
    PROVE  s[k] = Head(s) \/ \E j \in DOMAIN Tail(s) : Tail(s)[j] = s[k]
  <1>1. k \in 1..Len(s) /\ Len(s) \in Nat
    OBVIOUS
  <1>2. CASE k = 1
    BY <1>2
  <1>3. CASE k # 1
    <2>1. k - 1 \in 1..(Len(s) - 1) /\ (k - 1) + 1 = k
      BY <1>1, <1>3
    <2>2. DOMAIN Tail(s) = 1..(Len(s) - 1)
      <3>1. Len(Tail(s)) = Len(s) - 1 /\ Tail(s) \in Seq(S)
        OBVIOUS
      <3> QED BY <3>1
    <2>3. \A j \in DOMAIN Tail(s) : Tail(s)[j] = s[j + 1]
      BY TailShifts
    <2> QED BY <2>1, <2>2, <2>3
  <1> QED BY <1>2, <1>3

\* What a deletion may forget: the copies it has still to visit, those that are gone, and
\* those an Indelible rule keeps.
Walked(c) ==
    \/ \E k \in DOMAIN refs : refs[k] = c
    \/ ~Live(c.tmp)
    \/ RuleCfg[c.rule].indelible

WalkedInv ==
    task.kind = "delete" /\ ids # <<>> /\ ~needRetry =>
      \A i \in DOMAIN copied[Head(ids)] : Walked(copied[Head(ids)][i])

\* A copy Telegram has and the store does not know may stay: it is of an Indelible rule and
\* its source is gone.
ListedInv ==
    \A t \in DOMAIN chat : Live(t) /\ Plain(chat[t].rule) =>
      Known(t) \/ (chat[t].msg \in srcGone /\ RuleCfg[chat[t].rule].indelible)

LEMMA ListedStep ==
    ASSUME RouteInv, ListedInv, WalkedInv, TypeOK', [Next]_vars, ~Crash, "store" \notin Faults
    PROVE  ListedInv'
  <1>a. TypeOK /\ CopyInv /\ srcGone \subseteq srcGone' /\ ChatStable
    BY ChatStep, GoneStays DEF RouteInv, CopyInv, IdInv
  <1> SUFFICES ASSUME NEW t \in DOMAIN chat', Live(t)', Plain(chat'[t].rule), ~Known(t)'
               PROVE  chat'[t].msg \in srcGone' /\ RuleCfg[chat'[t].rule].indelible
    BY DEF ListedInv
  <1>1. /\ t \in DOMAIN chat /\ Live(t)
        /\ \/ ~Known(t)
           \/ DeleteNextId /\ ~needRetry /\ Head(ids) = chat[t].msg /\ Named(t)
    BY KnownStep
  <1>2. chat'[t].msg = chat[t].msg /\ chat'[t].rule = chat[t].rule
    BY <1>1, <1>a DEF ChatStable
  <1>3. CASE ~Known(t)
    BY <1>1, <1>2, <1>3, <1>a DEF ListedInv
  <1>4. CASE DeleteNextId /\ ~needRetry /\ Head(ids) = chat[t].msg /\ Named(t)
    <2> DEFINE m == chat[t].msg
    <2>1. PICK i \in DOMAIN copied[m] : copied[m][i].tmp = t
      BY <1>4 DEF Named
    <2>2. task.kind = "delete" /\ ids # <<>> /\ refs = <<>>
      BY <1>4 DEF DeleteNextId
    <2>3. Walked(copied[m][i])
      BY <1>4, <2>2 DEF WalkedInv
    <2>4. RuleCfg[copied[m][i].rule].indelible
      BY <1>1, <2>1, <2>2, <2>3 DEF Walked
    <2>5. m \in Messages
      <3>1. chat[t] \in Copy
        BY <1>1, <1>a DEF TypeOK
      <3> QED BY <3>1 DEF Copy
    <2>6. chat[t].rule = copied[m][i].rule
      BY <1>a, <2>1, <2>5 DEF CopyInv, ListsSound, TrueRefs, Shows, SameRoute
    <2>7. m \in srcGone
      <3>1. ids \in Seq(Messages) /\ ids # <<>>
        BY <2>2, <1>a DEF TypeOK
      <3>2. 1 \in DOMAIN ids /\ ids[1] = m
        BY <3>1, <1>4
      <3> QED BY <1>a, <2>2, <3>2 DEF CopyInv, WalkSound
    <2> QED BY <1>2, <1>a, <2>4, <2>6, <2>7
  <1> QED BY <1>1, <1>3, <1>4

LEMMA WalkedStep ==
    ASSUME CopyInv, WalkedInv, TypeOK', [Next]_vars, ~Crash, "delete" \notin Faults
    PROVE  WalkedInv'
  <1>a. TypeOK /\ refs \in Seq(Ref) /\ ids \in Seq(Messages) /\ copied \in [Messages -> Seq(Ref)]
    BY DEF CopyInv, IdInv, TypeOK
  <1>b. \A t \in DOMAIN chat : ~Live(t) => ~Live(t)'
    <2>1. chat \in Seq(Copy)
      BY <1>a DEF TypeOK
    <2>2. \A t \in DOMAIN chat : t \in DOMAIN chat'
      BY ChatStep DEF ChatStable
    <2>3. \A t \in DOMAIN chat : t # Len(chat) + 1
      BY <2>1
    <2> QED BY <2>2, <2>3, LiveStep DEF LiveFrom
  <1>c. ASSUME task'.kind # "delete" PROVE WalkedInv'
    BY <1>c DEF WalkedInv
  <1>d. task.kind = "delete" => sending = Idle
    BY DEF CopyInv, SendingSound
  <1>e. \A m \in Messages : \A i \in DOMAIN copied[m] : copied[m][i].tmp \in DOMAIN chat
    BY DEF CopyInv, ListsSound, TrueRefs, Shows
  <1>f. ids # <<>> => Head(ids) \in Messages
    BY <1>a
  <1>1. CASE UNCHANGED <<workerVars, copied>>
    <2>1. UNCHANGED <<task, refs, ids, needRetry, copied>>
      BY <1>1 DEF workerVars
    <2> QED BY <1>b, <1>e, <1>f, <2>1 DEF WalkedInv, Walked
  <1>2. CASE StartForward \/ StartEdit
    <2>1. task'.kind \in {"forward", "edit"}
      BY <1>2 DEF StartForward, StartEdit, NextTaskIs
    <2> QED BY <2>1, <1>c
  <1>3. CASE SendCopy \/ SendCopyFails \/ ForwardNatively \/ RecordCopy
    <2>1. sending # Idle /\ (task' = task \/ task' = Idle)
      BY <1>3 DEF SendCopy, SendCopyFails, ForwardNatively, RecordCopy, ReturnFromForward
    <2>2. task'.kind # "delete"
      BY <2>1, <1>d DEF Idle
    <2> QED BY <2>2, <1>c
  <1>4. CASE EditUnconfirmed \/ EditSkipped \/ EditAsNewVersion \/ EditInPlace
    <2>1. task'.kind = "edit"
      BY <1>4 DEF EditUnconfirmed, EditSkipped, EditAsNewVersion, EditInPlace, Visiting
    <2> QED BY <2>1, <1>c
  <1>5. CASE FinishEdit \/ FinishDelete
    <2>1. task'.kind # "delete"
      BY <1>5 DEF FinishEdit, FinishDelete, Finish, Idle
    <2> QED BY <2>1, <1>c
  <1>6. CASE StartDelete
    <2>1. ids' = Head(queue).ids /\ refs' = copied[Head(Head(queue).ids)] /\ copied' = copied
      BY <1>6 DEF StartDelete, storeVars
    <2>2. refs' = copied'[Head(ids')]
      BY <2>1
    <2> QED BY <2>2 DEF WalkedInv, Walked
  <1>7. CASE DeleteUnconfirmed
    BY <1>7 DEF DeleteUnconfirmed, WalkedInv
  <1>8. CASE DeleteIndelible \/ DeleteCopy
    <2>1. /\ refs # <<>> /\ task.kind = "delete" /\ refs' = Tail(refs)
          /\ UNCHANGED <<task, ids, needRetry, copied>>
      BY <1>8 DEF DeleteIndelible, DeleteCopy, Visiting, storeVars
    <2>2. \A k \in DOMAIN refs : refs[k] = Head(refs) \/ \E j \in DOMAIN refs' : refs'[j] = refs[k]
      BY <1>a, <2>1, HeadOrTail
    <2>3. \/ RuleCfg[Head(refs).rule].indelible
          \/ chat'[Head(refs).tmp].status = "deleted"
      <3>1. CASE DeleteIndelible
        BY <3>1 DEF DeleteIndelible, Keeps
      <3>2. CASE DeleteCopy
        <4> DEFINE t == Head(refs).tmp
        <4>1. t \in DOMAIN chat /\ CopyOf(newId[t]) = t
          BY <3>2, DeletedCopy
        <4>2. chat' = [chat EXCEPT ![t].status = "deleted"]
          BY <3>2, <4>1 DEF DeleteCopy
        <4>3. chat'[t].status = "deleted"
          <5>1. chat[t] \in Copy
            BY <4>1, <1>a DEF TypeOK
          <5> HIDE DEF t
          <5> QED BY <4>1, <4>2, <5>1 DEF Copy
        <4> QED BY <4>3
      <3> QED BY <1>8, <3>1, <3>2
    <2>4. ASSUME NEW c \in Ref, Walked(c), c.tmp \in DOMAIN chat
          PROVE  Walked(c)'
      <3>1. CASE \E k \in DOMAIN refs : refs[k] = c
        <4>1. CASE Head(refs) = c
          BY <2>3, <4>1 DEF Walked, Live
        <4>2. CASE Head(refs) # c
          BY <2>2, <3>1, <4>2 DEF Walked
        <4> QED BY <4>1, <4>2
      <3>2. CASE ~Live(c.tmp)
        BY <2>4, <3>2, <1>b DEF Walked
      <3>3. CASE RuleCfg[c.rule].indelible
        BY <3>3 DEF Walked
      <3> QED BY <2>4, <3>1, <3>2, <3>3 DEF Walked
    <2>5. ASSUME ids # <<>>, ~needRetry, NEW i \in DOMAIN copied[Head(ids)]
          PROVE  Walked(copied[Head(ids)][i])'
      <3>1. PICK c \in Ref : c = copied[Head(ids)][i]
        BY <2>5, <1>a, <1>f
      <3>2. Walked(c) /\ c.tmp \in DOMAIN chat
        BY <2>1, <2>5, <3>1, <1>e, <1>f DEF WalkedInv
      <3>3. Walked(c)'
        BY <2>4, <3>2
      <3> QED BY <2>1, <3>1, <3>3
    <2> QED BY <2>1, <2>5 DEF WalkedInv
  <1>9. CASE DeleteNextId
    <2>1. /\ ids' = Tail(ids) /\ ids # <<>>
          /\ refs' = IF Tail(ids) = <<>> THEN <<>> ELSE copied[Head(Tail(ids))]
          /\ copied' = copied \/ copied' = [copied EXCEPT ![Head(ids)] = <<>>]
      BY <1>9 DEF DeleteNextId
    <2>2. ASSUME ids' # <<>>
          PROVE  copied'[Head(ids')] = refs' \/ copied'[Head(ids')] = <<>>
      <3>1. Head(ids') \in Messages
        BY <1>a, <2>1, <2>2
      <3>2. refs' = copied[Head(ids')]
        BY <2>1, <2>2
      <3> QED BY <1>a, <2>1, <3>1, <3>2
    <2> QED BY <2>2 DEF WalkedInv, Walked
  <1> QED BY <1>1, <1>2, <1>3, <1>4, <1>5, <1>6, <1>7, <1>8, <1>9, WorkFrame DEF Edits, Deletes

\* The update loop is never at a message that is deleted already.
GoneQuiet == ingress # Idle => ingress.msg \notin srcGone

LEMMA GoneQuietStep ==
    ASSUME TypeOK, GoneQuiet, [Next]_vars
    PROVE  GoneQuiet'
  <1> USE DEF telegramVars
  <1>a. ASSUME srcGone' = srcGone,
               ingress' = ingress \/ ingress' = Idle
                 \/ (ingress # Idle /\ ingress'.msg = ingress.msg)
        PROVE  GoneQuiet'
    BY <1>a DEF GoneQuiet
  <1>b. ingress # Idle => ingress \in Ingress
    BY DEF TypeOK
  <1>1. CASE UpdateLoop
    <2>1. srcGone' = srcGone /\ ingress # Idle
      BY <1>1 DEF UpdateLoop, SkipRule, RouteOk, RouteDst, RouteStats, RouteAside
    <2>2. Rest = Idle \/ Rest.msg = ingress.msg
      BY <1>b, <2>1 DEF Rest, Ingress
    <2>3. CASE SkipRule \/ RouteStats
      <3>1. ingress' = Rest
        BY <2>3 DEF SkipRule, RouteStats
      <3> QED BY <2>1, <2>2, <3>1, <1>a
    <2>4. CASE RouteOk \/ RouteDst \/ \E v \in {"check", "other"} : RouteAside(v)
      <3>1. ingress'.msg = ingress.msg
        BY <1>b, <2>1, <2>4 DEF RouteOk, RouteDst, RouteAside, Ingress
      <3> QED BY <2>1, <3>1, <1>a
    <2> QED BY <1>1, <2>3, <2>4 DEF UpdateLoop
  <1>2. CASE Telegram
    <2>1. ASSUME NEW m \in Messages, OnNewMessage(m) PROVE GoneQuiet'
      <3>1. /\ m \notin srcGone /\ srcGone' = srcGone
            /\ ingress' = Idle \/ ingress'.msg = m
        BY <2>1 DEF OnNewMessage
      <3> QED BY <3>1 DEF GoneQuiet
    <2>2. ASSUME NEW b \in Batches, OnDeletedMessages(b) PROVE GoneQuiet'
      BY <2>2 DEF OnDeletedMessages, GoneQuiet
    <2>3. CASE \/ \E m \in Messages : OnEditUpdate(m)
               \/ \E t \in DOMAIN chat : OnMessageSendSucceeded(t) \/ SendFailed(t)
      BY <2>3, <1>a DEF OnEditUpdate, OnMessageSendSucceeded, SendFailed
    <2> QED BY <1>2, <2>1, <2>2, <2>3 DEF Telegram
  <1>3. CASE WriteNext \/ RunMap \/ RunStats \/ RunNative \/ StartForward \/ SendCopy \/ SendCopyFails
               \/ ForwardNatively \/ RecordCopy
    BY <1>3, <1>a DEF WriteNext, RunMap, RunStats, RunNative, StartForward, SendCopy, SendCopyFails,
                      ForwardNatively, RecordCopy
  <1>4. CASE Edits
    BY <1>4, <1>a DEF Edits, StartEdit, EditUnconfirmed, EditSkipped, EditAsNewVersion,
                      EditInPlace, FinishEdit
  <1>5. CASE Deletes
    BY <1>5, <1>a DEF Deletes, StartDelete, DeleteIndelible, DeleteUnconfirmed, DeleteCopy,
                      DeleteNextId, FinishDelete
  <1>6. CASE \/ \E g \in resolvers : Resolve(g)
             \/ \E l \in linkers : NextLink(l)
             \/ \E rs \in SUBSET Rules : SetRuleSetWithPush(rs)
             \/ Crash \/ UNCHANGED vars
    BY <1>6, <1>a DEF Resolve, ResolveEdit, OnEditedMessage, NextLink, LinkPoll, LinkRead,
                      LinkWrite, SetRuleSetWithPush, Crash, vars
  <1> QED BY <1>1, <1>2, <1>3, <1>4, <1>5, <1>6 DEF Next, Worker, WorkStep, Edits, Deletes

\* An undisturbed process keeps its rules.
LEMMA RulesStay ==
    ASSUME TypeOK, Undisturbed, [Next]_vars
    PROVE  rules' = rules /\ ~Crash
  <1>a. reloads \in 0..0 /\ crashes \in 0..0
    BY DEF TypeOK, Undisturbed
  <1>b. ~Crash
    BY <1>a DEF Crash, Undisturbed
  <1>c. ASSUME NEW rs, SetRuleSetWithPush(rs) PROVE FALSE
    BY <1>a, <1>c DEF SetRuleSetWithPush, Undisturbed
  <1> SUFFICES rules' = rules
    BY <1>b
  <1>1. CASE UpdateLoop
    BY <1>1 DEF UpdateLoop, SkipRule, RouteOk, RouteDst, RouteStats, RouteAside
  <1>2. CASE Telegram
    BY <1>2 DEF Telegram, OnNewMessage, OnEditUpdate, OnDeletedMessages,
                OnMessageSendSucceeded, SendFailed
  <1>3. CASE WriteNext \/ RunMap \/ RunStats \/ RunNative \/ StartForward \/ SendCopy \/ SendCopyFails
               \/ ForwardNatively \/ RecordCopy
    BY <1>3 DEF WriteNext, RunMap, RunStats, RunNative, StartForward, SendCopy, SendCopyFails,
                ForwardNatively, RecordCopy
  <1>4. CASE Edits
    BY <1>4 DEF Edits, StartEdit, EditUnconfirmed, EditSkipped, EditAsNewVersion,
                EditInPlace, FinishEdit
  <1>5. CASE Deletes
    BY <1>5 DEF Deletes, StartDelete, DeleteIndelible, DeleteUnconfirmed, DeleteCopy,
                DeleteNextId, FinishDelete
  <1>6. CASE \/ \E g \in resolvers : Resolve(g)
             \/ \E l \in linkers : NextLink(l)
             \/ UNCHANGED vars
    BY <1>6 DEF Resolve, ResolveEdit, OnEditedMessage, NextLink, LinkPoll, LinkRead,
                LinkWrite, vars
  <1> QED BY <1>b, <1>c, <1>1, <1>2, <1>3, <1>4, <1>5, <1>6 DEF Next, Worker, WorkStep, Edits, Deletes

\* Messages are given up for good, and deleted by Telegram alone.
LEMMA GivenUp ==
    ASSUME [Next]_vars
    PROVE  /\ gaveUp \subseteq gaveUp'
           /\ srcGone' = srcGone \/ \E b \in Batches : OnDeletedMessages(b)
  <1> USE DEF telegramVars
  <1>1. CASE UpdateLoop
    BY <1>1 DEF UpdateLoop, SkipRule, RouteOk, RouteDst, RouteStats, RouteAside
  <1>2. CASE Telegram
    BY <1>2 DEF Telegram, OnNewMessage, OnEditUpdate, OnDeletedMessages,
                OnMessageSendSucceeded, SendFailed
  <1>3. CASE WriteNext \/ RunMap \/ RunStats \/ RunNative \/ StartForward \/ SendCopy \/ SendCopyFails
               \/ ForwardNatively \/ RecordCopy
    BY <1>3 DEF WriteNext, RunMap, RunStats, RunNative, StartForward, SendCopy, SendCopyFails,
                ForwardNatively, RecordCopy
  <1>4. CASE Edits
    BY <1>4 DEF Edits, StartEdit, EditUnconfirmed, EditSkipped, EditAsNewVersion,
                EditInPlace, FinishEdit, Finish
  <1>5. CASE Deletes
    BY <1>5 DEF Deletes, StartDelete, DeleteIndelible, DeleteUnconfirmed, DeleteCopy,
                DeleteNextId, FinishDelete, Finish
  <1>6. CASE \/ \E g \in resolvers : Resolve(g)
             \/ \E l \in linkers : NextLink(l)
             \/ \E rs \in SUBSET Rules : SetRuleSetWithPush(rs)
             \/ Crash \/ UNCHANGED vars
    BY <1>6 DEF Resolve, ResolveEdit, OnEditedMessage, NextLink, LinkPoll, LinkRead,
                LinkWrite, SetRuleSetWithPush, Crash, vars
  <1> QED BY <1>1, <1>2, <1>3, <1>4, <1>5, <1>6 DEF Next, Worker, WorkStep, Edits, Deletes

\* No copy of a deleted message is queued any more.
LEMMA NoMoreForwards ==
    ASSUME CopyInv, GoneQuiet, TypeOK', [Next]_vars, ~Crash, NEW m \in srcGone
    PROVE  \/ queue' = queue \/ TakesTask
           \/ \E x \in Task : queue' = Append(queue, x) /\ ~ForwardOf(x, m)
  BY QueueCases DEF GoneQuiet, Queues, ForwardOf

\* Where a deleted message is that was not given up: its deletion waits behind all copies
\* of it; or is at work and has still to come to it, or will be retried; or nothing of it
\* is left to be deleted.
Removes(t, m) == t.kind = "delete" /\ \E i \in DOMAIN t.ids : t.ids[i] = m

DeleteWaits(m) == \E j \in DOMAIN queue : Removes(queue[j], m) /\ Behind(j, m)

DeleteAtWork(m) ==
    /\ Removes(task, m) /\ NoForwards(m)
    /\ needRetry \/ \E i \in DOMAIN ids : ids[i] = m

Clean(m) ==
    /\ NoForwards(m) /\ copied[m] = <<>>
    /\ sending # Idle => sending.msg # m
    /\ task.kind = "edit" /\ task.msg = m => refs = <<>>

DeletedInv == \A m \in srcGone \ gaveUp : DeleteWaits(m) \/ DeleteAtWork(m) \/ Clean(m)

\* A deletion is queued behind every copy of its messages.
LEMMA DeleteQueued ==
    ASSUME TypeOK, TypeOK', rules = Rules, NEW b \in Batches, OnDeletedMessages(b),
           NEW m \in Messages, \E i \in DOMAIN b : b[i] = m
    PROVE  DeleteWaits(m)' \/ Clean(m)'
  <1>1. CASE rules # {}
    <2> DEFINE x == [kind |-> "delete", ids |-> b, rs |-> rules, attempt |-> 0, at |-> clock']
    <2>1. queue' = Append(queue, x)
      BY <1>1 DEF OnDeletedMessages, Enqueue
    <2>2. Removes(x, m) /\ ~ForwardOf(x, m)
      BY DEF Removes, ForwardOf
    <2> HIDE DEF x
    <2>3. x \in Task
      BY <2>1, AppendedTask DEF TypeOK
    <2>4. \E k \in DOMAIN queue' : queue'[k] = x /\ Behind(k, m)'
      BY <2>1, <2>2, <2>3, LastIsBehind
    <2> QED BY <2>2, <2>4 DEF DeleteWaits
  <1>2. CASE rules = {}
    <2>1. Ref = {} /\ ForwardTask = {} /\ Sending = {}
      BY <1>2 DEF Ref, ForwardTask, Sending
    <2>2. copied'[m] = <<>> /\ refs' = <<>>
      <3>1. copied'[m] \in Seq({}) /\ refs' \in Seq({})
        BY <2>1 DEF TypeOK
      <3> QED BY <3>1
    <2>3. sending' = Idle
      BY <2>1 DEF TypeOK
    <2>4. NoForwards(m)'
      <3>1. \A i \in DOMAIN queue' : queue'[i] \in Task
        BY DEF TypeOK
      <3>2. \A i \in DOMAIN queue' : queue'[i].kind # "forward"
        BY <2>1, <3>1, TaskKinds
      <3> QED BY <3>2 DEF NoForwards, ForwardOf
    <2> QED BY <2>2, <2>3, <2>4 DEF Clean
  <1> QED BY <1>1, <1>2

\* A waiting deletion waits on, or is taken up.
LEMMA DeleteWaitsStep ==
    ASSUME CopyInv, GoneQuiet, TypeOK', [Next]_vars, ~Crash, NEW m \in srcGone, DeleteWaits(m)
    PROVE  DeleteWaits(m)' \/ DeleteAtWork(m)'
  <1>1. PICK j \in DOMAIN queue : Removes(queue[j], m) /\ Behind(j, m)
    BY DEF DeleteWaits
  <1>2. TypeOK
    BY DEF CopyInv, IdInv
  <1>3. \/ \E k \in DOMAIN queue' : queue'[k] = queue[j] /\ Behind(k, m)'
        \/ TakesTask /\ queue[j] = Head(queue) /\ NoForwards(m)'
    BY <1>1, <1>2, BehindKept, NoMoreForwards
  <1>4. CASE \E k \in DOMAIN queue' : queue'[k] = queue[j] /\ Behind(k, m)'
    BY <1>1, <1>4 DEF DeleteWaits
  <1>5. CASE TakesTask /\ queue[j] = Head(queue) /\ NoForwards(m)'
    <2>1. Head(queue).kind = "delete" /\ \E i \in DOMAIN Head(queue).ids : Head(queue).ids[i] = m
      BY <1>1, <1>5 DEF Removes
    <2>2. StartDelete
      BY <1>5, <2>1 DEF TakesTask, RunMap, RunStats, RunNative, StartForward, StartEdit, NextTaskIs
    <2>3. task' = Head(queue) /\ ids' = Head(queue).ids
      BY <2>2 DEF StartDelete
    <2> QED BY <1>5, <2>1, <2>3 DEF DeleteAtWork, Removes
  <1> QED BY <1>3, <1>4, <1>5

\* A deletion at work comes to its message, is queued again, or gives the message up.
LEMMA DeleteAtWorkStep ==
    ASSUME CopyInv, GoneQuiet, TypeOK', [Next]_vars, ~Crash, "store" \notin Faults,
           NEW m \in srcGone, m \notin gaveUp', DeleteAtWork(m)
    PROVE  DeleteWaits(m)' \/ DeleteAtWork(m)' \/ Clean(m)'
  <1>a. TypeOK /\ ids \in Seq(Messages) /\ m \in Messages /\ copied \in [Messages -> Seq(Ref)]
    BY DEF CopyInv, IdInv, TypeOK
  <1>b. task.kind = "delete" /\ Removes(task, m) /\ task # Idle
    BY DEF DeleteAtWork, Removes, Idle
  <1>c. sending = Idle
    BY <1>b DEF CopyInv, SendingSound
  <1>d. NoForwards(m)'
    BY <1>a, BehindKept, NoMoreForwards DEF DeleteAtWork
  <1>1. CASE UNCHANGED <<workerVars, copied>>
    BY <1>1, <1>d DEF workerVars, DeleteAtWork, Removes
  <1>2. CASE StartForward \/ StartEdit \/ StartDelete
    BY <1>2, <1>b DEF StartForward, StartEdit, StartDelete, NextTaskIs
  <1>3. CASE SendCopy \/ SendCopyFails \/ ForwardNatively \/ RecordCopy
    BY <1>3, <1>c DEF SendCopy, SendCopyFails, ForwardNatively, RecordCopy
  <1>4. CASE EditUnconfirmed \/ EditSkipped \/ EditAsNewVersion \/ EditInPlace \/ FinishEdit
    BY <1>4, <1>b DEF EditUnconfirmed, EditSkipped, EditAsNewVersion, EditInPlace, FinishEdit,
                      Visiting
  <1>5. CASE DeleteIndelible \/ DeleteUnconfirmed \/ DeleteCopy
    <2>1. UNCHANGED <<task, ids>> /\ (needRetry => needRetry')
      BY <1>5 DEF DeleteIndelible, DeleteUnconfirmed, DeleteCopy
    <2> QED BY <1>d, <2>1 DEF DeleteAtWork, Removes
  <1>6. CASE DeleteNextId
    <2>1. /\ ids # <<>> /\ ids' = Tail(ids) /\ UNCHANGED <<task, needRetry, sending>>
          /\ needRetry \/ copied' = [copied EXCEPT ![Head(ids)] = <<>>]
      BY <1>6 DEF DeleteNextId, KeepsList
    <2>2. CASE needRetry
      BY <1>d, <2>1, <2>2 DEF DeleteAtWork, Removes
    <2>3. CASE ~needRetry /\ Head(ids) = m
      <3>1. copied'[m] = <<>>
        BY <1>a, <2>1, <2>3
      <3> QED BY <1>b, <1>c, <1>d, <2>1, <3>1 DEF Clean
    <2>4. CASE ~needRetry /\ Head(ids) # m
      <3>1. PICK k \in DOMAIN ids : ids[k] = m
        BY <2>4 DEF DeleteAtWork
      <3>2. \E j \in DOMAIN ids' : ids'[j] = m
        BY <1>a, <2>1, <2>4, <3>1, HeadOrTail
      <3> QED BY <1>d, <2>1, <3>2 DEF DeleteAtWork, Removes
    <2> QED BY <2>2, <2>3, <2>4
  <1>7. CASE FinishDelete
    <2>1. /\ Finish({task.ids[i] : i \in DOMAIN task.ids})
          /\ needRetry
      BY <1>7 DEF FinishDelete, DeleteAtWork
    <2>2. m \in {task.ids[i] : i \in DOMAIN task.ids}
      BY <1>b DEF Removes
    <2>3. task \in DeleteTask
      BY <1>a, <1>b, TaskKinds DEF TypeOK
    <2>4. task.attempt \in Nat /\ MaxRetry \in Nat
      BY <2>3, BoundAssumption DEF DeleteTask
    <2>5. task.attempt < MaxRetry
      <3>1. ~(task.attempt >= MaxRetry)
        BY <2>1, <2>2 DEF Finish
      <3> QED BY <2>4, <3>1
    <2>6. queue' = Append(queue, Retried(task))
      BY <2>1, <2>5 DEF Finish, MayRetry, Enqueue
    <2>7. Retried(task).kind = "delete" /\ Retried(task).ids = task.ids
      BY <2>3 DEF Retried, DeleteTask
    <2>8. Removes(Retried(task), m) /\ ~ForwardOf(Retried(task), m)
      BY <1>b, <2>7 DEF Removes, ForwardOf
    <2>9. Retried(task) \in Task
      BY <1>a, <2>6, AppendedTask DEF TypeOK
    <2>10. \E k \in DOMAIN queue' : queue'[k] = Retried(task) /\ Behind(k, m)'
      BY <1>a, <2>6, <2>8, <2>9, LastIsBehind
    <2> QED BY <2>8, <2>10 DEF DeleteWaits
  <1> QED BY <1>1, <1>2, <1>3, <1>4, <1>5, <1>6, <1>7, WorkFrame DEF Edits, Deletes

\* Where nothing is left, nothing comes back.
LEMMA CleanStep ==
    ASSUME CopyInv, GoneQuiet, TypeOK', [Next]_vars, ~Crash, NEW m \in srcGone, Clean(m)
    PROVE  Clean(m)'
  <1>a. TypeOK /\ queue \in Seq(Task) /\ m \in Messages /\ copied \in [Messages -> Seq(Ref)]
    BY DEF CopyInv, IdInv, TypeOK
  <1>b. NoForwards(m)'
    BY <1>a, BehindKept, NoMoreForwards DEF Clean
  <1>c. queue # <<>> => ~ForwardOf(Head(queue), m)
    <2>1. queue # <<>> => 1 \in DOMAIN queue /\ queue[1] = Head(queue)
      BY <1>a
    <2> QED BY <2>1 DEF Clean, NoForwards
  <1>d. sending # Idle => sending \in Sending /\ task.kind \in {"forward", "edit"}
    BY <1>a DEF TypeOK, CopyInv, SendingSound
  <1>1. CASE UNCHANGED <<workerVars, copied>>
    BY <1>1, <1>b DEF workerVars, Clean
  <1>2. CASE StartForward
    <2>1. /\ Head(queue).kind = "forward" /\ queue # <<>> /\ task' = Head(queue)
          /\ sending'.msg = Head(queue).msg /\ copied' = copied
      BY <1>2 DEF StartForward, NextTaskIs, storeVars
    <2> QED BY <1>b, <1>c, <2>1 DEF Clean, ForwardOf
  <1>3. CASE SendCopy
    <2>1. sending # Idle /\ sending' = [sending EXCEPT !.tmp = Len(chat) + 1]
          /\ UNCHANGED <<task, refs, copied>>
      BY <1>3 DEF SendCopy, storeVars
    <2>2. sending'.msg = sending.msg
      BY <1>d, <2>1 DEF Sending
    <2> QED BY <1>b, <2>1, <2>2 DEF Clean
  <1>4. CASE SendCopyFails \/ ForwardNatively
    <2>1. sending' = Idle /\ UNCHANGED <<refs, copied>> /\ (task' = task \/ task' = Idle)
      BY <1>4 DEF SendCopyFails, ForwardNatively, ReturnFromForward, storeVars
    <2> QED BY <1>b, <2>1 DEF Clean, Idle
  <1>5. CASE RecordCopy
    <2>1. sending # Idle /\ sending' = Idle /\ refs' = refs /\ (task' = task \/ task' = Idle)
      BY <1>5 DEF RecordCopy, ReturnFromForward
    <2>2. copied'[m] = copied[m]
      <3>1. sending.msg # m
        BY <2>1 DEF Clean
      <3>2. copied' = copied \/ \E list : copied' = [copied EXCEPT ![sending.msg] = list]
        BY <1>5 DEF RecordCopy
      <3> QED BY <1>a, <3>1, <3>2
    <2> QED BY <1>b, <2>1, <2>2 DEF Clean, Idle
  <1>6. CASE StartEdit
    <2>1. /\ task' = Head(queue) /\ refs' = copied[Head(queue).msg]
          /\ UNCHANGED <<sending, copied>>
      BY <1>6 DEF StartEdit, storeVars
    <2> QED BY <1>b, <2>1 DEF Clean
  <1>7. CASE EditUnconfirmed \/ EditSkipped \/ EditInPlace
    <2>1. /\ refs # <<>> /\ task.kind = "edit" /\ UNCHANGED <<task, sending, copied>>
      BY <1>7 DEF EditUnconfirmed, EditSkipped, EditInPlace, Visiting, storeVars
    <2> QED BY <1>b, <2>1 DEF Clean
  <1>8. CASE EditAsNewVersion
    <2>1. /\ refs # <<>> /\ task.kind = "edit" /\ UNCHANGED <<task, copied>>
          /\ sending'.msg = task.msg
      BY <1>8 DEF EditAsNewVersion, Visiting, storeVars
    <2> QED BY <1>b, <2>1 DEF Clean
  <1>9. CASE FinishEdit \/ FinishDelete
    <2>1. task' = Idle /\ UNCHANGED <<sending, copied>>
      BY <1>9 DEF FinishEdit, FinishDelete, Finish, storeVars
    <2> QED BY <1>b, <2>1 DEF Clean, Idle
  <1>10. CASE StartDelete
    <2>1. task'.kind = "delete" /\ UNCHANGED <<sending, copied>>
      BY <1>10 DEF StartDelete, NextTaskIs, storeVars
    <2> QED BY <1>b, <2>1 DEF Clean
  <1>11. CASE DeleteIndelible \/ DeleteUnconfirmed \/ DeleteCopy
    <2>1. task.kind = "delete" /\ UNCHANGED <<task, sending, copied>>
      BY <1>11 DEF DeleteIndelible, DeleteUnconfirmed, DeleteCopy, Visiting, storeVars
    <2> QED BY <1>b, <2>1 DEF Clean
  <1>12. CASE DeleteNextId
    <2>1. /\ task.kind = "delete" /\ UNCHANGED <<task, sending>>
          /\ copied' = copied \/ copied' = [copied EXCEPT ![Head(ids)] = <<>>]
      BY <1>12 DEF DeleteNextId
    <2>2. copied'[m] = <<>>
      BY <1>a, <2>1 DEF Clean
    <2> QED BY <1>b, <2>1, <2>2 DEF Clean
  <1> QED BY <1>1, <1>2, <1>3, <1>4, <1>5, <1>6, <1>7, <1>8, <1>9, <1>10, <1>11, <1>12,
             WorkFrame DEF Edits, Deletes

\* What an undisturbed process keeps about deletions.
RestInv ==
    RouteInv /\ rules = Rules /\ GoneQuiet /\ ListedInv /\ WalkedInv /\ DeletedInv

LEMMA RestInit == Init => RestInv
  <1> SUFFICES ASSUME Init PROVE RestInv
    OBVIOUS
  <1>1. rules = Rules /\ GoneQuiet /\ DeletedInv
    BY DEF Init, GoneQuiet, DeletedInv
  <1>2. ListedInv /\ WalkedInv
    BY DEF Init, ListedInv, WalkedInv
  <1> QED BY <1>1, <1>2, RouteInit DEF RestInv

LEMMA RestStep ==
    ASSUME Undisturbed, "delete" \notin Faults, RestInv, [Next]_vars
    PROVE  RestInv'
  <1>1. RouteInv' /\ RouteInv
    BY RouteInvStep DEF RestInv
  <1>2. TypeOK /\ CopyInv /\ TypeOK'
    BY <1>1 DEF RouteInv, CopyInv, IdInv
  <1>3. rules' = rules /\ ~Crash
    BY <1>2, RulesStay
  <1>4. GoneQuiet' /\ ListedInv' /\ WalkedInv'
    BY <1>1, <1>2, <1>3, GoneQuietStep, ListedStep, WalkedStep
       DEF RestInv, Undisturbed
  <1>5. ASSUME NEW m \in srcGone', m \notin gaveUp'
        PROVE  DeleteWaits(m)' \/ DeleteAtWork(m)' \/ Clean(m)'
    <2>1. CASE m \in srcGone
      <3>1. DeleteWaits(m) \/ DeleteAtWork(m) \/ Clean(m)
        BY <1>5, <2>1, GivenUp DEF RestInv, DeletedInv
      <3> QED BY <1>2, <1>3, <1>5, <2>1, <3>1, DeleteWaitsStep, DeleteAtWorkStep, CleanStep
              DEF RestInv, Undisturbed
    <2>2. CASE m \notin srcGone
      <3>1. PICK b \in Batches : OnDeletedMessages(b)
        BY <1>5, <2>2, GivenUp
      <3>2. m \in Messages /\ \E i \in DOMAIN b : b[i] = m
        BY <1>2, <1>5, <2>2, <3>1 DEF OnDeletedMessages, TypeOK
      <3> QED BY <1>2, <3>1, <3>2, DeleteQueued DEF RestInv
    <2> QED BY <2>1, <2>2
  <1> QED BY <1>1, <1>3, <1>4, <1>5 DEF RestInv, DeletedInv

\* In a process that neither dies nor changes its rules nor fails to write its store, and as
\* long as Telegram carries out the deletions it is asked for, a message deleted at the
\* source leaves nothing behind once the process is at rest: whatever order copies,
\* confirmations, edits and retries took, no copy of it that may be deleted is left, unless
\* its retries ran out (deleteMessagesWithRetry).
THEOREM DeletionsReachEveryCopy ==
    ASSUME MaxCrashes = 0, MaxReloads = 0, {"delete", "store"} \cap Faults = {}
    PROVE  Spec => []DeletedAtRest
  <1>1. RestInv => DeletedAtRest
    <2> SUFFICES ASSUME RestInv, AtRest, NEW m \in srcGone \ gaveUp
                 PROVE  /\ copied[m] = <<>>
                        /\ \A t \in DOMAIN chat :
                             chat[t].msg = m /\ chat[t].status \in {"pending", "sent"} =>
                               RuleCfg[chat[t].rule].indelible \/ RuleCfg[chat[t].rule].copyOnce
      BY DEF DeletedAtRest
    <2>1. queue = <<>> /\ task = Idle
      BY DEF AtRest
    <2>2. ~DeleteWaits(m) /\ ~DeleteAtWork(m)
      BY <2>1 DEF DeleteWaits, DeleteAtWork, Removes, Idle
    <2>3. copied[m] = <<>>
      BY <2>2 DEF RestInv, DeletedInv, Clean
    <2>4. sending = Idle
      BY <2>1 DEF RestInv, RouteInv, CopyInv, SendingSound, Idle
    <2>5. ASSUME NEW t \in DOMAIN chat, chat[t].msg = m, Live(t), Plain(chat[t].rule)
          PROVE  RuleCfg[chat[t].rule].indelible
      <3>1. ~Known(t)
        BY <2>3, <2>4, <2>5 DEF Known, Named, Unrecorded
      <3> QED BY <2>5, <3>1 DEF RestInv, ListedInv
    <2> QED BY <2>3, <2>5 DEF Live, Plain
  <1>2. RestInv /\ [Next]_vars => RestInv'
    BY RestStep DEF Undisturbed
  <1> QED BY <1>1, <1>2, RestInit, PTL DEF Spec

(***************************************************************************)
(* One edit of a message                                                   *)
(***************************************************************************)

\* Where a message is edited once, its second version is the last.
EditedOnce == Undisturbed /\ MaxVersion <= 2

\* A queued copy is of the first version; an edit is of the second, and of every rule.
Versed(t) ==
    /\ t.kind = "forward" => t.ver = 1
    /\ t.kind = "edit" => t.ver = 2 /\ t.rs = Rules /\ srcVer[t.msg] = 2

TasksInv ==
    /\ Versed(task) /\ \A i \in DOMAIN queue : Versed(queue[i])
    /\ \A g \in resolvers : srcVer[g.msg] = 2 /\ g.ver \in {0, 2}

\* No edit comes while the update loop is at a message.
IngressInv == ingress # Idle => srcVer[ingress.msg] = 1

LEMMA SourceStep ==
    ASSUME TypeOK, EditedOnce, [Next]_vars, NEW m \in Messages
    PROVE  \/ srcVer'[m] = srcVer[m]
           \/ srcVer[m] = 0 /\ srcVer'[m] = 1 /\ OnNewMessage(m)
           \/ srcVer[m] = 1 /\ srcVer'[m] = 2 /\ OnEditUpdate(m)
  <1> USE DEF telegramVars
  <1>1. CASE UpdateLoop
    BY <1>1 DEF UpdateLoop, SkipRule, RouteOk, RouteDst, RouteStats, RouteAside
  <1>2. CASE Telegram
    <2>1. ASSUME NEW n \in Messages, OnNewMessage(n)
          PROVE  srcVer'[m] = srcVer[m]
                 \/ (srcVer[m] = 0 /\ srcVer'[m] = 1 /\ OnNewMessage(m))
      BY <2>1 DEF OnNewMessage, TypeOK
    <2>2. ASSUME NEW n \in Messages, OnEditUpdate(n)
          PROVE  srcVer'[m] = srcVer[m]
                 \/ (srcVer[m] = 1 /\ srcVer'[m] = 2 /\ OnEditUpdate(m))
      <3>1. srcVer[n] = 1
        BY <2>2, BoundAssumption DEF OnEditUpdate, EditedOnce
      <3>2. srcVer' = [srcVer EXCEPT ![n] = 2] /\ srcVer \in [Messages -> Versions \cup {0}]
        BY <2>2, <3>1 DEF OnEditUpdate, TypeOK
      <3>3. CASE n = m
        <4>1. srcVer'[m] = 2
          BY <3>2, <3>3
        <4> QED BY <2>2, <3>1, <3>3, <4>1
      <3>4. CASE n # m
        BY <3>2, <3>4
      <3> QED BY <3>3, <3>4
    <2>3. CASE \/ \E b \in Batches : OnDeletedMessages(b)
               \/ \E t \in DOMAIN chat : OnMessageSendSucceeded(t) \/ SendFailed(t)
      BY <2>3 DEF OnDeletedMessages, OnMessageSendSucceeded, SendFailed
    <2> QED BY <1>2, <2>1, <2>2, <2>3 DEF Telegram
  <1>3. CASE WriteNext \/ RunMap \/ RunStats \/ RunNative \/ StartForward \/ SendCopy \/ SendCopyFails
               \/ ForwardNatively \/ RecordCopy
    BY <1>3 DEF WriteNext, RunMap, RunStats, RunNative, StartForward, SendCopy, SendCopyFails,
                ForwardNatively, RecordCopy
  <1>4. CASE Edits
    BY <1>4 DEF Edits, StartEdit, EditUnconfirmed, EditSkipped, EditAsNewVersion,
                EditInPlace, FinishEdit
  <1>5. CASE Deletes
    BY <1>5 DEF Deletes, StartDelete, DeleteIndelible, DeleteUnconfirmed, DeleteCopy,
                DeleteNextId, FinishDelete
  <1>6. CASE \/ \E g \in resolvers : Resolve(g)
             \/ \E l \in linkers : NextLink(l)
             \/ \E rs \in SUBSET Rules : SetRuleSetWithPush(rs)
             \/ Crash \/ UNCHANGED vars
    BY <1>6 DEF Resolve, ResolveEdit, OnEditedMessage, NextLink, LinkPoll, LinkRead,
                LinkWrite, SetRuleSetWithPush, Crash, vars
  <1> QED BY <1>1, <1>2, <1>3, <1>4, <1>5, <1>6 DEF Next, Worker, WorkStep, Edits, Deletes

\* Who changes the goroutines of the edits.
LEMMA ResolverMoves ==
    ASSUME [Next]_vars, ~Crash
    PROVE  \/ resolvers' = resolvers
           \/ \E m \in Messages : OnEditUpdate(m)
           \/ \E g \in resolvers : Resolve(g)
  <1>1. CASE UpdateLoop
    BY <1>1 DEF UpdateLoop, SkipRule, RouteOk, RouteDst, RouteStats, RouteAside
  <1>2. CASE Telegram
    BY <1>2 DEF Telegram, OnNewMessage, OnDeletedMessages, OnMessageSendSucceeded, SendFailed
  <1>3. CASE WriteNext \/ RunMap \/ RunStats \/ RunNative \/ StartForward \/ SendCopy \/ SendCopyFails
               \/ ForwardNatively \/ RecordCopy
    BY <1>3 DEF WriteNext, RunMap, RunStats, RunNative, StartForward, SendCopy, SendCopyFails,
                ForwardNatively, RecordCopy
  <1>4. CASE Edits
    BY <1>4 DEF Edits, StartEdit, EditUnconfirmed, EditSkipped, EditAsNewVersion,
                EditInPlace, FinishEdit
  <1>5. CASE Deletes
    BY <1>5 DEF Deletes, StartDelete, DeleteIndelible, DeleteUnconfirmed, DeleteCopy,
                DeleteNextId, FinishDelete
  <1>6. CASE \/ \E l \in linkers : NextLink(l)
             \/ \E rs \in SUBSET Rules : SetRuleSetWithPush(rs)
             \/ UNCHANGED vars
    BY <1>6 DEF NextLink, LinkPoll, LinkRead, LinkWrite, SetRuleSetWithPush, vars
  <1> QED BY <1>1, <1>2, <1>3, <1>4, <1>5, <1>6 DEF Next, Worker, WorkStep, Edits, Deletes

LEMMA TasksStep ==
    ASSUME CopyInv, TypeOK', EditedOnce, [Next]_vars, rules = Rules, TasksInv
    PROVE  TasksInv'
  <1>a. TypeOK /\ queue \in Seq(Task) /\ resolvers \subseteq Resolver
    BY DEF CopyInv, IdInv, TypeOK
  <1>b. ~Crash
    BY <1>a, RulesStay DEF EditedOnce
  <1>c. \A m \in Messages : srcVer[m] = 2 => srcVer'[m] = 2
    BY <1>a, SourceStep
  <1>d. \A t \in Task \cup {Idle} : t.kind = "edit" => t.msg \in Messages
    BY TaskKinds DEF EditTask
  <1>e. \A t \in Task \cup {Idle} : Versed(t) => Versed(t)'
    BY <1>c, <1>d DEF Versed
  <1>f. /\ Versed(task)' \/ task' # task
        /\ \A i \in DOMAIN queue : queue[i] \in Task /\ Versed(queue[i])
    BY <1>a, <1>e DEF TasksInv, TypeOK, Versed
  <1>g. \A g \in resolvers : g.msg \in Messages /\ srcVer'[g.msg] = 2 /\ g.ver \in {0, 2}
    BY <1>a, <1>c DEF TasksInv, Resolver
  <1>1. Versed(task)'
    <2>1. CASE task' = task
      BY <2>1, <1>f
    <2>2. CASE task' = Idle
      BY <2>2 DEF Versed, Idle
    <2>3. CASE TakesHead
      <3>1. 1 \in DOMAIN queue /\ queue[1] = Head(queue)
        BY <1>a, <2>3 DEF TakesHead
      <3>2. PICK t \in Task : t = Head(queue) /\ Versed(t)
        BY <1>f, <3>1
      <3>3. Versed(t)'
        BY <1>e, <3>2
      <3> QED BY <2>3, <3>2, <3>3 DEF TakesHead, Versed
    <2> QED BY <2>1, <2>2, <2>3, Takes
  <1>2. ASSUME NEW i \in DOMAIN queue' PROVE Versed(queue[i])'
    <2>a. ASSUME NEW k \in DOMAIN queue, queue'[i] = queue[k]
          PROVE  Versed(queue[i])'
      <3>1. PICK t \in Task : t = queue[k] /\ Versed(t)
        BY <1>f
      <3>2. Versed(t)'
        BY <1>e, <3>1
      <3> QED BY <2>a, <3>1, <3>2
    <2>1. CASE queue' = queue
      BY <2>1, <2>a
    <2>2. CASE TakesTask
      <3>1. queue # <<>> /\ queue' = Tail(queue)
        BY <2>2 DEF TakesTask, RunMap, RunStats, RunNative, StartForward, StartEdit, StartDelete,
                    NextTaskIs, Dequeue
      <3>2. i + 1 \in DOMAIN queue /\ queue'[i] = queue[i + 1]
        BY <1>a, <3>1, TailShifts
      <3> QED BY <3>2, <2>a
    <2>3. ASSUME NEW x \in Task, Queues(x) PROVE Versed(queue[i])'
      <3>1. (i \in DOMAIN queue /\ queue'[i] = queue[i]) \/ queue'[i] = x
        BY <1>a, <2>3, AppendExtends DEF Queues
      <3>2. Versed(x)
        <4>1. x.kind = "edit" => x.ver = 2 /\ x.rs = Rules /\ srcVer[x.msg] = 2
          <5>1. CASE \E g \in resolvers : g.ver # 0 /\ x.msg = g.msg /\ x.ver = g.ver /\ x.rs = rules
            BY <5>1 DEF TasksInv
          <5>2. CASE task.kind = "edit" /\ x.msg = task.msg /\ x.ver = task.ver /\ x.rs = task.rs
            BY <5>2 DEF TasksInv, Versed
          <5> QED BY <2>3, <5>1, <5>2 DEF Queues
        <4> QED BY <2>3, <4>1 DEF Queues, Versed
      <3>3. Versed(x)'
        BY <1>e, <3>2
      <3> QED BY <3>1, <3>3, <2>a
    <2> QED BY <1>b, <2>1, <2>2, <2>3, QueueCases
  <1>3. \A g \in resolvers' : srcVer'[g.msg] = 2 /\ g.ver \in {0, 2}
    <2>1. CASE resolvers' = resolvers
      BY <1>g, <2>1
    <2>2. ASSUME NEW m \in Messages, OnEditUpdate(m)
          PROVE  \A g \in resolvers' : srcVer'[g.msg] = 2 /\ g.ver \in {0, 2}
      <3>0. srcVer[m] = 1
        BY <2>2, BoundAssumption DEF OnEditUpdate, EditedOnce
      <3>1. srcVer' = [srcVer EXCEPT ![m] = 2]
        BY <2>2, <3>0 DEF OnEditUpdate
      <3>2. srcVer'[m] = 2
        BY <1>a, <3>1 DEF TypeOK
      <3>3. resolvers' = resolvers \cup {[msg |-> m, for |-> srcVer[m] + 1, ver |-> 0]}
        BY <2>2 DEF OnEditUpdate
      <3> QED BY <1>g, <3>2, <3>3
    <2>3. ASSUME NEW g \in resolvers, Resolve(g)
          PROVE  \A h \in resolvers' : srcVer'[h.msg] = 2 /\ h.ver \in {0, 2}
      <3>1. resolvers' \subseteq resolvers \cup {[g EXCEPT !.ver = srcVer[g.msg]]}
        BY <2>3 DEF Resolve, ResolveEdit, OnEditedMessage
      <3>2. g \in Resolver /\ srcVer[g.msg] = 2 /\ srcVer'[g.msg] = 2
        BY <1>a, <1>g DEF TasksInv
      <3> DEFINE h == [g EXCEPT !.ver = srcVer[g.msg]]
      <3>3. h.msg = g.msg /\ h.ver = 2
        BY <3>2 DEF Resolver
      <3> HIDE DEF h
      <3> QED BY <1>g, <3>1, <3>2, <3>3 DEF h
    <2> QED BY <1>b, <2>1, <2>2, <2>3, ResolverMoves
  <1> QED BY <1>1, <1>2, <1>3 DEF TasksInv

LEMMA IngressStep ==
    ASSUME TypeOK, TypeOK', EditedOnce, [Next]_vars, IngressInv
    PROVE  IngressInv'
  <1>1. CASE ingress' = Idle
    BY <1>1 DEF IngressInv
  <1>2. ASSUME NEW m \in Messages, OnNewMessage(m) PROVE IngressInv'
    <2>1. srcVer'[m] = 1 /\ (ingress' = Idle \/ ingress'.msg = m)
      BY <1>2 DEF OnNewMessage, TypeOK
    <2> QED BY <2>1 DEF IngressInv
  <1>3. ASSUME ingress' # Idle, ingress # Idle, ingress'.msg = ingress.msg PROVE IngressInv'
    <2>1. ingress.msg \in Messages
      BY <1>3 DEF TypeOK, Ingress
    <2>2. srcVer'[ingress.msg] = 1
      BY <1>3, <2>1, SourceStep DEF IngressInv, OnEditUpdate
    <2> QED BY <1>3, <2>2 DEF IngressInv
  <1>4. CASE SkipRule \/ RouteOk \/ RouteStats \/ Routes
    <2>1. ingress # Idle /\ ingress \in Ingress
      BY <1>4 DEF SkipRule, RouteOk, RouteStats, Routes, RouteDst, RouteAside, TypeOK
    <2>2. Rest = Idle \/ Rest.msg = ingress.msg
      BY <2>1 DEF Rest, Ingress
    <2>3. CASE SkipRule \/ RouteStats
      <3>1. ingress' = Rest
        BY <2>3 DEF SkipRule, RouteStats
      <3> QED BY <2>1, <2>2, <3>1, <1>1, <1>3
    <2>4. CASE RouteOk \/ Routes
      <3>1. ingress'.msg = ingress.msg
        BY <2>1, <2>4 DEF RouteOk, Routes, RouteDst, RouteAside, Ingress
      <3> QED BY <2>1, <3>1, <1>1, <1>3
    <2> QED BY <1>4, <2>3, <2>4
  <1> QED BY <1>1, <1>2, <1>3, <1>4, IngressMoves

\* A call in progress is for the message of its task; for a rule without versions it is a
\* forward of the first version, and what it has sent shows that version, without an answer.
SentInv ==
    sending # Idle =>
      /\ sending.msg = task.msg
      /\ Plain(sending.rule) =>
           /\ task.kind = "forward" /\ sending.ver = 1
           /\ sending.tmp # 0 =>
                /\ Live(sending.tmp) => chat[sending.tmp].ver = 1
                /\ answer[sending.tmp] = NoMsg

\* A copy without versions shows the first, or the second that the source has too.
ChatInv ==
    \A t \in DOMAIN chat : Live(t) /\ Plain(chat[t].rule) =>
      chat[t].ver = 1 \/ (chat[t].ver = 2 /\ srcVer[chat[t].msg] = 2)

KnownInv ==
    \A t \in DOMAIN chat : Live(t) /\ Plain(chat[t].rule) => Known(t) \/ chat[t].msg \in srcGone

\* No write was lost, and none is to be made while a call is in progress.
IntactInv == torn = {} /\ (sending # Idle => writes = <<>>)

\* A recorded copy has the answer its version asks for, or will have it when the writes are
\* made.
AnswerWrites(t) == {i \in DOMAIN writes : writes[i].map = "answer" /\ writes[i].at = t}

AnswerInv ==
    \A t \in DOMAIN chat :
      Live(t) /\ Plain(chat[t].rule) /\ chat[t].msg \notin srcGone /\ ~Unrecorded(t) =>
        /\ \A i \in AnswerWrites(t) : writes[i].val # NoMsg <=> chat[t].ver \in WithMarkup
        /\ AnswerWrites(t) = {} => (answer[t] # NoMsg <=> chat[t].ver \in WithMarkup)

LEMMA IntactStep ==
    ASSUME CopyInv, TypeOK', [Next]_vars, ~Crash, "store" \notin Faults, IntactInv
    PROVE  IntactInv'
  <1>1. torn' = {}
    <2>1. CASE WriteNext
      BY <2>1, WriteEffect DEF IntactInv
    <2> QED BY <2>1, Writers DEF IntactInv
  <1>2. ASSUME sending' # Idle PROVE writes' = <<>>
    <2>1. CASE UNCHANGED <<answer, writes, torn>>
      <3>1. CASE sending # Idle
        BY <2>1, <3>1 DEF IntactInv
      <3>2. CASE sending = Idle
        BY <1>2, <2>1, <3>2, WorkFrame DEF workerVars
      <3> QED BY <3>1, <3>2
    <2>2. CASE WriteNext
      BY <1>2, <2>2 DEF WriteNext, workerVars, IntactInv
    <2>3. CASE RunMap
      <3>1. task = Idle /\ sending' = sending
        BY <2>3 DEF RunMap, NextTaskIs, workerVars
      <3> QED BY <1>2, <3>1 DEF CopyInv, SendingSound, Idle
    <2>4. CASE RecordCopy \/ EditInPlace \/ DeleteCopy
      BY <1>2, <2>4 DEF RecordCopy, ReturnFromForward, EditInPlace, DeleteCopy, Visiting
    <2> QED BY <2>1, <2>2, <2>3, <2>4, Writers
  <1> QED BY <1>1, <1>2 DEF IntactInv

\* An edit finds the writes before it made.
LEMMA EditsWritten ==
    ASSUME CopyInv, [Next]_vars, ~Crash, EditInPlace
    PROVE  writes = <<>>
  <1>1. refs \in Seq(Ref) /\ refs # <<>> /\ refs' = Tail(refs)
    BY DEF CopyInv, IdInv, TypeOK, EditInPlace, Visiting
  <1>2. refs' # refs
    <2>1. Len(Tail(refs)) = Len(refs) - 1 /\ Len(refs) \in Nat
      BY <1>1
    <2>2. Len(refs') # Len(refs)
      <3>1. Len(refs') = Len(refs) - 1
        BY <1>1, <2>1, Zenon
      <3> QED BY <2>1, <3>1
    <2> QED BY <2>2, Zenon
  <1> QED BY <1>2, WorkFrame DEF workerVars

\* The copy a step has left is of the same message and rule; of a new one the call in
\* progress knows.
LEMMA CopyFrom ==
    ASSUME CopyInv, TypeOK', [Next]_vars, NEW t \in DOMAIN chat', Live(t)'
    PROVE  \/ /\ t \in DOMAIN chat /\ Live(t) /\ chat[t].msg \in Messages
              /\ chat'[t].msg = chat[t].msg /\ chat'[t].rule = chat[t].rule
              /\ \/ chat'[t].ver = chat[t].ver
                 \/ EditInPlace /\ t = Head(refs).tmp /\ chat'[t].ver = task.ver
           \/ /\ t \notin DOMAIN chat
              /\ SendCopy /\ t = Len(chat) + 1 /\ sending' # Idle /\ sending'.tmp = t
              /\ chat'[t].ver = sending.ver /\ chat'[t].rule = sending.rule
              /\ chat'[t].msg = sending.msg
  <1>a. TypeOK /\ ChatStable
    BY ChatStep DEF CopyInv, IdInv
  <1>1. CASE t \in DOMAIN chat
    <2>1. t # Len(chat) + 1
      BY <1>1, <1>a DEF TypeOK
    <2>2. chat[t] \in Copy
      BY <1>1, <1>a DEF TypeOK
    <2> QED BY <1>1, <1>a, <2>1, <2>2, LiveStep DEF LiveFrom, ChatStable, Copy
  <1>2. CASE t \notin DOMAIN chat
    <2>1. SendCopy /\ t = Len(chat) + 1 /\ chat'[t].ver = sending.ver
      BY <1>2, LiveStep DEF LiveFrom
    <2>2. sending' # Idle /\ sending'.tmp = t
      <3>1. sending' = [sending EXCEPT !.tmp = Len(chat) + 1] /\ sending \in Sending
        BY <1>a, <2>1, SendCopyAdds
      <3> QED BY <2>1, <3>1 DEF Sending, Idle
    <2> QED BY <1>2, <1>a, <2>1, <2>2, SendCopyAdds
  <1> QED BY <1>1, <1>2

\* An edit in place finds its copy delivered, and changes it.
LEMMA EditSucceeds ==
    ASSUME CopyInv, [Next]_vars, ~Crash, EditInPlace, "edit" \notin Faults, IntactInv
    PROVE  LET t == Head(refs).tmp IN
           /\ t \in DOMAIN chat /\ chat[t].msg = task.msg /\ chat[t].rule = Head(refs).rule
           /\ chat' = [chat EXCEPT ![t].ver = task.ver] /\ chat'[t].ver = task.ver
  <1> DEFINE c == Head(refs)
             t == c.tmp
  <1>1. refs # <<>> /\ newId[t] # 0 /\ task.kind = "edit"
    BY DEF EditInPlace, Visiting
  <1>2. t \in TmpIds /\ refs \in Seq(Ref) /\ TypeOK
    BY <1>1, VisitedRef DEF CopyInv, IdInv, TypeOK
  <1>3. Shows(chat, c, task.msg)
    BY <1>1, <1>2, TailRefs DEF CopyInv, WalkSound
  <1>4. chat[t].status \in Delivered
    <2>1. t \notin torn \cup Unwritten
      BY EditsWritten DEF IntactInv, Unwritten
    <2>2. chat[t].status # "deleted"
      BY <1>1, <1>2, <2>1 DEF CopyInv, IdInv, IdMapsAgree
    <2> QED BY <1>1, <1>2, <2>2, StoredId DEF CopyInv, IdInv
  <1>5. chat[t].status = "sent"
    BY <1>3, <1>4 DEF Shows, Natively, Delivered
  <1>6. CopyOf(newId[t]) = t
    BY EditedCopy
  <1>7. chat' = [chat EXCEPT ![t].ver = task.ver]
    BY <1>5, <1>6 DEF EditInPlace
  <1>8. t \in DOMAIN chat /\ chat[t].msg = task.msg /\ chat[t].rule = c.rule
    BY <1>3 DEF Shows, SameRoute
  <1>9. chat'[t].ver = task.ver
    <2>1. chat[t] \in Copy
      BY <1>2, <1>8 DEF TypeOK
    <2> HIDE DEF t
    <2> QED BY <1>7, <1>8, <2>1 DEF Copy
  <1> QED BY <1>7, <1>8, <1>9

LEMMA SentStep ==
    ASSUME CopyInv, TypeOK', [Next]_vars, ~Crash, TasksInv, SentInv, IntactInv
    PROVE  SentInv'
  <1>a. TypeOK /\ queue \in Seq(Task)
    BY DEF CopyInv, IdInv, TypeOK
  <1>b. ASSUME sending' = Idle PROVE SentInv'
    BY <1>b DEF SentInv
  <1>c. ASSUME sending # Idle
        PROVE  /\ sending \in Sending /\ task.kind \in {"forward", "edit"} /\ task # Idle
               /\ sending.tmp # 0 => sending.tmp \in DOMAIN chat
    <2>1. sending \in Sending
      BY <1>a, <1>c DEF TypeOK
    <2>2. task.kind \in {"forward", "edit"}
      BY <1>c DEF CopyInv, SendingSound
    <2>3. sending.tmp # 0 => sending.tmp \in DOMAIN chat
      BY <1>c DEF CopyInv, SendingSound, Shows, SentRef
    <2> QED BY <2>1, <2>2, <2>3 DEF Idle
  <1>1. CASE UNCHANGED <<workerVars, copied>>
    <2> SUFFICES ASSUME sending # Idle PROVE SentInv'
      BY <1>1, <1>b DEF workerVars
    <2>1. ~EditInPlace /\ ~DeleteCopy /\ ~RecordCopy /\ ~SendCopy
      <3>1. ~EditInPlace /\ ~DeleteCopy
        BY DEF EditInPlace, DeleteCopy, Visiting
      <3>2. ~RecordCopy
        BY <1>1 DEF RecordCopy, ReturnFromForward, workerVars
      <3>3. ~SendCopy
        <4>1. SendCopy => sending.tmp = 0 /\ sending'.tmp = Len(chat) + 1
          BY <1>c DEF SendCopy, Sending
        <4>2. Len(chat) + 1 # 0
          BY <1>a DEF TypeOK
        <4> QED BY <1>1, <4>1, <4>2 DEF workerVars
      <3> QED BY <3>1, <3>2, <3>3
    <2>2. answer' = answer /\ UNCHANGED <<sending, task>>
      <3>1. ~WriteNext
        BY DEF WriteNext, IntactInv
      <3> QED BY <1>1, <3>1, Writers DEF workerVars
    <2>3. ASSUME sending.tmp # 0, Live(sending.tmp)'
          PROVE  Live(sending.tmp) /\ chat'[sending.tmp].ver = chat[sending.tmp].ver
      <3>1. PICK t \in DOMAIN chat : t = sending.tmp
        BY <1>c, <2>3
      <3>2. t \in DOMAIN chat' /\ Live(t)'
        BY <2>2, <2>3, <3>1, ChatStep DEF ChatStable
      <3> QED BY <2>1, <3>1, <3>2, CopyFrom
    <2> QED BY <2>2, <2>3 DEF SentInv
  <1>2. CASE StartForward
    <2>1. /\ Head(queue).kind = "forward" /\ queue # <<>> /\ task' = Head(queue)
          /\ sending'.msg = Head(queue).msg /\ sending'.ver = Head(queue).ver /\ sending'.tmp = 0
      BY <1>2 DEF StartForward, NextTaskIs
    <2>2. Head(queue).ver = 1
      <3>1. 1 \in DOMAIN queue /\ queue[1] = Head(queue)
        BY <1>a, <2>1
      <3> QED BY <2>1, <3>1 DEF TasksInv, Versed
    <2> QED BY <2>1, <2>2 DEF SentInv
  <1>3. CASE SendCopy
    <2>1. /\ sending # Idle /\ sending' = [sending EXCEPT !.tmp = Len(chat) + 1]
          /\ task' = task /\ answer' = answer
      BY <1>3 DEF SendCopy, storeVars
    <2> DEFINE t == Len(chat) + 1
    <2>2. /\ sending'.msg = sending.msg /\ sending'.rule = sending.rule
          /\ sending'.ver = sending.ver /\ sending'.tmp = t
      BY <1>c, <2>1 DEF Sending
    <2>3. t \in DOMAIN chat' /\ t \notin DOMAIN chat
      <3>1. t \in DOMAIN chat'
        BY <1>3, <1>a, SendCopyAdds
      <3>2. t \notin DOMAIN chat
        BY <1>a DEF TypeOK
      <3> QED BY <3>1, <3>2
    <2>4. answer[t] = NoMsg
      <3>1. t \in TmpIds
        BY <2>3, <1>a, BoundAssumption DEF TypeOK, TmpIds
      <3> QED BY <2>3, <3>1 DEF CopyInv, AnswersSound
    <2>5. chat'[t].ver = sending.ver \/ chat'[t].status \notin {"pending", "sent"}
      <3>1. PICK u \in DOMAIN chat' : u = t
        BY <2>3
      <3> HIDE DEF t
      <3> QED BY <2>3, <3>1, CopyFrom DEF Live
    <2> HIDE DEF t
    <2> QED BY <2>1, <2>2, <2>4, <2>5 DEF SentInv, Live
  <1>4. CASE SendCopyFails \/ ForwardNatively \/ RecordCopy
    BY <1>4, <1>b DEF SendCopyFails, ForwardNatively, RecordCopy, ReturnFromForward
  <1>5. CASE EditAsNewVersion
    <2>1. /\ RuleCfg[Head(refs).rule].copyOnce /\ task' = task
          /\ sending'.msg = task.msg /\ sending'.rule = Head(refs).rule
      BY <1>5 DEF EditAsNewVersion
    <2> QED BY <2>1 DEF SentInv, Plain
  <1>6. CASE StartEdit \/ EditUnconfirmed \/ EditSkipped \/ EditInPlace \/ FinishEdit
    <2>1. sending = Idle /\ sending' = sending
      BY <1>6, <1>c DEF StartEdit, NextTaskIs, EditUnconfirmed, EditSkipped, EditInPlace,
                        FinishEdit, Visiting
    <2> QED BY <2>1, <1>b
  <1>7. CASE Deletes
    <2>1. task = Idle \/ task.kind = "delete"
      BY <1>7 DEF Deletes, StartDelete, NextTaskIs, DeleteIndelible, DeleteUnconfirmed, DeleteCopy,
                  DeleteNextId, FinishDelete, Visiting
    <2>2. sending' = sending
      BY <1>7 DEF Deletes, StartDelete, DeleteIndelible, DeleteUnconfirmed, DeleteCopy,
                  DeleteNextId, FinishDelete
    <2> QED BY <2>1, <2>2, <1>b, <1>c
  <1> QED BY <1>1, <1>2, <1>3, <1>4, <1>5, <1>6, <1>7, WorkFrame DEF Edits

LEMMA ChatInvStep ==
    ASSUME CopyInv, TypeOK', EditedOnce, [Next]_vars, TasksInv, SentInv, ChatInv
    PROVE  ChatInv'
  <1>a. TypeOK /\ refs \in Seq(Ref)
    BY DEF CopyInv, IdInv, TypeOK
  <1> SUFFICES ASSUME NEW t \in DOMAIN chat', Live(t)', Plain(chat'[t].rule)
               PROVE  chat'[t].ver = 1 \/ (chat'[t].ver = 2 /\ srcVer'[chat'[t].msg] = 2)
    BY DEF ChatInv
  <1>1. CASE t \notin DOMAIN chat
    <2>1. SendCopy /\ chat'[t].ver = sending.ver /\ chat'[t].rule = sending.rule
      BY <1>1, CopyFrom
    <2> QED BY <2>1 DEF SendCopy, SentInv
  <1>2. CASE t \in DOMAIN chat
    <2>1. /\ Live(t) /\ chat[t].msg \in Messages
          /\ chat'[t].msg = chat[t].msg /\ chat'[t].rule = chat[t].rule
          /\ \/ chat'[t].ver = chat[t].ver
             \/ EditInPlace /\ t = Head(refs).tmp /\ chat'[t].ver = task.ver
      BY <1>2, CopyFrom
    <2>2. srcVer[chat[t].msg] = 2 => srcVer'[chat[t].msg] = 2
      BY <1>a, <2>1, SourceStep
    <2>3. CASE chat'[t].ver = chat[t].ver
      BY <1>2, <2>1, <2>2, <2>3 DEF ChatInv
    <2>4. CASE EditInPlace /\ t = Head(refs).tmp /\ chat'[t].ver = task.ver
      <3>1. refs # <<>> /\ task.kind = "edit"
        BY <2>4 DEF EditInPlace, Visiting
      <3>2. Shows(chat, Head(refs), task.msg)
        BY <1>a, <3>1, TailRefs DEF CopyInv, WalkSound
      <3>3. chat[t].msg = task.msg
        BY <2>4, <3>2 DEF Shows, SameRoute
      <3> QED BY <2>1, <2>2, <2>4, <3>1, <3>3 DEF TasksInv, Versed
    <2> QED BY <2>1, <2>3, <2>4
  <1> QED BY <1>1, <1>2

LEMMA KnownInvStep ==
    ASSUME RouteInv, TypeOK', [Next]_vars, ~Crash, "store" \notin Faults, KnownInv
    PROVE  KnownInv'
  <1>a. TypeOK /\ CopyInv /\ srcGone \subseteq srcGone' /\ ChatStable
    BY ChatStep, GoneStays DEF RouteInv, CopyInv, IdInv
  <1> SUFFICES ASSUME NEW t \in DOMAIN chat', Live(t)', Plain(chat'[t].rule), ~Known(t)'
               PROVE  chat'[t].msg \in srcGone'
    BY DEF KnownInv
  <1>1. /\ t \in DOMAIN chat /\ Live(t)
        /\ \/ ~Known(t)
           \/ DeleteNextId /\ ~needRetry /\ Head(ids) = chat[t].msg /\ Named(t)
    BY KnownStep
  <1>2. chat'[t].msg = chat[t].msg /\ chat'[t].rule = chat[t].rule
    BY <1>1, <1>a DEF ChatStable
  <1>3. CASE ~Known(t)
    BY <1>1, <1>2, <1>3, <1>a DEF KnownInv
  <1>4. CASE DeleteNextId /\ Head(ids) = chat[t].msg
    <2>1. task.kind = "delete" /\ ids # <<>> /\ ids \in Seq(Messages)
      BY <1>4, <1>a DEF DeleteNextId, TypeOK
    <2>2. 1 \in DOMAIN ids /\ ids[1] = Head(ids)
      BY <2>1
    <2> QED BY <1>a, <1>2, <1>4, <2>1, <2>2 DEF CopyInv, WalkSound
  <1> QED BY <1>1, <1>3, <1>4

\* Only RecordCopy makes a sent copy a recorded one.
LEMMA RecordedBy ==
    ASSUME RouteInv, TypeOK', [Next]_vars, ~Crash,
           NEW t \in DOMAIN chat, Unrecorded(t), ~Unrecorded(t)'
    PROVE  RecordCopy
  <1>a. TypeOK /\ CopyInv
    BY DEF RouteInv, CopyInv, IdInv
  <1>b. sending # Idle /\ sending.tmp = t /\ task.kind \in {"forward", "edit"} /\ task # Idle
    <2>1. task.kind \in {"forward", "edit"}
      BY <1>a DEF Unrecorded, CopyInv, SendingSound
    <2> QED BY <2>1 DEF Unrecorded, Idle
  <1>c. sending.tmp # 0
    BY <1>a, <1>b DEF TypeOK
  <1>d. sending' # sending
    BY DEF Unrecorded
  <1>1. ~UNCHANGED <<workerVars, copied>>
    BY <1>d DEF workerVars
  <1>2. ~StartForward /\ ~StartEdit /\ ~StartDelete
    BY <1>b DEF StartForward, StartEdit, StartDelete, NextTaskIs
  <1>3. ~SendCopy /\ ~SendCopyFails
    BY <1>c DEF SendCopy, SendCopyFails
  <1>4. ~ForwardNatively
    BY <1>b, <1>c DEF ForwardNatively, RouteInv, CopiesRecorded
  <1>5. ~Edits
    BY <1>b, <1>2 DEF Edits, EditUnconfirmed, EditSkipped, EditAsNewVersion, EditInPlace,
                      FinishEdit, Visiting
  <1>6. ~Deletes
    BY <1>d, <1>2 DEF Deletes, DeleteIndelible, DeleteUnconfirmed, DeleteCopy, DeleteNextId,
                      FinishDelete
  <1> QED BY <1>1, <1>2, <1>3, <1>4, <1>5, <1>6, WorkFrame

\* A write that is made leaves fewer to be made, and does what it says.
LEMMA AnswerMade ==
    ASSUME TypeOK, WriteNext, "store" \notin Faults, NEW t \in TmpIds, NEW b \in BOOLEAN,
           \A i \in AnswerWrites(t) : writes[i].val # NoMsg <=> b,
           AnswerWrites(t) = {} => (answer[t] # NoMsg <=> b)
    PROVE  /\ \A i \in AnswerWrites(t)' : writes'[i].val # NoMsg <=> b
           /\ AnswerWrites(t)' = {} => (answer'[t] # NoMsg <=> b)
  <1>a. writes \in Seq(Write) /\ writes # <<>> /\ answer \in [TmpIds -> Messages \cup {NoMsg}]
    BY DEF TypeOK, WriteNext
  <1>w. PICK w : w = Head(writes)
    OBVIOUS
  <1>1. /\ writes' = Tail(writes)
        /\ answer' = IF w.map = "answer" THEN [answer EXCEPT ![w.at] = w.val] ELSE answer
    BY <1>w, WriteEffect
  <1>2. \A i \in AnswerWrites(t)' : i + 1 \in AnswerWrites(t) /\ writes'[i] = writes[i + 1]
    <2>1. \A i \in DOMAIN Tail(writes) :
            i + 1 \in DOMAIN writes /\ Tail(writes)[i] = writes[i + 1]
      BY <1>a, TailShifts
    <2> QED BY <1>1, <2>1 DEF AnswerWrites
  <1>3. ASSUME AnswerWrites(t)' = {} PROVE answer'[t] # NoMsg <=> b
    <2>1. CASE w.map = "answer" /\ w.at = t
      <3>1. 1 \in DOMAIN writes /\ writes[1] = w
        BY <1>a, <1>w
      <3>2. w.val # NoMsg <=> b
        BY <2>1, <3>1 DEF AnswerWrites
      <3>3. answer'[t] = w.val
        BY <1>a, <1>1, <2>1
      <3> QED BY <3>2, <3>3
    <2>2. CASE ~(w.map = "answer" /\ w.at = t)
      <3>1. answer'[t] = answer[t]
        BY <1>a, <1>1, <2>2
      <3>2. AnswerWrites(t) = {}
        <4> SUFFICES ASSUME NEW k \in DOMAIN writes, writes[k].map = "answer", writes[k].at = t
                     PROVE  FALSE
          BY DEF AnswerWrites
        <4>1. PICK j \in DOMAIN Tail(writes) : Tail(writes)[j] = writes[k]
          BY <1>a, <1>w, <2>2, HeadOrTail
        <4> QED BY <1>1, <1>3, <4>1 DEF AnswerWrites
      <3> QED BY <3>1, <3>2
    <2> QED BY <2>1, <2>2
  <1> QED BY <1>2, <1>3

LEMMA AnswerInvStep ==
    ASSUME RouteInv, TypeOK', [Next]_vars, ~Crash, {"edit", "store"} \cap Faults = {},
           TasksInv, SentInv, IntactInv, AnswerInv
    PROVE  AnswerInv'
  <1>a. /\ TypeOK /\ CopyInv /\ srcGone \subseteq srcGone'
        /\ answer \in [TmpIds -> Messages \cup {NoMsg}] /\ writes \in Seq(Write)
    BY GoneStays DEF RouteInv, CopyInv, IdInv, TypeOK
  <1> SUFFICES ASSUME NEW t \in DOMAIN chat', Live(t)', Plain(chat'[t].rule),
                      chat'[t].msg \notin srcGone', ~Unrecorded(t)'
               PROVE  /\ \A i \in AnswerWrites(t)' :
                           writes'[i].val # NoMsg <=> chat'[t].ver \in WithMarkup
                      /\ AnswerWrites(t)' = {} =>
                           (answer'[t] # NoMsg <=> chat'[t].ver \in WithMarkup)
    BY DEF AnswerInv
  <1>1. /\ t \in DOMAIN chat /\ Live(t) /\ chat[t].msg \in Messages
        /\ chat'[t].msg = chat[t].msg /\ chat'[t].rule = chat[t].rule
        /\ \/ chat'[t].ver = chat[t].ver
           \/ EditInPlace /\ t = Head(refs).tmp /\ chat'[t].ver = task.ver
    BY <1>a, CopyFrom DEF Unrecorded
  <1>2. chat[t].msg \notin srcGone /\ t \in TmpIds
    <2>1. t \in DOMAIN chat
      BY <1>1
    <2>2. t \in TmpIds
      BY <2>1, <1>a, BoundAssumption DEF TypeOK, TmpIds
    <2> QED BY <1>1, <1>a, <2>2
  <1>3. ASSUME NEW u, NEW m, writes' = Answering(u, m)
        PROVE  /\ u = t => AnswerWrites(t)' = {1} /\ writes'[1].val = m
               /\ u # t => AnswerWrites(t)' = {}
    BY <1>3 DEF AnswerWrites, Answering
  <1>4. CASE Unrecorded(t)
    <2>1. RecordCopy
      BY <1>1, <1>4, RecordedBy
    <2>2. sending # Idle /\ sending.tmp = t /\ t # 0
      BY <1>1, <1>4, <1>a DEF Unrecorded, TypeOK
    <2>3. chat[t].rule = sending.rule
      BY <1>a, <2>2 DEF CopyInv, SendingSound, Shows, SameRoute, SentRef
    <2>4. sending.ver = 1 /\ chat[t].ver = 1 /\ answer[t] = NoMsg
      BY <1>1, <2>2, <2>3 DEF SentInv
    <2>5. chat'[t].ver = 1
      <3>1. ~EditInPlace
        BY <2>2 DEF EditInPlace, Visiting
      <3> QED BY <1>1, <2>4, <3>1
    <2>6. sending.msg \in Messages /\ NoMsg \notin Messages
      BY <1>a, <2>2, ConfigAssumption DEF TypeOK, Sending
    <2>7. /\ writes' = IF 1 \in WithMarkup THEN Answering(t, sending.msg) ELSE <<>>
          /\ answer' = answer
      BY <2>1, <2>2, <2>4 DEF RecordCopy
    <2>8. CASE 1 \in WithMarkup
      BY <2>5, <2>6, <2>7, <2>8, <1>3
    <2>9. CASE 1 \notin WithMarkup
      BY <2>4, <2>5, <2>7, <2>9 DEF AnswerWrites
    <2> QED BY <2>8, <2>9
  <1>5. CASE ~Unrecorded(t)
    <2>1. /\ \A i \in AnswerWrites(t) : writes[i].val # NoMsg <=> chat[t].ver \in WithMarkup
          /\ AnswerWrites(t) = {} => (answer[t] # NoMsg <=> chat[t].ver \in WithMarkup)
      BY <1>1, <1>2, <1>5 DEF AnswerInv
    <2>2. CASE EditInPlace /\ t = Head(refs).tmp
      <3>1. /\ chat'[t].ver = task.ver
            /\ writes' = Answering(t, IF task.ver \in WithMarkup THEN task.msg ELSE NoMsg)
        BY <1>a, <2>2, EditSucceeds DEF EditInPlace
      <3>2. task.msg \in Messages /\ NoMsg \notin Messages
        <4>1. task.kind = "edit"
          BY <2>2 DEF EditInPlace, Visiting
        <4> QED BY <1>a, <4>1, TaskKinds, ConfigAssumption DEF TypeOK, EditTask
      <3> QED BY <3>1, <3>2, <1>3
    <2>3. CASE ~(EditInPlace /\ t = Head(refs).tmp)
      <3>1. chat'[t].ver = chat[t].ver
        BY <1>1, <2>3
      <3>2. CASE UNCHANGED <<answer, writes, torn>>
        BY <2>1, <3>1, <3>2 DEF AnswerWrites
      <3>3. CASE WriteNext
        BY <1>a, <1>2, <2>1, <3>1, <3>3, AnswerMade
      <3>4. CASE writes = <<>> /\ answer' = answer /\ RunMap
        <4>1. AnswerWrites(t)' = {} /\ AnswerWrites(t) = {}
          BY <3>4 DEF RunMap, Mapping, AnswerWrites
        <4> QED BY <2>1, <3>1, <3>4, <4>1
      <3>5. CASE writes = <<>> /\ answer' = answer /\ (RecordCopy \/ EditInPlace \/ DeleteCopy)
        <4>1. AnswerWrites(t) = {}
          BY <3>5 DEF AnswerWrites
        <4>2. AnswerWrites(t)' = {}
          <5>1. CASE RecordCopy
            <6>1. sending.tmp # t /\ (writes' = <<>> \/ writes' = Answering(sending.tmp, sending.msg))
              BY <1>5, <5>1 DEF Unrecorded, RecordCopy
            <6> QED BY <1>3, <6>1 DEF AnswerWrites
          <5>2. CASE EditInPlace
            <6>1. t # Head(refs).tmp
              BY <2>3, <5>2
            <6>2. \E m : writes' = Answering(Head(refs).tmp, m)
              BY <5>2 DEF EditInPlace
            <6> QED BY <1>3, <6>1, <6>2
          <5>3. CASE DeleteCopy
            <6>1. t # Head(refs).tmp /\ writes' = Unmapping(Head(refs).tmp, Perm(Head(refs).tmp))
              BY <1>2, <1>a, <5>3, DeletedCopy
            <6> QED BY <6>1 DEF Unmapping, AnswerWrites
          <5> QED BY <3>5, <5>1, <5>2, <5>3
        <4> QED BY <2>1, <3>1, <3>5, <4>1, <4>2
      <3> QED BY <3>2, <3>3, <3>4, <3>5, Writers
    <2> QED BY <2>2, <2>3
  <1> QED BY <1>4, <1>5

\* A copy that shows the second version, or need not.
UpToDate(t) == ~Live(t) \/ ~Plain(chat[t].rule) \/ chat[t].ver = 2

\* What an edit at work has still to visit, or has renewed.
Renewed(c) == (\E k \in DOMAIN refs : refs[k] = c) \/ UpToDate(c.tmp)

\* Where the edit of a message is: its goroutine asks for the content; its task waits behind
\* all copies of the first version; or is at work; or has reached every copy.
Resolving(m) == \E g \in resolvers : g.msg = m

Renews(t, m) == t.kind = "edit" /\ t.msg = m

EditWaits(m) == \E j \in DOMAIN queue : Renews(queue[j], m) /\ Behind(j, m)

EditAtWork(m) ==
    /\ Renews(task, m) /\ NoForwards(m)
    /\ needRetry \/ \A i \in DOMAIN copied[m] : Renewed(copied[m][i])

EditDone(m) ==
    /\ NoForwards(m) /\ ~ForwardOf(task, m)
    /\ \A t \in DOMAIN chat : chat[t].msg = m => UpToDate(t)

EditedInv ==
    \A m \in Messages \ (srcGone \cup gaveUp) : srcVer[m] = 2 =>
      Resolving(m) \/ EditWaits(m) \/ EditAtWork(m) \/ EditDone(m)

\* A list has what it had and what is recorded.
LEMMA WithCopiedIdFrom ==
    ASSUME NEW list \in Seq(Ref), NEW ref \in Ref,
           NEW j \in DOMAIN WithCopiedId(list, ref)
    PROVE  \/ WithCopiedId(list, ref)[j] = ref
           \/ \E i \in DOMAIN list : WithCopiedId(list, ref)[j] = list[i]
  <1> DEFINE same == {i \in DOMAIN list : list[i].rule = ref.rule /\ list[i].dst = ref.dst}
             new == [i \in DOMAIN list |-> IF i \in First(same) THEN ref ELSE list[i]]
  <1>1. CASE same = {}
    <2> DEFINE r == Append(list, ref)
    <2>1. WithCopiedId(list, ref) = r
      BY <1>1 DEF WithCopiedId
    <2>2. \A k \in DOMAIN r : (k \in DOMAIN list /\ r[k] = list[k]) \/ r[k] = ref
      BY AppendExtends
    <2> HIDE DEF r
    <2> QED BY <2>1, <2>2
  <1>2. CASE same # {}
    <2>1. WithCopiedId(list, ref) = new /\ DOMAIN new = DOMAIN list
      BY <1>2 DEF WithCopiedId
    <2>2. \A k \in DOMAIN list : new[k] = ref \/ new[k] = list[k]
      OBVIOUS
    <2> HIDE DEF new
    <2> QED BY <2>1, <2>2
  <1> QED BY <1>1, <1>2

\* A copy that is up to date stays so.
LEMMA UpToDateStays ==
    ASSUME CopyInv, TypeOK', [Next]_vars, TasksInv, NEW t \in DOMAIN chat, UpToDate(t)
    PROVE  UpToDate(t)'
  <1> SUFFICES ASSUME Live(t)', Plain(chat'[t].rule) PROVE chat'[t].ver = 2
    BY DEF UpToDate
  <1>1. t \in DOMAIN chat'
    BY ChatStep DEF ChatStable
  <1>2. /\ Live(t) /\ chat'[t].rule = chat[t].rule
        /\ chat'[t].ver = chat[t].ver \/ (EditInPlace /\ chat'[t].ver = task.ver)
    BY <1>1, CopyFrom
  <1>3. EditInPlace => task.ver = 2
    BY DEF EditInPlace, Visiting, TasksInv, Versed
  <1> QED BY <1>2, <1>3 DEF UpToDate

\* No copy of a message that was edited is queued any more.
LEMMA NoOlderForwards ==
    ASSUME CopyInv, IngressInv, TypeOK', [Next]_vars, ~Crash, NEW m, srcVer[m] = 2
    PROVE  \/ queue' = queue \/ TakesTask
           \/ \E x \in Task : queue' = Append(queue, x) /\ ~ForwardOf(x, m)
  BY QueueCases DEF IngressInv, Queues, ForwardOf

\* The goroutine of an edit queues it behind every copy.
LEMMA ResolvingStep ==
    ASSUME CopyInv, TypeOK', [Next]_vars, ~Crash, rules = Rules, "read" \notin Faults,
           NEW m \in Messages \ srcGone, Resolving(m)
    PROVE  Resolving(m)' \/ EditWaits(m)' \/ EditDone(m)'
  <1>a. TypeOK /\ resolvers \subseteq Resolver
    BY DEF CopyInv, IdInv, TypeOK
  <1>b. PICK g \in resolvers : g.msg = m
    BY DEF Resolving
  <1>1. CASE g \in resolvers'
    BY <1>b, <1>1 DEF Resolving
  <1>2. CASE g \notin resolvers'
    <2>1. PICK h \in resolvers : Resolve(h)
      BY <1>2, ResolverMoves DEF OnEditUpdate
    <2>2. h = g
      BY <1>2, <2>1 DEF Resolve, ResolveEdit, OnEditedMessage
    <2>3. CASE ResolveEdit(g)
      <3>1. [g EXCEPT !.ver = srcVer[g.msg]] \in resolvers'
        BY <1>b, <2>3 DEF ResolveEdit
      <3>2. [g EXCEPT !.ver = srcVer[g.msg]].msg = m
        BY <1>a, <1>b DEF Resolver
      <3> QED BY <3>1, <3>2 DEF Resolving
    <2>4. CASE OnEditedMessage(g) /\ rules # {}
      <3> DEFINE x == [kind |-> "edit", msg |-> g.msg, ver |-> g.ver, rs |-> rules,
                       attempt |-> 0, at |-> clock[g.msg] + 1]
      <3>1. queue' = Append(queue, x)
        BY <2>4 DEF OnEditedMessage, Enqueue
      <3>2. Renews(x, m) /\ ~ForwardOf(x, m)
        BY <1>b DEF Renews, ForwardOf
      <3> HIDE DEF x
      <3>3. x \in Task
        BY <1>a, <3>1, AppendedTask DEF TypeOK
      <3>4. \E k \in DOMAIN queue' : queue'[k] = x /\ Behind(k, m)'
        BY <1>a, <3>1, <3>2, <3>3, LastIsBehind
      <3> QED BY <3>2, <3>4 DEF EditWaits
    <2>5. CASE rules = {}
      <3>1. Copy = {} /\ ForwardTask = {}
        BY <2>5 DEF Copy, ForwardTask
      <3>2. chat' = <<>>
        <4>1. chat' \in Seq({})
          BY <3>1 DEF TypeOK
        <4> QED BY <4>1
      <3>3. \A t \in Task \cup {Idle} : t.kind # "forward"
        BY <3>1, TaskKinds
      <3>4. NoForwards(m)' /\ ~ForwardOf(task, m)'
        <4>1. task' \in Task \cup {Idle} /\ \A i \in DOMAIN queue' : queue'[i] \in Task
          BY DEF TypeOK
        <4> QED BY <3>3, <4>1 DEF NoForwards, ForwardOf
      <3> QED BY <3>2, <3>4 DEF EditDone
    <2> QED BY <2>1, <2>2, <2>3, <2>4, <2>5 DEF Resolve
  <1> QED BY <1>1, <1>2

LEMMA EditWaitsStep ==
    ASSUME CopyInv, IngressInv, TypeOK', [Next]_vars, ~Crash,
           NEW m \in Messages, srcVer[m] = 2, EditWaits(m)
    PROVE  EditWaits(m)' \/ EditAtWork(m)'
  <1>1. PICK j \in DOMAIN queue : Renews(queue[j], m) /\ Behind(j, m)
    BY DEF EditWaits
  <1>2. TypeOK
    BY DEF CopyInv, IdInv
  <1>3. \/ \E k \in DOMAIN queue' : queue'[k] = queue[j] /\ Behind(k, m)'
        \/ TakesTask /\ queue[j] = Head(queue) /\ NoForwards(m)'
    BY <1>1, <1>2, BehindKept, NoOlderForwards
  <1>4. CASE \E k \in DOMAIN queue' : queue'[k] = queue[j] /\ Behind(k, m)'
    BY <1>1, <1>4 DEF EditWaits
  <1>5. CASE TakesTask /\ queue[j] = Head(queue) /\ NoForwards(m)'
    <2>1. Head(queue).kind = "edit" /\ Head(queue).msg = m
      BY <1>1, <1>5 DEF Renews
    <2>2. StartEdit
      BY <1>5, <2>1 DEF TakesTask, RunMap, RunStats, RunNative, StartForward, StartDelete, NextTaskIs
    <2>3. task' = Head(queue) /\ refs' = copied[m] /\ copied' = copied
      BY <2>1, <2>2 DEF StartEdit, storeVars
    <2>4. \A i \in DOMAIN copied'[m] : \E k \in DOMAIN refs' : refs'[k] = copied'[m][i]
      BY <2>3
    <2> QED BY <1>5, <2>1, <2>3, <2>4 DEF EditAtWork, Renews, Renewed
  <1> QED BY <1>3, <1>4, <1>5

\* An edit at work renews a copy it visits, or is queued again, or gives the message up.
LEMMA EditAtWorkStep ==
    ASSUME CopyInv, TypeOK', [Next]_vars, ~Crash, {"edit", "store"} \cap Faults = {},
           IngressInv, TasksInv, SentInv, IntactInv, KnownInv,
           NEW m \in Messages, srcVer[m] = 2, m \notin srcGone, m \notin gaveUp', EditAtWork(m)
    PROVE  EditWaits(m)' \/ EditAtWork(m)' \/ EditDone(m)'
  <1>a. /\ TypeOK /\ refs \in Seq(Ref) /\ copied \in [Messages -> Seq(Ref)]
        /\ task \in Task \cup {Idle}
    BY DEF CopyInv, IdInv, TypeOK
  <1>b. /\ task.kind = "edit" /\ task.msg = m /\ task # Idle /\ Renews(task, m)
        /\ task.ver = 2 /\ task.rs = Rules
    BY DEF EditAtWork, Renews, Idle, TasksInv, Versed
  <1>c. NoForwards(m)'
    BY <1>a, BehindKept, NoOlderForwards DEF EditAtWork
  <1>d. \A i \in DOMAIN copied[m] : copied[m][i] \in Ref /\ copied[m][i].tmp \in DOMAIN chat
    <2>1. copied[m] \in Seq(Ref)
      BY <1>a
    <2>2. TrueRefs(chat, copied[m], m)
      BY DEF CopyInv, ListsSound
    <2>3. \A list \in Seq(Ref) : \A i \in DOMAIN list : list[i] \in Ref
      OBVIOUS
    <2> QED BY <2>1, <2>2, <2>3 DEF TrueRefs, Shows
  <1>e. ASSUME NEW c \in Ref, c.tmp \in DOMAIN chat, UpToDate(c.tmp)
        PROVE  Renewed(c)'
    BY <1>e, UpToDateStays DEF Renewed
  <1>f. ASSUME task' = task, copied' = copied, needRetry => needRetry',
               \A c \in Ref : Renewed(c) /\ c.tmp \in DOMAIN chat => Renewed(c)'
        PROVE  EditAtWork(m)'
    <2>1. CASE needRetry
      BY <1>b, <1>c, <1>f, <2>1 DEF EditAtWork
    <2>2. CASE ~needRetry
      <3>1. ASSUME NEW i \in DOMAIN copied'[m] PROVE Renewed(copied[m][i])'
        <4>1. PICK c \in Ref : c = copied[m][i]
          BY <1>d, <1>f, <3>1
        <4>2. Renewed(c) /\ c.tmp \in DOMAIN chat
          BY <1>d, <1>f, <2>2, <3>1, <4>1 DEF EditAtWork
        <4>3. Renewed(c)' /\ copied'[m][i] = c
          BY <1>f, <4>1, <4>2
        <4> QED BY <4>3
      <3> QED BY <1>b, <1>c, <1>f, <3>1 DEF EditAtWork
    <2> QED BY <2>1, <2>2
  <1>g. ASSUME refs' = refs, NEW c \in Ref, Renewed(c), c.tmp \in DOMAIN chat
        PROVE  Renewed(c)'
    BY <1>e, <1>g DEF Renewed
  <1>h. ASSUME refs # <<>>, refs' = Tail(refs), NEW r \in Ref, r = Head(refs), UpToDate(r.tmp)',
               NEW c \in Ref, Renewed(c), c.tmp \in DOMAIN chat
        PROVE  Renewed(c)'
    <2>1. CASE UpToDate(c.tmp)
      BY <1>e, <1>h, <2>1
    <2>2. CASE \E k \in DOMAIN refs : refs[k] = c
      <3>1. c = r \/ \E j \in DOMAIN refs' : refs'[j] = c
        BY <1>a, <1>h, <2>2, HeadOrTail
      <3> QED BY <1>h, <3>1 DEF Renewed
    <2> QED BY <1>h, <2>1, <2>2 DEF Renewed
  <1>i. ASSUME refs # <<>>
        PROVE  Head(refs) \in Ref /\ Shows(chat, Head(refs), m)
    BY <1>a, <1>b, <1>i, TailRefs, VisitedRef DEF CopyInv, WalkSound
  <1>1. CASE UNCHANGED <<workerVars, copied>>
    <2>1. UNCHANGED <<task, refs, needRetry, copied>>
      BY <1>1 DEF workerVars
    <2> QED BY <2>1, <1>f, <1>g
  <1>2. CASE StartForward \/ StartEdit \/ StartDelete
    BY <1>2, <1>b DEF StartForward, StartEdit, StartDelete, NextTaskIs
  <1>3. CASE SendCopy \/ SendCopyFails \/ ForwardNatively
    <2>1. UNCHANGED <<task, refs, needRetry, copied>>
      BY <1>3, <1>b DEF SendCopy, SendCopyFails, ForwardNatively, ReturnFromForward, storeVars
    <2> QED BY <2>1, <1>f, <1>g
  <1>4. CASE RecordCopy
    <2>1. /\ sending # Idle /\ sending.tmp # 0 /\ UNCHANGED <<task, refs, needRetry>>
          /\ copied' = [copied EXCEPT ![sending.msg] = WithCopiedId(@, SentRef)]
      BY <1>4, <1>b DEF RecordCopy, ReturnFromForward, SentRef
    <2>2. sending.msg = m
      BY <1>b, <2>1 DEF SentInv
    <2>3. copied'[m] = WithCopiedId(copied[m], SentRef) /\ copied[m] \in Seq(Ref)
      BY <1>a, <2>1, <2>2
    <2>4. SentRef \in Ref /\ SentRef.rule = sending.rule /\ SentRef.tmp = sending.tmp
      BY <1>a, <2>1 DEF TypeOK, Sending, SentRef, Ref
    <2>5. SentRef.tmp \in DOMAIN chat /\ UpToDate(SentRef.tmp)
      <3>1. Shows(chat, SentRef, sending.msg)
        BY <2>1 DEF CopyInv, SendingSound
      <3>2. ~Plain(sending.rule)
        BY <1>b, <2>1 DEF SentInv
      <3> QED BY <2>4, <3>1, <3>2 DEF Shows, SameRoute, UpToDate
    <2>6. CASE needRetry
      BY <1>b, <1>c, <2>1, <2>6 DEF EditAtWork, Renews
    <2>7. CASE ~needRetry
      <3>1. ASSUME NEW i \in DOMAIN copied'[m] PROVE Renewed(copied[m][i])'
        <4>1. \/ copied'[m][i] = SentRef
              \/ \E k \in DOMAIN copied[m] : copied'[m][i] = copied[m][k]
          BY <2>3, <2>4, <3>1, WithCopiedIdFrom
        <4>2. PICK c \in Ref : c = copied'[m][i] /\ c.tmp \in DOMAIN chat /\ Renewed(c)
          BY <1>d, <2>4, <2>5, <2>7, <4>1 DEF EditAtWork, Renewed
        <4>3. Renewed(c)'
          BY <2>1, <4>2, <1>g
        <4> QED BY <4>2, <4>3
      <3> QED BY <1>b, <1>c, <2>1, <3>1 DEF EditAtWork, Renews
    <2> QED BY <2>6, <2>7
  <1>5. CASE EditUnconfirmed
    BY <1>5, <1>b, <1>c DEF EditUnconfirmed, EditAtWork
  <1>6. CASE EditSkipped
    BY <1>6, <1>b, <1>i DEF EditSkipped, Visiting, Ref
  <1>7. CASE EditAsNewVersion
    <2>1. /\ refs # <<>> /\ refs' = Tail(refs) /\ UNCHANGED <<task, needRetry, copied>>
          /\ RuleCfg[Head(refs).rule].copyOnce
      BY <1>7 DEF EditAsNewVersion, Visiting, storeVars
    <2>2. PICK r \in Ref : r = Head(refs) /\ Shows(chat, r, m)
      BY <1>i, <2>1
    <2>3. r.tmp \in DOMAIN chat /\ UpToDate(r.tmp)
      BY <2>1, <2>2 DEF Shows, SameRoute, UpToDate, Plain
    <2>4. UpToDate(r.tmp)'
      BY <2>3, UpToDateStays
    <2> QED BY <2>1, <2>2, <2>4, <1>f, <1>h
  <1>8. CASE EditInPlace
    <2>1. refs # <<>> /\ refs' = Tail(refs) /\ UNCHANGED <<task, needRetry, copied>>
      BY <1>8 DEF EditInPlace, Visiting
    <2>2. PICK r \in Ref : r = Head(refs)
      BY <1>i, <2>1
    <2>3. chat'[r.tmp].ver = 2
      BY <1>8, <1>b, <2>2, EditSucceeds
    <2>4. UpToDate(r.tmp)'
      BY <2>3 DEF UpToDate
    <2> QED BY <2>1, <2>2, <2>4, <1>f, <1>h
  <1>9. CASE FinishEdit
    <2>1. /\ sending = Idle /\ refs = <<>> /\ Finish({m}) /\ UNCHANGED chat
      BY <1>9, <1>b DEF FinishEdit, telegramVars
    <2>2. CASE needRetry
      <3>1. task \in EditTask
        BY <1>a, <1>b, TaskKinds
      <3>2. task.attempt \in Nat /\ MaxRetry \in Nat
        BY <3>1, BoundAssumption DEF EditTask
      <3>3. task.attempt < MaxRetry
        <4>1. ~(task.attempt >= MaxRetry)
          BY <2>1, <2>2 DEF Finish
        <4> QED BY <3>2, <4>1
      <3>4. queue' = Append(queue, Retried(task))
        BY <2>1, <2>2, <3>3 DEF Finish, MayRetry, Enqueue
      <3>5. Retried(task).kind = "edit" /\ Retried(task).msg = m
        BY <1>b, <3>1 DEF Retried, EditTask
      <3>6. Renews(Retried(task), m) /\ ~ForwardOf(Retried(task), m)
        BY <3>5 DEF Renews, ForwardOf
      <3>7. Retried(task) \in Task
        BY <1>a, <3>4, AppendedTask DEF TypeOK
      <3>8. \E k \in DOMAIN queue' : queue'[k] = Retried(task) /\ Behind(k, m)'
        BY <1>a, <3>4, <3>6, <3>7, LastIsBehind
      <3> QED BY <3>6, <3>8 DEF EditWaits
    <2>3. CASE ~needRetry
      <3>1. ~ForwardOf(task, m)'
        BY <2>1 DEF Finish, Idle, ForwardOf
      <3>2. ASSUME NEW t \in DOMAIN chat, chat[t].msg = m PROVE UpToDate(t)
        <4>1. CASE Live(t) /\ Plain(chat[t].rule)
          <5>1. Named(t)
            BY <2>1, <3>2, <4>1 DEF KnownInv, Known, Unrecorded
          <5>2. PICK i \in DOMAIN copied[m] : copied[m][i].tmp = t
            BY <3>2, <5>1 DEF Named
          <5> QED BY <2>1, <2>3, <5>2 DEF EditAtWork, Renewed
        <4> QED BY <4>1 DEF UpToDate
      <3> QED BY <1>c, <2>1, <3>1, <3>2 DEF EditDone, UpToDate, Live
    <2> QED BY <2>2, <2>3
  <1>10. CASE Deletes
    BY <1>10, <1>b DEF Deletes, StartDelete, NextTaskIs, DeleteIndelible, DeleteUnconfirmed,
                       DeleteCopy, DeleteNextId, FinishDelete, Visiting
  <1> QED BY <1>1, <1>2, <1>3, <1>4, <1>5, <1>6, <1>7, <1>8, <1>9, <1>10, WorkFrame DEF Edits

\* Where an edit has reached every copy, none is left behind or comes anew.
LEMMA EditDoneStep ==
    ASSUME CopyInv, TypeOK', [Next]_vars, ~Crash, IngressInv, TasksInv, SentInv,
           NEW m \in Messages, srcVer[m] = 2, EditDone(m)
    PROVE  EditDone(m)'
  <1>a. TypeOK /\ queue \in Seq(Task)
    BY DEF CopyInv, IdInv, TypeOK
  <1>1. NoForwards(m)'
    BY <1>a, BehindKept, NoOlderForwards DEF EditDone
  <1>2. ~ForwardOf(task, m)'
    <2>1. CASE task' = task
      BY <2>1 DEF EditDone, ForwardOf
    <2>2. CASE task' = Idle
      BY <2>2 DEF Idle, ForwardOf
    <2>3. CASE TakesHead
      <3>1. 1 \in DOMAIN queue /\ queue[1] = Head(queue) /\ task' = Head(queue)
        BY <1>a, <2>3 DEF TakesHead
      <3> QED BY <3>1 DEF EditDone, NoForwards, ForwardOf
    <2> QED BY <2>1, <2>2, <2>3, Takes
  <1>3. ASSUME NEW t \in DOMAIN chat', chat'[t].msg = m, Live(t)', Plain(chat'[t].rule)
        PROVE  UpToDate(t)'
    <2>1. CASE t \in DOMAIN chat
      <3>1. chat[t].msg = m
        BY <1>3, <2>1, CopyFrom
      <3> QED BY <2>1, <3>1, UpToDateStays DEF EditDone
    <2>2. CASE t \notin DOMAIN chat
      <3>1. SendCopy /\ sending.msg = m /\ Plain(sending.rule)
        BY <1>3, <2>2, CopyFrom
      <3>2. ForwardOf(task, m)
        BY <3>1 DEF SendCopy, SentInv, ForwardOf
      <3> QED BY <3>2 DEF EditDone
    <2> QED BY <2>1, <2>2
  <1>4. \A t \in DOMAIN chat' : chat'[t].msg = m => UpToDate(t)'
    BY <1>3 DEF UpToDate
  <1> QED BY <1>1, <1>2, <1>4 DEF EditDone

\* What an undisturbed process keeps about one edit of a message.
SyncInv ==
    /\ RouteInv /\ rules = Rules /\ TasksInv /\ IngressInv /\ SentInv /\ IntactInv
    /\ ChatInv /\ KnownInv /\ AnswerInv /\ EditedInv

LEMMA SyncInit == Init => SyncInv
  <1> SUFFICES ASSUME Init PROVE SyncInv
    OBVIOUS
  <1>1. rules = Rules /\ TasksInv /\ IngressInv /\ SentInv /\ IntactInv
    BY DEF Init, TasksInv, Versed, Idle, IngressInv, SentInv, IntactInv
  <1>2. ChatInv /\ KnownInv /\ AnswerInv /\ EditedInv
    BY DEF Init, ChatInv, KnownInv, AnswerInv, EditedInv
  <1> QED BY <1>1, <1>2, RouteInit DEF SyncInv

LEMMA SyncStep ==
    ASSUME EditedOnce, "edit" \notin Faults, "read" \notin Faults, SyncInv, [Next]_vars
    PROVE  SyncInv'
  <1>1. RouteInv' /\ RouteInv /\ rules = Rules
    BY RouteInvStep DEF SyncInv
  <1>2. TypeOK /\ CopyInv /\ TypeOK'
    BY <1>1 DEF RouteInv, CopyInv, IdInv
  <1>3. rules' = rules /\ ~Crash
    BY <1>2, RulesStay DEF EditedOnce
  <1>a. "store" \notin Faults
    BY DEF EditedOnce, Undisturbed
  <1>4. TasksInv' /\ IngressInv' /\ SentInv' /\ IntactInv'
    BY <1>1, <1>2, <1>3, <1>a, TasksStep, IngressStep, SentStep, IntactStep DEF SyncInv
  <1>5. ChatInv' /\ KnownInv' /\ AnswerInv'
    BY <1>1, <1>2, <1>3, <1>a, ChatInvStep, KnownInvStep, AnswerInvStep DEF SyncInv
  <1>6. ASSUME NEW m \in Messages, m \notin srcGone', m \notin gaveUp', srcVer'[m] = 2
        PROVE  Resolving(m)' \/ EditWaits(m)' \/ EditAtWork(m)' \/ EditDone(m)'
    <2>1. CASE srcVer[m] = 2
      <3>1. m \notin srcGone /\ m \notin gaveUp
        BY <1>6, GoneStays, GivenUp
      <3>2. CASE Resolving(m)
        BY <1>1, <1>2, <1>3, <3>1, <3>2, ResolvingStep
      <3>3. CASE EditWaits(m)
        BY <1>2, <1>3, <2>1, <3>3, EditWaitsStep DEF SyncInv
      <3>4. CASE EditAtWork(m)
        BY <1>2, <1>3, <1>a, <1>6, <2>1, <3>1, <3>4, EditAtWorkStep DEF SyncInv
      <3>5. CASE EditDone(m)
        BY <1>2, <1>3, <2>1, <3>5, EditDoneStep DEF SyncInv
      <3> QED BY <2>1, <3>1, <3>2, <3>3, <3>4, <3>5 DEF SyncInv, EditedInv
    <2>2. CASE srcVer[m] # 2
      <3>1. OnEditUpdate(m)
        BY <1>2, <1>6, <2>2, SourceStep
      <3> DEFINE g == [msg |-> m, for |-> srcVer[m] + 1, ver |-> 0]
      <3>2. g \in resolvers' /\ g.msg = m
        BY <3>1 DEF OnEditUpdate
      <3> HIDE DEF g
      <3> QED BY <3>2 DEF Resolving
    <2> QED BY <2>1, <2>2
  <1> QED BY <1>1, <1>3, <1>4, <1>5, <1>6 DEF SyncInv, EditedInv

\* In a process that neither dies nor changes its rules nor fails to write its store, where a
\* message is edited once and Telegram answers the reads and the edits it is asked for, no
\* copy misses the edit: once the process is at rest, every delivered copy shows the version
\* of its source, with the answer mapping that version asks for, unless the retries of the
\* edit ran out (editMessagesWithRetry).
THEOREM EditsReachEveryCopy ==
    ASSUME MaxCrashes = 0, MaxReloads = 0, MaxVersion <= 2,
           "edit" \notin Faults, "read" \notin Faults, "store" \notin Faults
    PROVE  Spec => []SyncedAtRest
  <1>1. SyncInv => SyncedAtRest
    <2> SUFFICES ASSUME SyncInv, AtRest, NEW t \in DOMAIN chat, chat[t].status = "sent",
                        chat[t].msg \notin srcGone, chat[t].msg \notin gaveUp,
                        Plain(chat[t].rule)
                 PROVE  /\ chat[t].ver = srcVer[chat[t].msg]
                        /\ (answer[t] = chat[t].msg) <=> (chat[t].ver \in WithMarkup)
      BY DEF SyncedAtRest, Plain
    <2> DEFINE m == chat[t].msg
    <2>1. TypeOK /\ CopyInv /\ SeenInv /\ Live(t)
      BY DEF SyncInv, RouteInv, CopyInv, IdInv, Live
    <2>2. m \in Messages /\ chat[t].rule \in Rules /\ chat[t].dst \in Dsts
      <3>1. chat[t] \in Copy
        BY <2>1 DEF TypeOK
      <3> QED BY <3>1 DEF Copy
    <2>3. queue = <<>> /\ task = Idle /\ resolvers = {}
      BY DEF AtRest
    <2>4. sending = Idle
      BY <2>1, <2>3 DEF CopyInv, SendingSound, Idle
    <2>5. chat[t].ver = srcVer[m]
      <3>1. chat[t].ver = 1 \/ (chat[t].ver = 2 /\ srcVer[m] = 2)
        BY <2>1 DEF SyncInv, ChatInv
      <3>2. srcVer[m] # 0
        BY <2>1, <2>2 DEF SeenInv, Begun, InChat, On
      <3>3. srcVer[m] \in {1, 2}
        <4>1. srcVer[m] \in (1..MaxVersion) \cup {0} /\ MaxVersion \in {1, 2}
          BY <2>1, <2>2, BoundAssumption DEF TypeOK, Versions
        <4> QED BY <3>2, <4>1
      <3>4. CASE srcVer[m] = 2
        <4>1. ~Resolving(m) /\ ~EditWaits(m) /\ ~EditAtWork(m)
          BY <2>3 DEF Resolving, EditWaits, EditAtWork, Renews, Idle
        <4>2. UpToDate(t)
          BY <2>2, <3>4, <4>1 DEF SyncInv, EditedInv, EditDone
        <4> QED BY <2>1, <3>4, <4>2 DEF UpToDate
      <3> QED BY <3>1, <3>3, <3>4
    <2>6. (answer[t] # NoMsg) <=> (chat[t].ver \in WithMarkup)
      <3>1. AnswerWrites(t) = {}
        BY DEF AtRest, AnswerWrites
      <3> QED BY <2>1, <2>4, <3>1 DEF SyncInv, AnswerInv, Unrecorded
    <2>7. (answer[t] # NoMsg) <=> (answer[t] = m)
      <3>1. t \in TmpIds
        BY <2>1, BoundAssumption DEF TypeOK, TmpIds
      <3> QED BY <2>1, <2>2, <3>1, ConfigAssumption DEF CopyInv, AnswersSound
    <2> QED BY <2>5, <2>6, <2>7
  <1>2. SyncInv /\ [Next]_vars => SyncInv'
    BY SyncStep DEF EditedOnce, Undisturbed
  <1> QED BY <1>1, <1>2, SyncInit, PTL DEF Spec

(***************************************************************************)
(* The chats as their readers see them                                     *)
(***************************************************************************)

\* What the rules say of a message of theirs.
MayForward(m, r) == RuleCfg[r].sendCopy \/ m \notin Protected
Aside(r) == {RuleCfg[r].check, RuleCfg[r].other}

\* The versions an edit may write: the source has had them.
Edited(m, v) == v \in 2..srcVer[m]

\* What is queued is as the update loop or an edit made it, however long it waits.
TaskTrue(t) ==
    /\ t.kind = "forward" => /\ t.ver = 1 /\ Chats!Into(t.rule, t.dst)
                             /\ MayForward(t.msg, t.rule)
    /\ t.kind = "native" => t.dst \in Aside(t.rule) /\ MayForward(t.msg, t.rule)
    /\ t.kind = "edit" => Edited(t.msg, t.ver)
    /\ t.kind = "delete" => (reloads = 0 => t.rs = Rules)

TasksTrue == /\ TaskTrue(task) /\ \A i \in DOMAIN queue : TaskTrue(queue[i])
             /\ \A g \in resolvers : srcVer[g.msg] >= 2 /\ (g.ver # 0 => Edited(g.msg, g.ver))
             /\ reloads = 0 => rules = Rules

\* What the update loop has still to queue for the rule it is at.
LoopTrue ==
    ingress # Idle /\ ingress.mode # "none" =>
      /\ MayForward(ingress.msg, Head(ingress.rules))
      /\ ingress.mode = "ok" =>
           \A i \in DOMAIN ingress.to : Chats!Into(Head(ingress.rules), ingress.to[i])

\* A first message is of the first version and where its rule sends it; a version is of an
\* edit, and the copy it follows is there until it is sent.
CallTrue ==
    sending # Idle =>
      IF sending.prev = 0
      THEN /\ sending.ver = 1 /\ Chats!Into(sending.rule, sending.dst)
           /\ MayForward(sending.msg, sending.rule)
      ELSE /\ Edited(sending.msg, sending.ver)
           /\ RuleCfg[sending.rule].copyOnce /\ RuleCfg[sending.rule].sendCopy
           /\ sending.tmp = 0 => /\ CopyOf(sending.prev) \in DOMAIN chat
                                 /\ chat[CopyOf(sending.prev)].status \in {"sent", "deleted"}

\* Only rules that copy have copies.
CopiesTrue ==
    \A t \in DOMAIN chat :
      chat[t].status \in {"pending", "sent", "deleted"} => RuleCfg[chat[t].rule].sendCopy

MirrorInv == RouteInv /\ TasksTrue /\ LoopTrue /\ CallTrue /\ CopiesTrue

LEMMA MirrorInvInit == Init => MirrorInv
  <1> SUFFICES ASSUME Init PROVE MirrorInv
    OBVIOUS
  <1>1. TasksTrue
    BY DEF Init, TasksTrue, TaskTrue, Idle
  <1>2. LoopTrue /\ CallTrue /\ CopiesTrue
    BY DEF Init, LoopTrue, CallTrue, CopiesTrue
  <1> QED BY <1>1, <1>2, RouteInit DEF MirrorInv

\* Who changes the versions of the source, and the rules.
LEMMA SourceMoves ==
    ASSUME [Next]_vars
    PROVE  /\ srcVer' = srcVer \/ \E m \in Messages : OnNewMessage(m) \/ OnEditUpdate(m)
           /\ UNCHANGED <<rules, reloads>> \/ \E rs \in SUBSET Rules : SetRuleSetWithPush(rs)
  <1> USE DEF telegramVars, boundVars
  <1>1. CASE UpdateLoop
    BY <1>1 DEF UpdateLoop, SkipRule, RouteOk, RouteDst, RouteStats, RouteAside
  <1>2. CASE Telegram
    <2>1. ASSUME NEW m \in Messages, OnNewMessage(m) \/ OnEditUpdate(m)
          PROVE  UNCHANGED <<rules, reloads>>
      BY <2>1 DEF OnNewMessage, OnEditUpdate
    <2>2. CASE \/ \E b \in Batches : OnDeletedMessages(b)
               \/ \E t \in DOMAIN chat : OnMessageSendSucceeded(t) \/ SendFailed(t)
      BY <2>2 DEF OnDeletedMessages, OnMessageSendSucceeded, SendFailed
    <2> QED BY <1>2, <2>1, <2>2 DEF Telegram
  <1>3. CASE WriteNext \/ RunMap \/ RunStats \/ RunNative \/ StartForward \/ SendCopy \/ SendCopyFails
               \/ ForwardNatively \/ RecordCopy
    BY <1>3 DEF WriteNext, RunMap, RunStats, RunNative, StartForward, SendCopy, SendCopyFails,
                ForwardNatively, RecordCopy
  <1>4. CASE Edits
    BY <1>4 DEF Edits, StartEdit, EditUnconfirmed, EditSkipped, EditAsNewVersion,
                EditInPlace, FinishEdit
  <1>5. CASE Deletes
    BY <1>5 DEF Deletes, StartDelete, DeleteIndelible, DeleteUnconfirmed, DeleteCopy,
                DeleteNextId, FinishDelete
  <1>6. CASE \/ \E g \in resolvers : Resolve(g)
             \/ \E l \in linkers : NextLink(l)
             \/ Crash \/ UNCHANGED vars
    BY <1>6 DEF Resolve, ResolveEdit, OnEditedMessage, NextLink, LinkPoll, LinkRead,
                LinkWrite, Crash, vars
  <1>7. ASSUME NEW rs \in SUBSET Rules, SetRuleSetWithPush(rs) PROVE srcVer' = srcVer
    BY <1>7 DEF SetRuleSetWithPush
  <1> QED BY <1>1, <1>2, <1>3, <1>4, <1>5, <1>6, <1>7 DEF Next, Worker, WorkStep, Edits, Deletes

\* The source never goes back to an earlier version, and a reload is never undone.
LEMMA SourceGrows ==
    ASSUME TypeOK, [Next]_vars
    PROVE  /\ \A m \in Messages : srcVer[m] \in Nat /\ srcVer'[m] \in Nat /\ srcVer[m] <= srcVer'[m]
           /\ \A m \in Messages : \A v : Edited(m, v) => Edited(m, v)'
           /\ reloads' = 0 => reloads = 0 /\ rules' = rules
  <1>1. srcVer \in [Messages -> Versions \cup {0}] /\ reloads \in Nat
    BY DEF TypeOK
  <1>2. \A m \in Messages : srcVer[m] \in Nat
    BY <1>1, BoundAssumption DEF Versions
  <1>3. ASSUME NEW m \in Messages
        PROVE  srcVer'[m] \in Nat /\ srcVer[m] <= srcVer'[m]
    <2>1. CASE srcVer' = srcVer
      BY <1>2, <2>1
    <2>2. ASSUME NEW n \in Messages, OnNewMessage(n) PROVE srcVer'[m] \in Nat /\ srcVer[m] <= srcVer'[m]
      BY <1>1, <1>2, <2>2 DEF OnNewMessage
    <2>3. ASSUME NEW n \in Messages, OnEditUpdate(n) PROVE srcVer'[m] \in Nat /\ srcVer[m] <= srcVer'[m]
      <3>1. srcVer' = [srcVer EXCEPT ![n] = srcVer[n] + 1]
        BY <2>3 DEF OnEditUpdate
      <3>2. srcVer'[m] = srcVer[m] \/ srcVer'[m] = srcVer[m] + 1
        BY <1>1, <3>1
      <3> QED BY <1>2, <3>2
    <2> QED BY <2>1, <2>2, <2>3, SourceMoves
  <1>4. ASSUME NEW m \in Messages, NEW v, Edited(m, v) PROVE Edited(m, v)'
    BY <1>2, <1>3, <1>4 DEF Edited
  <1>5. reloads' = 0 => reloads = 0 /\ rules' = rules
    <2>1. ASSUME NEW rs, SetRuleSetWithPush(rs) PROVE reloads' # 0
      BY <1>1, <2>1 DEF SetRuleSetWithPush
    <2> QED BY <2>1, SourceMoves
  <1> QED BY <1>2, <1>3, <1>4, <1>5

\* A task stays true while it waits and is worked on.
LEMMA TaskStaysTrue ==
    ASSUME TypeOK, [Next]_vars, NEW t \in Task \cup {Idle}, TaskTrue(t)
    PROVE  TaskTrue(t)'
  <1>1. t.kind = "edit" => t.msg \in Messages
    BY TaskKinds DEF EditTask
  <1> QED BY <1>1, SourceGrows DEF TaskTrue, MayForward, Aside, Chats!Into

\* What is queued is true when it is queued.
QueuesTrue(x) == queue' = Append(queue, x) /\ TaskTrue(x)

LEMMA QueuedTrue ==
    ASSUME MirrorInv, TypeOK', [Next]_vars
    PROVE  queue' = queue \/ TakesTask \/ (\E x \in Task : QueuesTrue(x)) \/ Crash
  <1>a. TypeOK /\ queue \in Seq(Task) /\ queue' \in Seq(Task) /\ TasksTrue /\ LoopTrue
    BY DEF MirrorInv, RouteInv, CopyInv, IdInv, TypeOK
  <1>b. ASSUME NEW x, QueuesTrue(x) PROVE \E y \in Task : QueuesTrue(y)
    BY <1>a, <1>b, AppendedTask DEF QueuesTrue
  <1>c. ASSUME NEW ms, Finish(ms), task.kind \in {"edit", "delete"}
        PROVE  queue' = queue \/ \E x \in Task : QueuesTrue(x)
    <2>1. CASE queue' # queue
      <3>1. queue' = Append(queue, Retried(task))
        BY <1>c, <2>1 DEF Finish, Enqueue
      <3>2. task \in EditTask \cup DeleteTask /\ TaskTrue(task)
        BY <1>a, <1>c, TaskKinds DEF TypeOK, TasksTrue
      <3>3. TaskTrue(Retried(task))
        <4>1. CASE task \in EditTask
          <5>1. /\ Retried(task).kind = "edit" /\ task.kind = "edit"
                /\ Retried(task).msg = task.msg /\ Retried(task).ver = task.ver
            BY <4>1 DEF Retried, EditTask
          <5> QED BY <3>2, <5>1 DEF TaskTrue
        <4>2. CASE task \in DeleteTask
          <5>1. /\ Retried(task).kind = "delete" /\ task.kind = "delete"
                /\ Retried(task).rs = task.rs
            BY <4>2 DEF Retried, DeleteTask
          <5> QED BY <3>2, <5>1 DEF TaskTrue
        <4> QED BY <3>2, <4>1, <4>2
      <3>4. QueuesTrue(Retried(task))
        BY <3>1, <3>3 DEF QueuesTrue
      <3> QED BY <3>4, <1>b
    <2> QED BY <2>1
  <1>1. CASE UpdateLoop
    <2>1. CASE SkipRule \/ RouteOk
      BY <2>1 DEF SkipRule, RouteOk
    <2>2. CASE RouteDst
      <3> DEFINE x == [kind |-> "forward", msg |-> ingress.msg, rule |-> Head(ingress.rules),
                       dst |-> Head(ingress.to), ver |-> 1]
      <3>1. /\ ingress # Idle /\ ingress.mode = "ok" /\ ingress.to # <<>>
            /\ queue' = queue \/ queue' = Append(queue, x)
        BY <2>2 DEF RouteDst, Enqueue
      <3>2. ingress.to \in Seq(Dsts)
        BY <1>a, <3>1 DEF TypeOK, Ingress
      <3>3. 1 \in DOMAIN ingress.to /\ ingress.to[1] = Head(ingress.to)
        BY <3>1, <3>2
      <3>4. /\ MayForward(ingress.msg, Head(ingress.rules))
            /\ Chats!Into(Head(ingress.rules), Head(ingress.to))
        BY <1>a, <3>1, <3>3 DEF LoopTrue
      <3>5. TaskTrue(x)
        BY <3>4 DEF TaskTrue
      <3> QED BY <3>1, <3>5, <1>b DEF QueuesTrue
    <2>3. CASE RouteStats
      <3> DEFINE x == [kind |-> "stats", rule |-> Head(ingress.rules), ok |-> ingress.mode = "ok"]
      <3>1. QueuesTrue(x)
        BY <2>3 DEF RouteStats, Enqueue, QueuesTrue, TaskTrue
      <3> QED BY <3>1, <1>b
    <2>4. ASSUME NEW v \in {"check", "other"}, RouteAside(v)
          PROVE  queue' = queue \/ \E x \in Task : QueuesTrue(x)
      <3> DEFINE r == Head(ingress.rules)
                 x == [kind |-> "native", msg |-> ingress.msg, rule |-> r,
                       dst |-> RuleCfg[r][v], ver |-> 1]
      <3>1. ~RuleSkips(r) /\ (queue' = queue \/ queue' = Append(queue, x))
        BY <2>4 DEF RouteAside, Enqueue
      <3>2. MayForward(ingress.msg, r)
        BY <3>1 DEF RuleSkips, MayForward
      <3>3. RuleCfg[r][v] \in Aside(r)
        BY DEF Aside
      <3> HIDE DEF r
      <3>4. TaskTrue(x)
        BY <3>2, <3>3 DEF TaskTrue
      <3> QED BY <3>1, <3>4, <1>b DEF QueuesTrue
    <2> QED BY <1>1, <2>1, <2>2, <2>3, <2>4 DEF UpdateLoop
  <1>2. CASE Telegram
    <2>1. ASSUME NEW m \in Messages, OnNewMessage(m) \/ OnEditUpdate(m) PROVE queue' = queue
      BY <2>1 DEF OnNewMessage, OnEditUpdate
    <2>2. ASSUME NEW b \in Batches, OnDeletedMessages(b)
          PROVE  queue' = queue \/ \E x \in Task : QueuesTrue(x)
      <3> DEFINE x == [kind |-> "delete", ids |-> b, rs |-> rules, attempt |-> 0, at |-> clock']
      <3>1. TaskTrue(x)
        BY <1>a DEF TaskTrue, TasksTrue
      <3>2. queue' = queue \/ QueuesTrue(x)
        BY <2>2, <3>1 DEF OnDeletedMessages, Enqueue, QueuesTrue
      <3> QED BY <3>2, <1>b
    <2>3. ASSUME NEW t \in DOMAIN chat, OnMessageSendSucceeded(t)
          PROVE  \E x \in Task : QueuesTrue(x)
      <3> DEFINE x == [kind |-> "map", tmp |-> t, new |-> Perm(t)]
      <3>1. QueuesTrue(x)
        BY <2>3 DEF OnMessageSendSucceeded, Enqueue, QueuesTrue, TaskTrue
      <3> QED BY <3>1, <1>b
    <2>4. ASSUME NEW t \in DOMAIN chat, SendFailed(t) PROVE queue' = queue
      BY <2>4 DEF SendFailed
    <2> QED BY <1>2, <2>1, <2>2, <2>3, <2>4 DEF Telegram
  <1>3. CASE WriteNext \/ SendCopy \/ SendCopyFails \/ ForwardNatively \/ RecordCopy
    BY <1>3 DEF WriteNext, SendCopy, SendCopyFails, ForwardNatively, RecordCopy
  <1>4. CASE EditUnconfirmed \/ EditSkipped \/ EditAsNewVersion \/ EditInPlace
    BY <1>4 DEF EditUnconfirmed, EditSkipped, EditAsNewVersion, EditInPlace
  <1>5. CASE DeleteIndelible \/ DeleteUnconfirmed \/ DeleteCopy \/ DeleteNextId
    BY <1>5 DEF DeleteIndelible, DeleteUnconfirmed, DeleteCopy, DeleteNextId
  <1>6. CASE FinishEdit \/ FinishDelete
    BY <1>6, <1>c DEF FinishEdit, FinishDelete
  <1>7. ASSUME NEW g \in resolvers, Resolve(g)
        PROVE  queue' = queue \/ \E x \in Task : QueuesTrue(x)
    <2> DEFINE x == [kind |-> "edit", msg |-> g.msg, ver |-> g.ver, rs |-> rules,
                     attempt |-> 0, at |-> clock[g.msg] + 1]
    <2>1. g.ver # 0 => TaskTrue(x)
      BY <1>a DEF TaskTrue, TasksTrue
    <2>2. queue' = queue \/ QueuesTrue(x)
      BY <1>7, <2>1 DEF Resolve, ResolveEdit, OnEditedMessage, Enqueue, QueuesTrue
    <2> QED BY <2>2, <1>b
  <1>8. CASE \/ \E l \in linkers : NextLink(l)
             \/ \E rs \in SUBSET Rules : SetRuleSetWithPush(rs)
             \/ UNCHANGED vars
    BY <1>8 DEF NextLink, LinkPoll, LinkRead, LinkWrite, SetRuleSetWithPush, vars
  <1> QED BY <1>1, <1>2, <1>3, <1>4, <1>5, <1>6, <1>7, <1>8 DEF Next, Worker, WorkStep, TakesTask

LEMMA TasksTrueStep ==
    ASSUME MirrorInv, TypeOK', [Next]_vars
    PROVE  TasksTrue'
  <1>a. /\ TypeOK /\ queue \in Seq(Task) /\ resolvers \subseteq Resolver /\ TasksTrue
        /\ task \in Task \cup {Idle}
    BY DEF MirrorInv, RouteInv, CopyInv, IdInv, TypeOK
  <1>b. \A m \in Messages : /\ srcVer[m] \in Nat /\ srcVer'[m] \in Nat /\ srcVer[m] <= srcVer'[m]
                            /\ \A v : Edited(m, v) => Edited(m, v)'
    BY <1>a, SourceGrows
  <1>c. \A i \in DOMAIN queue : queue[i] \in Task /\ TaskTrue(queue[i])
    BY <1>a DEF TasksTrue
  <1>1. TaskTrue(task)'
    <2>1. CASE task' = task
      <3>1. PICK t \in Task \cup {Idle} : t = task /\ TaskTrue(t)
        BY <1>a DEF TasksTrue
      <3>2. TaskTrue(t)'
        BY <1>a, <3>1, TaskStaysTrue
      <3> QED BY <2>1, <3>1, <3>2
    <2>2. CASE task' = Idle
      BY <2>2 DEF TaskTrue, Idle
    <2>3. CASE TakesHead
      <3>1. 1 \in DOMAIN queue /\ queue[1] = Head(queue)
        BY <1>a, <2>3 DEF TakesHead
      <3>2. PICK t \in Task : t = Head(queue) /\ TaskTrue(t)
        BY <1>c, <3>1
      <3>3. TaskTrue(t)'
        BY <1>a, <3>2, TaskStaysTrue
      <3> QED BY <2>3, <3>2, <3>3 DEF TakesHead
    <2> QED BY <2>1, <2>2, <2>3, Takes
  <1>2. ASSUME NEW i \in DOMAIN queue' PROVE TaskTrue(queue[i])'
    <2>a. ASSUME NEW k \in DOMAIN queue, queue'[i] = queue[k]
          PROVE  TaskTrue(queue[i])'
      <3>1. PICK t \in Task : t = queue[k] /\ TaskTrue(t)
        BY <1>c
      <3>2. TaskTrue(t)'
        BY <1>a, <3>1, TaskStaysTrue
      <3> QED BY <2>a, <3>1, <3>2
    <2>1. CASE queue' = queue
      BY <2>1, <2>a
    <2>2. CASE TakesTask
      <3>1. queue # <<>> /\ queue' = Tail(queue)
        BY <2>2 DEF TakesTask, RunMap, RunStats, RunNative, StartForward, StartEdit, StartDelete,
                    NextTaskIs, Dequeue
      <3>2. i + 1 \in DOMAIN queue /\ queue'[i] = queue[i + 1]
        BY <1>a, <3>1, TailShifts
      <3> QED BY <3>2, <2>a
    <2>3. ASSUME NEW x \in Task, QueuesTrue(x) PROVE TaskTrue(queue[i])'
      <3>1. (i \in DOMAIN queue /\ queue'[i] = queue[i]) \/ queue'[i] = x
        BY <1>a, <2>3, AppendExtends DEF QueuesTrue
      <3>2. TaskTrue(x)'
        BY <1>a, <2>3, TaskStaysTrue DEF QueuesTrue
      <3> QED BY <3>1, <3>2, <2>a
    <2>4. CASE Crash
      BY <2>4 DEF Crash
    <2> QED BY <2>1, <2>2, <2>3, <2>4, QueuedTrue
  <1>3. \A g \in resolvers' : srcVer'[g.msg] >= 2 /\ (g.ver # 0 => Edited(g.msg, g.ver)')
    <2> DEFINE Good(g) == srcVer'[g.msg] >= 2 /\ (g.ver # 0 => Edited(g.msg, g.ver)')
    <2>a. \A g \in resolvers : g.msg \in Messages /\ Good(g)
      <3>1. \A g \in resolvers :
              g.msg \in Messages /\ srcVer[g.msg] >= 2 /\ (g.ver # 0 => Edited(g.msg, g.ver))
        BY <1>a DEF TasksTrue, Resolver
      <3> QED BY <3>1, <1>b
    <2> SUFFICES \A g \in resolvers' : Good(g)
      OBVIOUS
    <2>1. CASE resolvers' = resolvers
      BY <2>1, <2>a
    <2>2. ASSUME NEW m \in Messages, OnEditUpdate(m) PROVE \A g \in resolvers' : Good(g)
      <3>1. /\ srcVer[m] \in 1..(MaxVersion - 1) /\ srcVer' = [srcVer EXCEPT ![m] = srcVer[m] + 1]
            /\ resolvers' = resolvers \cup {[msg |-> m, for |-> srcVer[m] + 1, ver |-> 0]}
        BY <2>2 DEF OnEditUpdate
      <3>2. srcVer'[m] >= 2
        BY <1>a, <1>b, <3>1, BoundAssumption DEF TypeOK
      <3>3. Good([msg |-> m, for |-> srcVer[m] + 1, ver |-> 0])
        BY <3>2
      <3> HIDE DEF Good
      <3> QED BY <2>a, <3>1, <3>3
    <2>3. ASSUME NEW g \in resolvers, Resolve(g) PROVE \A k \in resolvers' : Good(k)
      <3>0. PICK v \in {srcVer[g.msg]} : TRUE
        OBVIOUS
      <3> DEFINE h == [g EXCEPT !.ver = v]
      <3>1. /\ resolvers' \subseteq resolvers \cup {h}
            /\ srcVer' = srcVer
        BY <2>3, <3>0 DEF Resolve, ResolveEdit, OnEditedMessage, telegramVars
      <3>2. g \in Resolver /\ srcVer[g.msg] >= 2 /\ g.msg \in Messages
        BY <1>a DEF TasksTrue, Resolver
      <3>3. h.msg = g.msg /\ h.ver = v
        BY <3>2 DEF Resolver
      <3>4. Edited(g.msg, v)'
        BY <1>b, <3>0, <3>1, <3>2 DEF Edited
      <3> HIDE DEF h
      <3>5. Good(h)
        BY <3>1, <3>2, <3>3, <3>4
      <3> HIDE DEF Good
      <3> QED BY <2>a, <3>1, <3>5
    <2>4. CASE Crash
      BY <2>4 DEF Crash
    <2> QED BY <2>1, <2>2, <2>3, <2>4, ResolverMoves
  <1>4. reloads' = 0 => rules' = Rules
    BY <1>a, SourceGrows DEF TasksTrue
  <1> QED BY <1>1, <1>2, <1>3, <1>4 DEF TasksTrue

LEMMA LoopTrueStep ==
    ASSUME TypeOK, [Next]_vars, LoopTrue
    PROVE  LoopTrue'
  <1>1. CASE ingress' = ingress \/ ingress' = Idle
    BY <1>1 DEF LoopTrue
  <1>2. CASE SkipRule \/ RouteStats
    <2>1. ingress # Idle /\ ingress \in Ingress /\ ingress' = Rest
      BY <1>2 DEF SkipRule, RouteStats, TypeOK
    <2>2. Rest = Idle \/ Rest.mode = "none"
      BY <2>1 DEF Rest, Ingress
    <2> QED BY <2>1, <2>2 DEF LoopTrue
  <1>3. CASE RouteOk
    <2> DEFINE r == Head(ingress.rules)
    <2>1. /\ ingress # Idle /\ ingress \in Ingress /\ ~RuleSkips(r)
          /\ ingress' = [ingress EXCEPT !.mode = "ok", !.to = RuleCfg[r].to]
      BY <1>3 DEF RouteOk, TypeOK
    <2>2. /\ ingress'.msg = ingress.msg /\ ingress'.rules = ingress.rules
          /\ ingress'.to = RuleCfg[r].to
      BY <2>1 DEF Ingress
    <2>3. MayForward(ingress.msg, r)
      BY <2>1 DEF RuleSkips, MayForward
    <2>4. \A i \in DOMAIN RuleCfg[r].to : Chats!Into(r, RuleCfg[r].to[i])
      BY DEF Chats!Into
    <2> QED BY <2>2, <2>3, <2>4 DEF LoopTrue
  <1>4. CASE RouteDst
    <2>1. /\ ingress # Idle /\ ingress \in Ingress /\ ingress.mode = "ok" /\ ingress.to # <<>>
          /\ ingress' = [ingress EXCEPT !.to = Tail(ingress.to),
                                        !.marked = ingress.marked \cup {Head(ingress.to)}]
      BY <1>4 DEF RouteDst, TypeOK
    <2>2. /\ ingress'.msg = ingress.msg /\ ingress'.rules = ingress.rules
          /\ ingress'.to = Tail(ingress.to) /\ ingress.to \in Seq(Dsts)
      BY <2>1 DEF Ingress
    <2>3. \A i \in DOMAIN Tail(ingress.to) :
            i + 1 \in DOMAIN ingress.to /\ Tail(ingress.to)[i] = ingress.to[i + 1]
      BY <2>1, <2>2, TailShifts
    <2> QED BY <2>1, <2>2, <2>3 DEF LoopTrue
  <1>5. ASSUME NEW v \in {"check", "other"}, RouteAside(v) PROVE LoopTrue'
    <2> DEFINE r == Head(ingress.rules)
    <2>1. /\ ingress # Idle /\ ingress \in Ingress /\ ~RuleSkips(r)
          /\ ingress' = [ingress EXCEPT !.mode = v]
      BY <1>5 DEF RouteAside, TypeOK
    <2>2. /\ ingress'.msg = ingress.msg /\ ingress'.rules = ingress.rules
          /\ ingress'.mode # "ok"
      BY <2>1 DEF Ingress
    <2>3. MayForward(ingress.msg, r)
      BY <2>1 DEF RuleSkips, MayForward
    <2> QED BY <2>2, <2>3 DEF LoopTrue
  <1>6. ASSUME NEW m \in Messages, OnNewMessage(m) PROVE LoopTrue'
    BY <1>6 DEF OnNewMessage, LoopTrue
  <1> QED BY <1>1, <1>2, <1>3, <1>4, <1>5, <1>6, IngressMoves DEF Routes

\* The copy a new version follows was delivered.
LEMMA VersionFollows ==
    ASSUME CopyInv, EditAsNewVersion
    PROVE  LET c == Head(refs) IN
           /\ CopyOf(newId[c.tmp]) = c.tmp /\ c.tmp \in DOMAIN chat
           /\ chat[c.tmp].status \in {"sent", "deleted"} /\ chat[c.tmp].rule = c.rule
  <1> DEFINE c == Head(refs)
  <1>1. refs # <<>> /\ newId[c.tmp] # 0 /\ task.kind = "edit"
    BY DEF EditAsNewVersion, Visiting
  <1>2. c.tmp \in TmpIds /\ newId[c.tmp] \in PermIds /\ refs \in Seq(Ref) /\ TypeOK
    BY <1>1, VisitedRef DEF CopyInv, IdInv, TypeOK
  <1>3. Shows(chat, c, task.msg)
    BY <1>1, <1>2, TailRefs DEF CopyInv, WalkSound
  <1>4. newId[c.tmp] = Perm(c.tmp) /\ chat[c.tmp].status \in Delivered \cup {"deleted"}
    BY <1>1, <1>2, StoredId DEF CopyInv, IdInv, IdMapsAgree
  <1> QED BY <1>2, <1>3, <1>4, PermCopy DEF Shows, SameRoute, Natively, Delivered

LEMMA CallTrueStep ==
    ASSUME MirrorInv, TypeOK', [Next]_vars
    PROVE  CallTrue'
  <1>a. TypeOK /\ CopyInv /\ TasksTrue /\ CallTrue /\ CopiesTrue
    BY DEF MirrorInv, RouteInv, CopyInv, IdInv
  <1>b. \A m \in Messages : \A v : Edited(m, v) => Edited(m, v)'
    BY <1>a, SourceGrows
  <1>1. CASE sending' = Idle
    BY <1>1 DEF CallTrue
  <1>2. CASE sending' = sending /\ sending # Idle
    <2>1. sending \in Sending
      BY <1>a, <1>2 DEF TypeOK
    <2>2. CASE sending.prev = 0
      BY <1>a, <1>2, <2>2 DEF CallTrue, MayForward, Chats!Into
    <2>3. CASE sending.prev # 0
      <3>1. PICK s \in Sending : s = sending
        BY <2>1
      <3>2. Edited(s.msg, s.ver)'
        BY <1>a, <1>b, <1>2, <2>3, <3>1 DEF CallTrue, Sending
      <3>3. ChatStable /\ (DeleteCopy \/ NothingDeleted)
        BY <1>a, ChatStep
      <3>4. ~DeleteCopy
        BY <1>2 DEF DeleteCopy, Visiting
      <3>5. s.tmp = 0 => /\ CopyOf(s.prev) \in DOMAIN chat'
                         /\ chat'[CopyOf(s.prev)].status \in {"sent", "deleted"}
        BY <1>a, <1>2, <2>3, <3>1, <3>3, <3>4 DEF CallTrue, ChatStable, NothingDeleted
      <3>6. RuleCfg[s.rule].copyOnce /\ RuleCfg[s.rule].sendCopy
        BY <1>a, <1>2, <2>3, <3>1 DEF CallTrue
      <3> QED BY <1>2, <2>3, <3>1, <3>2, <3>5, <3>6 DEF CallTrue, CopyOf
    <2> QED BY <2>2, <2>3
  <1>3. CASE StartForward
    <2>1. /\ NextTaskIs("forward")
          /\ sending' = [kind |-> "send", msg |-> Head(queue).msg, rule |-> Head(queue).rule,
                         dst |-> Head(queue).dst, ver |-> Head(queue).ver, prev |-> 0, tmp |-> 0]
      BY <1>3 DEF StartForward
    <2>2. Head(queue).kind = "forward" /\ 1 \in DOMAIN queue /\ queue[1] = Head(queue)
      BY <1>a, <1>3, <2>1, HeadRouted DEF NextTaskIs
    <2>3. TaskTrue(Head(queue))
      BY <1>a, <2>2 DEF TasksTrue
    <2> QED BY <2>1, <2>2, <2>3 DEF CallTrue, TaskTrue, MayForward, Chats!Into
  <1>4. CASE SendCopy
    <2>1. /\ sending \in Sending /\ sending # Idle
          /\ sending' = [sending EXCEPT !.tmp = Len(chat) + 1]
      BY <1>4, <1>a DEF SendCopy, TypeOK
    <2>2. /\ sending'.msg = sending.msg /\ sending'.rule = sending.rule
          /\ sending'.dst = sending.dst /\ sending'.ver = sending.ver
          /\ sending'.prev = sending.prev /\ sending'.tmp # 0
      <3>1. Len(chat) + 1 # 0
        BY <1>a DEF TypeOK
      <3> QED BY <2>1, <3>1 DEF Sending
    <2>3. CASE sending.prev = 0
      BY <1>a, <2>1, <2>2, <2>3 DEF CallTrue, MayForward, Chats!Into
    <2>4. CASE sending.prev # 0
      <3>1. PICK s \in Sending : s = sending
        BY <2>1
      <3>2. Edited(s.msg, s.ver)'
        BY <1>a, <1>b, <2>1, <2>4, <3>1 DEF CallTrue, Sending
      <3>3. RuleCfg[s.rule].copyOnce /\ RuleCfg[s.rule].sendCopy
        BY <1>a, <2>1, <2>4, <3>1 DEF CallTrue
      <3> QED BY <2>2, <2>4, <3>1, <3>2, <3>3 DEF CallTrue
    <2> QED BY <2>3, <2>4
  <1>5. CASE EditAsNewVersion
    <2>1. PICK c \in Ref : c = Head(refs)
      BY <1>5, <1>a, VisitedRef DEF EditAsNewVersion, Visiting
    <2>2. PICK t \in EditTask : t = task
      BY <1>5, <1>a, TaskKinds DEF EditAsNewVersion, Visiting, TypeOK
    <2>3. /\ sending' = [kind |-> "send", msg |-> t.msg, rule |-> c.rule, dst |-> c.dst,
                         ver |-> t.ver, prev |-> newId[c.tmp], tmp |-> 0]
          /\ newId[c.tmp] # 0 /\ RuleCfg[c.rule].copyOnce /\ chat' = chat
      BY <1>5, <2>1, <2>2 DEF EditAsNewVersion, telegramVars
    <2>4. /\ CopyOf(newId[c.tmp]) = c.tmp /\ c.tmp \in DOMAIN chat
          /\ chat[c.tmp].status \in {"sent", "deleted"} /\ chat[c.tmp].rule = c.rule
      BY <1>5, <1>a, <2>1, VersionFollows
    <2>5. RuleCfg[c.rule].sendCopy
      BY <1>a, <2>4 DEF CopiesTrue
    <2>6. Edited(t.msg, t.ver)
      BY <1>a, <2>2 DEF TasksTrue, TaskTrue, EditTask
    <2>7. Edited(t.msg, t.ver)'
      BY <1>b, <2>2, <2>6 DEF EditTask
    <2>8. PICK p : p = newId[c.tmp]
      OBVIOUS
    <2> QED BY <2>3, <2>4, <2>5, <2>7, <2>8 DEF CallTrue, CopyOf
  <1> QED BY <1>1, <1>2, <1>3, <1>4, <1>5, SendingMoves

\* The messages as a reader sees them.
Made == [t \in DOMAIN chat |-> Seen(chat[t])]
SeenAs(st, x, v) == [status |-> st, msg |-> x.msg, rule |-> x.rule, dst |-> x.dst, ver |-> v]

\* What is made of a native forward, and of a copy.
LEMMA ForwardsMakes ==
    ASSUME TypeOK, TypeOK', NEW t, Forwards(t)
    PROVE  \/ chat' = chat
           \/ /\ t.msg \notin srcGone
              /\ \E x \in Copy : /\ chat' = Append(chat, x)
                                 /\ Seen(x) = SeenAs("native", t, srcVer[t.msg])
  <1>1. CASE chat' = chat
    BY <1>1 DEF Forwards
  <1>2. CASE chat' # chat
    <2> DEFINE x == [status |-> "native", msg |-> t.msg, rule |-> t.rule,
                     dst |-> t.dst, ver |-> srcVer[t.msg], replyTo |-> 0, next |-> {}]
    <2>1. chat' = Append(chat, x) /\ Seen(x) = SeenAs("native", t, srcVer[t.msg])
      BY <1>2 DEF Forwards, Seen, SeenAs
    <2> HIDE DEF x
    <2>2. chat \in Seq(Copy) /\ chat' \in Seq(Copy)
      BY DEF TypeOK
    <2>3. Len(chat') = Len(chat) + 1 /\ chat'[Len(chat) + 1] = x
      BY <2>1, <2>2
    <2>4. x \in Copy
      BY <2>2, <2>3
    <2>5. t.msg \notin srcGone
      BY <1>2 DEF Forwards
    <2> QED BY <2>1, <2>4, <2>5
  <1> QED BY <1>1, <1>2

LEMMA SendCopyMakes ==
    ASSUME TypeOK, TypeOK', SendCopy
    PROVE  \E x \in Copy : /\ chat' = Append(chat, x)
                           /\ Seen(x) = SeenAs("pending", sending, sending.ver)
  <1>1. PICK p \in ReplyTo(sending.msg, sending.dst) :
          chat' = Append(chat, [status |-> "pending", msg |-> sending.msg,
                                rule |-> sending.rule, dst |-> sending.dst,
                                ver |-> sending.ver, replyTo |-> p, next |-> {}])
    BY DEF SendCopy
  <1> DEFINE x == [status |-> "pending", msg |-> sending.msg,
                   rule |-> sending.rule, dst |-> sending.dst,
                   ver |-> sending.ver, replyTo |-> p, next |-> {}]
  <1>2. chat' = Append(chat, x) /\ Seen(x) = SeenAs("pending", sending, sending.ver)
    BY <1>1 DEF Seen, SeenAs
  <1> HIDE DEF x
  <1>3. chat \in Seq(Copy) /\ chat' \in Seq(Copy)
    BY DEF TypeOK
  <1>4. Len(chat') = Len(chat) + 1 /\ chat'[Len(chat) + 1] = x
    BY <1>2, <1>3
  <1>5. x \in Copy
    BY <1>3, <1>4
  <1> QED BY <1>2, <1>5

LEMMA CopiesTrueStep ==
    ASSUME MirrorInv, TypeOK', [Next]_vars
    PROVE  CopiesTrue'
  <1>a. TypeOK /\ CopyInv /\ CopiesTrue
    BY DEF MirrorInv, RouteInv, CopyInv, IdInv
  <1>b. ChatStable /\ (DeleteCopy \/ NothingDeleted)
    BY <1>a, ChatStep
  <1> SUFFICES ASSUME NEW t \in DOMAIN chat', chat'[t].status \in {"pending", "sent", "deleted"}
               PROVE  RuleCfg[chat'[t].rule].sendCopy
    BY DEF CopiesTrue
  <1>1. CASE t \in DOMAIN chat
    <2>1. chat[t].status \in {"pending", "sent", "deleted"}
      <3>1. CASE Live(t)'
        BY <1>1, <1>a, <3>1, CopyFrom DEF Live
      <3>2. CASE chat'[t].status = "deleted"
        <4>1. CASE NothingDeleted
          BY <1>1, <3>2, <4>1 DEF NothingDeleted
        <4>2. CASE DeleteCopy
          <5> DEFINE u == Head(refs).tmp
          <5>1. /\ chat[u].status \in {"sent", "deleted"}
                /\ UNCHANGED chat \/ chat' = [chat EXCEPT ![u].status = "deleted"]
            BY <1>a, <4>2, DeletedCopy
          <5> HIDE DEF u
          <5>2. t = u \/ chat'[t] = chat[t]
            BY <1>1, <5>1
          <5> QED BY <3>2, <5>1, <5>2
        <4> QED BY <1>b, <4>1, <4>2
      <3> QED BY <3>1, <3>2 DEF Live
    <2> QED BY <1>1, <1>a, <1>b, <2>1 DEF CopiesTrue, ChatStable
  <1>2. CASE t \notin DOMAIN chat
    <2>1. ASSUME NEW x \in Copy, chat' = Append(chat, x) PROVE chat'[t] = x
      <3>1. chat \in Seq(Copy)
        BY <1>a DEF TypeOK
      <3>2. \A u \in DOMAIN chat' : (u \in DOMAIN chat /\ chat'[u] = chat[u]) \/ chat'[u] = x
        BY <2>1, <3>1, AppendExtends
      <3> QED BY <1>2, <3>2
    <2>2. ASSUME NEW f, Forwards(f) PROVE FALSE
      <3>1. PICK x \in Copy : chat' = Append(chat, x) /\ Seen(x) = SeenAs("native", f, srcVer[f.msg])
        BY <1>2, <1>a, <2>2, ForwardsMakes
      <3>2. chat'[t].status = "native"
        BY <2>1, <3>1 DEF Seen, SeenAs
      <3> QED BY <3>2
    <2>3. SendCopy
      <3>1. RunNative \/ SendCopy \/ ForwardNatively
        BY <1>2, <1>a, MessagesAdded
      <3>2. RunNative \/ ForwardNatively => \E f : Forwards(f)
        BY DEF RunNative, ForwardNatively
      <3> QED BY <2>2, <3>1, <3>2
    <2>4. PICK x \in Copy : chat' = Append(chat, x) /\ Seen(x) = SeenAs("pending", sending, sending.ver)
      BY <1>a, <2>3, SendCopyMakes
    <2>5. chat'[t].rule = sending.rule
      BY <2>1, <2>4 DEF Seen, SeenAs
    <2> QED BY <2>3, <2>5 DEF SendCopy
  <1> QED BY <1>1, <1>2

LEMMA MirrorInvStep == MirrorInv /\ [Next]_vars => MirrorInv'
  <1> SUFFICES ASSUME MirrorInv, [Next]_vars PROVE MirrorInv'
    OBVIOUS
  <1>1. TypeOK /\ RouteInv /\ LoopTrue
    BY DEF MirrorInv, RouteInv, CopyInv, IdInv
  <1>2. RouteInv' /\ TypeOK'
    BY <1>1, RouteInvStep DEF RouteInv, CopyInv, IdInv
  <1> QED BY <1>1, <1>2, TasksTrueStep, LoopTrueStep, CallTrueStep, CopiesTrueStep DEF MirrorInv

\* What the changes of the messages are to a reader.
LEMMA MadeAdded ==
    ASSUME TypeOK, NEW x \in Copy, chat' = Append(chat, x)
    PROVE  Made' = Append(Made, Seen(x))
  <1> DEFINE S == {Seen(c) : c \in Copy}
             y == Seen(x)
             made == Made
             after == Append(made, y)
  <1>1. chat \in Seq(Copy) /\ DOMAIN chat = 1..Len(chat) /\ Len(chat) \in Nat
    BY DEF TypeOK
  <1>2. made \in [1..Len(chat) -> S] /\ \A t \in DOMAIN chat : made[t] = Seen(chat[t])
    BY <1>1 DEF Made
  <1>3. made \in Seq(S) /\ Len(made) = Len(chat)
    BY <1>1, <1>2
  <1>4. y \in S
    OBVIOUS
  <1> HIDE DEF S, y, made
  <1>5. /\ after \in Seq(S) /\ Len(after) = Len(chat) + 1 /\ after[Len(chat) + 1] = y
        /\ \A i \in 1..Len(chat) : after[i] = made[i]
    BY <1>3, <1>4, AppendProperties
  <1>6. /\ DOMAIN chat' = 1..(Len(chat) + 1) /\ chat'[Len(chat) + 1] = x
        /\ \A i \in 1..Len(chat) : chat'[i] = chat[i]
    BY <1>1, AppendProperties
  <1>7. after = [i \in 1..(Len(chat) + 1) |-> after[i]]
    <2> HIDE DEF after
    <2> QED BY <1>1, <1>5
  <1>8. \A i \in 1..(Len(chat) + 1) : after[i] = Seen(chat'[i])
    <2> HIDE DEF after
    <2>1. \A i \in 1..(Len(chat) + 1) : i \in 1..Len(chat) \/ i = Len(chat) + 1
      BY <1>1
    <2> QED BY <1>1, <1>2, <1>5, <1>6, <2>1 DEF y
  <1>9. Made' = [i \in 1..(Len(chat) + 1) |-> Seen(chat'[i])]
    BY <1>6 DEF Made
  <1>10. Made' = after
    <2> HIDE DEF after
    <2> QED BY <1>7, <1>8, <1>9
  <1> QED BY <1>10 DEF y, made

LEMMA MadeTurned ==
    ASSUME TypeOK, NEW t \in DOMAIN chat, NEW st, chat' = [chat EXCEPT ![t].status = st]
    PROVE  Made' = [Made EXCEPT ![t].status = st]
  <1>1. \A u \in DOMAIN chat : chat[u] \in Copy
    BY DEF TypeOK
  <1>2. DOMAIN chat' = DOMAIN chat /\ \A u \in DOMAIN chat : u # t => chat'[u] = chat[u]
    OBVIOUS
  <1>3. Seen(chat'[t]) = [Seen(chat[t]) EXCEPT !.status = st]
    BY <1>1 DEF Seen, Copy
  <1> QED BY <1>2, <1>3 DEF Made

LEMMA MadeWritten ==
    ASSUME TypeOK, NEW t \in DOMAIN chat, NEW v, chat' = [chat EXCEPT ![t].ver = v]
    PROVE  Made' = [Made EXCEPT ![t].ver = v]
  <1>1. \A u \in DOMAIN chat : chat[u] \in Copy
    BY DEF TypeOK
  <1>2. DOMAIN chat' = DOMAIN chat /\ \A u \in DOMAIN chat : u # t => chat'[u] = chat[u]
    OBVIOUS
  <1>3. Seen(chat'[t]) = [Seen(chat[t]) EXCEPT !.ver = v]
    BY <1>1 DEF Seen, Copy
  <1> QED BY <1>2, <1>3 DEF Made

LEMMA MadeLinked ==
    ASSUME TypeOK, NEW t, NEW s, chat' = chat \/ chat' = [chat EXCEPT ![t].next = s]
    PROVE  Made' = Made
  <1>1. \A u \in DOMAIN chat : chat[u] \in Copy
    BY DEF TypeOK
  <1>2. DOMAIN chat' = DOMAIN chat /\ \A u \in DOMAIN chat : u # t => chat'[u] = chat[u]
    OBVIOUS
  <1>3. t \in DOMAIN chat => Seen(chat'[t]) = Seen(chat[t])
    BY <1>1 DEF Seen, Copy
  <1>4. \A u \in DOMAIN chat : Seen(chat'[u]) = Seen(chat[u])
    BY <1>2, <1>3
  <1> QED BY <1>2, <1>4 DEF Made

\* A step the readers do not see.
Unseen == UNCHANGED <<srcVer, srcGone, reloads>> /\ Made' = Made

LEMMA UnseenStutters ==
    ASSUME Unseen
    PROVE  UNCHANGED Chats!vars
  BY DEF Unseen, Made, Chats!vars

LEMMA PlacedInChat ==
    ASSUME NEW m, NEW r, NEW d
    PROVE  Chats!Placed(m, r, d) <=> InChat(m, r, d)
  BY DEF Chats!Placed, Chats!OfRoute, InChat, On, Seen

\* The messages of the source, and what becomes of those sent.
LEMMA TelegramMirrors ==
    ASSUME TypeOK, Telegram
    PROVE  Chats!Next
  <1> USE DEF pushVars, boundVars
  <1>1. ASSUME NEW m \in Messages, OnNewMessage(m) PROVE Chats!Next
    <2>1. Chats!Publish(m)
      BY <1>1 DEF OnNewMessage, Chats!Publish
    <2> QED BY <2>1 DEF Chats!Next
  <1>2. ASSUME NEW m \in Messages, OnEditUpdate(m) PROVE Chats!Next
    <2>1. srcVer[m] # 0
      BY <1>2, BoundAssumption DEF OnEditUpdate
    <2>2. Chats!Edit(m)
      BY <1>2, <2>1 DEF OnEditUpdate, Chats!Edit, Chats!There
    <2> QED BY <2>2 DEF Chats!Next
  <1>3. ASSUME NEW b \in Batches, OnDeletedMessages(b) PROVE Chats!Next
    <2> DEFINE gone == {b[i] : i \in DOMAIN b}
    <2>1. gone \in SUBSET Messages
      BY DEF Batches
    <2>2. Chats!Delete(gone)
      BY <1>3 DEF OnDeletedMessages, Chats!Delete, Chats!There
    <2> HIDE DEF gone
    <2> QED BY <2>1, <2>2 DEF Chats!Next
  <1>4. ASSUME NEW t \in DOMAIN chat, OnMessageSendSucceeded(t) \/ SendFailed(t) PROVE Chats!Next
    <2>1. UNCHANGED <<srcVer, srcGone, reloads>>
      BY <1>4 DEF OnMessageSendSucceeded, SendFailed
    <2>2. t \in DOMAIN Made /\ Made[t].status = chat[t].status
      BY DEF Made, Seen
    <2>3. ASSUME NEW from, NEW to, chat[t].status = from, chat' = [chat EXCEPT ![t].status = to]
          PROVE  Chats!SetStatus(t, from, to)
      <3>1. Made[t].status = from /\ Made' = [Made EXCEPT ![t].status = to]
        BY <2>2, <2>3, MadeTurned
      <3> QED BY <2>1, <3>1 DEF Chats!SetStatus, Made
    <2>4. \/ Chats!SetStatus(t, "pending", "sent") \/ Chats!SetStatus(t, "native", "forwarded")
          \/ Chats!SetStatus(t, "pending", "failed") \/ Chats!SetStatus(t, "native", "failed")
      BY <1>4, <2>3 DEF OnMessageSendSucceeded, SendFailed
    <2>5. Chats!Deliver(t) \/ Chats!Lose(t)
      BY <2>4 DEF Chats!Deliver, Chats!Lose
    <2> QED BY <2>2, <2>5 DEF Chats!Next, Made
  <1> QED BY <1>1, <1>2, <1>3, <1>4 DEF Telegram

LEMMA ReloadMirrors ==
    ASSUME TypeOK, NEW rs \in SUBSET Rules, SetRuleSetWithPush(rs)
    PROVE  Chats!Next
  <1>1. UNCHANGED <<srcVer, srcGone, chat>> /\ reloads' = reloads + 1
    BY DEF SetRuleSetWithPush, telegramVars
  <1>2. reloads' > 0
    BY <1>1 DEF TypeOK
  <1>3. Chats!Reload
    BY <1>1, <1>2 DEF Chats!Reload
  <1> QED BY <1>3 DEF Chats!Next

\* What the worker makes.
LEMMA Makes ==
    ASSUME TypeOK, NEW x \in Copy, chat' = Append(chat, x), NEW st, NEW s, NEW v,
           Seen(x) = SeenAs(st, s, v), UNCHANGED <<srcVer, srcGone, reloads>>
    PROVE  Chats!Make(st, s.msg, s.rule, s.dst, v)
  <1>1. Made' = Append(Made, SeenAs(st, s, v))
    BY MadeAdded
  <1> QED BY <1>1 DEF Chats!Make, Made, SeenAs

LEMMA NativeMirrors ==
    ASSUME MirrorInv, TypeOK', RunNative \/ ForwardNatively
    PROVE  Chats!Next \/ Unseen
  <1>a. /\ TypeOK /\ CopyInv /\ TasksTrue /\ CallTrue /\ SeenInv /\ OncePlaced /\ CopiesRecorded
        /\ UNCHANGED <<srcVer, srcGone, reloads>>
    BY DEF MirrorInv, RouteInv, CopyInv, IdInv, RunNative, ForwardNatively, boundVars
  <1>1. PICK s : /\ Forwards(s) /\ s.msg \in Messages /\ s.rule \in Rules /\ s.dst \in Dsts
                 /\ Begun(s.msg, s.rule, s.dst) /\ ~InChat(s.msg, s.rule, s.dst)
                 /\ \/ s.dst \in Aside(s.rule)
                    \/ ~RuleCfg[s.rule].sendCopy /\ Chats!Into(s.rule, s.dst)
                 /\ MayForward(s.msg, s.rule)
    <2>1. CASE RunNative
      <3>1. /\ Forwards(Head(queue)) /\ 1 \in DOMAIN queue /\ queue[1] = Head(queue)
            /\ Head(queue) \in NativeTask /\ Head(queue).kind = "native"
        BY <1>a, <2>1, HeadRouted, HeadTask DEF RunNative, NextTaskIs
      <3>2. PICK s \in NativeTask : s = Head(queue)
        BY <3>1
      <3>3. s.msg \in Messages /\ s.rule \in Rules /\ s.dst \in Dsts /\ s.kind = "native"
        BY <3>2 DEF NativeTask
      <3>4. TaskTrue(s)
        BY <1>a, <3>1, <3>2 DEF TasksTrue
      <3>5. InQueue(s.msg, s.rule, s.dst)
        BY <3>1, <3>2 DEF InQueue, Routed, On
      <3>6. ~InChat(s.msg, s.rule, s.dst)
        BY <1>a, <3>3, <3>5 DEF OncePlaced
      <3> QED BY <3>1, <3>2, <3>3, <3>4, <3>5, <3>6 DEF TaskTrue, Begun
    <2>2. CASE ForwardNatively
      <3>1. /\ Forwards(sending) /\ sending # Idle /\ ~RuleCfg[sending.rule].sendCopy
            /\ sending.tmp = 0
        BY <1>a, <2>2 DEF ForwardNatively, CopiesRecorded
      <3>2. sending.msg \in Messages /\ sending.rule \in Rules /\ sending.dst \in Dsts
        BY <1>a, <3>1 DEF TypeOK, Sending
      <3>3. /\ sending.prev = 0 /\ Chats!Into(sending.rule, sending.dst)
            /\ MayForward(sending.msg, sending.rule)
        BY <1>a, <3>1 DEF CallTrue
      <3>4. IsSent(sending.msg, sending.rule, sending.dst)
        BY <3>1 DEF IsSent, On
      <3>5. ~InChat(sending.msg, sending.rule, sending.dst)
        BY <1>a, <3>1, <3>2, <3>3, <3>4 DEF OncePlaced, NewVersion
      <3> QED BY <3>1, <3>2, <3>3, <3>4, <3>5 DEF Begun
    <2> QED BY <2>1, <2>2
  <1>2. CASE chat' = chat
    BY <1>2, <1>a DEF Unseen, Made
  <1>3. CASE chat' # chat
    <2>1. PICK x \in Copy : /\ chat' = Append(chat, x) /\ s.msg \notin srcGone
                            /\ Seen(x) = SeenAs("native", s, srcVer[s.msg])
      BY <1>a, <1>1, <1>3, ForwardsMakes
    <2>2. Chats!Make("native", s.msg, s.rule, s.dst, srcVer[s.msg])
      BY <1>a, <2>1, Makes
    <2>3. Chats!There(s.msg)
      BY <1>a, <1>1, <2>1 DEF SeenInv, Chats!There
    <2>4. ~Chats!Placed(s.msg, s.rule, s.dst)
      BY <1>1, PlacedInChat
    <2>5. Chats!Forward(s.msg, s.rule, s.dst)
      BY <1>1, <2>2, <2>3, <2>4 DEF Chats!Forward, Aside, MayForward
    <2> QED BY <1>1, <2>5 DEF Chats!Next
  <1> QED BY <1>2, <1>3

LEMMA CopyMirrors ==
    ASSUME MirrorInv, TypeOK', SendCopy
    PROVE  Chats!Next
  <1>a. /\ TypeOK /\ CopyInv /\ CallTrue /\ SeenInv /\ OncePlaced
        /\ UNCHANGED <<srcVer, srcGone, reloads>>
    BY DEF MirrorInv, RouteInv, CopyInv, IdInv, SendCopy, boundVars
  <1>1. /\ sending # Idle /\ sending.tmp = 0 /\ RuleCfg[sending.rule].sendCopy
        /\ sending \in Sending
    BY <1>a DEF SendCopy, TypeOK
  <1> DEFINE m == sending.msg
             r == sending.rule
             d == sending.dst
             v == sending.ver
  <1>2. m \in Messages /\ r \in Rules /\ d \in Dsts /\ IsSent(m, r, d)
    BY <1>1 DEF Sending, IsSent, On
  <1>3. PICK x \in Copy : chat' = Append(chat, x) /\ Seen(x) = SeenAs("pending", sending, v)
    BY <1>a, SendCopyMakes
  <1>4. Chats!Make("pending", m, r, d, v)
    BY <1>a, <1>3, Makes
  <1>5. CASE sending.prev = 0
    <2>1. v = 1 /\ Chats!Into(r, d)
      BY <1>a, <1>1, <1>5 DEF CallTrue
    <2>2. ~Chats!Placed(m, r, d)
      <3>1. ~InChat(m, r, d)
        BY <1>a, <1>1, <1>2, <1>5 DEF OncePlaced, NewVersion
      <3> QED BY <3>1, PlacedInChat
    <2>3. srcVer[m] # 0
      BY <1>a, <1>2 DEF SeenInv, Begun
    <2>4. Chats!Copy(m, r, d)
      BY <1>1, <1>4, <2>1, <2>2, <2>3 DEF Chats!Copy
    <2> QED BY <1>2, <2>4 DEF Chats!Next
  <1>6. CASE sending.prev # 0
    <2> DEFINE t == CopyOf(sending.prev)
    <2>1. /\ v \in 2..srcVer[m] /\ RuleCfg[r].copyOnce
          /\ t \in DOMAIN chat /\ chat[t].status \in {"sent", "deleted"}
      BY <1>a, <1>1, <1>6 DEF CallTrue, Edited
    <2>2. SameRoute(chat[t], sending)
      BY <1>a, <1>1, <1>6 DEF CopyInv, SendingSound
    <2> HIDE DEF t
    <2>3. \E u \in DOMAIN Made :
            Chats!OfRoute(Made[u], m, r, d) /\ Made[u].status \in {"sent", "deleted"}
      BY <2>1, <2>2 DEF SameRoute, Made, Seen, Chats!OfRoute
    <2>4. Chats!Version(m, r, d, v)
      BY <1>4, <2>1, <2>3 DEF Chats!Version, Made
    <2> HIDE DEF m, r, d, v
    <2> QED BY <1>2, <2>1, <2>4 DEF Chats!Next
  <1> QED BY <1>5, <1>6

\* What an edit in place and a deletion do to a copy.
LEMMA EditMirrors ==
    ASSUME MirrorInv, EditInPlace
    PROVE  Chats!Next \/ Unseen
  <1>a. TypeOK /\ CopyInv /\ TasksTrue /\ UNCHANGED <<srcVer, srcGone, reloads>>
    BY DEF MirrorInv, RouteInv, CopyInv, IdInv, EditInPlace, boundVars
  <1> DEFINE t == Head(refs).tmp
  <1>1. /\ refs # <<>> /\ task.kind = "edit" /\ CopyOf(newId[t]) = t
        /\ ~RuleCfg[Head(refs).rule].copyOnce
    BY <1>a, EditedCopy DEF EditInPlace, Visiting
  <1>2. Shows(chat, Head(refs), task.msg)
    BY <1>a, <1>1, TailRefs DEF CopyInv, WalkSound, TypeOK
  <1>3. t \in DOMAIN chat /\ chat[t].msg = task.msg /\ chat[t].rule = Head(refs).rule
    BY <1>2 DEF Shows, SameRoute
  <1>4. task.ver \in 2..srcVer[task.msg]
    BY <1>a, <1>1 DEF TasksTrue, TaskTrue, Edited
  <1>5. chat' = chat \/ (chat[t].status = "sent" /\ chat' = [chat EXCEPT ![t].ver = task.ver])
    BY <1>1 DEF EditInPlace
  <1> HIDE DEF t
  <1>6. CASE chat' = chat
    BY <1>6, <1>a DEF Unseen, Made
  <1>7. CASE chat[t].status = "sent" /\ chat' = [chat EXCEPT ![t].ver = task.ver]
    <2>1. Made' = [Made EXCEPT ![t].ver = task.ver]
      BY <1>a, <1>3, <1>7, MadeWritten
    <2>2. /\ t \in DOMAIN Made /\ Made[t].status = "sent" /\ Made[t].msg = task.msg
          /\ ~RuleCfg[Made[t].rule].copyOnce
      BY <1>1, <1>3, <1>7 DEF Made, Seen
    <2>3. Chats!Update(t, task.ver)
      BY <1>a, <1>4, <2>1, <2>2 DEF Chats!Update, Made
    <2> QED BY <1>4, <2>2, <2>3 DEF Chats!Next, Made
  <1> QED BY <1>5, <1>6, <1>7

LEMMA DeleteMirrors ==
    ASSUME MirrorInv, DeleteCopy
    PROVE  Chats!Next \/ Unseen
  <1>a. TypeOK /\ CopyInv /\ TasksTrue /\ UNCHANGED <<srcVer, srcGone, reloads>>
    BY DEF MirrorInv, RouteInv, CopyInv, IdInv, DeleteCopy, boundVars
  <1> DEFINE c == Head(refs)
             t == c.tmp
  <1>1. /\ t \in DOMAIN chat /\ chat[t].status \in {"sent", "deleted"}
        /\ chat[t].msg \in srcGone /\ chat[t].rule = c.rule
        /\ chat' = chat \/ chat' = [chat EXCEPT ![t].status = "deleted"]
    BY <1>a, DeletedCopy
  <1>2. refs # <<>> /\ task.kind = "delete" /\ ~Keeps(c)
    BY DEF DeleteCopy, Visiting
  <1>3. c.rule \in Rules
    BY <1>a, <1>2, VisitedRef
  <1>4. RuleCfg[c.rule].indelible => reloads > 0
    <2>1. reloads = 0 => task.rs = Rules
      BY <1>a, <1>2 DEF TasksTrue, TaskTrue
    <2>2. reloads = 0 => ~RuleCfg[c.rule].indelible
      BY <1>2, <1>3, <2>1 DEF Keeps
    <2>3. reloads = 0 \/ reloads > 0
      BY <1>a DEF TypeOK
    <2> QED BY <2>2, <2>3
  <1> HIDE DEF t, c
  <1>5. CASE chat' = chat
    BY <1>5, <1>a DEF Unseen, Made
  <1>6. CASE chat[t].status = "deleted" /\ chat' = [chat EXCEPT ![t].status = "deleted"]
    <2>1. \A u \in DOMAIN chat : chat[u] \in Copy
      BY <1>a DEF TypeOK
    <2>2. DOMAIN chat' = DOMAIN chat /\ \A u \in DOMAIN chat : u # t => chat'[u] = chat[u]
      BY <1>6
    <2>3. Seen(chat'[t]) = Seen(chat[t])
      BY <1>1, <1>6, <2>1 DEF Seen, Copy
    <2> QED BY <1>a, <2>2, <2>3 DEF Unseen, Made
  <1>7. CASE chat[t].status = "sent" /\ chat' = [chat EXCEPT ![t].status = "deleted"]
    <2>1. Made' = [Made EXCEPT ![t].status = "deleted"]
      BY <1>a, <1>1, <1>7, MadeTurned
    <2>2. /\ t \in DOMAIN Made /\ Made[t].status = "sent" /\ Made[t].msg \in srcGone
          /\ Made[t].rule = c.rule
      BY <1>1, <1>7 DEF Made, Seen
    <2>3. Chats!SetStatus(t, "sent", "deleted")
      BY <1>a, <2>1, <2>2 DEF Chats!SetStatus, Made
    <2>4. Chats!Remove(t)
      BY <1>4, <2>2, <2>3 DEF Chats!Remove, Made
    <2> QED BY <2>2, <2>4 DEF Chats!Next, Made
  <1> QED BY <1>1, <1>5, <1>6, <1>7

\* The rest of the program is out of the readers' sight.
LEMMA RestUnseen ==
    ASSUME TypeOK, [Next]_vars
    PROVE  \/ Unseen
           \/ Telegram \/ RunNative \/ ForwardNatively \/ SendCopy \/ EditInPlace \/ DeleteCopy
           \/ \E rs \in SUBSET Rules : SetRuleSetWithPush(rs)
  <1> USE DEF telegramVars, boundVars
  <1>a. chat' = chat => Made' = Made
    BY DEF Made
  <1>1. CASE UpdateLoop
    BY <1>1, <1>a DEF UpdateLoop, SkipRule, RouteOk, RouteDst, RouteStats, RouteAside, Unseen
  <1>2. CASE WriteNext \/ RunMap \/ RunStats \/ StartForward \/ SendCopyFails \/ RecordCopy
    BY <1>2, <1>a DEF WriteNext, RunMap, RunStats, StartForward, SendCopyFails, RecordCopy, Unseen
  <1>3. CASE StartEdit \/ EditUnconfirmed \/ EditSkipped \/ EditAsNewVersion \/ FinishEdit
    BY <1>3, <1>a DEF StartEdit, EditUnconfirmed, EditSkipped, EditAsNewVersion, FinishEdit, Unseen
  <1>4. CASE StartDelete \/ DeleteIndelible \/ DeleteUnconfirmed \/ DeleteNextId \/ FinishDelete
    BY <1>4, <1>a DEF StartDelete, DeleteIndelible, DeleteUnconfirmed, DeleteNextId, FinishDelete,
                      Unseen
  <1>5. CASE \/ \E g \in resolvers : Resolve(g)
             \/ \E l \in linkers : LinkPoll(l) \/ LinkRead(l)
             \/ Crash \/ UNCHANGED vars
    BY <1>5, <1>a DEF Resolve, ResolveEdit, OnEditedMessage, LinkPoll, LinkRead, Crash, vars, Unseen
  <1>6. ASSUME NEW l \in linkers, LinkWrite(l) PROVE Unseen
    <2> DEFINE t == CopyOf(l.prev)
    <2>1. /\ chat' = chat \/ chat' = [chat EXCEPT ![t].next = l.seen \cup {l.new}]
          /\ UNCHANGED <<srcVer, srcGone, reloads>>
      BY <1>6 DEF LinkWrite, LinksOldVersion
    <2> HIDE DEF t
    <2> QED BY <2>1, MadeLinked DEF Unseen
  <1> QED BY <1>1, <1>2, <1>3, <1>4, <1>5, <1>6 DEF Next, Worker, WorkStep, NextLink

LEMMA StepMirrors == MirrorInv /\ [Next]_vars => [Chats!Next]_(Chats!vars)
  <1> SUFFICES ASSUME MirrorInv, [Next]_vars PROVE Chats!Next \/ UNCHANGED Chats!vars
    OBVIOUS
  <1>1. TypeOK /\ TypeOK'
    BY MirrorInvStep DEF MirrorInv, RouteInv, CopyInv, IdInv
  <1> QED BY <1>1, RestUnseen, UnseenStutters, TelegramMirrors, ReloadMirrors, NativeMirrors,
             CopyMirrors, EditMirrors, DeleteMirrors

\* Forwarder implements Mirror: whatever the order of updates, confirmations, retries,
\* failures, reloads and crashes, readers of the destination chats see nothing but first
\* messages where a rule sends them, deliveries, versions the source has had, and the taking
\* down of copies of deleted messages.
THEOREM ChatsMirrorTheSource == Spec => MirrorsSource
  <1>1. Init => Chats!Init
    BY DEF Init, Chats!Init
  <1>2. Init /\ [][Next]_vars => []MirrorInv
    BY MirrorInvInit, MirrorInvStep, PTL
  <1>3. MirrorInv /\ [Next]_vars => [Chats!Next]_(Chats!vars)
    BY StepMirrors
  <1> QED BY <1>1, <1>2, <1>3, PTL DEF Spec, MirrorsSource, Chats!Spec
================================================================================
