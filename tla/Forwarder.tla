------------------------------- MODULE Forwarder -------------------------------
(***************************************************************************)
(* The forwarding core of budva: the update handlers of                    *)
(* internal/app/handler/service.go, the single-worker task queue of        *)
(* internal/infra/queue/repo.go and the id mappings of                     *)
(* internal/infra/state/copies.go, against Telegram as the environment.    *)
(*                                                                         *)
(* Concurrent actors: the update loop (ingress), one goroutine per edit    *)
(* update (resolvers), the queue worker (queue, task, refs, ids,           *)
(* needRetry, sending, writes), the next-link goroutines (linkers), and    *)
(* Telegram (srcVer, srcGone, chat).  Every write of the store is a        *)
(* transaction and a step of its own.  All rules read one source chat, so  *)
(* source messages are known by their id alone.                            *)
(***************************************************************************)
EXTENDS Integers, Sequences, FiniteSets

CONSTANTS
    Messages,      \* messages of the source chat
    Rules,         \* forward rule ids
    Dsts,          \* destination chats
    NoChat,        \* an unset check/other chat (0 in the code)
    RuleCfg,       \* the forward rules: [Rules -> RuleConfig]
    RuleOrder,     \* RuleSet.OrderedForwardRules
    ReplyOf,       \* the source message each message replies to, or NoMsg
    NoMsg,
    Protected,     \* messages with CanBeSaved = FALSE
    Verdicts,      \* verdicts the filters may give
    WithMarkup,    \* versions that carry reply-markup data
    MaxVersion,    \* bound: content versions of a source message
    MaxCopies,     \* bound: messages sent to destination chats
    MaxRetry,      \* the retry budget (3 in the code)
    MaxLinkTries,  \* polls of a next-link goroutine (10 in the code)
    MaxReloads,    \* bound: rule set reloads
    MaxCrashes,    \* bound: process crashes
    Faults         \* calls that may fail: of Telegram, or writes of the store

RuleConfig == [to: Seq(Dsts), sendCopy: BOOLEAN, copyOnce: BOOLEAN,
               indelible: BOOLEAN, check: Dsts \cup {NoChat},
               other: Dsts \cup {NoChat}]

ASSUME ConfigAssumption ==
    /\ IsFiniteSet(Messages)
    /\ RuleCfg \in [Rules -> RuleConfig]
    /\ RuleOrder \in Seq(Rules)
    /\ ReplyOf \in [Messages -> Messages \cup {NoMsg}]
    /\ Protected \subseteq Messages
    /\ NoChat \notin Dsts
    /\ NoMsg \notin Messages

\* The rules in order are the keys of a map.
ASSUME OrderAssumption ==
    \A i, j \in DOMAIN RuleOrder : RuleOrder[i] = RuleOrder[j] => i = j

ASSUME BoundAssumption ==
    /\ MaxVersion \in Nat \ {0}
    /\ MaxCopies \in Nat \ {0}
    /\ MaxLinkTries \in Nat \ {0}
    /\ {MaxRetry, MaxReloads, MaxCrashes} \subseteq Nat
    /\ WithMarkup \subseteq 1..MaxVersion
    /\ Verdicts \subseteq {"ok", "check", "other"}
    /\ Faults \subseteq {"send", "edit", "delete", "read", "store"}

Versions == 1..MaxVersion

\* TDLib answers SendMessage with a temporary id and confirms it later under a
\* permanent one; the two spaces are disjoint.
TmpIds  == 1..MaxCopies
PermIds == (MaxCopies + 1)..(2 * MaxCopies)
Perm(t)   == MaxCopies + t
CopyOf(p) == p - MaxCopies

VARIABLES
    srcVer,     \* Telegram: current version of each source message, 0 = not sent
    srcGone,    \* Telegram: source messages deleted for good
    chat,       \* Telegram: the messages sent to destination chats, by temporary id
    rules,      \* rule ids of the current runtime snapshot
    ingress,    \* the update loop inside OnNewMessage, or Idle
    resolvers,  \* goroutines resolving an edited message
    queue,      \* queue.Repo: the tasks waiting
    task,       \* the task the worker executes, or Idle
    refs,       \* the worker: copies the loop has still to visit
    ids,        \* the worker: deleted message ids still to visit
    needRetry,  \* the worker: needRetry of the edit or delete in progress
    sending,    \* the worker: the forwardMessage call in progress, or Idle
    copied,     \* state: copiedMsgIds
    newId,      \* state: newMsgId, 0 = no key
    tmpId,      \* state: tmpMsgId, 0 = no key
    answer,     \* state: answerMsgId, NoMsg = no key
    writes,     \* the worker: the next writes of its task to newId, tmpId and answer
    torn,       \* observer: copies whose mappings a lost write left half done
    viewed,     \* state: viewedMsgs, for the day
    forwarded,  \* state: forwardedMsgs, for the day
    linkers,    \* goroutines of runNextLinkWorkflow
    facts,      \* push facts submitted for each message, in submission order
    clock,      \* occurredAt stamps taken for each message
    gaveUp,     \* observer: messages with an edit or delete out of retries
    reloads, crashes

telegramVars == <<srcVer, srcGone, chat>>
storeVars    == <<copied, newId, tmpId, answer, writes, torn>>
statsVars    == <<viewed, forwarded>>
workerVars   == <<task, refs, ids, needRetry, sending>>
pushVars     == <<facts, clock>>
boundVars    == <<reloads, crashes>>
vars == <<telegramVars, rules, ingress, resolvers, queue, workerVars, storeVars,
          statsVars, linkers, pushVars, gaveUp, boundVars>>

(***************************************************************************)
(* The shapes of the state                                                 *)
(***************************************************************************)
Idle == [kind |-> "idle"]

ForwardTask == [kind: {"forward"}, msg: Messages, rule: Rules, dst: Dsts, ver: Versions]
NativeTask  == [kind: {"native"}, msg: Messages, rule: Rules, dst: Dsts, ver: Versions]
StatsTask   == [kind: {"stats"}, rule: Rules, ok: BOOLEAN]
MapTask     == [kind: {"map"}, tmp: TmpIds, new: PermIds]
EditTask    == [kind: {"edit"}, msg: Messages, ver: Versions, rs: SUBSET Rules,
                attempt: 0..MaxRetry, at: Nat]
DeleteTask  == [kind: {"delete"}, ids: Seq(Messages) \ {<<>>}, rs: SUBSET Rules,
                attempt: 0..MaxRetry, at: [Messages -> Nat]]
Task == ForwardTask \cup NativeTask \cup StatsTask \cup MapTask
          \cup EditTask \cup DeleteTask

\* copyRef: "ruleID:dstChatID:tmpMsgID"
Ref == [rule: Rules, dst: Dsts, tmp: TmpIds]

\* "native" and "forwarded": a native forward, before and after its confirmation.
Copy == [status: {"pending", "sent", "failed", "deleted", "native", "forwarded"},
         msg: Messages, rule: Rules, dst: Dsts, ver: Versions \cup {0},
         replyTo: PermIds \cup {0}, next: SUBSET PermIds]

Sending == [kind: {"send"}, msg: Messages, rule: Rules, dst: Dsts, ver: Versions,
            prev: PermIds \cup {0}, tmp: TmpIds \cup {0}]

Ingress == [kind: {"new"}, msg: Messages, rules: Seq(Rules) \ {<<>>},
            mode: {"none", "ok", "check", "other"},
            to: Seq(Dsts), marked: SUBSET Dsts, rs: SUBSET Rules]

Resolver == [msg: Messages, for: Versions, ver: Versions \cup {0}]

Linker == [tmp: TmpIds, prev: PermIds, left: 1..MaxLinkTries,
           new: PermIds \cup {0}, seen: SUBSET PermIds]

Fact == [event: {"new", "edited", "deleted"}, ver: Versions \cup {0}, at: Nat]

\* A write of one of the maps; 0 and NoMsg delete the key.
Write == [map: {"newId"}, at: TmpIds, val: PermIds \cup {0}]
           \cup [map: {"tmpId"}, at: PermIds, val: TmpIds \cup {0}]
           \cup [map: {"answer"}, at: TmpIds, val: Messages \cup {NoMsg}]

TypeOK ==
    /\ srcVer \in [Messages -> Versions \cup {0}]
    /\ srcGone \subseteq Messages
    /\ chat \in Seq(Copy) /\ Len(chat) <= MaxCopies
    /\ rules \subseteq Rules
    /\ ingress \in Ingress \cup {Idle}
    /\ resolvers \subseteq Resolver
    /\ queue \in Seq(Task)
    /\ task \in Task \cup {Idle}
    /\ refs \in Seq(Ref)
    /\ ids \in Seq(Messages)
    /\ needRetry \in BOOLEAN
    /\ sending \in Sending \cup {Idle}
    /\ copied \in [Messages -> Seq(Ref)]
    /\ newId \in [TmpIds -> PermIds \cup {0}]
    /\ tmpId \in [PermIds -> TmpIds \cup {0}]
    /\ answer \in [TmpIds -> Messages \cup {NoMsg}]
    /\ writes \in Seq(Write) /\ torn \subseteq TmpIds
    /\ viewed \in [Dsts -> Nat] /\ forwarded \in [Dsts -> Nat]
    /\ linkers \subseteq Linker
    /\ facts \in [Messages -> Seq(Fact)]
    /\ clock \in [Messages -> Nat]
    /\ gaveUp \subseteq Messages
    /\ reloads \in 0..MaxReloads /\ crashes \in 0..MaxCrashes

Init ==
    /\ srcVer = [m \in Messages |-> 0] /\ srcGone = {} /\ chat = <<>>
    /\ rules = Rules
    /\ ingress = Idle /\ resolvers = {} /\ queue = <<>>
    /\ task = Idle /\ refs = <<>> /\ ids = <<>> /\ needRetry = FALSE /\ sending = Idle
    /\ copied = [m \in Messages |-> <<>>]
    /\ newId = [t \in TmpIds |-> 0] /\ tmpId = [p \in PermIds |-> 0]
    /\ answer = [t \in TmpIds |-> NoMsg] /\ writes = <<>> /\ torn = {}
    /\ viewed = [d \in Dsts |-> 0] /\ forwarded = [d \in Dsts |-> 0]
    /\ linkers = {}
    /\ facts = [m \in Messages |-> <<>>] /\ clock = [m \in Messages |-> 0]
    /\ gaveUp = {} /\ reloads = 0 /\ crashes = 0

Enqueue(t) == queue' = Append(queue, t)

Stamp(m) == clock' = [clock EXCEPT ![m] = @ + 1]

(***************************************************************************)
(* The update loop                                                         *)
(***************************************************************************)

\* The message's rules are visited in OrderedForwardRules order; Rest is the
\* update loop after the first of them.
Rest == IF Len(ingress.rules) = 1 THEN Idle
        ELSE [ingress EXCEPT !.rules = Tail(@), !.mode = "none", !.marked = {}]

\* A message appears in the source chat and OnNewMessage receives it.
OnNewMessage(m) ==
    /\ ingress = Idle
    /\ srcVer[m] = 0 /\ m \notin srcGone
    /\ ReplyOf[m] # NoMsg => srcVer[ReplyOf[m]] # 0
    /\ srcVer' = [srcVer EXCEPT ![m] = 1]
    /\ ingress' = IF rules = {} \/ RuleOrder = <<>> THEN Idle
                  ELSE [kind |-> "new", msg |-> m, rules |-> RuleOrder, mode |-> "none",
                        to |-> <<>>, marked |-> {}, rs |-> rules]
    /\ UNCHANGED <<srcGone, chat, rules, resolvers, queue, workerVars, storeVars,
                   statsVars, linkers, pushVars, gaveUp, boundVars>>

\* A rule of another snapshot, or one that forwards a protected message natively.
RuleSkips(r) == \/ r \notin ingress.rs
                \/ ~RuleCfg[r].sendCopy /\ ingress.msg \in Protected

SkipRule ==
    /\ ingress # Idle /\ ingress.mode = "none"
    /\ RuleSkips(Head(ingress.rules))
    /\ ingress' = Rest
    /\ UNCHANGED <<telegramVars, rules, resolvers, queue, workerVars, storeVars,
                   statsVars, linkers, pushVars, gaveUp, boundVars>>

\* processMessage: the filters accept the text, the push fact goes out at once.
RouteOk ==
    LET m == ingress.msg  r == Head(ingress.rules) IN
    /\ ingress # Idle /\ ingress.mode = "none" /\ "ok" \in Verdicts
    /\ ~RuleSkips(r)
    /\ Stamp(m)
    /\ facts' = [facts EXCEPT ![m] =
                   Append(@, [event |-> "new", ver |-> 1, at |-> clock[m] + 1])]
    /\ ingress' = [ingress EXCEPT !.mode = "ok", !.to = RuleCfg[r].to]
    /\ UNCHANGED <<telegramVars, rules, resolvers, queue, workerVars, storeVars,
                   statsVars, linkers, gaveUp, boundVars>>

\* processMessage: the filters send the message to the check or other chat.
RouteAside(v) ==
    LET r == Head(ingress.rules)  aside == RuleCfg[r][v] IN
    /\ ingress # Idle /\ ingress.mode = "none" /\ v \in Verdicts
    /\ ~RuleSkips(r)
    /\ IF aside = NoChat THEN UNCHANGED queue
       ELSE Enqueue([kind |-> "native", msg |-> ingress.msg, rule |-> r,
                     dst |-> aside, ver |-> 1])
    /\ ingress' = [ingress EXCEPT !.mode = v]
    /\ UNCHANGED <<telegramVars, rules, resolvers, workerVars, storeVars,
                   statsVars, linkers, pushVars, gaveUp, boundVars>>

\* TryMark: the tracker lets each destination through once.
NeverMarked(d) == FALSE                        \* mutant: no tracker
AlreadyMarked(d) == d \in ingress.marked

\* One turn of the loop over rule.To.
RouteDst ==
    LET d == Head(ingress.to) IN
    /\ ingress # Idle /\ ingress.mode = "ok" /\ ingress.to # <<>>
    /\ IF AlreadyMarked(d) THEN UNCHANGED queue
       ELSE Enqueue([kind |-> "forward", msg |-> ingress.msg,
                     rule |-> Head(ingress.rules), dst |-> d, ver |-> 1])
    /\ ingress' = [ingress EXCEPT !.to = Tail(@), !.marked = @ \cup {d}]
    /\ UNCHANGED <<telegramVars, rules, resolvers, workerVars, storeVars,
                   statsVars, linkers, pushVars, gaveUp, boundVars>>

\* The statistics task ends the rule.
RouteStats ==
    /\ ingress # Idle /\ ingress.mode # "none" /\ ingress.to = <<>>
    /\ Enqueue([kind |-> "stats", rule |-> Head(ingress.rules),
                ok |-> ingress.mode = "ok"])
    /\ ingress' = Rest
    /\ UNCHANGED <<telegramVars, rules, resolvers, workerVars, storeVars,
                   statsVars, linkers, pushVars, gaveUp, boundVars>>

\* The source message is edited; handleUpdate resolves it in a goroutine.
OnEditUpdate(m) ==
    /\ ingress = Idle
    /\ srcVer[m] \in 1..(MaxVersion - 1) /\ m \notin srcGone
    /\ srcVer' = [srcVer EXCEPT ![m] = @ + 1]
    /\ resolvers' = resolvers \cup {[msg |-> m, for |-> srcVer[m] + 1, ver |-> 0]}
    /\ UNCHANGED <<srcGone, chat, rules, ingress, queue, workerVars, storeVars,
                   statsVars, linkers, pushVars, gaveUp, boundVars>>

\* The goroutine's GetMessage returns the content of that moment, or an error.
ResolveEdit(g) ==
    /\ g.ver = 0
    /\ \/ /\ g.msg \notin srcGone
          /\ resolvers' = (resolvers \ {g}) \cup {[g EXCEPT !.ver = srcVer[g.msg]]}
       \/ /\ g.msg \in srcGone \/ "read" \in Faults
          /\ resolvers' = resolvers \ {g}
    /\ UNCHANGED <<telegramVars, rules, ingress, queue, workerVars, storeVars,
                   statsVars, linkers, pushVars, gaveUp, boundVars>>

\* OnEditedMessage stamps the emission and queues the edit.
OnEditedMessage(g) ==
    /\ g.ver # 0
    /\ resolvers' = resolvers \ {g}
    /\ IF rules = {} THEN UNCHANGED <<queue, clock>>
       ELSE /\ Stamp(g.msg)
            /\ Enqueue([kind |-> "edit", msg |-> g.msg, ver |-> g.ver, rs |-> rules,
                        attempt |-> 0, at |-> clock[g.msg] + 1])
    /\ UNCHANGED <<telegramVars, rules, ingress, workerVars, storeVars, statsVars,
                   linkers, facts, gaveUp, boundVars>>

\* Messages are deleted for good; OnDeletedMessages stamps and queues the batch.
OnDeletedMessages(batch) ==
    LET gone == {batch[i] : i \in DOMAIN batch} IN
    /\ ingress = Idle
    /\ \A m \in gone : srcVer[m] # 0 /\ m \notin srcGone
    /\ srcGone' = srcGone \cup gone
    /\ IF rules = {} THEN UNCHANGED <<queue, clock>>
       ELSE /\ clock' = [m \in Messages |-> IF m \in gone THEN clock[m] + 1 ELSE clock[m]]
            /\ Enqueue([kind |-> "delete", ids |-> batch, rs |-> rules,
                        attempt |-> 0, at |-> clock'])
    /\ UNCHANGED <<srcVer, chat, rules, ingress, resolvers, workerVars, storeVars,
                   statsVars, linkers, facts, gaveUp, boundVars>>

\* Telegram delivers a copy or a native forward; OnMessageSendSucceeded queues the id
\* mapping of either.
OnMessageSendSucceeded(t) ==
    /\ ingress = Idle
    /\ \/ chat[t].status = "pending" /\ chat' = [chat EXCEPT ![t].status = "sent"]
       \/ chat[t].status = "native" /\ chat' = [chat EXCEPT ![t].status = "forwarded"]
    /\ Enqueue([kind |-> "map", tmp |-> t, new |-> Perm(t)])
    /\ UNCHANGED <<srcVer, srcGone, rules, ingress, resolvers, workerVars, storeVars,
                   statsVars, linkers, pushVars, gaveUp, boundVars>>

\* Telegram gives a copy up; handleUpdate has no case for the failure.
SendFailed(t) ==
    /\ "send" \in Faults
    /\ chat[t].status \in {"pending", "native"}
    /\ chat' = [chat EXCEPT ![t].status = "failed"]
    /\ UNCHANGED <<srcVer, srcGone, rules, ingress, resolvers, queue, workerVars,
                   storeVars, statsVars, linkers, pushVars, gaveUp, boundVars>>

\* A new runtime snapshot is published; work in flight keeps the one it loaded.
SetRuleSetWithPush(rs) ==
    /\ reloads < MaxReloads /\ rs # rules
    /\ rules' = rs /\ reloads' = reloads + 1
    /\ UNCHANGED <<telegramVars, ingress, resolvers, queue, workerVars, storeVars,
                   statsVars, linkers, pushVars, gaveUp, crashes>>

(***************************************************************************)
(* The queue worker: one task at a time, in queue order                    *)
(***************************************************************************)
NextTaskIs(kind) == task = Idle /\ queue # <<>> /\ Head(queue).kind = kind

Dequeue == queue' = Tail(queue)

\* The copy a write is about.
CopyWritten(w) == IF w.map = "tmpId" THEN CopyOf(w.at) ELSE w.at

\* Whether the store is untrue of its copy without the write.
Tears(w) == w.map # "answer" \/ chat[w.at].status = "deleted"

\* The next write of the task: a transaction, or an error that is logged.
WriteNext ==
    LET w == Head(writes)
        Set(map, name) == IF w.map = name THEN [map EXCEPT ![w.at] = w.val] ELSE map IN
    /\ writes # <<>> /\ writes' = Tail(writes)
    /\ \/ /\ newId' = Set(newId, "newId") /\ tmpId' = Set(tmpId, "tmpId")
          /\ answer' = Set(answer, "answer") /\ UNCHANGED torn
       \/ /\ "store" \in Faults /\ UNCHANGED <<newId, tmpId, answer>>
          /\ torn' = torn \cup (IF Tears(w) THEN {CopyWritten(w)} ELSE {})
    /\ UNCHANGED <<telegramVars, rules, ingress, resolvers, queue, workerVars, copied,
                   statsVars, linkers, pushVars, gaveUp, boundVars>>

\* SetNewMessageID and SetTmpMessageID.
Mapping(t, p) == <<[map |-> "newId", at |-> t, val |-> p], [map |-> "tmpId", at |-> p, val |-> t]>>

RunMap ==
    /\ NextTaskIs("map") /\ Dequeue
    /\ writes' = Mapping(Head(queue).tmp, Head(queue).new)
    /\ UNCHANGED <<telegramVars, rules, ingress, resolvers, workerVars, copied, newId,
                   tmpId, answer, torn, statsVars, linkers, pushVars, gaveUp, boundVars>>

\* The day's counters go up once for every entry of rule.To.
RunStats ==
    LET t == Head(queue)
        to == RuleCfg[t.rule].to
        Plus(count) == [d \in Dsts |->
                          count[d] + Cardinality({i \in DOMAIN to : to[i] = d})] IN
    /\ NextTaskIs("stats") /\ Dequeue
    /\ viewed' = Plus(viewed)
    /\ forwarded' = IF t.ok THEN Plus(forwarded) ELSE forwarded
    /\ UNCHANGED <<telegramVars, rules, ingress, resolvers, workerVars, storeVars,
                   linkers, pushVars, gaveUp, boundVars>>

\* ForwardMessages: Telegram forwards what the source chat holds at that moment; an error
\* of the call is logged.
Forwards(t) ==
    \/ (t.msg \in srcGone \/ "send" \in Faults) /\ UNCHANGED chat
    \/ /\ t.msg \notin srcGone /\ Len(chat) < MaxCopies
       /\ chat' = Append(chat, [status |-> "native", msg |-> t.msg, rule |-> t.rule,
                                dst |-> t.dst, ver |-> srcVer[t.msg],
                                replyTo |-> 0, next |-> {}])

\* The check and other tasks of processMessage.
RunNative ==
    /\ NextTaskIs("native") /\ Dequeue
    /\ Forwards(Head(queue))
    /\ UNCHANGED <<srcVer, srcGone, rules, ingress, resolvers, workerVars, storeVars,
                   statsVars, linkers, pushVars, gaveUp, boundVars>>

StartForward ==
    LET t == Head(queue) IN
    /\ NextTaskIs("forward") /\ Dequeue
    /\ task' = t
    /\ sending' = [kind |-> "send", msg |-> t.msg, rule |-> t.rule, dst |-> t.dst,
                   ver |-> t.ver, prev |-> 0, tmp |-> 0]
    /\ UNCHANGED <<telegramVars, rules, ingress, resolvers, refs, ids, needRetry,
                   storeVars, statsVars, linkers, pushVars, gaveUp, boundVars>>

\* forwardMessage returns: the forward task is over, an edit goes on with its loop.
SendsAgain == sending' = [sending EXCEPT !.tmp = 0] /\ UNCHANGED task
                                               \* mutant: the call is retried when it is over
ReturnFromForward ==
    /\ sending' = Idle
    /\ task' = IF task.kind = "forward" THEN Idle ELSE task

\* The least of a set of indices, as a set of one.
First(indices) == {i \in indices : \A j \in indices : i <= j}

\* resolveReplyTo: where the list of the replied-to message has a confirmed copy in d.
AnyTarget(list, d) == {i \in DOMAIN list : newId[list[i].tmp] # 0}
                                               \* mutant: the chat is not compared
ReplyTargets(list, d) == {i \in DOMAIN list : list[i].dst = d /\ newId[list[i].tmp] # 0}

\* resolveReplyTo: the permanent id of the first such copy, or 0; a set of one.
ReplyTo(m, d) ==
    LET list == IF ReplyOf[m] = NoMsg THEN <<>> ELSE copied[ReplyOf[m]]
        targets == ReplyTargets(list, d) IN
    IF targets = {} THEN {0} ELSE {newId[list[i].tmp] : i \in First(targets)}

\* forwardMessage with SendCopy: SendMessage returns the temporary id.
SendCopy ==
    /\ sending # Idle /\ sending.tmp = 0 /\ RuleCfg[sending.rule].sendCopy
    /\ Len(chat) < MaxCopies
    /\ \E p \in ReplyTo(sending.msg, sending.dst) :
         chat' = Append(chat, [status |-> "pending", msg |-> sending.msg,
                               rule |-> sending.rule, dst |-> sending.dst,
                               ver |-> sending.ver, replyTo |-> p, next |-> {}])
    /\ sending' = [sending EXCEPT !.tmp = Len(chat) + 1]
    /\ UNCHANGED <<srcVer, srcGone, rules, ingress, resolvers, queue, task, refs, ids,
                   needRetry, storeVars, statsVars, linkers, pushVars, gaveUp, boundVars>>

\* forwardMessage with SendCopy: Transform or SendMessage fails.
SendCopyFails ==
    /\ "send" \in Faults
    /\ sending # Idle /\ sending.tmp = 0 /\ RuleCfg[sending.rule].sendCopy
    /\ ReturnFromForward
    /\ UNCHANGED <<telegramVars, rules, ingress, resolvers, queue, refs, ids, needRetry,
                   storeVars, statsVars, linkers, pushVars, gaveUp, boundVars>>

\* forwardMessage without SendCopy.
ForwardNatively ==
    /\ sending # Idle /\ ~RuleCfg[sending.rule].sendCopy
    /\ Forwards(sending)
    /\ ReturnFromForward
    /\ UNCHANGED <<srcVer, srcGone, rules, ingress, resolvers, queue, refs, ids,
                   needRetry, storeVars, statsVars, linkers, pushVars, gaveUp, boundVars>>

\* SetCopiedMessageID: the entry of the same rule and destination is replaced in
\* place, otherwise the entry is appended.
AppendCopiedId(list, ref) == Append(list, ref) \* mutant: never replaces
WithCopiedId(list, ref) ==
    LET same == {i \in DOMAIN list : list[i].rule = ref.rule /\ list[i].dst = ref.dst}
    IN  IF same = {} THEN Append(list, ref)
        ELSE [i \in DOMAIN list |-> IF i \in First(same) THEN ref ELSE list[i]]

\* SetAnswerMessageID or DeleteAnswerMessageID.
Answering(t, m) == <<[map |-> "answer", at |-> t, val |-> m]>>

\* forwardMessage after the send: SetCopiedMessageID, then the answer mapping and the
\* next-link goroutine, which reads neither.
RecordCopy ==
    LET m == sending.msg IN
    /\ sending # Idle /\ sending.tmp # 0
    /\ \/ copied' = [copied EXCEPT ![m] =
                       WithCopiedId(@, [rule |-> sending.rule, dst |-> sending.dst,
                                        tmp |-> sending.tmp])]
       \/ "store" \in Faults /\ UNCHANGED copied
    /\ writes' = IF sending.ver \in WithMarkup THEN Answering(sending.tmp, m) ELSE <<>>
    /\ linkers' = IF sending.prev # 0 /\ RuleCfg[sending.rule].copyOnce
                  THEN linkers \cup {[tmp |-> sending.tmp, prev |-> sending.prev,
                                      left |-> MaxLinkTries, new |-> 0, seen |-> {}]}
                  ELSE linkers
    /\ ReturnFromForward
    /\ UNCHANGED <<telegramVars, rules, ingress, resolvers, queue, refs, ids, needRetry,
                   newId, tmpId, answer, torn, statsVars, pushVars, gaveUp, boundVars>>

\* Only the first attempt carries the emission.
AlwaysEmits(t) == TRUE                         \* mutant: the retry keeps the emission
Emits(t) == t.attempt = 0

\* editMessages up to its loop: the first attempt carries the emission.
StartEdit ==
    LET t == Head(queue) IN
    /\ NextTaskIs("edit") /\ Dequeue
    /\ task' = t /\ refs' = copied[t.msg] /\ needRetry' = FALSE
    /\ facts' = IF ~Emits(t) THEN facts
                ELSE [facts EXCEPT ![t.msg] =
                        Append(@, [event |-> "edited", ver |-> t.ver, at |-> t.at])]
    /\ UNCHANGED <<telegramVars, rules, ingress, resolvers, ids, sending, storeVars,
                   statsVars, linkers, clock, gaveUp, boundVars>>

Visiting(kind) == task.kind = kind /\ sending = Idle /\ refs # <<>>

\* The permanent id of a copy is not in the store yet: the loop goes on and the
\* task will be retried.
EditUnconfirmed ==
    /\ Visiting("edit") /\ newId[Head(refs).tmp] = 0
    /\ needRetry' = TRUE /\ refs' = Tail(refs)
    /\ UNCHANGED <<telegramVars, rules, ingress, resolvers, queue, task, ids, sending,
                   storeVars, statsVars, linkers, pushVars, gaveUp, boundVars>>

\* The task's snapshot has no such rule, or Transform fails.
EditSkipped ==
    /\ Visiting("edit") /\ newId[Head(refs).tmp] # 0
    /\ \/ Head(refs).rule \notin task.rs
       \/ "edit" \in Faults /\ ~RuleCfg[Head(refs).rule].copyOnce
    /\ refs' = Tail(refs)
    /\ UNCHANGED <<telegramVars, rules, ingress, resolvers, queue, task, ids, needRetry,
                   sending, storeVars, statsVars, linkers, pushVars, gaveUp, boundVars>>

\* CopyOnce: the edit is forwarded as a new copy.
EditAsNewVersion ==
    LET c == Head(refs) IN
    /\ Visiting("edit") /\ newId[c.tmp] # 0 /\ c.rule \in task.rs
    /\ RuleCfg[c.rule].copyOnce
    /\ refs' = Tail(refs)
    /\ sending' = [kind |-> "send", msg |-> task.msg, rule |-> c.rule, dst |-> c.dst,
                   ver |-> task.ver, prev |-> newId[c.tmp], tmp |-> 0]
    /\ UNCHANGED <<telegramVars, rules, ingress, resolvers, queue, task, ids, needRetry,
                   storeVars, statsVars, linkers, pushVars, gaveUp, boundVars>>

\* EditMessageText or EditMessageCaption; an error is logged and the reply markup
\* is synchronised all the same.
EditInPlace ==
    LET c == Head(refs)  t == CopyOf(newId[c.tmp]) IN
    /\ Visiting("edit") /\ newId[c.tmp] # 0 /\ c.rule \in task.rs
    /\ ~RuleCfg[c.rule].copyOnce
    /\ refs' = Tail(refs)
    /\ \/ chat[t].status = "sent" /\ chat' = [chat EXCEPT ![t].ver = task.ver]
       \/ (chat[t].status # "sent" \/ "edit" \in Faults) /\ UNCHANGED chat
    /\ writes' = Answering(c.tmp, IF task.ver \in WithMarkup THEN task.msg ELSE NoMsg)
    /\ UNCHANGED <<srcVer, srcGone, rules, ingress, resolvers, queue, task, ids,
                   needRetry, sending, copied, newId, tmpId, answer, torn, statsVars,
                   linkers, pushVars, gaveUp, boundVars>>

\* The budget of editMessagesWithRetry and deleteMessagesWithRetry.
NoBudget(t) == FALSE                           \* mutant: no retry
ResetAttempt(t) == [t EXCEPT !.attempt = 1]   \* mutant: attempt is not counted
MayRetry(t) == t.attempt < MaxRetry
Retried(t) == [t EXCEPT !.attempt = @ + 1]

\* The task is over; a retry goes to the end of the queue without the emission.
Finish(messages) ==
    /\ task' = Idle
    /\ IF needRetry /\ MayRetry(task)
       THEN Enqueue(Retried(task)) ELSE UNCHANGED queue
    /\ gaveUp' = IF needRetry /\ task.attempt >= MaxRetry
                 THEN gaveUp \cup messages ELSE gaveUp

FinishEdit ==
    /\ task.kind = "edit" /\ sending = Idle /\ refs = <<>>
    /\ Finish({task.msg})
    /\ UNCHANGED <<telegramVars, rules, ingress, resolvers, refs, ids, needRetry,
                   sending, storeVars, statsVars, linkers, pushVars, boundVars>>

\* deleteMessages up to its loop: the first attempt carries the emission.
StartDelete ==
    LET t == Head(queue)  gone == {t.ids[i] : i \in DOMAIN t.ids} IN
    /\ NextTaskIs("delete") /\ Dequeue
    /\ task' = t /\ ids' = t.ids /\ needRetry' = FALSE
    /\ refs' = copied[Head(t.ids)]
    /\ facts' = [m \in Messages |->
                   IF Emits(t) /\ m \in gone
                   THEN Append(facts[m], [event |-> "deleted", ver |-> 0, at |-> t.at[m]])
                   ELSE facts[m]]
    /\ UNCHANGED <<telegramVars, rules, ingress, resolvers, sending, storeVars,
                   statsVars, linkers, clock, gaveUp, boundVars>>

\* A known rule that is Indelible keeps its copies.
KeepsNothing(c) == FALSE                       \* mutant: Indelible ignored
Keeps(c) == c.rule \in task.rs /\ RuleCfg[c.rule].indelible

DeleteIndelible ==
    /\ Visiting("delete") /\ Keeps(Head(refs))
    /\ refs' = Tail(refs)
    /\ UNCHANGED <<telegramVars, rules, ingress, resolvers, queue, task, ids, needRetry,
                   sending, storeVars, statsVars, linkers, pushVars, gaveUp, boundVars>>

DeleteUnconfirmed ==
    /\ Visiting("delete") /\ ~Keeps(Head(refs)) /\ newId[Head(refs).tmp] = 0
    /\ needRetry' = TRUE /\ refs' = Tail(refs)
    /\ UNCHANGED <<telegramVars, rules, ingress, resolvers, queue, task, ids, sending,
                   storeVars, statsVars, linkers, pushVars, gaveUp, boundVars>>

\* DeleteNewMessageID, DeleteTmpMessageID and DeleteAnswerMessageID.
KeepsTmpId(t, p) == <<[map |-> "newId", at |-> t, val |-> 0],
                      [map |-> "answer", at |-> t, val |-> NoMsg]>>
                                               \* mutant: DeleteTmpMessageID forgotten
Unmapping(t, p) == <<[map |-> "newId", at |-> t, val |-> 0],
                     [map |-> "tmpId", at |-> p, val |-> 0],
                     [map |-> "answer", at |-> t, val |-> NoMsg]>>

\* DeleteMessages in the destination, then the mappings of the copy; an error of
\* the call is logged and the mappings go all the same.
DeleteCopy ==
    LET c == Head(refs)  p == newId[c.tmp]  t == CopyOf(p) IN
    /\ Visiting("delete") /\ ~Keeps(c) /\ p # 0
    /\ refs' = Tail(refs)
    /\ \/ chat' = [chat EXCEPT ![t].status = "deleted"]
       \/ "delete" \in Faults /\ UNCHANGED chat
    /\ writes' = Unmapping(c.tmp, p)
    /\ UNCHANGED <<srcVer, srcGone, rules, ingress, resolvers, queue, task, ids,
                   needRetry, sending, copied, newId, tmpId, answer, torn, statsVars,
                   linkers, pushVars, gaveUp, boundVars>>

\* needRetry is shared by all ids of the batch: one unconfirmed copy keeps the lists
\* of its own and of every later id.
ForgetsList == FALSE                           \* mutant: the list goes unconditionally
KeepsList == needRetry

\* The copies of one id are done.
DeleteNextId ==
    /\ task.kind = "delete" /\ refs = <<>> /\ ids # <<>>
    /\ \/ copied' = IF KeepsList THEN copied ELSE [copied EXCEPT ![Head(ids)] = <<>>]
       \/ "store" \in Faults /\ UNCHANGED copied
    /\ ids' = Tail(ids)
    /\ refs' = IF Tail(ids) = <<>> THEN <<>> ELSE copied[Head(Tail(ids))]
    /\ UNCHANGED <<telegramVars, rules, ingress, resolvers, queue, task, needRetry,
                   sending, newId, tmpId, answer, writes, torn, statsVars, linkers,
                   pushVars, gaveUp, boundVars>>

FinishDelete ==
    /\ task.kind = "delete" /\ refs = <<>> /\ ids = <<>>
    /\ Finish({task.ids[i] : i \in DOMAIN task.ids})
    /\ UNCHANGED <<telegramVars, rules, ingress, resolvers, refs, ids, needRetry,
                   sending, storeVars, statsVars, linkers, pushVars, boundVars>>

(***************************************************************************)
(* The next-link goroutines                                                *)
(***************************************************************************)

\* One poll of the store, once a second.
LinkPoll(l) ==
    /\ l.new = 0 /\ newId[l.tmp] = 0
    /\ linkers' = (linkers \ {l})
                    \cup (IF l.left = 1 THEN {} ELSE {[l EXCEPT !.left = @ - 1]})
    /\ UNCHANGED <<telegramVars, rules, ingress, resolvers, queue, workerVars, storeVars,
                   statsVars, pushVars, gaveUp, boundVars>>

\* The new id is there: GetMessage reads the previous version's text.
LinkRead(l) ==
    LET prev == CopyOf(l.prev) IN
    /\ l.new = 0 /\ newId[l.tmp] # 0
    /\ \/ /\ chat[prev].status = "sent"
          /\ linkers' = (linkers \ {l}) \cup
                          {[l EXCEPT !.new = newId[l.tmp], !.seen = chat[prev].next]}
       \/ /\ chat[prev].status # "sent" \/ "read" \in Faults
          /\ linkers' = linkers \ {l}
    /\ UNCHANGED <<telegramVars, rules, ingress, resolvers, queue, workerVars, storeVars,
                   statsVars, pushVars, gaveUp, boundVars>>

\* EditMessageText writes the text it read, with the link added, to the old version.
LinksNewVersion(l) == CopyOf(l.new)            \* mutant: the two ids swapped
LinksOldVersion(l) == CopyOf(l.prev)

LinkWrite(l) ==
    LET prev == LinksOldVersion(l) IN
    /\ l.new # 0
    /\ linkers' = linkers \ {l}
    /\ \/ /\ chat[prev].status = "sent"
          /\ chat' = [chat EXCEPT ![prev].next = l.seen \cup {l.new}]
       \/ (chat[prev].status # "sent" \/ "edit" \in Faults) /\ UNCHANGED chat
    /\ UNCHANGED <<srcVer, srcGone, rules, ingress, resolvers, queue, workerVars,
                   storeVars, statsVars, pushVars, gaveUp, boundVars>>

\* The process dies and starts again: goroutines, the in-memory queue and the writes not
\* made yet are lost, the store and Telegram stay.
Crash ==
    /\ crashes < MaxCrashes /\ crashes' = crashes + 1
    /\ ingress' = Idle /\ resolvers' = {} /\ queue' = <<>> /\ linkers' = {}
    /\ task' = Idle /\ refs' = <<>> /\ ids' = <<>> /\ needRetry' = FALSE
    /\ sending' = Idle /\ writes' = <<>>
    /\ torn' = torn \cup {CopyWritten(writes[i]) : i \in {j \in DOMAIN writes : Tears(writes[j])}}
    /\ UNCHANGED <<telegramVars, rules, copied, newId, tmpId, answer, statsVars, pushVars,
                   gaveUp, reloads>>

(***************************************************************************)
(* The specification                                                       *)
(***************************************************************************)

\* The id lists an UpdateDeleteMessages may carry.
Batches == {b \in UNION {[1..n -> Messages] : n \in 1..Cardinality(Messages)} :
              \A i, j \in DOMAIN b : b[i] = b[j] => i = j}

Telegram ==
    \/ \E m \in Messages : OnNewMessage(m) \/ OnEditUpdate(m)
    \/ \E b \in Batches : OnDeletedMessages(b)
    \/ \E t \in DOMAIN chat : OnMessageSendSucceeded(t) \/ SendFailed(t)

UpdateLoop ==
    \/ SkipRule \/ RouteOk \/ RouteDst \/ RouteStats
    \/ \E v \in {"check", "other"} : RouteAside(v)

Resolve(g) == ResolveEdit(g) \/ OnEditedMessage(g)

\* The worker waits for the writes of a step before it takes the next one.
WorkStep ==
    \/ RunMap \/ RunStats \/ RunNative
    \/ StartForward \/ SendCopy \/ SendCopyFails \/ ForwardNatively \/ RecordCopy
    \/ StartEdit \/ EditUnconfirmed \/ EditSkipped \/ EditAsNewVersion
    \/ EditInPlace \/ FinishEdit
    \/ StartDelete \/ DeleteIndelible \/ DeleteUnconfirmed \/ DeleteCopy
    \/ DeleteNextId \/ FinishDelete

Worker == WriteNext \/ (writes = <<>> /\ WorkStep)

NextLink(l) == LinkPoll(l) \/ LinkRead(l) \/ LinkWrite(l)

Next ==
    \/ Telegram \/ UpdateLoop \/ Worker \/ Crash
    \/ \E g \in resolvers : Resolve(g)
    \/ \E l \in linkers : NextLink(l)
    \/ \E rs \in SUBSET Rules : SetRuleSetWithPush(rs)

Spec == Init /\ [][Next]_vars

\* The goroutines of the process run; Telegram promises nothing.
ResolverStep == \E g \in resolvers : Resolve(g)
LinkStep == \E l \in linkers : NextLink(l)
Fairness == /\ WF_vars(UpdateLoop) /\ WF_vars(Worker)
            /\ WF_vars(ResolverStep) /\ WF_vars(LinkStep)
FairSpec == Spec /\ Fairness

(***************************************************************************)
(* Properties                                                              *)
(***************************************************************************)
AtRest == ingress = Idle /\ resolvers = {} /\ queue = <<>> /\ task = Idle /\ writes = <<>>

SameRoute(c, d) == c.msg = d.msg /\ c.rule = d.rule /\ c.dst = d.dst

\* The copies whose writes are under way.
Unwritten == {CopyWritten(writes[i]) : i \in DOMAIN writes}

\* newMsgId and tmpMsgId are written one after the other, each write able to fail or to fall
\* to a crash (SetNewMessageID, SetTmpMessageID and their deletes in deleteMessages).  A
\* stored id is always the right one, of a message that was delivered; and only of a copy
\* with a lost write or one under way may one map know what the other does not, or either
\* name a deleted message.
IdMapsAgree ==
    /\ \A t \in TmpIds : newId[t] # 0 => newId[t] = Perm(t)
    /\ \A p \in PermIds : tmpId[p] # 0 => tmpId[p] = CopyOf(p)
    /\ \A t \in TmpIds : newId[t] # 0 \/ tmpId[Perm(t)] # 0 =>
         t <= Len(chat) /\ chat[t].status \in {"sent", "forwarded", "deleted"}
    /\ \A t \in TmpIds \ (torn \cup Unwritten) :
         /\ newId[t] # 0 <=> tmpId[Perm(t)] # 0
         /\ newId[t] # 0 => chat[t].status # "deleted"

\* What the store says of a copy is true of the copy.  A copiedMsgIds list names only
\* messages sent for that source message, rule and destination, and each rule and
\* destination at most once (SetCopiedMessageID); an answer mapping leads to the message
\* the copy was made of, and outlives a deleted copy only until its deletion is written
\* or if a write about the copy was lost (SetAnswerMessageID, DeleteAnswerMessageID).
CopyRefsSound ==
    /\ \A m \in Messages : \A i \in DOMAIN copied[m] :
         LET c == copied[m][i] IN
         /\ c.tmp <= Len(chat)
         /\ SameRoute(chat[c.tmp], [msg |-> m, rule |-> c.rule, dst |-> c.dst])
         /\ \A j \in DOMAIN copied[m] : i # j =>
              copied[m][j].rule # c.rule \/ copied[m][j].dst # c.dst
    /\ \A t \in TmpIds : answer[t] # NoMsg =>
         /\ t <= Len(chat) /\ chat[t].msg = answer[t]
         /\ chat[t].status = "deleted" => t \in torn \cup Unwritten

\* However edits, deletes and retries interleave, a rule without CopyOnce puts one
\* copy of a message into a destination (the deduplication of rule.To, and edits
\* that update in place).
OneCopyPerRoute ==
    \A t, u \in DOMAIN chat :
      t # u /\ SameRoute(chat[t], chat[u]) => RuleCfg[chat[t].rule].copyOnce

\* deleteMessages removes from a destination only a copy of a message deleted at the
\* source, and none of a rule the task knows to be Indelible.
NeverDeletesUnasked ==
    [][\A t \in DOMAIN chat :
         chat[t].status # "deleted" /\ chat'[t].status = "deleted" =>
           /\ chat[t].status = "sent"
           /\ chat[t].msg \in srcGone
           /\ chat[t].rule \in task.rs => ~RuleCfg[chat[t].rule].indelible]_vars

\* resolveReplyTo answers with a message of the same destination that is a copy of
\* the message replied to.
RepliesStayInThread ==
    \A t \in DOMAIN chat : chat[t].replyTo # 0 =>
      LET target == chat[CopyOf(chat[t].replyTo)] IN
      target.dst = chat[t].dst /\ target.msg = ReplyOf[chat[t].msg]

\* Retries are bounded (TypeOK) and run without the emission: every stamped source event
\* is submitted to the push dispatcher at most once.
OneFactPerEvent ==
    /\ TypeOK
    /\ \A m \in Messages : \A i, j \in DOMAIN facts[m] :
         i # j => facts[m][i].at # facts[m][j].at

\* When the process is at rest and the retries of a deleted message did not run out,
\* no copy of it that may be deleted is left, nor any mapping to one.
DeletedAtRest ==
    AtRest => \A m \in srcGone \ gaveUp :
      /\ copied[m] = <<>>
      /\ \A t \in DOMAIN chat :
           chat[t].msg = m /\ chat[t].status \in {"pending", "sent"} =>
             RuleCfg[chat[t].rule].indelible \/ RuleCfg[chat[t].rule].copyOnce

\* When the process is at rest and the retries of an edit did not run out, a
\* delivered copy shows the source's version, with the answer mapping that version
\* asks for.
SyncedAtRest ==
    AtRest => \A t \in DOMAIN chat :
      LET c == chat[t] IN
      c.status = "sent" /\ c.msg \notin srcGone \cup gaveUp /\ ~RuleCfg[c.rule].copyOnce
      => /\ c.ver = srcVer[c.msg]
         /\ (answer[t] = c.msg) <=> (c.ver \in WithMarkup)

\* runNextLinkWorkflow links a version to a later copy of the same message in the same
\* destination, one that Telegram has confirmed.
LinksFollowVersions ==
    \A t \in DOMAIN chat : \A p \in chat[t].next :
      /\ t < CopyOf(p) /\ CopyOf(p) <= Len(chat)
      /\ SameRoute(chat[t], chat[CopyOf(p)])
      /\ chat[CopyOf(p)].status \in {"sent", "deleted"}

\* What a reader of a destination sees of a message there.
Seen(c) == [status |-> c.status, msg |-> c.msg, rule |-> c.rule, dst |-> c.dst, ver |-> c.ver]

\* Whatever the order of updates, confirmations, retries, failures, reloads and crashes, the
\* chats go through steps of Mirror alone: one first message for a route, of where the
\* rule sends it; versions only beside a delivered copy; only versions the source has
\* had; only copies of deleted messages taken down (processMessage, forwardMessage,
\* editMessages and deleteMessages together).
Chats == INSTANCE Mirror
           WITH made <- [t \in DOMAIN chat |-> Seen(chat[t])], reloaded <- reloads > 0
MirrorsSource == Chats!Spec

\* Retries end: once the source is quiet the queue drains and stays empty, although
\* an unconfirmed copy keeps asking for retries.
Drains == <>[](AtRest /\ linkers = {})

(***************************************************************************)
(* What the repository's documents say, and the code does not keep         *)
(***************************************************************************)

\* "In the target chat there is always the current version" (test/bdd/05_sync/
\* 02_edit_update.feature:5): SyncedAtRest without a bound of one edit.
ShowsCurrentVersion ==
    AtRest => \A t \in DOMAIN chat :
      LET c == chat[t] IN
      c.status = "sent" /\ c.msg \notin srcGone \cup gaveUp /\ ~RuleCfg[c.rule].copyOnce
      => c.ver = srcVer[c.msg]

\* "So that eventual consistency does not lose synchronisation" (test/bdd/05_sync/
\* 05_retry_eventual_consistency.feature:5): a delivered copy of a deleted message
\* does not outlive the work of the process.
NoSyncLoss ==
    AtRest => \A t \in DOMAIN chat :
      chat[t].status = "sent" /\ chat[t].msg \in srcGone => RuleCfg[chat[t].rule].indelible

\* "indelible: false - deleting the original deletes all copies" (test/bdd/05_sync/
\* 04_delete_sync.feature:7), for messages whose retries did not run out.
DeletesAllCopies ==
    AtRest => \A t \in DOMAIN chat :
      chat[t].status = "sent" /\ chat[t].msg \in srcGone \ gaveUp
      => RuleCfg[chat[t].rule].indelible

\* Editing makes "a new copy" (test/bdd/05_sync/01_versioning.feature:17): a version
\* is copied once into a destination of a CopyOnce rule.
OneCopyPerVersion ==
    \A t, u \in DOMAIN chat :
      t # u /\ SameRoute(chat[t], chat[u]) => chat[t].ver # chat[u].ver

\* Consumers that keep the fact with the latest occurred_at end with the state of
\* the source (internal/service/push/doc.go:5).
LastWriteWins ==
    AtRest => \A m \in Messages : facts[m] # <<>> =>
      \E i \in DOMAIN facts[m] :
        /\ \A j \in DOMAIN facts[m] : facts[m][j].at <= facts[m][i].at
        /\ IF m \in srcGone THEN facts[m][i].event = "deleted"
           ELSE facts[m][i].ver = srcVer[m]
================================================================================
