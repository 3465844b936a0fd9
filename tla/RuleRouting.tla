------------------------------ MODULE RuleRouting ------------------------------
(***************************************************************************)
(* From a rules file to what leaves the engine: Load publishes a rule set, *)
(* the handlers of internal/app/handler/service.go put a message to its    *)
(* filters, route it to chats and push targets, transform its text for     *)
(* each chat and project it for the targets, and the targets' sinks        *)
(* deliver.  The tasks, retries and stored copies that follow a routing    *)
(* are Forwarder's, albums AlbumCollector's; here a routing is the set of  *)
(* what is sent where, under which settings and with which content.  What  *)
(* Telegram and the store answer meanwhile comes with the message, as its  *)
(* "answers" and its "origin" (see TextTransform).                         *)
(***************************************************************************)
EXTENDS Filters, WebhookSink, TextTransform

CONSTANTS
    Files,           \* what the rules file may hold
    MessagesOf(_),   \* bound: the messages that come while a file is in force
    MaxLoads         \* bound: loads of a file

(***************************************************************************)
(* What comes in: a decoded file, whose entries have a body with every     *)
(* field or none, and a message as TDLib gives it                          *)
(***************************************************************************)
DecodedRule(rule) ==
    /\ DOMAIN rule = {"from", "to", "pushTo", "sendCopy", "exclude", "include", "includeSubmatch",
                      "check", "other", "copyOnce", "indelible"}
    /\ {rule.from, rule.check, rule.other} \subseteq Int /\ rule.to \in Seq(Int)
    /\ rule.sendCopy \in BOOLEAN
    /\ rule.includeSubmatch \in Seq(Range(rule.includeSubmatch))
    /\ \A sub \in Range(rule.includeSubmatch) : sub.group \in Int

DecodedSource(src) ==
    src \in [for: [Options -> SUBSET Int], autoAnswer: BOOLEAN, deleteSystemMessages: BOOLEAN]

DecodedFile(f) ==
    /\ DOMAIN f.sources \cup DOMAIN f.destinations \subseteq Int
    /\ \A c \in DOMAIN f.sources : f.sources[c] = Null \/ DecodedSource(f.sources[c])
    /\ IsFiniteSet(DOMAIN f.forwardRules)
    /\ \A id \in DOMAIN f.forwardRules :
           f.forwardRules[id] = Null \/ DecodedRule(f.forwardRules[id])

SenderHasId(s) ==
    /\ s.type = "messageSenderUser" => s.id > 0
    /\ s.type = "messageSenderChat" => s.id # 0

TelegramContent(c) ==
    c # NoContent /\ c.type \in TextTypes /\ c.text # Absent =>
        \A ent \in Range(c.text.entities) : ent.offset >= 0 /\ ent.length >= 0

TelegramForward(f) ==
    /\ f.origin # Absent => DOMAIN f.origin = {"type", "senderName", "ids"}
    /\ f.source # Absent => SenderHasId(f.source.sender)

TelegramMessage(m) ==
    /\ m.chat \in Int \ {0} /\ m.id # 0 /\ m.date \in Nat \ {0}
    /\ SenderHasId(m.sender) /\ TelegramContent(m.content)
    /\ \A k \in ContextIds \ {"message_thread_id"} : m.context[k] >= 0
    /\ m.replyTo # Absent => m.replyTo \in [type: {m.replyTo.type}, chat: Int, message: Nat]
    /\ m.forward # Absent => TelegramForward(m.forward)

\* Absent is nothing that a projection makes.
AbsentIsNothing ==
    /\ Absent \notin Nat \cup [isPermanent: BOOLEAN, fromCache: BOOLEAN]
    /\ \A f \in Files : \A m \in MessagesOf(f) :
           /\ v2ContentFor(m.content) # Absent
           /\ m.forward # Absent => /\ v2ForwardFor(m.forward) # Absent
                                    /\ m.forward.source # Absent =>
                                           v2SourceFor(m.forward.source) # Absent

ASSUME RoutingAssumption ==
    /\ MaxLoads \in Nat /\ MaxRedirects \in 0..3
    /\ (pinnedContentTypes \cup {UnknownContentType}) \cap ({""} \cup OutOfBounds) = {}
    /\ AbsentIsNothing
    /\ \A f \in Files : DecodedFile(f) /\ \A m \in MessagesOf(f) : TelegramMessage(m)

VARIABLES
    file,       \* the file the published rule set came from
    rs,         \* the published rule set
    alive,      \* the engine has not panicked
    msg,        \* the last message routed
    event,      \* what befell it: "none", "new", "edited" or "deleted"
    routed,     \* what its handler sent for it
    loads       \* loads so far

routeVars == <<msg, event, routed>>
vars == <<file, rs, alive, routeVars, loads, sinkVars>>

NoMessage == [chat |-> 0, content |-> NoContent]
NoFile == [readable |-> FALSE]
NoRules == Enrich([sources |-> <<>>, destinations |-> <<>>, pushTargets |-> <<>>,
                   forwardRules |-> <<>>])

Init ==
    /\ file = NoFile /\ rs = NoRules
    /\ alive = TRUE /\ msg = NoMessage /\ event = "none" /\ routed = {} /\ loads = 0
    /\ SinkInit

(***************************************************************************)
(* Load and reload                                                         *)
(***************************************************************************)
Publish(f) ==
    /\ "ok" \in Outcomes(f)
    /\ file' = f /\ rs' = Loaded(f) /\ UNCHANGED alive

Reject(f) ==
    /\ "error" \in Outcomes(f)
    /\ UNCHANGED <<file, rs, alive>>

Die(f) ==
    /\ "panic" \in Outcomes(f)
    /\ alive' = FALSE /\ file' = f /\ UNCHANGED rs

\* Bound: a load waits for the sinks to rest (loads with facts in flight are
\* EngineReload's), and what was routed and delivered before is forgotten.
AtRest == \A t \in Targets : queue[t] = <<>> /\ ~Busy(t)

Load(f) ==
    /\ alive /\ loads < MaxLoads /\ AtRest
    /\ loads' = loads + 1
    /\ msg' = NoMessage /\ event' = "none" /\ routed' = {}
    /\ attempt' = [t \in Targets |-> NoAttempt(t)]
    /\ Publish(f) \/ Reject(f) \/ Die(f)
    /\ UNCHANGED queue

(***************************************************************************)
(* A copy: forwardMessage                                                  *)
(***************************************************************************)
RulesFor(m) == {id \in DOMAIN rs.forwardRules : rs.forwardRules[id].from = m.chat}

\* The settings a text is made under: sign and link need withSources, prev and next an
\* earlier version.
CopyOptions(src, dst, withSources) ==
    {o \in Options : dst \in src.for[o] /\ (o \in {"sign", "link"} => withSources)}

NoDestination == [replaceFragments |-> <<>>,
                  replaceMyselfLinks |-> [run |-> FALSE, deleteExternal |-> FALSE]]

Destination(dst) == IF dst \in DOMAIN rs.destinations THEN rs.destinations[dst] ELSE NoDestination

TransformParams(m, dst, prev, withSources) ==
    [text |-> GetFormattedText(m), source |-> rs.sources[m.chat],
     destination |-> Destination(dst), dst |-> dst, src |-> m.chat, srcMessage |-> m.id,
     prev |-> prev, withSources |-> withSources,
     replyMarkup |-> GetReplyMarkupData(m) # <<>>, answers |-> m.answers]

\* The post of a channel that a message was forwarded from stands for it while their
\* texts agree.
OriginContent(m) ==
    LET ft == GetFormattedText([content |-> m.origin])
    IN  IF ft # Absent /\ ft.text = GetFormattedText(m).text THEN m.origin ELSE m.content

\* What is sent as what to which chat: natively without settings and content.
Natively(as, dst) == [as |-> as, to |-> dst, options |-> {}, fragments |-> <<>>,
                      params |-> Absent, content |-> Absent]
Made(as, p, content) ==
    [as |-> as, to |-> p.dst, options |-> CopyOptions(p.source, p.dst, p.withSources),
     fragments |-> p.destination.replaceFragments, params |-> p, content |-> content]

\* The next link goes to the earlier version once the later one is confirmed.
NextLink(p) ==
    LET prevText == p.answers.prevText IN
    IF p.answers.nextId = 0 \/ prevText = Absent THEN {}
    ELSE {Made("next", [p EXCEPT !.text = prevText],
               Input("messageText", Absent, Absent, FALSE,
                     AddNextLink(prevText, p.answers.nextId, p)))}

ForwardMessage(rule, m, dst, prev, withSources) ==
    LET p == TransformParams(m, dst, prev, withSources) IN
    IF ~rule.sendCopy THEN {Natively("forward", dst)}
    ELSE {Made("copy", p, BuildInputContent(OriginContent(m), TransformText(p)))}
             \cup (IF prev # 0 /\ rule.copyOnce THEN NextLink(p) ELSE {})

(***************************************************************************)
(* OnNewMessage                                                            *)
(***************************************************************************)
\* A native forward needs a message that may be saved.
MayForward(rule, m) ==
    GetFormattedText(m) # Absent /\ (rule.sendCopy \/ m.canBeSaved)

\* A destination named twice is met once; only the first gets the sources.
Copies(rule, m) ==
    UNION {ForwardMessage(rule, m, dst, 0, dst = rule.to[1]) : dst \in Range(rule.to)}

Aside(chat) == IF chat = 0 THEN {} ELSE {Natively("forward", chat)}

\* processMessage, by the mode of the filters.
Route(rule, m) ==
    LET mode == Evaluate(GetFormattedText(m).text, rule) IN
    CASE mode = "ok"    -> Copies(rule, m)
      [] mode = "check" -> Aside(rule.check)
      [] mode = "other" -> Aside(rule.other)
      [] OTHER -> {}

PassingRules(m) ==
    {id \in RulesFor(m) : /\ MayForward(rs.forwardRules[id], m)
                          /\ Evaluate(GetFormattedText(m).text, rs.forwardRules[id]) = "ok"}

\* Each rule submits a new message on its own, so a target gets it once for each rule.
SubmitAll(ids, fact) ==
    LET times(t) == Cardinality({id \in ids : t \in Range(rs.forwardRules[id].pushTo)})
    IN  queue' = [t \in Targets |->
                     queue[t] \o [i \in 1..times(t) |-> Entry(fact, rs.pushTargets[t])]]

\* An edit or a deletion is submitted once to the targets of all rules of its chat.
SubmitOnce(m, fact) ==
    queue' = Submitted(queue, UNION {Range(rs.forwardRules[id].pushTo) : id \in RulesFor(m)},
                       fact, rs.pushTargets)

SystemMessage(m) ==
    /\ IsSystemMessage(m)
    /\ routed' = IF rs.sources[m.chat].deleteSystemMessages
                 THEN {Natively("delete", m.chat)} ELSE {}
    /\ UNCHANGED <<alive, queue>>

\* Media without a caption go to the targets alone; no content at all goes nowhere.
TextlessMessage(m) ==
    /\ ~IsSystemMessage(m) /\ GetFormattedText(m) = Absent
    /\ routed' = {} /\ UNCHANGED alive
    /\ IF m.content = NoContent THEN UNCHANGED queue
       ELSE SubmitAll(RulesFor(m), [v1 |-> "", v2 |-> v2SnapshotFor(m, "new")])

\* The update loop has no recover: a panic of the filters ends the engine.
TextMessage(m) ==
    LET ids == {id \in RulesFor(m) : MayForward(rs.forwardRules[id], m)} IN
    /\ GetFormattedText(m) # Absent
    /\ IF \E id \in ids : Evaluate(GetFormattedText(m).text, rs.forwardRules[id]) = "panic"
       THEN alive' = FALSE /\ routed' = {} /\ UNCHANGED queue
       ELSE /\ routed' = UNION {Route(rs.forwardRules[id], m) : id \in ids}
            /\ SubmitAll(PassingRules(m), [v1 |-> "new", v2 |-> v2SnapshotFor(m, "new")])
            /\ UNCHANGED alive

\* Bound: one message for a load; the handlers remember nothing of one for the next.
Handles(m, ev) ==
    /\ alive /\ m.chat \in rs.uniqueSources /\ event = "none"
    /\ msg' = m /\ event' = ev
    /\ UNCHANGED <<file, rs, loads, attempt>>

OnNewMessage(m) ==
    /\ Handles(m, "new")
    /\ SystemMessage(m) \/ TextlessMessage(m) \/ TextMessage(m)

(***************************************************************************)
(* OnEditedMessage and OnDeletedMessages, with their tasks                 *)
(***************************************************************************)
\* A stored copy whose rule is still there and which is confirmed is edited in place, or
\* a new version of it sent; both with the sources.
Synced(m, c) ==
    LET newId == m.answers.newId[c.tmp]
        p     == TransformParams(m, c.dst, 0, TRUE)
    IN  IF newId = 0 \/ c.rule \notin DOMAIN rs.forwardRules THEN {}
        ELSE IF rs.forwardRules[c.rule].copyOnce
        THEN ForwardMessage(rs.forwardRules[c.rule], m, c.dst, newId, TRUE)
        ELSE {Made("edit", p, Input("messageText", Absent, Absent, FALSE, TransformText(p)))}

\* An edit is told whatever the filters say of the text.
OnEditedMessage(m) ==
    /\ Handles(m, "edited")
    /\ UNCHANGED alive
    /\ LET v2 == v2SnapshotFor(m, "edited") IN
       IF GetFormattedText(m) # Absent
       THEN /\ routed' = UNION {Synced(m, c) : c \in Range(GetCopiedMessageIDs(m.id, m.answers))}
            /\ SubmitOnce(m, [v1 |-> "edited", v2 |-> v2])
       ELSE /\ routed' = {}
            /\ IF m.content = NoContent THEN UNCHANGED queue
               ELSE SubmitOnce(m, [v1 |-> "", v2 |-> v2])

Indelible(id) == id \in DOMAIN rs.forwardRules /\ rs.forwardRules[id].indelible

Removed(m) ==
    {c \in Range(GetCopiedMessageIDs(m.id, m.answers)) :
        ~Indelible(c.rule) /\ m.answers.newId[c.tmp] # 0}

\* A deletion that is not permanent is not taken.
OnDeletedMessages(m) ==
    /\ Handles(m, "deleted")
    /\ routed' = {Natively("delete", c.dst) : c \in Removed(m)}
    /\ \E fromCache \in BOOLEAN :
           SubmitOnce(m, [v1 |-> "deleted", v2 |-> v2DeleteFor(m.chat, m.id, TRUE, fromCache)])
    /\ UNCHANGED alive

Deliver == alive /\ SinkNext /\ UNCHANGED <<file, rs, alive, routeVars, loads>>

Next ==
    \/ \E f \in Files : Load(f)
    \/ \E m \in MessagesOf(file) :
           OnNewMessage(m) \/ OnEditedMessage(m) \/ OnDeletedMessages(m)
    \/ Deliver

Spec == Init /\ [][Next]_vars

(***************************************************************************)
(* Properties                                                              *)
(***************************************************************************)
TypeOK ==
    /\ alive \in BOOLEAN /\ loads \in 0..MaxLoads
    /\ event \in {"none", "new", "edited", "deleted"}
    /\ msg \in {NoMessage} \cup MessagesOf(file)
    /\ file \in Files \cup {NoFile} /\ rs.uniqueSources \subseteq DOMAIN rs.sources
    /\ SinkTypeOK

\* What the owner of a file means by it, in the file's own numbers.  An expression that
\* does not compile or a negative group means nothing.
Expressions(rule) ==
    {rule.exclude, rule.include} \cup {sub.regexp : sub \in Range(rule.includeSubmatch)}

ToldIncludes(rule) ==
    {re \in {rule.include} \cup {sub.regexp : sub \in Range(rule.includeSubmatch)} :
        re # NoRegexp}

Said(re, text) == re # NoRegexp /\ text # NoText /\ Matches(re, text)

ToldExcluded(rule, text) == Said(rule.exclude, text)

ToldIncluded(rule, text) ==
    \/ ToldIncludes(rule) = {}
    \/ Said(rule.include, text)
    \/ \E sub \in Range(rule.includeSubmatch) :
           Said(sub.regexp, text) /\ \E match \in Range(sub.regexp[text]) : GroupIs(sub, match)

ToldFor(chat, o, rule, dst) ==
    /\ chat \in DOMAIN file.sources
    /\ dst \in file.sources[chat].for[o]
    /\ o \in {"sign", "link"} => dst = rule.to[1]

ToldOptions(rule, dst) ==
    IF rule.sendCopy THEN {o \in Options : ToldFor(rule.from, o, rule, dst)} ELSE {}

ToldFragments(rule, dst) ==
    IF rule.sendCopy /\ dst \in DOMAIN file.destinations
    THEN file.destinations[dst].replaceFragments ELSE <<>>

Sent(as, dst, options, fragments) ==
    [as |-> as, to |-> dst, options |-> options, fragments |-> fragments]

Told(rule, text) ==
    IF ToldExcluded(rule, text)
    THEN {Sent("forward", -c, {}, <<>>) : c \in {rule.check} \ {0}}
    ELSE IF ToldIncluded(rule, text)
    THEN {Sent(IF rule.sendCopy THEN "copy" ELSE "forward", -dst, ToldOptions(rule, dst),
               ToldFragments(rule, dst)) : dst \in Range(rule.to)}
    ELSE {Sent("forward", -c, {}, <<>>) : c \in {rule.other} \ {0}}

ToldRules(m) ==
    {id \in DOMAIN file.forwardRules :
        /\ file.forwardRules[id].from = -m.chat
        /\ file.forwardRules[id].sendCopy \/ m.canBeSaved}

ToldAll ==
    UNION {Told(file.forwardRules[id], GetFormattedText(msg).text) : id \in ToldRules(msg)}

\* A message with a text goes exactly where the file says, by the rules of its chat, in
\* the form and under the settings the file gives (validate, transform, enrich, Evaluate
\* and processMessage together; no chat is missed or met by a sign not turned).
RoutedAsTold ==
    alive /\ event = "new" /\ GetFormattedText(msg) # Absent =>
        {Sent(s.as, s.to, s.options, s.fragments) : s \in routed} = ToldAll

Fatal(f) ==
    \/ Null \in Range(f.sources) \cup Range(f.destinations) \cup Range(f.forwardRules)
    \/ \E rule \in Range(f.forwardRules) :
           \/ BadRegexp \in Expressions(rule)
           \/ \E sub \in Range(rule.includeSubmatch) : sub.group < 0

\* The engine ends by a panic only over an entry without a body in a map other than the
\* push targets, or over a filter that no text can be put to: every other file is
\* refused or served (Load and Evaluate).
OnlyFatalFilesKill == alive \/ Fatal(file)

\* What the frozen v2 schema says of a payload by its event.
SnapshotKeys == {"chat_id", "message_id", "sent_at", "content.type", "has_sensitive_content"}
DeletionKeys == {"chat_id", "message_id", "delete"}

KeepsSchema(body) ==
    IF body.event = "deleted" THEN body.keys = DeletionKeys
    ELSE SnapshotKeys \subseteq body.keys /\ "delete" \notin body.keys

\* What an attempt has on the wire is what its target was told to send: the payload of
\* the schema in the file, 1 if none is given, with the keys the v2 contract demands of
\* its event, over https, after no more redirects than the policy allows; an attempt
\* sends nothing only for a fact without that representation (EffectiveSchemaVersion,
\* RenderPayload, MarshalNotification, CheckRedirect).
WireIsTold ==
    /\ TypeOK
    /\ \A t \in Targets :
           LET a == attempt[t]
               told == IF a.version = 2 THEN 2 ELSE 1
               has == IF told = 2 THEN V2(a.fact) # NoPayload ELSE a.fact.v1 # ""
           IN  /\ a.at = "sent" => /\ a.scheme = "https" /\ a.hop <= 3 /\ has
                                   /\ a.body.version = told \/ (a.body = NoPayload /\ a.hop > 0)
                                   /\ a.body.version = 2 => KeepsSchema(a.body)
               /\ a.at = "ended" => (a.outcome = "unavailable" <=> ~has)

\* The source of a forward as the v2 contract of the code has it: with both ids, and with
\* a name, which Telegram gives only for a sender that hides.
OddForward(m) ==
    /\ m.forward # Absent /\ m.forward.source # Absent
    /\ LET s == m.forward.source IN
       s.chat = 0 \/ s.message = 0 \/ ~ValidateBoundedString(s.senderName)

Projected == {entry.fact.v2 : entry \in UNION {Range(queue[t]) : t \in Targets}}

\* A message is fit for a v2 target whatever its content is, also where its kind, an
\* entity, a reply or an origin has no place in the schema: only a forward with an odd
\* source is not, and a deletion always is (projection and validation agree).
OnlyOddForwardsFail ==
    event # "none" => \A n \in Projected :
        MarshalNotification(n) # NoPayload <=> event = "deleted" \/ ~OddForward(msg)

\* The comments of the serializer and the frozen schema have what is absent or out of
\* bounds left out, not the endpoint fail: the code refuses what it left out itself.
ForwardsAreServed == \A n \in Projected : MarshalNotification(n) # NoPayload

(***************************************************************************)
(* The text of a copy, unit by unit: each UTF-16 unit has the marks of the *)
(* entities that cover it, a link that is replaced hands its marks to what *)
(* replaces it, a fragment to the fragment of the same length.             *)
(***************************************************************************)
Covers(ent, u) == ent.offset < u /\ u <= ent.offset + ent.length

Marked(text, marks) == [u \in 1..lenUTF16(text) |-> <<encodeUTF16(text)[u], marks>>]

Styled(ft) ==
    [u \in 1..lenUTF16(ft.text) |->
        <<encodeUTF16(ft.text)[u], {ent.type : ent \in {e \in Range(ft.entities) : Covers(e, u)}}>>]

Heard(call, p) == call \notin p.answers.fails

\* The link of the confirmed copy in the chat of what a link of the source chat leads to.
HomeLinks(p, ft, ent) ==
    IF Heard("GetMessageLink", p)
    THEN {Links[<<p.dst, p.answers.newId[c.tmp]>>] : c \in
             {c \in UNION {Range(p.answers.copied[id]) : id \in
                              {key[2] : key \in {k \in LeadsTo(p, ft, ent) : k[1] = p.src}}
                                  \cap DOMAIN p.answers.copied} :
                 c.dst = p.dst /\ p.answers.newId[c.tmp] # 0}}
    ELSE {}

Rewrites(p) ==
    /\ p.destination.replaceMyselfLinks.run /\ ~p.answers.basicGroup
    /\ Heard("GetChat", p) /\ Heard("GetMessageLinkInfo", p)

\* What an entity says after the rewriting, and of which type it is.
NewType(p, ft, ent) ==
    IF ~Rewrites(p) THEN ent.type
    ELSE IF IsStruck(p, ft, ent) THEN Plain("strikethrough")
    ELSE IF ent.type.kind = "textUrl" /\ HomeLinks(p, ft, ent) # {}
    THEN TextUrl(CHOOSE link \in HomeLinks(p, ft, ent) : TRUE) ELSE ent.type

NewText(p, ft, ent) ==
    IF ~Rewrites(p) THEN {}
    ELSE IF IsStruck(p, ft, ent) THEN {DeletedLink}
    ELSE IF ent.type.kind = "url" THEN HomeLinks(p, ft, ent) ELSE {}

Rewritten(p, ft) ==
    LET marks(u) == {NewType(p, ft, ent) : ent \in {e \in Range(ft.entities) : Covers(e, u)}}
        piece(u) ==
            LET over == {e \in Range(ft.entities) : Covers(e, u) /\ NewText(p, ft, e) # {}}
                ent  == CHOOSE e \in over : TRUE
            IN  IF over = {} THEN <<<<encodeUTF16(ft.text)[u], marks(u)>>>>
                ELSE IF u = ent.offset + 1
                THEN Marked(CHOOSE text \in NewText(p, ft, ent) : TRUE, marks(u)) ELSE <<>>
    IN  FlattenSeq([u \in 1..lenUTF16(ft.text) |-> piece(u)])

Exchanged(units, fragments) ==
    LET text == FoldLeft(LAMBDA s, f : ReplaceEach(s, f[1], f[2]),
                         decodeUTF16([u \in DOMAIN units |-> units[u][1]]), fragments)
    IN  [u \in DOMAIN units |-> <<encodeUTF16(text)[u], units[u][2]>>]

Appended(markdown, p) ==
    Marked(Gap, {}) \o (IF Heard("ParseTextEntities", p) THEN Styled(markdown.parsed)
                        ELSE Marked(markdown.raw, {}))

AppendedLink(option, chat, id, s) ==
    IF option \in s.options /\ Heard("GetMessageLink", s.params)
    THEN Appended(Anchor(Titles[option], Links[<<chat, id>>]), s.params) ELSE <<>>

ToldBase(p) ==
    IF p.dst \in p.source.for["translate"] /\ Heard("TranslateText", p)
    THEN p.answers.translated ELSE p.text

ToldAnswer(p) ==
    IF /\ p.source.autoAnswer /\ p.replyMarkup
       /\ Heard("GetCallbackQueryAnswer", p) /\ p.answers.answer # <<>>
    THEN Appended(Words(p.answers.answer), p) ELSE <<>>

ToldUnits(s) ==
    LET p == s.params IN
    IF s.as = "next" THEN Styled(p.text) \o AppendedLink("next", p.dst, p.answers.nextId, s)
    ELSE Exchanged(Rewritten(p, ToldBase(p)) \o ToldAnswer(p), s.fragments)
             \o (IF "sign" \in s.options THEN Appended(Bold(Titles["sign"]), p) ELSE <<>>)
             \o AppendedLink("link", p.src, p.srcMessage, s)
             \o (IF p.prev = 0 THEN <<>> ELSE AppendedLink("prev", p.dst, p.prev, s))

FormattedAsTold(s) ==
    /\ Styled(s.content.text) = ToldUnits(s)
    /\ \A ent \in Range(s.content.text.entities) :
           ent.offset + ent.length <= lenUTF16(s.content.text.text)

Texts == {s \in routed : s.content # Absent}

\* Marks that a link overlaps with cover the same span as the link.
Neat(ft) ==
    \A i, j \in DOMAIN ft.entities :
        LET a == ft.entities[i]
            b == ft.entities[j]
        IN  isURLEntity(a) /\ (\E u \in 1..lenUTF16(ft.text) : Covers(a, u) /\ Covers(b, u))
                => a.offset = b.offset /\ a.length = b.length

\* A text that is sent says, unit by unit and mark by mark, what the settings make of the
\* source's text: links of the source chat lead to the confirmed copies in that chat,
\* others are struck out, formatting stays on its words whatever is replaced, inserted or
\* appended, in plain text and beyond the basic plane, and whichever call fails
\* (Transform, AddNextLink, processMessage and editMessages together).
FormattingStays == \A s \in Texts : Neat(ToldBase(s.params)) => FormattedAsTold(s)

\* The same of every text: the comment of replaceMyselfLinks has the entities stay valid.
EntitiesStayValid == \A s \in Texts : FormattedAsTold(s)
================================================================================
