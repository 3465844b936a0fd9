----------------------------- MODULE MCRuleRouting -----------------------------
(***************************************************************************)
(* A rules file, and files that differ from it in one or two places, for   *)
(* TLC, and the same of messages.  The chats are 1 to 5; the texts of the  *)
(* filters are "news", "spam" and the empty one, of one code point each.   *)
(***************************************************************************)
EXTENDS RuleRouting

News == <<110>>
Spam == <<115>>

\* The expression that finds the words in a text, each with its first letters as group 1.
Finds(words, group) == [text \in {News, Spam} |-> IF text \in words THEN <<<<text, group>>>>
                                                      ELSE <<>>]
Sub(re, group) == [regexp |-> re, group |-> group, match |-> {"ne", "news"}]

CopyRule == [from |-> 1, to |-> <<2, 3, 2>>, pushTo |-> <<"one", "two", "one">>, sendCopy |-> TRUE,
             exclude |-> Finds({Spam}, "sp"), include |-> NoRegexp, includeSubmatch |-> <<>>,
             check |-> 4, other |-> 5, copyOnce |-> FALSE, indelible |-> FALSE]
NativeRule == [CopyRule EXCEPT !.to = <<3>>, !.pushTo = <<"one">>, !.sendCopy = FALSE,
                               !.exclude = NoRegexp, !.include = Finds({News}, "ne"),
                               !.check = 0, !.indelible = TRUE]

PlainTarget == [url |-> "https", schemaVersion |-> 0, timeoutSeconds |-> 0, headersValid |-> TRUE]
Settings == [PlainSource EXCEPT !.for = [o \in Options |->
                IF o \in {"link", "next"} THEN {3} ELSE IF o = "prev" THEN {2} ELSE {2, 3}]]

Base == [readable     |-> TRUE,
         sources      |-> [c \in {1} |-> Settings],
         destinations |-> [c \in {2} |-> [NoDestination EXCEPT
                                             !.replaceFragments = << << <<65, 66>>, <<128512>> >> >>]],
         pushTargets  |-> [one |-> PlainTarget, two |-> [PlainTarget EXCEPT !.schemaVersion = 2]],
         forwardRules |-> [r1 |-> CopyRule, r2 |-> NativeRule]]

WithRule(r) == [Base EXCEPT !.forwardRules.r1 = r]
WithTarget(t) == [Base EXCEPT !.pushTargets.two = t]

FilterFiles ==
    {[Base EXCEPT !.forwardRules = [r1 |-> [CopyRule EXCEPT !.pushTo = <<>>, !.exclude = e,
                                             !.include = i, !.includeSubmatch = s]]] :
        e \in {NoRegexp, BadRegexp, Finds({Spam}, "sp")},
        i \in {NoRegexp, BadRegexp, Finds({Spam}, "sp")},
        s \in {<<>>, <<Sub(NoRegexp, 0)>>, <<Sub(BadRegexp, 0)>>,
               <<Sub(Finds({News}, "ne"), 1)>>, <<Sub(Finds({News}, "nw"), 1)>>,
               <<Sub(Finds({Spam, News}, "xx"), 0), Sub(Finds({Spam}, "ne"), 1)>>,
               <<Sub(Finds({News}, "ne"), 2)>>, <<Sub(Finds({News}, "ne"), -1)>>}}

RuleFiles ==
    {WithRule(r) : r \in {[CopyRule EXCEPT !.from = -1], [CopyRule EXCEPT !.from = 0],
                          [CopyRule EXCEPT !.to = <<2, -3>>], [CopyRule EXCEPT !.to = <<1>>],
                          [CopyRule EXCEPT !.pushTo = <<"three">>], [CopyRule EXCEPT !.to = <<>>],
                          [CopyRule EXCEPT !.to = <<>>, !.pushTo = <<>>], Null,
                          [CopyRule EXCEPT !.from = 2, !.to = <<3, 1>>]}}

TargetFiles ==
    {WithTarget(t) : t \in {[PlainTarget EXCEPT !.schemaVersion = v] : v \in 0..3} \cup
                           {[PlainTarget EXCEPT !.url = u] : u \in {"", "http"}} \cup
                           {[PlainTarget EXCEPT !.timeoutSeconds = s] : s \in {-1, MaxSeconds, MaxSeconds + 1}} \cup
                           {[PlainTarget EXCEPT !.headersValid = FALSE], Null}}

OtherFiles ==
    {[Base EXCEPT !.readable = FALSE], [Base EXCEPT !.forwardRules = <<>>],
     [Base EXCEPT !.forwardRules = ("r:1" :> CopyRule)],
     [Base EXCEPT !.sources = (1 :> Null)], [Base EXCEPT !.destinations = (2 :> Null)],
     [Base EXCEPT !.destinations[2].replaceFragments = << << <<65>>, <<128512>> >> >>],
     [Base EXCEPT !.sources = (1 :> [Settings EXCEPT !.deleteSystemMessages = TRUE]),
                  !.forwardRules.r2.from = 2]}

\* Files for the texts: every option in both chats, links rewritten in one or in both.
EveryOption == [PlainSource EXCEPT !.for = [o \in Options |-> {2, 3}], !.autoAnswer = TRUE]
Untranslated == [EveryOption EXCEPT !.for["translate"] = {}]
Rewriting(deleteExternal) ==
    [replaceFragments |-> << << <<65, 66>>, <<128512>> >>, << <<128512>>, <<66, 66>> >> >>,
     replaceMyselfLinks |-> [run |-> TRUE, deleteExternal |-> deleteExternal]]

TextFiles ==
    {[Base EXCEPT !.sources = (1 :> src),
                  !.destinations = (2 :> Rewriting(TRUE) @@ 3 :> dst),
                  !.forwardRules = (id :> [CopyRule EXCEPT !.pushTo = <<>>, !.exclude = NoRegexp,
                                                           !.copyOnce = once])] :
        src \in {EveryOption, Untranslated, PlainSource},
        dst \in {Rewriting(FALSE), NoDestination}, id \in {"r1"}, once \in BOOLEAN}

MCFiles == {Base} \cup FilterFiles \cup RuleFiles \cup TargetFiles \cup OtherFiles \cup TextFiles

(***************************************************************************)
(* Messages                                                                *)
(***************************************************************************)
\* The routed message is 1 of chat -1, copied to -2 and -3 before; 7 is an earlier one.
MCLinks == (<<-1, 1>> :> <<1, 1>>) @@ (<<-1, 7>> :> <<1, 7>>) @@ (<<-9, 9>> :> <<9, 9, 9>>)
        @@ (<<-2, 50>> :> <<2, 5, 4>>) @@ (<<-3, 51>> :> <<3>>)
        @@ (<<-2, 60>> :> <<2, 6>>) @@ (<<-3, 61>> :> <<3, 6>>)
        @@ (<<-2, 70>> :> <<2, 7>>) @@ (<<-3, 70>> :> <<3, 7>>)
MCTitles == [o \in Options |-> IF o = "next" THEN <<8600>> ELSE <<128279, 76>>]
MCDeletedLink == <<68, 69, 76, 76>>

Copy(dst, tmp) == [rule |-> "r1", dst |-> dst, tmp |-> tmp]
Calm == [fails |-> {}, translated |-> FormattedText(<<84>>, <<>>), answer |-> <<81>>,
         basicGroup |-> FALSE,
         copied |-> (1 :> <<Copy(-2, 2), Copy(-3, 3)>>) @@ (7 :> <<Copy(-2, 5), Copy(-3, 6)>>),
         newId |-> (2 :> 60) @@ (3 :> 61) @@ (5 :> 50) @@ (6 :> 51),
         nextId |-> 70, prevText |-> FormattedText(<<128512>>, <<Entity(0, 2, Plain("bold"))>>)]

TextContent(ft) == [type |-> "messageText", text |-> ft, files |-> <<>>, thumbnail |-> Absent,
                    flag |-> FALSE]
Media(type, caption) == [TextContent(caption) EXCEPT !.type = type, !.files = <<"small", "large">>,
                                                     !.thumbnail = "cover"]

Said1(text) == [id |-> 1, chat |-> -1, content |-> TextContent(FormattedText(text, <<>>)),
                origin |-> NoContent, keyboard |-> <<>>, canBeSaved |-> TRUE, date |-> 5,
                editDate |-> 0, sender |-> [type |-> "messageSenderUser", id |-> 42],
                replyTo |-> Absent, context |-> NoContext, notes |-> NoNotes,
                sensitive |-> FALSE, forward |-> Absent, answers |-> Calm]

Routable == {[Said1(text) EXCEPT !.chat = chat, !.canBeSaved = saved] :
                 chat \in {-1, -2}, text \in {NoText, News, Spam}, saved \in BOOLEAN}

Kinds == {[Said1(News) EXCEPT !.content = c] :
              c \in {NoContent, Media("messagePhoto", Absent), Media("messageSticker", Absent)}}

\* Facts that have no place in the schema, and those a forward may lack.
Origin(type, name) == [type |-> type, senderName |-> name, ids |-> <<>>]
Source(chat, name) == [chat |-> chat, message |-> 4, senderName |-> name, date |-> 0,
                       sender |-> [type |-> "messageSenderChat", id |-> -9]]
Forwards ==
    {[origin |-> o, date |-> 5, source |-> s, announcement |-> a] :
        o \in {Absent, Origin("messageOriginHiddenUser", "over long"), Origin("odd_origin", "")},
        s \in {Absent, Source(-9, "hidden"), Source(0, "hidden"), Source(-9, ""),
               Source(-9, "over long")},
        a \in {"", "odd_origin", "psa"}}

OddMessages ==
    {[Said1(News) EXCEPT !.forward = f] : f \in Forwards} \cup
    {[Said1(News) EXCEPT !.content = c] :
        c \in {Media("odd_type", Absent), Media("messageNew", Absent), Media("messageVoiceNote", Absent),
               Media("messagePhoto", FormattedText(News, <<Entity(0, 1, Plain("odd_type"))>>))}} \cup
    {[Said1(News) EXCEPT !.replyTo = [type |-> type, chat |-> -1, message |-> 7],
                         !.sender = [type |-> "messageSenderNew", id |-> 0],
                         !.context["message_thread_id"] = 3, !.notes["author_signature"] = "odd_type"] :
        type \in {"messageReplyToMessage", "messageReplyToStory", "odd_type"}}

\* Texts with links: an emoji, a link to 7, behind words and spelled out, one elsewhere.
Rich == <<128512, 32, 1, 7, 66, 9, 9, 9, 65, 66>>
Own(o) == Entity(o, 2, Plain("url"))
External == Entity(6, 3, Plain("url"))
Bolds == {<<Entity(0, 3, Plain("bold")), Own(3), Entity(5, 1, Plain("italic")), External,
            Entity(9, 2, Plain("bold"))>>,
          <<Entity(0, 2, TextUrl(<<1, 7>>)), Entity(3, 2, Plain("bold")), Own(3),
            Entity(5, 1, TextUrl(<<9, 9, 9>>)), External>>,
          <<Own(3), External, Entity(9, 2, Plain("bold"))>>,
          <<Entity(2, 4, Plain("bold")), Own(3)>>,
          <<External, Entity(6, 5, Plain("italic"))>>}

Button(callback) == [callback |-> callback, data |-> <<1>>]
Answering ==
    {[Calm EXCEPT !.fails = f] : f \in {{}, {"TranslateText"}, {"GetChat"}, {"GetMessageLink"},
                                        {"GetMessageLinkInfo"}, {"ParseTextEntities"},
                                        {"TranslateText", "GetCallbackQueryAnswer"}}} \cup
    {[Calm EXCEPT !.basicGroup = TRUE], [Calm EXCEPT !.newId[5] = 0, !.newId[2] = 0],
     [Calm EXCEPT !.nextId = 0], [Calm EXCEPT !.prevText = Absent],
     [Calm EXCEPT !.answer = <<>>]}

RichText(entities) == FormattedText(Rich, entities)
RichMessages ==
    {[Said1(Rich) EXCEPT !.content.text = RichText(e), !.answers = a, !.keyboard = k] :
        e \in Bolds, a \in Answering, k \in {<<>>, <<<<>>, <<Button(FALSE), Button(TRUE)>>>>}} \cup
    {[Said1(Rich) EXCEPT !.content = Media(t, RichText(<<Own(3)>>)), !.origin = o] :
        t \in MediaTypes, o \in {NoContent, TextContent(FormattedText(News, <<>>)),
                                 Media("messageVideo", RichText(<<>>))}}

MCMessagesOf(f) ==
    IF f \in TextFiles THEN RichMessages
    ELSE IF f = Base THEN Routable \cup Kinds \cup OddMessages
    ELSE Routable \cup Kinds
================================================================================
