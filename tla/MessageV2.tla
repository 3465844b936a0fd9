-------------------------------- MODULE MessageV2 --------------------------------
(***************************************************************************)
(* The v2 notification of a message: its projection by                     *)
(* internal/app/handler/projection_v2.go, which may omit facts but not     *)
(* fail, and internal/service/push/messagev2, which validates what was     *)
(* projected and renders it.  A string is a name; those a discriminator or *)
(* a sender name may not be (too long, or with bytes of other kinds) are   *)
(* OutOfBounds, "" is an empty one and 0 a zero id or timestamp.  The      *)
(* scalars that are only copied are "context", those that are texts        *)
(* "notes".  occurred_at is always set.                                    *)
(***************************************************************************)
EXTENDS MessageContent

CONSTANT OutOfBounds

UnknownContentType == "unknown"

\* The inventory of the pinned go-tdlib.
pinnedContentTypes ==
    {"messageText", "messageAnimation", "messageAudio", "messageDocument", "messagePaidMedia",
    "messagePhoto", "messageSticker", "messageVideo", "messageVideoNote", "messageVoiceNote",
    "messageExpiredPhoto", "messageExpiredVideo", "messageExpiredVideoNote",
    "messageExpiredVoiceNote", "messageLocation", "messageVenue", "messageContact",
    "messageAnimatedEmoji", "messageDice", "messageGame", "messagePoll", "messageStory",
    "messageInvoice", "messageCall", "messageVideoChatScheduled", "messageVideoChatStarted",
    "messageVideoChatEnded", "messageInviteVideoChatParticipants", "messageBasicGroupChatCreate",
    "messageSupergroupChatCreate", "messageChatChangeTitle", "messageChatChangePhoto",
    "messageChatDeletePhoto", "messageChatAddMembers", "messageChatJoinByLink",
    "messageChatJoinByRequest", "messageChatDeleteMember", "messageChatUpgradeTo",
    "messageChatUpgradeFrom", "messagePinMessage", "messageScreenshotTaken",
    "messageChatSetBackground", "messageChatSetTheme", "messageChatSetMessageAutoDeleteTime",
    "messageChatBoost", "messageForumTopicCreated", "messageForumTopicEdited",
    "messageForumTopicIsClosedToggled", "messageForumTopicIsHiddenToggled",
    "messageSuggestProfilePhoto", "messageCustomServiceAction", "messageGameScore",
    "messagePaymentSuccessful", "messagePaymentSuccessfulBot", "messagePaymentRefunded",
    "messageGiftedPremium", "messagePremiumGiftCode", "messageGiveawayCreated", "messageGiveaway",
    "messageGiveawayCompleted", "messageGiveawayWinners", "messageGiftedStars",
    "messageGiveawayPrizeStars", "messageGift", "messageContactRegistered", "messageUsersShared",
    "messageChatShared", "messageBotWriteAccessAllowed", "messageWebAppDataSent",
    "messageWebAppDataReceived", "messagePassportDataSent", "messagePassportDataReceived",
    "messageProximityAlertTriggered", "messageUnsupported"}

ContextIds == {"message_thread_id", "saved_messages_topic_id", "media_album_id",
               "via_bot_user_id", "sender_business_bot_user_id"}
NoteNames == {"author_signature", "restriction_reason"}
NoContext == [k \in ContextIds |-> 0]
NoNotes == [k \in NoteNames |-> ""]

ValidateDiscriminator(s) == s # "" /\ s \notin OutOfBounds
ValidateBoundedString(s) == s # "" /\ s \notin OutOfBounds

(***************************************************************************)
(* Projection                                                              *)
(***************************************************************************)
\* mutant: the string goes out as it came.
AsItCame(s) == s

\* An optional string that is out of bounds is left out.
OrEmpty(s) == IF ValidateBoundedString(s) THEN s ELSE ""

unixToTime(secs) == IF secs = 0 THEN Absent ELSE secs

v2SenderFor(sender) ==
    IF sender.type \in {"messageSenderUser", "messageSenderChat"} THEN sender ELSE Absent

\* An entity of a kind out of bounds is left out.  Their order says nothing.
v2FormattedTextFor(ft) ==
    IF ft = Absent THEN Absent
    ELSE [text |-> ft.text,
          entities |-> {e \in Range(ft.entities) : ValidateDiscriminator(e.type.kind)}]

HasFlags(type) == type \in {"messagePhoto", "messageVideo", "messageAnimation"}

v2ContentFor(c) ==
    IF c = NoContent
    THEN [type |-> UnknownContentType, sourceType |-> "", text |-> Absent, flags |-> FALSE]
    ELSE LET pinned == c.type \in pinnedContentTypes
         IN  [type       |-> IF pinned THEN c.type ELSE UnknownContentType,
              sourceType |-> IF pinned THEN "" ELSE OrEmpty(c.type),
              text       |-> IF c.type \in TextTypes THEN v2FormattedTextFor(c.text) ELSE Absent,
              flags      |-> HasFlags(c.type)]

\* Only the reply to a message carries ids.
v2ReplyFor(r) ==
    IF r = Absent \/ ~ValidateDiscriminator(r.type) THEN Absent
    ELSE IF r.type = "messageReplyToMessage" THEN r
    ELSE [r EXCEPT !.chat = 0, !.message = 0]

\* The origins differ in the ids and names they have.
v2OriginFor(o) ==
    IF o = Absent \/ ~ValidateDiscriminator(o.type) THEN Absent
    ELSE [o EXCEPT !.senderName = IF o.type = "messageOriginHiddenUser" THEN OrEmpty(@) ELSE ""]

v2SourceFor(s) ==
    IF s = Absent THEN Absent
    ELSE [chat |-> s.chat, message |-> s.message, sender |-> v2SenderFor(s.sender),
          senderName |-> OrEmpty(s.senderName), sentAt |-> unixToTime(s.date)]

v2ForwardFor(f) ==
    IF f = Absent THEN Absent
    ELSE [origin |-> v2OriginFor(f.origin), sentAt |-> unixToTime(f.date),
          source |-> v2SourceFor(f.source), announcement |-> OrEmpty(f.announcement)]

v2SnapshotFor(m, ev) ==
    IF m.chat = 0 \/ m.id = 0 THEN Absent
    ELSE [event |-> ev, chat |-> m.chat, message |-> m.id, sender |-> v2SenderFor(m.sender),
          sentAt |-> unixToTime(m.date), editedAt |-> unixToTime(m.editDate),
          content |-> v2ContentFor(m.content), replyTo |-> v2ReplyFor(m.replyTo),
          context |-> m.context, notes |-> m.notes, sensitive |-> m.sensitive,
          forward |-> v2ForwardFor(m.forward), delete |-> Absent]

v2DeleteFor(chat, id, isPermanent, fromCache) ==
    IF chat = 0 \/ id = 0 THEN Absent
    ELSE [event |-> "deleted", chat |-> chat, message |-> id, sender |-> Absent,
          sentAt |-> Absent, editedAt |-> Absent, content |-> Absent, replyTo |-> Absent,
          context |-> NoContext, notes |-> NoNotes, sensitive |-> FALSE, forward |-> Absent,
          delete |-> [isPermanent |-> isPermanent, fromCache |-> fromCache]]

(***************************************************************************)
(* Validation                                                              *)
(***************************************************************************)
validateSender(s) ==
    \/ s = Absent
    \/ s.type = "messageSenderUser" /\ s.id > 0
    \/ s.type = "messageSenderChat" /\ s.id # 0

validateText(ft) ==
    \/ ft = Absent
    \/ \A e \in ft.entities :
           e.offset >= 0 /\ e.length >= 0 /\ ValidateDiscriminator(e.type.kind)

validateContent(c) ==
    /\ ValidateDiscriminator(c.type)
    /\ \/ c.sourceType = ""
       \/ c.type = UnknownContentType /\ ValidateDiscriminator(c.sourceType)
    /\ validateText(c.text)

\* The source of a forward needs its ids, and a name although the projection leaves out
\* the one it has not got.
validateSource(s) ==
    \/ s = Absent
    \/ /\ s.chat # 0 /\ s.message # 0
       /\ validateSender(s.sender)
       /\ ValidateBoundedString(s.senderName)

validateForward(f) ==
    /\ f.origin = Absent \/ ValidateDiscriminator(f.origin.type)
    /\ validateSource(f.source)
    /\ f.announcement = "" \/ ValidateDiscriminator(f.announcement)

validateContext(n) ==
    /\ \A k \in ContextIds \ {"message_thread_id"} : n.context[k] >= 0
    /\ n.replyTo = Absent \/ (ValidateDiscriminator(n.replyTo.type) /\ n.replyTo.message >= 0)
    /\ n.forward = Absent \/ validateForward(n.forward)
    /\ n.content = Absent \/ validateContent(n.content)

CarriesNoSnapshot(n) ==
    /\ Absent = n.sender /\ Absent = n.sentAt /\ Absent = n.editedAt /\ Absent = n.content
    /\ Absent = n.replyTo /\ Absent = n.forward
    /\ ~n.sensitive /\ n.context = NoContext /\ n.notes = NoNotes

validateNotification(n) ==
    /\ n.event \in {"new", "edited", "deleted"}
    /\ n.chat # 0 /\ n.message # 0
    /\ validateSender(n.sender)
    /\ IF n.event = "deleted" THEN n.delete # Absent /\ CarriesNoSnapshot(n)
       ELSE n.sentAt # Absent /\ n.content # Absent /\ n.delete = Absent
    /\ validateContext(n)

(***************************************************************************)
(* Rendering: the keys of the JSON object and of the objects in it         *)
(***************************************************************************)
KeysIf(condition, keys) == IF condition THEN keys ELSE {}

ContentKeys(c) ==
    {"content.type"}
        \cup KeysIf(c.type = UnknownContentType /\ c.sourceType # "", {"content.source_type"})
        \cup KeysIf(c.text # Absent, {"content.formatted_text"})
        \cup KeysIf(c.flags, {"content.show_caption_above_media", "content.has_spoiler"})

ReplyKeys(r) ==
    {"reply_to.type"} \cup KeysIf(r.chat # 0, {"reply_to.chat_id"})
                      \cup KeysIf(r.message # 0, {"reply_to.message_id"})

ForwardKeys(f) ==
    {"forward"}
        \cup KeysIf(f.origin # Absent, {"forward.origin"})
        \cup KeysIf(f.sentAt # Absent, {"forward.sent_at"})
        \cup KeysIf(f.source # Absent, {"forward.source"})
        \cup KeysIf(f.announcement # "", {"forward.public_service_announcement_type"})

marshal(n) ==
    {"chat_id", "message_id"}
        \cup KeysIf(n.sender # Absent, {"sender"})
        \cup KeysIf(n.sentAt # Absent, {"sent_at"})
        \cup KeysIf(n.editedAt # Absent, {"edited_at"})
        \cup (IF n.content = Absent THEN {} ELSE ContentKeys(n.content))
        \cup (IF n.replyTo = Absent THEN {} ELSE ReplyKeys(n.replyTo))
        \cup {k \in ContextIds : n.context[k] # 0}
        \cup {k \in NoteNames : n.notes[k] # ""}
        \cup KeysIf(n.delete = Absent, {"has_sensitive_content"})
        \cup (IF n.forward = Absent THEN {} ELSE ForwardKeys(n.forward))
        \cup KeysIf(n.delete # Absent, {"delete"})

\* The payload, or none for what does not validate.
NoPayload == [version |-> 0, event |-> "none", keys |-> {}]

MarshalNotification(n) ==
    IF validateNotification(n)
    THEN [version |-> 2, event |-> n.event, keys |-> marshal(n)] ELSE NoPayload
================================================================================
