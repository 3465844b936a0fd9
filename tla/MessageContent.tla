----------------------------- MODULE MessageContent -----------------------------
(***************************************************************************)
(* internal/service/message/service.go: what a message says and what a     *)
(* copy of it is built from.  A content is                                 *)
(*   [type, text, files, thumbnail, flag]                                  *)
(* with the text or caption (Absent if absent), the media files (the sizes   *)
(* of a photo from small to large, one file of the others, none if TDLib   *)
(* gave none), the thumbnail or cover, and one bit: whether the preview of *)
(* links is disabled.  Sizes, durations and titles go with their file.     *)
(***************************************************************************)
EXTENDS Integers, Sequences, SequencesExt

CONSTANTS
    Absent,     \* an absent pointer
    NoContent   \* the content of a message without one

MediaTypes == {"messagePhoto", "messageVideo", "messageDocument", "messageAudio",
               "messageAnimation", "messageVoiceNote"}
TextTypes == MediaTypes \cup {"messageText"}

\* Nil for a caption that is absent and for no content at all.
GetFormattedText(m) ==
    IF m.content # NoContent /\ m.content.type \in TextTypes THEN m.content.text ELSE Absent

\* Everything but texts and the captioned media counts as a system message.
IsSystemMessage(m) == m.content # NoContent /\ m.content.type \notin TextTypes

\* The data of the first callback button among the rows of an inline keyboard.
GetReplyMarkupData(m) ==
    LET data == SelectSeq(FlattenSeq(m.keyboard), LAMBDA button : button.callback)
    IN  IF data = <<>> THEN <<>> ELSE Head(data).data

Input(type, file, thumbnail, disabled, text) ==
    [type |-> type, file |-> file, thumbnail |-> thumbnail, disabled |-> disabled, text |-> text]

LastFile(c) == IF c.files = <<>> THEN Absent ELSE Last(c.files)
FirstFile(c) == IF c.files = <<>> THEN Absent ELSE Head(c.files)

\* A photo is sent in its largest size under its smallest; a text with the preview of
\* links turned over.
BuildInputContent(c, text) ==
    IF c = NoContent THEN Input("messageText", Absent, Absent, FALSE, text)
    ELSE CASE c.type = "messageText"      -> Input(c.type, Absent, Absent, ~c.flag, text)
           [] c.type = "messagePhoto"     -> Input(c.type, LastFile(c), FirstFile(c), FALSE, text)
           [] c.type = "messageVoiceNote" -> Input(c.type, LastFile(c), Absent, FALSE, text)
           [] c.type \in MediaTypes       -> Input(c.type, LastFile(c), c.thumbnail, FALSE, text)
           [] OTHER                       -> Input("messageText", Absent, Absent, FALSE, text)
================================================================================
