----------------------------- MODULE TextTransform -----------------------------
(***************************************************************************)
(* internal/service/transform: the text of a copy.  A string is a sequence *)
(* of code points; an entity marks a span of it, counted in UTF-16 code    *)
(* units.  What Telegram and the state store answer to the calls of one    *)
(* transformation is its parameter "answers":                              *)
(*   fails       the calls that fail                                       *)
(*   translated  the answer of TranslateText                               *)
(*   answer      the answer of GetCallbackQueryAnswer                      *)
(*   basicGroup  whether the source chat is a basic group                  *)
(*   copied      for a source message its copies, [rule, dst, tmp] each    *)
(*   newId       for a temporary id the confirmed one, or 0                *)
(***************************************************************************)
EXTENDS Integers, Sequences, SequencesExt

CONSTANTS
    Links,          \* the link of each message that has one, by <<chat, id>>
    Titles,         \* the title a source gives to each of its options
    DeletedLink     \* domain.DeletedLink

\* The surrogates of a code point c outside the basic plane are c and -c; no step cuts
\* between them (entities of Telegram's do not).
encodeUTF16(s) ==
    FlattenSeq([i \in DOMAIN s |-> IF s[i] >= 65536 THEN <<s[i], -s[i]>> ELSE <<s[i]>>])

decodeUTF16(units) == SelectSeq(units, LAMBDA u : u > 0)

lenUTF16(s) == Len(encodeUTF16(s))

(***************************************************************************)
(* Entities                                                                *)
(***************************************************************************)
Plain(kind) == [kind |-> kind, url |-> <<>>]
TextUrl(url) == [kind |-> "textUrl", url |-> url]
Entity(offset, length, type) == [offset |-> offset, length |-> length, type |-> type]
FormattedText(text, entities) == [text |-> text, entities |-> entities]

isURLEntity(ent) == ent.type.kind \in {"url", "textUrl"}

extractSubstring(text, offset, length) ==
    IF offset + length > lenUTF16(text) THEN <<>>
    ELSE decodeUTF16(SubSeq(encodeUTF16(text), offset + 1, offset + length))

entityURL(text, ent) ==
    IF ent.type.kind = "url" THEN extractSubstring(text, ent.offset, ent.length)
    ELSE ent.type.url

Spliced(text, offset, length, newText) ==
    LET units == encodeUTF16(text)
    IN  decodeUTF16(SubSeq(units, 1, offset) \o encodeUTF16(newText)
                        \o SubSeq(units, offset + length + 1, Len(units)))

\* mutant: the replaced link keeps its length.
LengthKept(ent, offset, length, newLength) ==
    IF ent.offset > offset THEN [ent EXCEPT !.offset = @ + newLength - length] ELSE ent

\* Entities behind the replaced span move, those that begin with it get its new length;
\* one that begins before it is left as it is.
Moved(ent, offset, length, newLength) ==
    IF ent.offset > offset THEN [ent EXCEPT !.offset = @ + newLength - length]
    ELSE IF ent.offset = offset THEN [ent EXCEPT !.length = newLength] ELSE ent

applyReplacement(ft, offset, length, newText) ==
    FormattedText(Spliced(ft.text, offset, length, newText),
                  [i \in DOMAIN ft.entities |->
                      Moved(ft.entities[i], offset, length, lenUTF16(newText))])

\* strings.ReplaceAll, from the left.
ReplaceEach(s, from, to) ==
    LET rest[i \in 1..Len(s) + 1] ==
            IF i > Len(s) THEN <<>>
            ELSE IF from # <<>> /\ IsPrefix(from, SubSeq(s, i, Len(s)))
            THEN to \o rest[i + Len(from)]
            ELSE <<s[i]>> \o rest[i + 1]
    IN  rest[1]

\* The entities stay: the rule set is refused unless both sides have one UTF-16 length.
replaceFragment(ft, fragment) == [ft EXCEPT !.text = ReplaceEach(@, fragment[1], fragment[2])]

\* A piece of Markdown: as it is written, and as ParseTextEntities reads it.
Bold(title) == [raw |-> <<42>> \o title \o <<42>>,
                parsed |-> FormattedText(title, <<Entity(0, lenUTF16(title), Plain("bold"))>>)]
Anchor(title, link) ==
    [raw |-> <<91>> \o title \o <<93, 40>> \o link \o <<41>>,
     parsed |-> FormattedText(title, <<Entity(0, lenUTF16(title), TextUrl(link))>>)]
Words(text) == [raw |-> text, parsed |-> FormattedText(text, <<>>)]

Gap == <<10, 10>>

addText(ft, markdown, answers) ==
    IF "ParseTextEntities" \in answers.fails
    THEN [ft EXCEPT !.text = @ \o Gap \o markdown.raw]
    ELSE LET offset == lenUTF16(ft.text \o Gap)
             added  == markdown.parsed.entities
         IN  FormattedText(ft.text \o Gap \o markdown.parsed.text,
                 ft.entities \o [i \in DOMAIN added |-> [added[i] EXCEPT !.offset = @ + offset]])

(***************************************************************************)
(* The calls                                                               *)
(***************************************************************************)
\* TDLib answers an error for a message that has no link.
GetMessageLink(chat, id, answers) ==
    IF "GetMessageLink" \in answers.fails \/ <<chat, id>> \notin DOMAIN Links THEN <<>>
    ELSE Links[<<chat, id>>]

GetMessageLinkInfo(url, answers) ==
    IF "GetMessageLinkInfo" \in answers.fails THEN {}
    ELSE {key \in DOMAIN Links : Links[key] = url}

GetCopiedMessageIDs(id, answers) ==
    IF id \in DOMAIN answers.copied THEN answers.copied[id] ELSE <<>>

\* The first copy in the destination that is confirmed and has a link.
findCopyLink(id, dst, answers) ==
    LET copies == GetCopiedMessageIDs(id, answers)
        link(c) == GetMessageLink(dst, answers.newId[c.tmp], answers)
        good   == SelectSeq(copies, LAMBDA c : /\ c.dst = dst /\ answers.newId[c.tmp] # 0
                                               /\ link(c) # <<>>)
    IN  IF good = <<>> THEN <<>> ELSE link(Head(good))

(***************************************************************************)
(* replaceMyselfLinks                                                      *)
(***************************************************************************)
\* Where an entity leads: nowhere known, to a message of the source chat or elsewhere.
LeadsTo(p, ft, ent) ==
    IF isURLEntity(ent) /\ entityURL(ft.text, ent) # <<>>
    THEN GetMessageLinkInfo(entityURL(ft.text, ent), p.answers) ELSE {}

CopyLink(p, ft, ent) ==
    LET own == {key \in LeadsTo(p, ft, ent) : key[1] = p.src}
    IN  IF own = {} THEN <<>>
        ELSE findCopyLink((CHOOSE key \in own : TRUE)[2], p.dst, p.answers)

IsStruck(p, ft, ent) ==
    /\ p.destination.replaceMyselfLinks.deleteExternal
    /\ \E key \in LeadsTo(p, ft, ent) : key[1] # p.src

\* Links behind words get their new address, links spelled out are replaced, from the
\* last to the first so that the offsets before them stay true.
replaceMyselfLinks(ft, p) ==
    LET ent(i)    == ft.entities[i]
        struck    == {i \in DOMAIN ft.entities : IsStruck(p, ft, ent(i))}
        redirected == {i \in DOMAIN ft.entities : CopyLink(p, ft, ent(i)) # <<>>}
        retyped   == [ft EXCEPT !.entities = [i \in DOMAIN @ |->
                         IF i \in redirected /\ ent(i).type.kind = "textUrl"
                         THEN [@[i] EXCEPT !.type = TextUrl(CopyLink(p, ft, ent(i)))] ELSE @[i]]]
        step(i, t) ==
            IF i \in struck
            THEN [applyReplacement(t, ent(i).offset, ent(i).length, DeletedLink)
                      EXCEPT !.entities[i].type = Plain("strikethrough")]
            ELSE IF i \in redirected /\ ent(i).type.kind = "url"
            THEN applyReplacement(t, ent(i).offset, ent(i).length, CopyLink(p, ft, ent(i)))
            ELSE t
    IN  IF ft.entities = <<>> \/ "GetChat" \in p.answers.fails \/ p.answers.basicGroup THEN ft
        ELSE FoldRight(step, [i \in DOMAIN ft.entities |-> i], retyped)

(***************************************************************************)
(* Transform and AddNextLink                                               *)
(***************************************************************************)
Wants(source, option, dst) == dst \in source.for[option]

Translated(ft, p) ==
    IF Wants(p.source, "translate", p.dst) /\ "TranslateText" \notin p.answers.fails
    THEN p.answers.translated ELSE ft

AutoAnswered(ft, p) ==
    IF /\ p.source.autoAnswer /\ p.replyMarkup
       /\ "GetCallbackQueryAnswer" \notin p.answers.fails /\ p.answers.answer # <<>>
    THEN addText(ft, Words(p.answers.answer), p.answers) ELSE ft

Relinked(ft, p) ==
    IF p.destination.replaceMyselfLinks.run THEN replaceMyselfLinks(ft, p) ELSE ft

Defragmented(ft, p) == FoldLeft(replaceFragment, ft, p.destination.replaceFragments)

Signed(ft, p) ==
    IF p.withSources /\ Wants(p.source, "sign", p.dst)
    THEN addText(ft, Bold(Titles["sign"]), p.answers) ELSE ft

Linked(ft, option, chat, id, p) ==
    LET link == GetMessageLink(chat, id, p.answers)
    IN  IF Wants(p.source, option, p.dst) /\ link # <<>>
        THEN addText(ft, Anchor(Titles[option], link), p.answers) ELSE ft

TransformText(p) ==
    LET body   == Defragmented(Relinked(AutoAnswered(Translated(p.text, p), p), p), p)
        signed == Signed(body, p)
        source == IF p.withSources THEN Linked(signed, "link", p.src, p.srcMessage, p) ELSE signed
    IN  IF p.prev # 0 THEN Linked(source, "prev", p.dst, p.prev, p) ELSE source

AddNextLink(ft, next, p) == Linked(ft, "next", p.dst, next, p)
================================================================================
