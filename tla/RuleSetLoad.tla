------------------------------ MODULE RuleSetLoad ------------------------------
(***************************************************************************)
(* Load of internal/infra/ruleset/repo.go: a decoded file becomes a rule   *)
(* set through initialize, validate, transform, enrich and check.  The     *)
(* file names chats by positive numbers; the rule set by Telegram's        *)
(* negative ones.  Go's maps are walked in any order, so which of several  *)
(* errors or panics a bad file meets first is a choice.                    *)
(***************************************************************************)
EXTENDS Integers, Sequences, FiniteSets, SequencesExt, Functions

CONSTANTS
    Null,          \* a map entry without a body
    InvalidIds,    \* rule ids with a comma or a colon
    MaxSeconds     \* the longest timeout that fits time.Duration

Options == {"translate", "sign", "link", "prev", "next"}

\* The length of a string, a sequence of code points, in UTF-16 code units.
Utf16Len(s) == Len(s) + Cardinality({i \in DOMAIN s : s[i] >= 65536})

(***************************************************************************)
(* validate: its loops, one after the other                                *)
(***************************************************************************)
\* EffectiveSchemaVersion, and 0 for a version it refuses.
EffectiveSchemaVersion(target) ==
    CASE target.schemaVersion = 0 -> 1
      [] target.schemaVersion \in {1, 2} -> target.schemaVersion
      [] OTHER -> 0

TargetRefused(target) ==
    \/ target = Null
    \/ target.url # "https"
    \/ EffectiveSchemaVersion(target) = 0
    \/ target.timeoutSeconds < 0 \/ target.timeoutSeconds > MaxSeconds
    \/ ~target.headersValid

DestinationRefused(rule, chat) == chat < 0 \/ chat = rule.from

RuleRefused(file, id) ==
    \/ id \in InvalidIds
    \/ LET rule == file.forwardRules[id] IN
       /\ rule # Null
       /\ \/ rule.from < 0
          \/ \E chat \in Range(rule.to) : DestinationRefused(rule, chat)
          \/ ~(Range(rule.pushTo) \subseteq DOMAIN file.pushTargets)

RulePanics(file, id) == id \notin InvalidIds /\ file.forwardRules[id] = Null

FragmentsRefused(dst) ==
    dst # Null /\ \E fragment \in Range(dst.replaceFragments) :
                      Utf16Len(fragment[1]) # Utf16Len(fragment[2])

\* A loop goes on if it meets neither an error nor a nil body.
Loop(errors, panics) ==
    IF errors \cup panics = {} THEN {"goes on"}
    ELSE {x \in {"error"} : errors # {}} \cup {x \in {"panic"} : panics # {}}

\* mutant: the loop reads the URL of a target without a body.
NilTargetRead(file) ==
    LET nil == {t \in DOMAIN file.pushTargets : file.pushTargets[t] = Null}
    IN  Loop({t \in DOMAIN file.pushTargets \ nil : TargetRefused(file.pushTargets[t])}, nil)

TargetsLoop(file) == Loop({t \in DOMAIN file.pushTargets : TargetRefused(file.pushTargets[t])}, {})

RulesLoop(file) ==
    Loop({id \in DOMAIN file.forwardRules : RuleRefused(file, id)},
         {id \in DOMAIN file.forwardRules : RulePanics(file, id)})

DestinationsLoop(file) ==
    Loop({d \in DOMAIN file.destinations : FragmentsRefused(file.destinations[d])},
         {d \in DOMAIN file.destinations : file.destinations[d] = Null})

Then(outcomes, next) ==
    (outcomes \ {"goes on"}) \cup (IF "goes on" \in outcomes THEN next ELSE {})

Validate(file) == Then(TargetsLoop(file), Then(RulesLoop(file), DestinationsLoop(file)))

(***************************************************************************)
(* transform and enrich                                                    *)
(***************************************************************************)
Negated(chats) == {-c : c \in chats}
NegatedKeys(f) == [c \in Negated(DOMAIN f) |-> f[-c]]
NegatedSeq(s) == [i \in DOMAIN s |-> -s[i]]

TransformSource(src) == [src EXCEPT !.for = [o \in Options |-> Negated(src.for[o])]]

\* mutant: the chat for the others keeps its sign.
OtherKept(rule) ==
    [rule EXCEPT !.from = -rule.from, !.to = NegatedSeq(rule.to), !.check = -rule.check]

TransformRule(rule) ==
    [rule EXCEPT !.from = -rule.from, !.to = NegatedSeq(rule.to),
                 !.check = -rule.check, !.other = -rule.other]

TransformPanics(file) == \E c \in DOMAIN file.sources : file.sources[c] = Null

Transform(file) ==
    [sources      |-> [c \in Negated(DOMAIN file.sources) |-> TransformSource(file.sources[-c])],
     destinations |-> NegatedKeys(file.destinations),
     pushTargets  |-> file.pushTargets,
     forwardRules |-> [id \in DOMAIN file.forwardRules |-> TransformRule(file.forwardRules[id])]]

PlainSource == [for |-> [o \in Options |-> {}], autoAnswer |-> FALSE,
                deleteSystemMessages |-> FALSE]

\* A source without settings gets an empty entry of its own.
Enrich(rs) ==
    LET rules == Range(rs.forwardRules)
        froms == {rule.from : rule \in rules}
    IN  [sources            |-> [c \in DOMAIN rs.sources \cup froms |->
                                    IF c \in DOMAIN rs.sources THEN rs.sources[c]
                                    ELSE PlainSource],
         destinations       |-> rs.destinations,
         pushTargets        |-> rs.pushTargets,
         forwardRules       |-> rs.forwardRules,
         uniqueSources      |-> froms,
         uniqueDestinations |-> UNION {Range(rule.to) : rule \in rules}]

\* No rules at all, or a rule that leads nowhere.
CheckFails(rs) ==
    \/ DOMAIN rs.forwardRules = {}
    \/ \E rule \in Range(rs.forwardRules) : rule.to = <<>> /\ rule.pushTo = <<>>

\* What Load may come to: "ok", "error" or "panic".
Outcomes(file) ==
    IF ~file.readable THEN {"error"}
    ELSE Then(Validate(file),
              IF TransformPanics(file) THEN {"panic"}
              ELSE IF CheckFails(Transform(file)) THEN {"error"} ELSE {"ok"})

Loaded(file) == Enrich(Transform(file))
================================================================================
