-------------------------------- MODULE Filters --------------------------------
(***************************************************************************)
(* internal/service/filters/service.go.  A text is a sequence of code      *)
(* points, and a compiled expression is what the service asks of it: for   *)
(* each text the sequence of its matches, a match being the sequence of    *)
(* its groups.                                                             *)
(***************************************************************************)
EXTENDS Integers, Sequences, SequencesExt

CONSTANTS
    NoRegexp,    \* a field left empty
    BadRegexp    \* an expression that does not compile

NoText == <<>>

Matches(re, text) == re[text] # <<>>

\* A test of one filter field decides the mode, passes, or panics: MustCompile does, on
\* an expression the file was accepted with, and so does a negative group on a match.
ExcludeTest(re, text) ==
    IF re = NoRegexp THEN "pass"
    ELSE IF re = BadRegexp THEN "panic"
    ELSE IF Matches(re, text) THEN "check" ELSE "pass"

IncludeTest(re, text) ==
    IF re = NoRegexp THEN "pass"
    ELSE IF re = BadRegexp THEN "panic"
    ELSE IF Matches(re, text) THEN "ok" ELSE "pass"

\* The group of a submatch counts from 0, the whole match.
GroupIs(sub, match) ==
    sub.group < Len(match) /\ match[sub.group + 1] \in sub.match

SubmatchTest(sub, text) ==
    IF sub.regexp = NoRegexp THEN "pass"
    ELSE IF sub.regexp = BadRegexp \/ (Matches(sub.regexp, text) /\ sub.group < 0) THEN "panic"
    ELSE IF \E i \in DOMAIN sub.regexp[text] : GroupIs(sub, sub.regexp[text][i])
         THEN "ok" ELSE "pass"

HasIncludeRules(rule) ==
    rule.include # NoRegexp \/ \E i \in DOMAIN rule.includeSubmatch :
                                   rule.includeSubmatch[i].regexp # NoRegexp

Tests(text, rule) ==
    <<ExcludeTest(rule.exclude, text), IncludeTest(rule.include, text)>>
        \o [i \in DOMAIN rule.includeSubmatch |-> SubmatchTest(rule.includeSubmatch[i], text)]

Decides(outcome) == outcome # "pass"

\* The first test that does not pass decides; an empty text is put to no test.
Evaluate(text, rule) ==
    LET tests    == IF text = NoText THEN <<>> ELSE Tests(text, rule)
        deciding == {i \in DOMAIN tests : Decides(tests[i])}
    IN  IF deciding # {} THEN tests[Min(deciding)]
        ELSE IF HasIncludeRules(rule) THEN "other" ELSE "ok"
================================================================================
