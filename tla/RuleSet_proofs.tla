----------------------------- MODULE RuleSet_proofs -----------------------------
(***************************************************************************)
(* Proofs about the two readers of the published rule set: the source      *)
(* opener, for any chats, bounds and faults, and the routing of messages   *)
(* with its webhook sinks, for any files and messages.                     *)
(***************************************************************************)
EXTENDS RuleRouting, SourceOpener, FiniteSetTheorems, SequenceTheorems, WellFoundedInduction, TLAPS

(***************************************************************************)
(* The source opener                                                       *)
(***************************************************************************)

Opening == {"open", "openChat", "record"}

\* What the worker's lists mean at each of its positions.  Before the session nothing is
\* open, so the swap, which empties opened, never finds the worker between a call and its
\* record; and what is left to close is open, what is left to open is not.
WorkerInv ==
    /\ ~sessionReady => opened = {} /\ pc \notin Opening \cup {"closed"}
    /\ pc \in {"close", "closed"} => todo \subseteq opened
    /\ pc = "closed" => current \in opened /\ current \notin todo
    /\ pc \in Opening => todo \cap opened = {}
    /\ pc \in {"openChat", "record"} => current \in Channels \ (opened \cup todo)

OpenInv == OpenOnceKeep /\ WorkerInv

\* The counts of TDLib alone.
Count(c) ==
    LET busy(state) == pc = state /\ current = c
        believed == (c \in opened /\ ~busy("closed")) \/ busy("record")
    IN  lingering[c] + (IF believed THEN 1 ELSE 0)

LEMMA OpenOnceKeepIs == OpenOnceKeep <=> OpenerTypeOK /\ \A c \in Channels : opens[c] = Count(c)
  BY DEF OpenOnceKeep, Count

LEMMA OpenInit == OpenerInit => OpenInv
  <1> SUFFICES ASSUME OpenerInit PROVE OpenInv
    OBVIOUS
  <1>1. OpenerTypeOK
    <2>1. {sessionReady, request, missed, cancelled} \subseteq BOOLEAN
      BY DEF OpenerInit
    <2>2. opens \in [Channels -> Nat] /\ lingering \in [Channels -> Nat]
      BY DEF OpenerInit
    <2>3. pass \in 1..Passes /\ edges \in 0..MaxEdges /\ faults \in 0..MaxFaults
      BY OpenerAssumption DEF OpenerInit
    <2> QED BY <2>1, <2>2, <2>3 DEF OpenerInit, OpenerTypeOK
  <1>2. \A c \in Channels : opens[c] = Count(c)
    BY DEF OpenerInit, Count
  <1>3. WorkerInv
    BY DEF OpenerInit, WorkerInv, Opening
  <1> QED
    BY <1>1, <1>2, <1>3, OpenOnceKeepIs DEF OpenInv

\* The edges and their signals: only the swap touches opened, and it comes when opened is
\* empty.
LEMMA EdgeStep ==
    ASSUME OpenInv, (\E ids \in SUBSET Chats : ApplySet(ids)) \/ OnSessionSwap \/ Cancel
                      \/ (\E who \in {"apply", "swap"} : Signal(who))
    PROVE  OpenInv'
  <1> USE OpenerAssumption DEF OpenerTypeOK, stateVars, workerVars, tdlibVars
  <1>0. OpenerTypeOK /\ (\A c \in Channels : opens[c] = Count(c)) /\ WorkerInv
    BY OpenOnceKeepIs DEF OpenInv
  <1>1. OpenerTypeOK'
    <2>1. ASSUME NEW ids \in SUBSET Chats, ApplySet(ids) PROVE OpenerTypeOK'
      BY <1>0, <2>1 DEF ApplySet
    <2>2. CASE OnSessionSwap
      BY <1>0, <2>2 DEF OnSessionSwap
    <2>3. CASE Cancel
      BY <1>0, <2>3 DEF Cancel
    <2>4. ASSUME NEW who \in {"apply", "swap"}, Signal(who) PROVE OpenerTypeOK'
      BY <1>0, <2>4 DEF Signal, Wakes
    <2> QED BY <2>1, <2>2, <2>3, <2>4
  <1>2. UNCHANGED <<workerVars, tdlibVars, opened>>
    <2>1. CASE OnSessionSwap
      BY <1>0, <2>1 DEF OnSessionSwap, WorkerInv
    <2> QED BY <2>1 DEF ApplySet, Cancel, Signal
  <1>3. sessionReady => sessionReady'
    BY <1>0 DEF ApplySet, OnSessionSwap, Cancel, Signal
  <1>4. (\A c \in Channels : opens[c] = Count(c))' /\ WorkerInv'
    BY <1>0, <1>2, <1>3 DEF Count, WorkerInv, Opening
  <1> QED
    BY <1>1, <1>4, OpenOnceKeepIs DEF OpenInv, OpenOnceKeep, Count

\* The worker, action by action.
LEMMA WorkerStep ==
    ASSUME OpenInv, Worker
    PROVE  OpenInv'
  <1> USE OpenerAssumption DEF OpenerTypeOK, stateVars, workerVars, tdlibVars, Count, WorkerInv, Opening
  <1>0. OpenerTypeOK /\ (\A c \in Channels : opens[c] = Count(c)) /\ WorkerInv
    BY OpenOnceKeepIs DEF OpenInv
  <1> SUFFICES OpenerTypeOK' /\ (\A c \in Channels : opens[c] = Count(c))' /\ WorkerInv'
    BY OpenOnceKeepIs DEF OpenInv, OpenOnceKeep
  <1>1. CASE Wake
    BY <1>0, <1>1 DEF Wake
  <1>2. CASE Stop
    BY <1>0, <1>2 DEF Stop
  <1>3. ASSUME NEW c \in Channels, CloseChat(c)
        PROVE  OpenerTypeOK' /\ (\A d \in Channels : opens[d] = Count(d))' /\ WorkerInv'
    BY <1>0, <1>3 DEF CloseChat, Fails
  <1>4. CASE ForgetClosed
    BY <1>0, <1>4 DEF ForgetClosed, NotOpened
  <1>5. CASE CloseDone
    BY <1>0, <1>5 DEF CloseDone
  <1>6. CASE StartPass
    BY <1>0, <1>6 DEF StartPass, Unopened
  <1>7. CASE Interrupt
    BY <1>0, <1>7 DEF Interrupt
  <1>8. ASSUME NEW c \in Channels, GetChat(c)
        PROVE  OpenerTypeOK' /\ (\A d \in Channels : opens[d] = Count(d))' /\ WorkerInv'
    <2>1. OpenerTypeOK'
      <3>1. {sessionReady', request', missed', cancelled'} \subseteq BOOLEAN
        BY <1>0, <1>8 DEF GetChat
      <3> QED BY <1>0, <1>8, <3>1 DEF GetChat, Fails
    <2>2. (\A d \in Channels : opens[d] = Count(d))'
      BY <1>0, <1>8 DEF GetChat
    <2>3. WorkerInv'
      BY <1>0, <1>8 DEF GetChat
    <2> QED BY <2>1, <2>2, <2>3
  <1>9. CASE OpenChat
    <2>1. OpenerTypeOK'
      <3>1. {sessionReady', request', missed', cancelled'} \subseteq BOOLEAN
        BY <1>0, <1>9 DEF OpenChat
      <3> QED BY <1>0, <1>9, <3>1 DEF OpenChat, Fails
    <2>2. (\A d \in Channels : opens[d] = Count(d))'
      BY <1>0, <1>9 DEF OpenChat
    <2>3. WorkerInv'
      BY <1>0, <1>9 DEF OpenChat
    <2> QED BY <2>1, <2>2, <2>3
  <1>10. CASE RecordOpen
    BY <1>0, <1>10 DEF RecordOpen
  <1>11. CASE EndPass
    BY <1>0, <1>11 DEF EndPass, PassesLeft
  <1> QED
    BY <1>1, <1>2, <1>3, <1>4, <1>5, <1>6, <1>7, <1>8, <1>9, <1>10, <1>11 DEF Worker

LEMMA OpenStep == OpenInv /\ [OpenerNext]_openerVars => OpenInv'
  <1> SUFFICES ASSUME OpenInv, [OpenerNext]_openerVars PROVE OpenInv'
    OBVIOUS
  <1>1. CASE UNCHANGED openerVars
    BY <1>1 DEF OpenInv, OpenOnceKeep, WorkerInv, Opening, OpenerTypeOK, openerVars, stateVars, workerVars,
                tdlibVars
  <1>2. CASE Worker
    BY <1>2, WorkerStep
  <1> QED
    BY <1>1, <1>2, EdgeStep DEF OpenerNext

\* The invariant of the opener: TDLib's open counts are what the opener believes, and the
\* worker's lists what they say.
THEOREM OpenerInv == OpenerSpec => []OpenInv
  BY OpenInit, OpenStep, PTL DEF OpenerSpec

\* No source is ever opened twice, whatever loads, swaps, failures and retries do.
THEOREM OpensOnce == OpenerSpec => []OpenOnceKeep
  <1>1. OpenInv => OpenOnceKeep
    BY DEF OpenInv
  <1> QED
    BY <1>1, OpenerInv, PTL

(***************************************************************************)
(* No edge is lost                                                         *)
(***************************************************************************)

\* No token and no caller that has yet to signal: nothing changed since the last Wake.
NoEdge == ~request /\ unsignalled = {}

InCall == IF pc \in {"openChat", "record"} THEN {current} ELSE {}

\* How far a reconciliation that no edge has overtaken is from the settled set.
Progress ==
    /\ pc = "close" => opened \ desired = todo
    /\ pc = "closed" => opened \ desired = todo \cup {current}
    /\ pc \in Opening \cup {"pass"} => opened \subseteq desired
    /\ pc \in Opening => /\ todo \cup InCall \subseteq desired
                         /\ ~missed => desired \subseteq opened \cup todo \cup InCall
    /\ pc = "asleep" /\ ~cancelled => Settled

RestInv == OpenInv /\ (NoEdge => Progress)

LEMMA RestInit == OpenerInit => RestInv
  BY OpenInit DEF OpenerInit, RestInv, Progress, Opening, NoEdge

\* Every edge leaves something to signal, and a signal always leaves the token.
LEMMA EdgesAreSeen ==
    ASSUME RestInv, (\E ids \in SUBSET Chats : ApplySet(ids)) \/ OnSessionSwap \/ Cancel
                      \/ (\E who \in {"apply", "swap"} : Signal(who)),
           NoEdge'
    PROVE  Progress'
  <1>1. Cancel
    <2>1. ASSUME NEW who \in {"apply", "swap"}, Signal(who) PROVE FALSE
      BY <2>1 DEF Signal, Wakes, NoEdge
    <2>2. ASSUME NEW ids \in SUBSET Chats, ApplySet(ids) PROVE FALSE
      BY <2>2 DEF ApplySet, NoEdge
    <2>3. CASE OnSessionSwap
      BY <2>3 DEF OnSessionSwap, NoEdge
    <2> QED BY <2>1, <2>2, <2>3
  <1> QED
    BY <1>1 DEF Cancel, RestInv, Progress, NoEdge, InCall, Settled, Opening, stateVars, workerVars

LEMMA WorkSettles ==
    ASSUME RestInv, Worker, NoEdge'
    PROVE  Progress'
  <1> USE OpenerAssumption DEF stateVars, workerVars, NoEdge, Progress, InCall, Settled, Opening
  <1>0. OpenerTypeOK /\ WorkerInv
    BY DEF RestInv, OpenInv, OpenOnceKeep
  <1>1. CASE Wake
    BY <1>1 DEF Wake
  <1>2. CASE ~Wake
    <2>0. NoEdge /\ Progress /\ UNCHANGED desired
      BY <1>2 DEF RestInv, Worker, Stop, CloseChat, ForgetClosed, CloseDone, StartPass, Interrupt,
                  GetChat, OpenChat, RecordOpen, EndPass
    <2>1. CASE Stop
      BY <2>0, <2>1 DEF Stop
    <2>2. ASSUME NEW c \in Channels, CloseChat(c) PROVE Progress'
      BY <2>0, <2>2 DEF CloseChat
    <2>3. CASE ForgetClosed
      BY <1>0, <2>0, <2>3 DEF ForgetClosed, NotOpened, WorkerInv
    <2>4. CASE CloseDone
      BY <2>0, <2>4 DEF CloseDone
    <2>5. CASE StartPass
      BY <1>0, <2>0, <2>5 DEF StartPass, Unopened
    <2>6. CASE Interrupt
      BY <2>0, <2>6 DEF Interrupt
    <2>7. ASSUME NEW c \in Channels, GetChat(c) PROVE Progress'
      BY <2>0, <2>7 DEF GetChat
    <2>8. CASE OpenChat
      BY <2>0, <2>8 DEF OpenChat
    <2>9. CASE RecordOpen
      BY <2>0, <2>9 DEF RecordOpen
    <2>10. CASE EndPass
      <3>1. pass \in 1..Passes
        BY <1>0 DEF OpenerTypeOK
      <3> QED BY <2>0, <2>10, <3>1 DEF EndPass, PassesLeft
    <2> QED BY <1>2, <2>1, <2>2, <2>3, <2>4, <2>5, <2>6, <2>7, <2>8, <2>9, <2>10 DEF Worker
  <1> QED BY <1>1, <1>2

\* Whenever the worker sleeps and no edge is under way, the open set is settled: neither
\* the one-token channel nor the unlocked calls ever lose a load or the session.
THEOREM NoEdgeIsLost == OpenerSpec => []RestIsSettled
  <1>1. RestInv /\ [OpenerNext]_openerVars => RestInv'
    <2> SUFFICES ASSUME RestInv, [OpenerNext]_openerVars PROVE RestInv'
      OBVIOUS
    <2>1. OpenInv'
      BY OpenStep DEF RestInv
    <2>2. NoEdge' => Progress'
      <3>1. CASE UNCHANGED openerVars
        BY <3>1 DEF openerVars, stateVars, workerVars, RestInv, NoEdge, Progress, InCall, Settled, Opening
      <3> QED
        BY <3>1, EdgesAreSeen, WorkSettles DEF OpenerNext
    <2> QED
      BY <2>1, <2>2 DEF RestInv
  <1>2. RestInv => RestIsSettled
    BY DEF RestInv, NoEdge, Progress, RestIsSettled, Resting
  <1> QED
    BY <1>1, <1>2, RestInit, PTL DEF OpenerSpec

(***************************************************************************)
(* The filters                                                             *)
(***************************************************************************)

\* Every set of numbers that is not empty has a least one.
LEMMA LeastNumber ==
    ASSUME NEW S, S \subseteq Nat, S # {}
    PROVE  \E n \in S : \A k \in S : n <= k
  <1> DEFINE R == OpToRel(<, Nat)
  <1>1. IsWellFoundedOn(R, Nat)
    BY NatLessThanWellFounded
  <1>2. \A i, j \in Nat : i < j => <<i, j>> \in R
    BY Zenon DEF OpToRel
  <1> HIDE DEF R
  <1>3. PICK n \in S : \A k \in S : ~(<<k, n>> \in R)
    BY <1>1, WFMin
  <1>4. n \in Nat /\ \A k \in S : k \in Nat /\ ~(k < n)
    BY <1>2, <1>3
  <1> QED
    BY <1>4

LEMMA MinIsLeast ==
    ASSUME NEW S, S \subseteq Nat, S # {}
    PROVE  Min(S) \in S /\ \A k \in S : Min(S) <= k
  BY LeastNumber DEF Min

LEMMA ConcatAt ==
    ASSUME NEW S, NEW a \in Seq(S), NEW b \in Seq(S)
    PROVE  /\ DOMAIN (a \o b) = 1..(Len(a) + Len(b))
           /\ \A i \in 1..(Len(a) + Len(b)) :
                  (a \o b)[i] = IF i <= Len(a) THEN a[i] ELSE b[i - Len(a)]
  <1>1. a \o b \in Seq(S) /\ Len(a \o b) = Len(a) + Len(b)
    BY ConcatProperties
  <1>2. DOMAIN (a \o b) = 1..(Len(a) + Len(b))
    BY <1>1, LenProperties
  <1> QED
    BY <1>2, ConcatProperties

\* The tests in their order: the exclusion, the inclusion and the submatches.
LEMMA TestsInOrder ==
    ASSUME NEW rule, NEW text, rule.includeSubmatch \in Seq(Range(rule.includeSubmatch))
    PROVE  LET T == Tests(text, rule)
               S == rule.includeSubmatch
           IN  /\ Len(S) \in Nat /\ DOMAIN S = 1..Len(S) /\ DOMAIN T = 1..(Len(S) + 2)
               /\ T[1] = ExcludeTest(rule.exclude, text) /\ T[2] = IncludeTest(rule.include, text)
               /\ \A i \in 1..Len(S) : T[i + 2] = SubmatchTest(S[i], text)
  <1> DEFINE S == rule.includeSubmatch
             A == <<ExcludeTest(rule.exclude, text), IncludeTest(rule.include, text)>>
             B == [i \in DOMAIN S |-> SubmatchTest(S[i], text)]
             V == {"pass", "panic", "ok", "check"}
  <1>1. Len(S) \in Nat /\ DOMAIN S = 1..Len(S)
    OBVIOUS
  <1>2. A \in Seq(V) /\ Len(A) = 2
    BY DEF ExcludeTest, IncludeTest
  <1>3. \A i \in DOMAIN S : SubmatchTest(S[i], text) \in V
    BY DEF SubmatchTest
  <1>4. B \in [1..Len(S) -> V]
    BY <1>1, <1>3
  <1>5. B \in Seq(V) /\ Len(B) = Len(S)
    BY <1>1, <1>4, SeqDef, LenProperties
  <1>6. Tests(text, rule) = A \o B
    BY DEF Tests
  <1>7. /\ DOMAIN (A \o B) = 1..(Len(S) + 2)
        /\ \A i \in 1..(Len(S) + 2) : (A \o B)[i] = IF i <= 2 THEN A[i] ELSE B[i - 2]
    <2> HIDE DEF A, B, V
    <2>1. Len(A) + Len(B) = Len(S) + 2
      BY <1>1, <1>2, <1>5
    <2>2. /\ DOMAIN (A \o B) = 1..(Len(A) + Len(B))
          /\ \A i \in 1..(Len(A) + Len(B)) : (A \o B)[i] = IF i <= Len(A) THEN A[i] ELSE B[i - Len(A)]
      BY <1>2, <1>5, ConcatAt
    <2> QED BY <1>2, <2>1, <2>2
  <1>8. \A i \in 1..Len(S) : (A \o B)[i + 2] = SubmatchTest(S[i], text)
    <2> TAKE i \in 1..Len(S)
    <2>1. i + 2 \in 1..(Len(S) + 2) /\ ~(i + 2 <= 2) /\ (i + 2) - 2 = i
      BY <1>1
    <2>2. (A \o B)[i + 2] = B[i]
      <3> HIDE DEF A, B
      <3> QED BY <1>7, <2>1
    <2> QED BY <1>1, <2>2
  <1>9. (A \o B)[1] = ExcludeTest(rule.exclude, text) /\ (A \o B)[2] = IncludeTest(rule.include, text)
    <2>1. (A \o B)[1] = A[1] /\ (A \o B)[2] = A[2]
      <3> HIDE DEF A, B
      <3> QED BY <1>1, <1>7
    <2> QED BY <2>1
  <1> QED
    BY <1>1, <1>6, <1>7, <1>8, <1>9

\* What the first test that does not pass decides is what the owner of the rule means,
\* unless it is a panic over an expression or a group that means nothing.
LEMMA EvaluateDecides ==
    ASSUME NEW rule, NEW text, rule.includeSubmatch \in Seq(Range(rule.includeSubmatch)),
           \A sub \in Range(rule.includeSubmatch) : sub.group \in Int
    PROVE  LET mode == Evaluate(text, rule) IN
           /\ mode \in {"ok", "check", "other", "panic"}
           /\ mode = "panic" => \/ BadRegexp \in Expressions(rule)
                                \/ \E sub \in Range(rule.includeSubmatch) : sub.group < 0
           /\ mode # "panic" =>
                  /\ mode = "check" <=> ToldExcluded(rule, text)
                  /\ mode # "check" => (mode = "ok" <=> ToldIncluded(rule, text))
  <1> DEFINE S == rule.includeSubmatch
             T == Tests(text, rule)
             D == {i \in DOMAIN T : Decides(T[i])}
             k == Min(D)
  <1>1. Len(S) \in Nat /\ DOMAIN S = 1..Len(S) /\ DOMAIN T = 1..(Len(S) + 2)
    BY TestsInOrder
  <1>2. T[1] = ExcludeTest(rule.exclude, text) /\ T[2] = IncludeTest(rule.include, text)
    BY TestsInOrder
  <1>3. \A i \in 1..Len(S) : T[i + 2] = SubmatchTest(S[i], text)
    BY TestsInOrder
  <1>4. HasIncludeRules(rule) <=> ToldIncludes(rule) # {}
    BY DEF HasIncludeRules, ToldIncludes, Range
  <1> HIDE DEF T
  <1>5. CASE text = NoText
    <2>1. Evaluate(text, rule) = IF HasIncludeRules(rule) THEN "other" ELSE "ok"
      BY <1>5 DEF Evaluate
    <2>2. ~ToldExcluded(rule, text)
      BY <1>5 DEF ToldExcluded, Said
    <2>3. ToldIncluded(rule, text) <=> ToldIncludes(rule) = {}
      BY <1>5 DEF ToldIncluded, Said
    <2> QED BY <1>4, <2>1, <2>2, <2>3
  <1>6. CASE text # NoText /\ D = {}
    <2>1. Evaluate(text, rule) = IF HasIncludeRules(rule) THEN "other" ELSE "ok"
      BY <1>6 DEF Evaluate, T
    <2>2. \A i \in 1..(Len(S) + 2) : T[i] = "pass"
      BY <1>1, <1>6 DEF Decides
    <2>3. ~ToldExcluded(rule, text)
      <3>1. ExcludeTest(rule.exclude, text) = "pass"
        BY <1>1, <1>2, <2>2
      <3> QED BY <3>1 DEF ToldExcluded, Said, ExcludeTest
    <2>4. ~Said(rule.include, text)
      <3>1. IncludeTest(rule.include, text) = "pass"
        BY <1>1, <1>2, <2>2
      <3> QED BY <3>1 DEF Said, IncludeTest
    <2>5. ASSUME NEW sub \in Range(S), Said(sub.regexp, text),
                 \E match \in Range(sub.regexp[text]) : GroupIs(sub, match)
          PROVE  FALSE
      <3>1. PICK i \in 1..Len(S) : S[i] = sub
        BY <1>1 DEF Range
      <3>2. SubmatchTest(sub, text) = "pass"
        <4>1. i + 2 \in 1..(Len(S) + 2)
          BY <1>1
        <4> QED BY <1>3, <2>2, <3>1, <4>1
      <3> QED BY <2>5, <3>2 DEF SubmatchTest, Said, Range
    <2>6. ToldIncluded(rule, text) <=> ToldIncludes(rule) = {}
      BY <2>4, <2>5 DEF ToldIncluded
    <2> QED BY <1>4, <2>1, <2>3, <2>6
  <1>7. CASE text # NoText /\ D # {}
    <2>1. k \in D /\ \A i \in D : k <= i
      <3>1. D \subseteq Nat
        BY <1>1
      <3> QED BY <1>7, <3>1, MinIsLeast
    <2>2. Evaluate(text, rule) = T[k]
      BY <1>7 DEF Evaluate, T
    <2> HIDE DEF k
    <2>3. k \in 1..(Len(S) + 2) /\ T[k] # "pass" /\ \A i \in 1..(Len(S) + 2) : i < k => T[i] = "pass"
      BY <1>1, <2>1 DEF Decides
    <2>4. CASE k = 1
      BY <1>2, <1>7, <2>2, <2>3, <2>4 DEF ExcludeTest, ToldExcluded, Said, Expressions
    <2>5. k > 1 => ~ToldExcluded(rule, text)
      <3>1. k > 1 => ExcludeTest(rule.exclude, text) = "pass"
        BY <1>1, <1>2, <2>3
      <3> QED BY <3>1 DEF ToldExcluded, Said, ExcludeTest
    <2>6. CASE k = 2
      BY <1>2, <1>7, <2>2, <2>3, <2>5, <2>6 DEF IncludeTest, ToldIncluded, Said, Expressions
    <2>7. CASE k > 2
      <3> DEFINE sub == S[k - 2]
      <3>1. k - 2 \in 1..Len(S) /\ (k - 2) + 2 = k
        BY <1>1, <2>3, <2>7
      <3>2. T[k] = SubmatchTest(sub, text)
        BY <1>3, <3>1
      <3>3. sub \in Range(S) /\ sub.group \in Int
        BY <1>1, <3>1 DEF Range
      <3> HIDE DEF sub
      <3>4. CASE T[k] = "ok"
        <4>1. sub.regexp # NoRegexp /\ \E i \in DOMAIN sub.regexp[text] : GroupIs(sub, sub.regexp[text][i])
          BY <3>2, <3>4 DEF SubmatchTest
        <4>2. sub.regexp[text] # <<>>
          BY <4>1
        <4>3. \E match \in Range(sub.regexp[text]) : GroupIs(sub, match)
          BY <4>1 DEF Range
        <4>4. Said(sub.regexp, text)
          BY <1>7, <4>1, <4>2 DEF Said, Matches
        <4>5. ToldIncluded(rule, text)
          BY <3>3, <4>3, <4>4 DEF ToldIncluded
        <4>6. ~ToldExcluded(rule, text)
          BY <1>1, <2>3, <2>5, <2>7
        <4> QED BY <2>2, <3>4, <4>5, <4>6
      <3>5. CASE T[k] = "panic"
        <4>1. BadRegexp \in Expressions(rule) \/ sub.group < 0
          BY <3>2, <3>3, <3>5 DEF SubmatchTest, Expressions
        <4> QED BY <2>2, <3>3, <3>5, <4>1
      <3> QED BY <2>3, <3>2, <3>4, <3>5 DEF SubmatchTest
    <2> QED BY <1>1, <2>3, <2>4, <2>6, <2>7
  <1> QED BY <1>5, <1>6, <1>7

(***************************************************************************)
(* Loading                                                                 *)
(***************************************************************************)
LEMMA ThenIs ==
    ASSUME NEW outcomes, NEW next, NEW x
    PROVE  x \in Then(outcomes, next) <=> \/ x \in outcomes /\ x # "goes on"
                                          \/ "goes on" \in outcomes /\ x \in next
  BY DEF Then

LEMMA LoopIs ==
    ASSUME NEW errors, NEW panics
    PROVE  /\ "goes on" \in Loop(errors, panics) <=> errors = {} /\ panics = {}
           /\ "panic" \in Loop(errors, panics) => panics # {}
           /\ "ok" \notin Loop(errors, panics)
  BY DEF Loop

\* A file that is accepted went through every loop.
LEMMA AcceptedFile ==
    ASSUME NEW f, "ok" \in Outcomes(f)
    PROVE  /\ \A t \in DOMAIN f.pushTargets : ~TargetRefused(f.pushTargets[t])
           /\ \A id \in DOMAIN f.forwardRules : ~RuleRefused(f, id) /\ ~RulePanics(f, id)
           /\ ~TransformPanics(f)
  <1>1. f.readable
    BY DEF Outcomes
  <1>2. "ok" \notin Validate(f)
    <2>1. "ok" \notin TargetsLoop(f) /\ "ok" \notin RulesLoop(f) /\ "ok" \notin DestinationsLoop(f)
      BY LoopIs DEF TargetsLoop, RulesLoop, DestinationsLoop
    <2> QED BY <2>1, ThenIs DEF Validate
  <1>3. "goes on" \in Validate(f) /\ ~TransformPanics(f)
    <2> DEFINE rest == IF TransformPanics(f) THEN {"panic"}
                       ELSE IF CheckFails(Transform(f)) THEN {"error"} ELSE {"ok"}
    <2>1. Outcomes(f) = Then(Validate(f), rest)
      BY <1>1 DEF Outcomes
    <2>2. "ok" \in rest => ~TransformPanics(f)
      OBVIOUS
    <2> HIDE DEF rest
    <2>3. "ok" \in Validate(f) \/ ("goes on" \in Validate(f) /\ "ok" \in rest)
      BY <2>1, ThenIs
    <2> QED BY <1>2, <2>2, <2>3
  <1>4. "goes on" \in TargetsLoop(f) /\ "goes on" \in RulesLoop(f)
    BY <1>3, ThenIs DEF Validate
  <1>5. {t \in DOMAIN f.pushTargets : TargetRefused(f.pushTargets[t])} = {}
    BY <1>4, LoopIs DEF TargetsLoop
  <1>6. /\ {id \in DOMAIN f.forwardRules : RuleRefused(f, id)} = {}
        /\ {id \in DOMAIN f.forwardRules : RulePanics(f, id)} = {}
    <2> DEFINE e == {id \in DOMAIN f.forwardRules : RuleRefused(f, id)}
               p == {id \in DOMAIN f.forwardRules : RulePanics(f, id)}
    <2>1. "goes on" \in Loop(e, p)
      BY <1>4 DEF RulesLoop
    <2> HIDE DEF e, p
    <2>2. e = {} /\ p = {}
      BY <2>1, LoopIs
    <2> QED BY <2>2 DEF e, p
  <1> QED
    BY <1>3, <1>5, <1>6

\* A load panics over nothing but an entry without a body.
LEMMA PanicsOverNull ==
    ASSUME NEW f, "panic" \in Outcomes(f)
    PROVE  Null \in Range(f.sources) \cup Range(f.destinations) \cup Range(f.forwardRules)
  <1>1. "panic" \in Validate(f) \/ TransformPanics(f)
    <2> DEFINE rest == IF TransformPanics(f) THEN {"panic"}
                       ELSE IF CheckFails(Transform(f)) THEN {"error"} ELSE {"ok"}
    <2>1. f.readable
      BY DEF Outcomes
    <2>2. Outcomes(f) = Then(Validate(f), rest)
      BY <2>1 DEF Outcomes
    <2>3. "panic" \in rest => TransformPanics(f)
      OBVIOUS
    <2> HIDE DEF rest
    <2>4. "panic" \in Validate(f) \/ "panic" \in rest
      BY <2>2, ThenIs
    <2> QED BY <2>3, <2>4
  <1>2. CASE TransformPanics(f)
    BY <1>2 DEF TransformPanics, Range
  <1>3. CASE "panic" \in RulesLoop(f)
    BY <1>3, LoopIs DEF RulesLoop, RulePanics, Range
  <1>4. CASE "panic" \in DestinationsLoop(f)
    BY <1>4, LoopIs DEF DestinationsLoop, Range
  <1>5. "panic" \notin TargetsLoop(f)
    BY LoopIs DEF TargetsLoop
  <1> QED
    BY <1>1, <1>2, <1>3, <1>4, <1>5, ThenIs DEF Validate

\* A rule in Telegram's numbers.
LEMMA RuleTurned ==
    ASSUME NEW r, DecodedRule(r)
    PROVE  LET q == TransformRule(r) IN
           /\ q.from = -r.from /\ q.check = -r.check /\ q.other = -r.other
           /\ q.to = NegatedSeq(r.to)
           /\ q.pushTo = r.pushTo /\ q.sendCopy = r.sendCopy /\ q.exclude = r.exclude
           /\ q.include = r.include /\ q.includeSubmatch = r.includeSubmatch
           /\ q.copyOnce = r.copyOnce
  BY DEF DecodedRule, TransformRule

\* The published rule set is that of an accepted file.
Served == file \in Files /\ "ok" \in Outcomes(file) /\ rs = Loaded(file)

LEMMA ServedRules ==
    ASSUME Served
    PROVE  /\ DOMAIN rs.forwardRules = DOMAIN file.forwardRules
           /\ IsFiniteSet(DOMAIN rs.forwardRules)
           /\ \A id \in DOMAIN file.forwardRules :
                  /\ DecodedRule(file.forwardRules[id])
                  /\ rs.forwardRules[id] = TransformRule(file.forwardRules[id])
           /\ rs.uniqueSources = {rs.forwardRules[id].from : id \in DOMAIN rs.forwardRules}
           /\ rs.pushTargets = file.pushTargets
           /\ \A id \in DOMAIN rs.forwardRules :
                  Range(rs.forwardRules[id].pushTo) \subseteq DOMAIN rs.pushTargets
           /\ \A t \in DOMAIN rs.pushTargets : ~TargetRefused(rs.pushTargets[t])
  <1>1. DecodedFile(file)
    BY RoutingAssumption DEF Served
  <1>2. /\ rs.forwardRules = [id \in DOMAIN file.forwardRules |-> TransformRule(file.forwardRules[id])]
        /\ rs.pushTargets = file.pushTargets
        /\ rs.uniqueSources = {rule.from : rule \in Range(rs.forwardRules)}
    BY DEF Served, Loaded, Enrich, Transform
  <1>3. \A id \in DOMAIN file.forwardRules : /\ DecodedRule(file.forwardRules[id])
                                             /\ ~RuleRefused(file, id) /\ id \notin InvalidIds
    BY <1>1, AcceptedFile DEF Served, DecodedFile, RulePanics, RuleRefused
  <1>4. \A id \in DOMAIN file.forwardRules :
            Range(file.forwardRules[id].pushTo) \subseteq DOMAIN file.pushTargets
    <2> TAKE id \in DOMAIN file.forwardRules
    <2>1. file.forwardRules[id] # Null
      BY <1>3, AcceptedFile DEF Served, RulePanics
    <2> QED BY <1>3, <2>1 DEF RuleRefused
  <1>5. \A id \in DOMAIN rs.forwardRules :
            Range(rs.forwardRules[id].pushTo) \subseteq DOMAIN rs.pushTargets
    BY <1>2, <1>3, <1>4, RuleTurned
  <1>6. rs.uniqueSources = {rs.forwardRules[id].from : id \in DOMAIN rs.forwardRules}
    BY <1>2 DEF Range
  <1>7. \A t \in DOMAIN rs.pushTargets : ~TargetRefused(rs.pushTargets[t])
    BY <1>2, AcceptedFile DEF Served
  <1>8. IsFiniteSet(DOMAIN file.forwardRules)
    BY <1>1 DEF DecodedFile
  <1>9. DOMAIN rs.forwardRules = DOMAIN file.forwardRules
    BY <1>2
  <1> QED
    BY <1>2, <1>3, <1>5, <1>6, <1>7, <1>8, <1>9

LEMMA ServedSettings ==
    ASSUME Served
    PROVE  /\ DOMAIN rs.sources = Negated(DOMAIN file.sources) \cup rs.uniqueSources
           /\ \A c \in Int : -c \in DOMAIN rs.sources =>
                  rs.sources[-c] = IF c \in DOMAIN file.sources
                                   THEN TransformSource(file.sources[c]) ELSE PlainSource
           /\ \A c \in DOMAIN file.sources : DecodedSource(file.sources[c])
           /\ \A c \in Int : Destination(-c) = IF c \in DOMAIN file.destinations
                                               THEN file.destinations[c] ELSE NoDestination
  <1>1. DecodedFile(file)
    BY RoutingAssumption DEF Served
  <1> DEFINE tr == Transform(file)
  <1>2. /\ tr.sources = [c \in Negated(DOMAIN file.sources) |-> TransformSource(file.sources[-c])]
        /\ tr.destinations = [c \in Negated(DOMAIN file.destinations) |-> file.destinations[-c]]
    BY DEF Transform, NegatedKeys
  <1>3. /\ rs.sources = [c \in DOMAIN tr.sources \cup rs.uniqueSources |->
                             IF c \in DOMAIN tr.sources THEN tr.sources[c] ELSE PlainSource]
        /\ rs.destinations = tr.destinations
    BY DEF Served, Loaded, Enrich
  <1> HIDE DEF tr
  <1>4. \A c \in Int : /\ -c \in Negated(DOMAIN file.sources) <=> c \in DOMAIN file.sources
                       /\ -c \in Negated(DOMAIN file.destinations) <=> c \in DOMAIN file.destinations
                       /\ -(-c) = c
    BY <1>1 DEF DecodedFile, Negated
  <1>5. \A c \in DOMAIN file.sources : DecodedSource(file.sources[c])
    BY <1>1, AcceptedFile DEF Served, TransformPanics, DecodedFile
  <1>6. \A c \in Int : -c \in DOMAIN rs.sources =>
                  rs.sources[-c] = IF c \in DOMAIN file.sources
                                   THEN TransformSource(file.sources[c]) ELSE PlainSource
    BY <1>2, <1>3, <1>4
  <1>7. \A c \in Int : Destination(-c) = IF c \in DOMAIN file.destinations
                                         THEN file.destinations[c] ELSE NoDestination
    BY <1>2, <1>3, <1>4 DEF Destination
  <1> QED
    BY <1>2, <1>3, <1>5, <1>6, <1>7

(***************************************************************************)
(* Routing                                                                 *)
(***************************************************************************)
View(s) == Sent(s.as, s.to, s.options, s.fragments)

LEMMA EvaluateTurned ==
    ASSUME NEW r, DecodedRule(r), NEW text
    PROVE  Evaluate(text, TransformRule(r)) = Evaluate(text, r)
  BY RuleTurned DEF Evaluate, Tests, HasIncludeRules

\* A chat a rule names is met under Telegram's number, and the first one first.
LEMMA ChatsTurned ==
    ASSUME NEW r, DecodedRule(r)
    PROVE  LET q == TransformRule(r) IN
           /\ Range(r.to) \subseteq Int
           /\ Range(q.to) = {-c : c \in Range(r.to)}
           /\ \A c \in Range(r.to) : -c = q.to[1] <=> c = r.to[1]
  <1>1. r.to \in Seq(Int) /\ TransformRule(r).to = NegatedSeq(r.to)
    BY RuleTurned DEF DecodedRule
  <1>2. Len(r.to) \in Nat /\ DOMAIN r.to = 1..Len(r.to) /\ \A i \in 1..Len(r.to) : r.to[i] \in Int
    BY <1>1
  <1>3. DOMAIN NegatedSeq(r.to) = DOMAIN r.to /\ \A i \in DOMAIN r.to : NegatedSeq(r.to)[i] = -r.to[i]
    BY DEF NegatedSeq
  <1>4. Range(r.to) \subseteq Int /\ Range(NegatedSeq(r.to)) = {-c : c \in Range(r.to)}
    BY <1>2, <1>3 DEF Range
  <1>5. ASSUME NEW c \in Range(r.to) PROVE -c = NegatedSeq(r.to)[1] <=> c = r.to[1]
    <2>1. 1 \in DOMAIN r.to
      BY <1>2, <1>5 DEF Range
    <2>2. c \in Int /\ r.to[1] \in Int /\ NegatedSeq(r.to)[1] = -r.to[1]
      BY <1>2, <1>3, <1>4, <2>1
    <2> QED BY <2>2
  <1> QED
    BY <1>1, <1>4, <1>5

\* The settings a copy is made under are those of the file.
LEMMA SettingsAsTold ==
    ASSUME Served, NEW id \in DOMAIN file.forwardRules, NEW chat,
           LET r == file.forwardRules[id] IN r.sendCopy /\ chat = -r.from,
           NEW c \in Range(file.forwardRules[id].to), NEW first \in BOOLEAN,
           first <=> c = file.forwardRules[id].to[1]
    PROVE  /\ CopyOptions(rs.sources[chat], -c, first) = ToldOptions(file.forwardRules[id], c)
           /\ Destination(-c).replaceFragments = ToldFragments(file.forwardRules[id], c)
  <1> DEFINE r == file.forwardRules[id]
  <1>1. DecodedRule(r) /\ r.from \in Int /\ c \in Int /\ chat = -r.from
    BY ServedRules, ChatsTurned DEF DecodedRule
  <1>2. chat \in DOMAIN rs.sources
    <2>1. rs.forwardRules[id].from = chat /\ id \in DOMAIN rs.forwardRules
      BY <1>1, ServedRules, RuleTurned
    <2> QED BY <2>1, ServedRules, ServedSettings
  <1>3. rs.sources[chat] = IF r.from \in DOMAIN file.sources
                           THEN TransformSource(file.sources[r.from]) ELSE PlainSource
    BY <1>1, <1>2, ServedSettings
  <1> DEFINE src == rs.sources[chat]
  <1>4. ASSUME NEW o \in Options
        PROVE  -c \in src.for[o] <=> r.from \in DOMAIN file.sources /\ c \in file.sources[r.from].for[o]
    <2>1. CASE r.from \in DOMAIN file.sources
      <3> DEFINE told == file.sources[r.from]
      <3>1. DecodedSource(told)
        BY <2>1, ServedSettings
      <3>2. TransformSource(told).for[o] = Negated(told.for[o]) /\ told.for[o] \subseteq Int
        BY <3>1 DEF DecodedSource, TransformSource
      <3>3. -c \in Negated(told.for[o]) <=> c \in told.for[o]
        BY <1>1, <3>2 DEF Negated
      <3> QED BY <1>3, <2>1, <3>2, <3>3
    <2>2. CASE r.from \notin DOMAIN file.sources
      BY <1>3, <2>2 DEF PlainSource
    <2> QED BY <2>1, <2>2
  <1>5. CopyOptions(src, -c, first) = ToldOptions(r, c)
    BY <1>4 DEF CopyOptions, ToldOptions, ToldFor
  <1>6. Destination(-c).replaceFragments = ToldFragments(r, c)
    BY <1>1, ServedSettings DEF ToldFragments, NoDestination
  <1> QED
    BY <1>5, <1>6

LEMMA CopiesAsTold ==
    ASSUME Served, NEW id \in DOMAIN file.forwardRules, NEW m,
           m.chat = -file.forwardRules[id].from
    PROVE  {View(s) : s \in Copies(TransformRule(file.forwardRules[id]), m)} =
               LET r == file.forwardRules[id] IN
               {Sent(IF r.sendCopy THEN "copy" ELSE "forward", -c, ToldOptions(r, c),
                     ToldFragments(r, c)) : c \in Range(r.to)}
  <1> DEFINE r == file.forwardRules[id]
             q == TransformRule(r)
             told(c) == Sent(IF r.sendCopy THEN "copy" ELSE "forward", -c, ToldOptions(r, c),
                             ToldFragments(r, c))
             made(c) == ForwardMessage(q, m, -c, 0, -c = q.to[1])
  <1>1. /\ DecodedRule(r) /\ r.sendCopy \in BOOLEAN
        /\ q.sendCopy = r.sendCopy
    BY ServedRules, RuleTurned DEF DecodedRule
  <1>2. ASSUME NEW c \in Range(r.to)
        PROVE  \E s : made(c) = {s} /\ View(s) = told(c)
    <2> DEFINE p == TransformParams(m, -c, 0, -c = q.to[1])
    <2>1. CASE ~r.sendCopy
      <3>1. made(c) = {Natively("forward", -c)}
        BY <1>1, <2>1 DEF ForwardMessage
      <3>2. View(Natively("forward", -c)) = Sent("forward", -c, {}, <<>>)
        BY DEF View, Natively
      <3>3. told(c) = Sent("forward", -c, {}, <<>>)
        BY <2>1 DEF ToldOptions, ToldFragments
      <3> QED BY <3>1, <3>2, <3>3
    <2>2. CASE r.sendCopy
      <3> DEFINE content == BuildInputContent(OriginContent(m), TransformText(p))
      <3>1. made(c) = {Made("copy", p, content)}
        BY <1>1, <2>2 DEF ForwardMessage
      <3>2. /\ p.source = rs.sources[m.chat] /\ p.dst = -c /\ p.destination = Destination(-c)
            /\ p.withSources = (-c = q.to[1])
        BY DEF TransformParams
      <3> HIDE DEF p, content
      <3>3. View(Made("copy", p, content)) =
                Sent("copy", -c, CopyOptions(rs.sources[m.chat], -c, -c = q.to[1]),
                     Destination(-c).replaceFragments)
        BY <3>2 DEF View, Made
      <3>4. (-c = q.to[1]) \in BOOLEAN /\ (-c = q.to[1] <=> c = r.to[1])
        BY <1>1, ChatsTurned
      <3>5. /\ CopyOptions(rs.sources[m.chat], -c, -c = q.to[1]) = ToldOptions(r, c)
            /\ Destination(-c).replaceFragments = ToldFragments(r, c)
        BY <2>2, <3>4, SettingsAsTold
      <3> QED BY <2>2, <3>1, <3>3, <3>5
    <2> QED BY <1>1, <2>1, <2>2
  <1>3. Copies(q, m) = UNION {made(c) : c \in Range(r.to)}
    <2>1. Range(q.to) = {-c : c \in Range(r.to)}
      BY <1>1, ChatsTurned
    <2> QED BY <2>1 DEF Copies
  <1> HIDE DEF told, made
  <1>4. {View(s) : s \in Copies(q, m)} = {told(c) : c \in Range(r.to)}
    BY <1>2, <1>3
  <1> QED
    BY <1>4 DEF told

LEMMA AsideAsTold ==
    ASSUME NEW c \in Int
    PROVE  {View(s) : s \in Aside(-c)} = {Sent("forward", -d, {}, <<>>) : d \in {c} \ {0}}
  <1>1. CASE c = 0
    <2>0. -c = 0
      <3>1. ~(c < 0) /\ ~(c > 0)
        BY <1>1
      <3>2. \A d \in Int : ~(d < 0) /\ ~(d > 0) => -d = 0
        OBVIOUS
      <3> QED BY <3>1, <3>2
    <2>1. -c = 0 /\ {c} \ {0} = {}
      BY <1>1, <2>0
    <2>2. Aside(-c) = {}
      BY <2>1 DEF Aside
    <2> QED BY <2>1, <2>2
  <1>2. CASE c # 0
    <2>1. Aside(-c) = {Natively("forward", -c)}
      BY <1>2 DEF Aside
    <2>2. View(Natively("forward", -c)) = Sent("forward", -c, {}, <<>>)
      BY DEF View, Natively
    <2> QED BY <1>2, <2>1, <2>2
  <1> QED BY <1>1, <1>2

\* One rule routes as the file says.
LEMMA RuleAsTold ==
    ASSUME Served, NEW id \in DOMAIN file.forwardRules, NEW m,
           m.chat = -file.forwardRules[id].from,
           Evaluate(GetFormattedText(m).text, rs.forwardRules[id]) # "panic"
    PROVE  {View(s) : s \in Route(rs.forwardRules[id], m)} =
               Told(file.forwardRules[id], GetFormattedText(m).text)
  <1> DEFINE r == file.forwardRules[id]
             q == TransformRule(r)
             text == GetFormattedText(m).text
             mode == Evaluate(text, r)
  <1>1. DecodedRule(r) /\ rs.forwardRules[id] = q
    BY ServedRules
  <1>2. Evaluate(text, q) = mode /\ q.check = -r.check /\ q.other = -r.other
        /\ r.check \in Int /\ r.other \in Int
    BY <1>1, EvaluateTurned, RuleTurned DEF DecodedRule
  <1>3. /\ mode \in {"ok", "check", "other"}
        /\ mode = "check" <=> ToldExcluded(r, text)
        /\ mode # "check" => (mode = "ok" <=> ToldIncluded(r, text))
    BY <1>1, <1>2, EvaluateDecides DEF DecodedRule
  <1> HIDE DEF r, q, text, mode
  <1>4. CASE mode = "ok"
    <2>1. Route(q, m) = Copies(q, m)
      BY <1>2, <1>4 DEF Route, text
    <2>2. {View(s) : s \in Copies(q, m)} =
               {Sent(IF r.sendCopy THEN "copy" ELSE "forward", -c, ToldOptions(r, c),
                     ToldFragments(r, c)) : c \in Range(r.to)}
      BY CopiesAsTold DEF r, q
    <2>3. ~ToldExcluded(r, text) /\ ToldIncluded(r, text)
      BY <1>3, <1>4
    <2> QED BY <1>1, <2>1, <2>2, <2>3 DEF Told, r, text
  <1>5. CASE mode = "check"
    <2>1. Route(q, m) = Aside(-r.check)
      BY <1>2, <1>5 DEF Route, text
    <2>2. ToldExcluded(r, text)
      BY <1>3, <1>5
    <2>3. {View(s) : s \in Aside(-r.check)} = {Sent("forward", -d, {}, <<>>) : d \in {r.check} \ {0}}
      BY <1>2, AsideAsTold
    <2> QED BY <1>1, <2>1, <2>2, <2>3 DEF Told, r, text
  <1>6. CASE mode = "other"
    <2>1. Route(q, m) = Aside(-r.other)
      BY <1>2, <1>6 DEF Route, text
    <2>2. ~ToldExcluded(r, text) /\ ~ToldIncluded(r, text)
      BY <1>3, <1>6
    <2>3. {View(s) : s \in Aside(-r.other)} = {Sent("forward", -d, {}, <<>>) : d \in {r.other} \ {0}}
      BY <1>2, AsideAsTold
    <2> QED BY <1>1, <2>1, <2>2, <2>3 DEF Told, r, text
  <1> QED BY <1>3, <1>4, <1>5, <1>6

\* The rules a text is put to are those the file has for its chat.
LEMMA RulesAsTold ==
    ASSUME Served, NEW m, m.chat \in Int, GetFormattedText(m) # Absent
    PROVE  {id \in RulesFor(m) : MayForward(rs.forwardRules[id], m)} = ToldRules(m)
  <1>1. ASSUME NEW id \in DOMAIN file.forwardRules
        PROVE  /\ rs.forwardRules[id].from = m.chat <=> file.forwardRules[id].from = -m.chat
               /\ rs.forwardRules[id].sendCopy = file.forwardRules[id].sendCopy
    <2> DEFINE r == file.forwardRules[id]
    <2>1. DecodedRule(r) /\ rs.forwardRules[id] = TransformRule(r)
      BY ServedRules
    <2>2. /\ TransformRule(r).from = -r.from /\ r.from \in Int
          /\ TransformRule(r).sendCopy = r.sendCopy
      BY <2>1, RuleTurned DEF DecodedRule
    <2> HIDE DEF r
    <2>3. -r.from = m.chat <=> r.from = -m.chat
      BY <2>2
    <2> QED BY <2>1, <2>2, <2>3 DEF r
  <1> QED
    BY <1>1, ServedRules DEF RulesFor, MayForward, ToldRules

\* A text that kills nothing goes exactly where the file says.
LEMMA TextAsTold ==
    ASSUME Served, NEW m, m.chat \in Int, GetFormattedText(m) # Absent,
           \A id \in ToldRules(m) :
               Evaluate(GetFormattedText(m).text, rs.forwardRules[id]) # "panic"
    PROVE  {View(s) : s \in UNION {Route(rs.forwardRules[id], m) : id \in ToldRules(m)}} =
               UNION {Told(file.forwardRules[id], GetFormattedText(m).text) : id \in ToldRules(m)}
  <1>1. ASSUME NEW id \in ToldRules(m)
        PROVE  {View(s) : s \in Route(rs.forwardRules[id], m)} =
                   Told(file.forwardRules[id], GetFormattedText(m).text)
    <2>1. id \in DOMAIN file.forwardRules /\ file.forwardRules[id].from = -m.chat
      BY DEF ToldRules
    <2>2. m.chat = -file.forwardRules[id].from
      BY <2>1
    <2> QED BY <2>1, <2>2, RuleAsTold
  <1> QED
    BY <1>1

\* A panic of the filters is over what no text can be put to.
LEMMA FilterPanics ==
    ASSUME Served, NEW id \in DOMAIN file.forwardRules, NEW text,
           Evaluate(text, rs.forwardRules[id]) = "panic"
    PROVE  Fatal(file)
  <1> DEFINE r == file.forwardRules[id]
  <1>1. DecodedRule(r) /\ rs.forwardRules[id] = TransformRule(r)
    BY ServedRules
  <1>2. Evaluate(text, r) = "panic"
    BY <1>1, EvaluateTurned
  <1>3. BadRegexp \in Expressions(r) \/ \E sub \in Range(r.includeSubmatch) : sub.group < 0
    BY <1>1, <1>2, EvaluateDecides DEF DecodedRule
  <1>4. r \in Range(file.forwardRules)
    BY DEF Range
  <1> HIDE DEF r
  <1> QED
    BY <1>3, <1>4 DEF Fatal

(***************************************************************************)
(* The invariant of the routing                                            *)
(***************************************************************************)

\* The representations of what befell a message.
FactsOf(m, ev) ==
    IF ev = "deleted"
    THEN {[v1 |-> "deleted", v2 |-> v2DeleteFor(m.chat, m.id, TRUE, c)] : c \in BOOLEAN}
    ELSE {[v1 |-> v1, v2 |-> v2SnapshotFor(m, ev)] : v1 \in {"", ev}}

Published == {rs.pushTargets[t] : t \in DOMAIN rs.pushTargets}

Entries == [fact: FactsOf(msg, event), target: Published]

\* A rule set is in force that an accepted file made, the file's before a fatal load.
RuleSetInv ==
    /\ alive => Served \/ (file = NoFile /\ rs = NoRules)
    /\ event # "none" => Served /\ msg \in MessagesOf(file)
    /\ rs.uniqueSources \subseteq DOMAIN rs.sources
    /\ \A target \in Published : ~TargetRefused(target)

\* What waits is a fact about the last message, for a target of the rule set.
QueueInv ==
    /\ queue \in [Targets -> Seq(Entries)]
    /\ event = "none" => \A t \in Targets : queue[t] = <<>>

\* The payload an attempt was told to send, NoPayload if its fact has it not.
Due(a) == RenderPayload(a.fact, IF a.version = 2 THEN 2 ELSE 1)

AttemptOK(a) ==
    /\ a \in [at: {"idle", "sent", "ended"}, fact: {a.fact}, version: {0, 1, 2}, hop: 0..3,
              scheme: {"https"}, body: {a.body}, outcome: Outcome]
    /\ a.at # "sent" => a.body = NoPayload
    /\ a.at = "sent" => /\ Due(a) # NoPayload
                        /\ a.body = Due(a) \/ (a.body = NoPayload /\ a.hop > 0)
    /\ a.at = "ended" => (a.outcome = "unavailable" <=> Due(a) = NoPayload)

AttemptInv == DOMAIN attempt = Targets /\ \A t \in Targets : AttemptOK(attempt[t])

PlainTypes ==
    /\ alive \in BOOLEAN /\ loads \in 0..MaxLoads
    /\ event \in {"none", "new", "edited", "deleted"}
    /\ msg \in {NoMessage} \cup MessagesOf(file)
    /\ file \in Files \cup {NoFile}

RoutingInv ==
    PlainTypes /\ RuleSetInv /\ QueueInv /\ AttemptInv /\ OnlyFatalFilesKill /\ RoutedAsTold

(***************************************************************************)
(* Payloads                                                                *)
(***************************************************************************)
LEMMA MarshalKeeps ==
    ASSUME NEW n, validateNotification(n)
    PROVE  KeepsSchema([version |-> 2, event |-> n.event, keys |-> marshal(n)])
  <1> DEFINE context == {k \in ContextIds : n.context[k] # 0}
             notes == {k \in NoteNames : n.notes[k] # ""}
             content == IF n.content = Absent THEN {} ELSE ContentKeys(n.content)
             reply == IF n.replyTo = Absent THEN {} ELSE ReplyKeys(n.replyTo)
             forward == IF n.forward = Absent THEN {} ELSE ForwardKeys(n.forward)
             K(condition, key) == KeysIf(condition, {key})
  <1>1. marshal(n) = {"chat_id", "message_id"} \cup K(n.sender # Absent, "sender")
                        \cup K(n.sentAt # Absent, "sent_at") \cup K(n.editedAt # Absent, "edited_at")
                        \cup content \cup reply \cup context \cup notes
                        \cup K(n.delete = Absent, "has_sensitive_content") \cup forward
                        \cup K(n.delete # Absent, "delete")
    BY DEF marshal
  <1>2. \A c, key : K(c, key) = IF c THEN {key} ELSE {}
    BY DEF KeysIf
  <1>3. CASE n.event = "deleted"
    <2>1. n.delete # Absent /\ CarriesNoSnapshot(n)
      BY <1>3 DEF validateNotification
    <2>2. context = {}
      BY <2>1 DEF CarriesNoSnapshot, NoContext
    <2>3. notes = {}
      BY <2>1 DEF CarriesNoSnapshot, NoNotes
    <2>4. content = {} /\ reply = {} /\ forward = {}
      BY <2>1 DEF CarriesNoSnapshot
    <2>5. n.sender = Absent /\ n.sentAt = Absent /\ n.editedAt = Absent
      BY <2>1 DEF CarriesNoSnapshot
    <2> HIDE DEF context, notes, content, reply, forward, K
    <2>6. marshal(n) = DeletionKeys
      BY <1>1, <1>2, <2>1, <2>2, <2>3, <2>4, <2>5 DEF DeletionKeys
    <2> QED BY <1>3, <2>6 DEF KeepsSchema
  <1>4. CASE n.event # "deleted"
    <2>1. n.sentAt # Absent /\ n.content # Absent /\ n.delete = Absent
      BY <1>4 DEF validateNotification
    <2>2. "content.type" \in content /\ "delete" \notin content
      BY <2>1 DEF ContentKeys, KeysIf
    <2>3. "delete" \notin reply
      BY DEF ReplyKeys, KeysIf
    <2>4. "delete" \notin forward
      BY DEF ForwardKeys, KeysIf
    <2>5. "delete" \notin context /\ "delete" \notin notes
      BY DEF ContextIds, NoteNames
    <2> HIDE DEF context, notes, content, reply, forward, K
    <2>6. SnapshotKeys \subseteq marshal(n)
      BY <1>1, <1>2, <2>1, <2>2 DEF SnapshotKeys
    <2>7. "delete" \notin marshal(n)
      BY <1>1, <1>2, <2>1, <2>2, <2>3, <2>4, <2>5
    <2> QED BY <1>4, <2>6, <2>7 DEF KeepsSchema
  <1> QED BY <1>3, <1>4

\* What a schema makes of a fact.
LEMMA RenderedPayload ==
    ASSUME NEW fact
    PROVE  /\ LET body == RenderPayload(fact, 1) IN
              /\ body = NoPayload <=> fact.v1 = ""
              /\ body # NoPayload => body.version = 1
           /\ LET body == RenderPayload(fact, 2) IN
              /\ body = V2(fact)
              /\ body # NoPayload => body.version = 2 /\ KeepsSchema(body)
           /\ NoPayload.version = 0
  <1>1. NoPayload.version = 0
    BY DEF NoPayload
  <1>2. RenderPayload(fact, 1) = V1(fact) /\ RenderPayload(fact, 2) = V2(fact)
    BY DEF RenderPayload
  <1>3. V1(fact) # NoPayload => V1(fact).version = 1
    BY DEF V1
  <1>4. fact.v1 = "" => V1(fact) = NoPayload
    BY DEF V1
  <1>5. fact.v1 # "" => V1(fact).version = 1
    BY DEF V1
  <1>6. ASSUME V2(fact) # NoPayload PROVE V2(fact).version = 2 /\ KeepsSchema(V2(fact))
    <2>1. V2(fact) = MarshalNotification(fact.v2)
      BY <1>6 DEF V2
    <2>2. /\ validateNotification(fact.v2)
          /\ V2(fact) = [version |-> 2, event |-> fact.v2.event, keys |-> marshal(fact.v2)]
      BY <1>6, <2>1 DEF MarshalNotification
    <2>3. KeepsSchema(V2(fact))
      BY <2>2, MarshalKeeps
    <2> QED BY <2>2, <2>3
  <1> HIDE DEF NoPayload
  <1>7. fact.v1 # "" => V1(fact) # NoPayload
    <2>1. 1 # 0
      OBVIOUS
    <2> QED BY <1>1, <1>5, <2>1, Zenon
  <1>8. V1(fact) = NoPayload <=> fact.v1 = ""
    BY <1>4, <1>7, Zenon
  <1> QED BY <1>1, <1>2, <1>3, <1>6, <1>8

LEMMA ServedTargets ==
    ASSUME NEW target, ~TargetRefused(target)
    PROVE  /\ target # Null /\ target.schemaVersion \in {0, 1, 2}
           /\ EffectiveSchemaVersion(target) = IF target.schemaVersion = 2 THEN 2 ELSE 1
  BY DEF TargetRefused, EffectiveSchemaVersion

(***************************************************************************)
(* The steps                                                               *)
(***************************************************************************)
LEMMA NothingServed ==
    /\ NoRules.uniqueSources = {} /\ NoRules.pushTargets = <<>>
    /\ DOMAIN NoRules.pushTargets = {}
  <1>1. NoRules.uniqueSources = {rule.from : rule \in Range(<<>>)} /\ NoRules.pushTargets = <<>>
    BY DEF NoRules, Enrich
  <1>2. Range(<<>>) = {}
    BY DEF Range
  <1> QED BY <1>1, <1>2

LEMMA EnrichedSources ==
    ASSUME NEW tr
    PROVE  Enrich(tr).uniqueSources \subseteq DOMAIN Enrich(tr).sources
  BY DEF Enrich

LEMMA NoAttemptOK ==
    ASSUME NEW t
    PROVE  AttemptOK(NoAttempt(t)) /\ NoAttempt(t).at = "idle"
  BY DEF AttemptOK, NoAttempt, Outcome

\* Empty queues are queues of whatever entries there are.
LEMMA EmptyQueues ==
    ASSUME NEW q, DOMAIN q = Targets, q = [t \in Targets |-> q[t]],
           \A t \in Targets : q[t] = <<>>, NEW S
    PROVE  q \in [Targets -> Seq(S)]
  BY EmptySeq

LEMMA RoutingInit == Init => RoutingInv
  <1> SUFFICES ASSUME Init PROVE RoutingInv
    OBVIOUS
  <1>1. PlainTypes
    <2>1. MaxLoads \in Nat
      BY RoutingAssumption
    <2>2. loads \in 0..MaxLoads
      BY <2>1 DEF Init
    <2> QED BY <2>2 DEF Init, PlainTypes
  <1>2. RuleSetInv
    <2>1. rs.uniqueSources \subseteq DOMAIN rs.sources
      BY EnrichedSources DEF Init, NoRules
    <2> QED BY <2>1, NothingServed DEF Init, RuleSetInv, Published
  <1>3. QueueInv
    <2>1. /\ \A t \in Targets : queue[t] = <<>>
          /\ DOMAIN queue = Targets /\ queue = [t \in Targets |-> queue[t]]
      BY DEF Init, SinkInit
    <2> QED BY <2>1, EmptyQueues DEF QueueInv
  <1>4. AttemptInv
    BY NoAttemptOK DEF Init, SinkInit, AttemptInv
  <1>5. OnlyFatalFilesKill /\ RoutedAsTold
    BY DEF Init, OnlyFatalFilesKill, RoutedAsTold
  <1> QED BY <1>1, <1>2, <1>3, <1>4, <1>5 DEF RoutingInv

\* A load publishes what an accepted file gives, changes nothing, or ends the engine over
\* a file that is fatal.
LEMMA LoadKeeps ==
    ASSUME RoutingInv, NEW f \in Files, Load(f)
    PROVE  RoutingInv'
  <1>1. /\ alive /\ event' = "none" /\ msg' = NoMessage /\ loads' = loads + 1 /\ loads < MaxLoads
        /\ UNCHANGED queue /\ AtRest
        /\ attempt' = [t \in Targets |-> NoAttempt(t)]
        /\ Publish(f) \/ Reject(f) \/ Die(f)
    BY DEF Load
  <1>2. PlainTypes'
    <2>1. loads' \in 0..MaxLoads
      <3>1. MaxLoads \in Nat
        BY RoutingAssumption
      <3>2. loads \in 0..MaxLoads
        BY DEF RoutingInv, PlainTypes
      <3>3. loads' = loads + 1 /\ loads < MaxLoads
        BY <1>1
      <3> QED BY <3>1, <3>2, <3>3
    <2>2. alive' \in BOOLEAN /\ file' \in Files \cup {NoFile}
      BY <1>1 DEF Publish, Reject, Die, RoutingInv, PlainTypes
    <2> QED BY <1>1, <2>1, <2>2 DEF PlainTypes
  <1>3. ASSUME Publish(f) PROVE RuleSetInv' /\ OnlyFatalFilesKill'
    <2>1. Served'
      BY <1>3 DEF Publish, Served
    <2>2. rs'.uniqueSources \subseteq DOMAIN rs'.sources
      BY <1>3, EnrichedSources DEF Publish, Loaded
    <2>3. \A target \in Published' : ~TargetRefused(target)
      <3>1. rs'.pushTargets = f.pushTargets
        BY <1>3 DEF Publish, Loaded, Enrich, Transform
      <3>2. \A t \in DOMAIN f.pushTargets : ~TargetRefused(f.pushTargets[t])
        BY <1>3, AcceptedFile DEF Publish
      <3> QED BY <3>1, <3>2 DEF Published
    <2>4. RuleSetInv'
      BY <1>1, <2>1, <2>2, <2>3 DEF RuleSetInv
    <2>5. OnlyFatalFilesKill'
      BY <1>1, <1>3 DEF Publish, OnlyFatalFilesKill
    <2> QED BY <2>4, <2>5
  <1>4. ASSUME Reject(f) PROVE RuleSetInv' /\ OnlyFatalFilesKill'
    <2>1. UNCHANGED <<file, rs, alive>>
      BY <1>4 DEF Reject
    <2> QED BY <1>1, <2>1 DEF RoutingInv, RuleSetInv, Served, Published, OnlyFatalFilesKill
  <1>5. ASSUME Die(f) PROVE RuleSetInv' /\ OnlyFatalFilesKill'
    <2>1. UNCHANGED rs /\ ~alive' /\ file' = f /\ "panic" \in Outcomes(f)
      BY <1>5 DEF Die
    <2>2. Fatal(f)
      BY <2>1, PanicsOverNull DEF Fatal
    <2>3. OnlyFatalFilesKill'
      BY <2>1, <2>2 DEF OnlyFatalFilesKill
    <2> QED BY <1>1, <2>1, <2>3 DEF RoutingInv, RuleSetInv, Published
  <1>6. RuleSetInv' /\ OnlyFatalFilesKill'
    BY <1>1, <1>3, <1>4, <1>5
  <1>7. QueueInv'
    <2>1. \A t \in Targets : queue'[t] = <<>>
      BY <1>1 DEF AtRest
    <2>2. DOMAIN queue' = Targets /\ queue' = [t \in Targets |-> queue'[t]]
      BY <1>1 DEF RoutingInv, QueueInv
    <2> QED BY <2>1, <2>2, EmptyQueues DEF QueueInv
  <1>8. AttemptInv'
    BY <1>1, NoAttemptOK DEF AttemptInv
  <1>9. RoutedAsTold'
    BY <1>1 DEF RoutedAsTold
  <1> QED BY <1>2, <1>6, <1>7, <1>8, <1>9 DEF RoutingInv

LEMMA Repeated ==
    ASSUME NEW S, NEW e, NEW n \in Nat, n > 0 => e \in S
    PROVE  [i \in 1..n |-> e] \in Seq(S)
  <1>1. \A i \in 1..n : e \in S
    OBVIOUS
  <1>2. [i \in 1..n |-> e] \in [1..n -> S]
    BY <1>1
  <1> QED
    BY <1>2, SeqDef

\* A fact that is submitted waits only for targets of the rule set.
LEMMA SubmitAllKeeps ==
    ASSUME Served, NEW m, NEW ids \in SUBSET RulesFor(m), NEW F, NEW fact \in F,
           queue \in [Targets -> Seq([fact: F, target: Published])], SubmitAll(ids, fact)
    PROVE  queue' \in [Targets -> Seq([fact: F, target: Published])]
  <1> DEFINE E == [fact: F, target: Published]
             those(t) == {id \in ids : t \in Range(rs.forwardRules[id].pushTo)}
             times(t) == Cardinality(those(t))
             more(t) == [i \in 1..times(t) |-> Entry(fact, rs.pushTargets[t])]
  <1>1. ASSUME NEW t \in Targets PROVE queue[t] \o more(t) \in Seq(E)
    <2>1. those(t) \subseteq DOMAIN rs.forwardRules /\ IsFiniteSet(DOMAIN rs.forwardRules)
      BY ServedRules DEF RulesFor
    <2>2. IsFiniteSet(those(t))
      BY <2>1, FS_Subset
    <2>3. times(t) \in Nat
      BY <2>2, FS_CardinalityType
    <2>4. ASSUME times(t) > 0 PROVE Entry(fact, rs.pushTargets[t]) \in E
      <3>1. those(t) # {}
        <4> SUFFICES ASSUME those(t) = {} PROVE FALSE
          OBVIOUS
        <4>1. times(t) = 0
          BY FS_EmptySet
        <4> QED BY <2>4, <4>1
      <3>2. t \in DOMAIN rs.pushTargets
        BY <2>1, <3>1, ServedRules
      <3> QED BY <3>2 DEF Entry, Published
    <2> HIDE DEF E, times
    <2>5. more(t) \in Seq(E)
      BY <2>3, <2>4, Repeated
    <2>6. queue[t] \in Seq(E)
      BY DEF E
    <2> QED BY <2>5, <2>6, ConcatProperties
  <1>2. queue' = [t \in Targets |-> queue[t] \o more(t)]
    BY DEF SubmitAll
  <1> HIDE DEF E, more
  <1>3. queue' \in [Targets -> Seq(E)]
    BY <1>1, <1>2
  <1> QED
    BY <1>3 DEF E

LEMMA SubmitOnceKeeps ==
    ASSUME Served, NEW m, NEW F, NEW fact \in F,
           queue \in [Targets -> Seq([fact: F, target: Published])], SubmitOnce(m, fact)
    PROVE  queue' \in [Targets -> Seq([fact: F, target: Published])]
  <1> DEFINE E == [fact: F, target: Published]
             names == UNION {Range(rs.forwardRules[id].pushTo) : id \in RulesFor(m)}
  <1>1. names \subseteq DOMAIN rs.pushTargets
    BY ServedRules DEF RulesFor
  <1>2. queue' = [t \in Targets |-> IF t \in names THEN Append(queue[t], Entry(fact, rs.pushTargets[t]))
                                    ELSE queue[t]]
    BY DEF SubmitOnce, Submitted
  <1>3. \A t \in names : Entry(fact, rs.pushTargets[t]) \in E
    BY <1>1 DEF Entry, Published
  <1> HIDE DEF names, E
  <1>4. \A t \in Targets : queue[t] \in Seq(E)
    BY DEF E
  <1>5. queue' \in [Targets -> Seq(E)]
    BY <1>2, <1>3, <1>4, AppendProperties
  <1> QED
    BY <1>5 DEF E

\* A message that is handled comes under a rule set that was loaded, and nothing waits.
LEMMA HandledServed ==
    ASSUME RoutingInv, NEW m \in MessagesOf(file), NEW ev, Handles(m, ev)
    PROVE  /\ Served /\ alive /\ TelegramMessage(m)
           /\ queue \in [Targets -> Seq([fact: FactsOf(m, ev), target: Published])]
  <1>1. alive /\ event = "none" /\ m.chat \in rs.uniqueSources
    BY DEF Handles
  <1>2. Served
    BY <1>1, NothingServed DEF RoutingInv, RuleSetInv
  <1>3. TelegramMessage(m)
    BY <1>2, RoutingAssumption DEF Served
  <1>4. \A t \in Targets : queue[t] = <<>>
    BY <1>1 DEF RoutingInv, QueueInv
  <1>5. DOMAIN queue = Targets /\ queue = [t \in Targets |-> queue[t]]
    BY DEF RoutingInv, QueueInv
  <1> QED
    BY <1>1, <1>2, <1>3, <1>4, <1>5, EmptyQueues

\* What every handler keeps, given what it sends and submits.
LEMMA HandlerKeeps ==
    ASSUME RoutingInv, NEW m \in MessagesOf(file), NEW ev \in {"new", "edited", "deleted"},
           Handles(m, ev), alive' \in BOOLEAN, alive' \/ Fatal(file), RoutedAsTold',
           queue' \in [Targets -> Seq([fact: FactsOf(m, ev), target: Published])]
    PROVE  RoutingInv'
  <1>1. /\ UNCHANGED <<file, rs, loads, attempt>> /\ msg' = m /\ event' = ev
        /\ alive /\ Served
    BY HandledServed DEF Handles
  <1>2. PlainTypes'
    BY <1>1 DEF RoutingInv, PlainTypes
  <1>3. RuleSetInv'
    BY <1>1 DEF RoutingInv, RuleSetInv, Served, Published
  <1>4. QueueInv'
    <2>1. Entries' = [fact: FactsOf(m, ev), target: Published]
      BY <1>1 DEF Entries, Published
    <2>2. event' # "none"
      BY <1>1
    <2> QED BY <2>1, <2>2 DEF QueueInv
  <1>5. AttemptInv'
    BY <1>1 DEF RoutingInv, AttemptInv
  <1>6. OnlyFatalFilesKill'
    BY <1>1 DEF OnlyFatalFilesKill
  <1> QED
    BY <1>2, <1>3, <1>4, <1>5, <1>6 DEF RoutingInv

LEMMA NewMessageKeeps ==
    ASSUME RoutingInv, NEW m \in MessagesOf(file), OnNewMessage(m)
    PROVE  RoutingInv'
  <1> DEFINE E == [fact: FactsOf(m, "new"), target: Published]
             ids == {id \in RulesFor(m) : MayForward(rs.forwardRules[id], m)}
             text == GetFormattedText(m)
  <1>1. /\ Handles(m, "new") /\ Served /\ alive /\ TelegramMessage(m)
        /\ queue \in [Targets -> Seq(E)] /\ msg' = m /\ event' = "new" /\ file' = file
    <2>1. Handles(m, "new")
      BY DEF OnNewMessage
    <2> QED BY <2>1, HandledServed DEF Handles
  <1>2. ASSUME SystemMessage(m) \/ TextlessMessage(m)
        PROVE  queue' \in [Targets -> Seq(E)] /\ alive' = alive /\ text = Absent
    <2>1. CASE SystemMessage(m)
      BY <1>1, <2>1 DEF SystemMessage, IsSystemMessage, GetFormattedText
    <2>2. CASE TextlessMessage(m)
      <3>1. [v1 |-> "", v2 |-> v2SnapshotFor(m, "new")] \in FactsOf(m, "new")
        BY DEF FactsOf
      <3>2. RulesFor(m) \in SUBSET RulesFor(m)
        OBVIOUS
      <3>3. CASE m.content = NoContent
        BY <1>1, <2>2, <3>3 DEF TextlessMessage
      <3>4. CASE m.content # NoContent
        <4>1. SubmitAll(RulesFor(m), [v1 |-> "", v2 |-> v2SnapshotFor(m, "new")])
          BY <2>2, <3>4 DEF TextlessMessage
        <4>2. queue' \in [Targets -> Seq(E)]
          BY <1>1, <3>1, <3>2, <4>1, SubmitAllKeeps
        <4> QED BY <2>2, <4>2 DEF TextlessMessage
      <3> QED BY <3>3, <3>4
    <2> QED BY <1>2, <2>1, <2>2
  <1>3. ASSUME TextMessage(m)
        PROVE  /\ queue' \in [Targets -> Seq(E)]
               /\ alive' \in BOOLEAN
               /\ alive' \/ Fatal(file)
               /\ text # Absent
               /\ alive' => {View(s) : s \in routed'} =
                                UNION {Told(file.forwardRules[id], text.text) : id \in ToldRules(m)}
    <2>1. text # Absent
      BY <1>3 DEF TextMessage
    <2>2. m.chat \in Int
      BY <1>1 DEF TelegramMessage
    <2>3. ids = ToldRules(m)
      BY <1>1, <2>1, <2>2, RulesAsTold
    <2>4. \A id \in ids : id \in DOMAIN file.forwardRules
      BY <2>3 DEF ToldRules
    <2>5. CASE \E id \in ids : Evaluate(text.text, rs.forwardRules[id]) = "panic"
      <3>1. alive' = FALSE /\ UNCHANGED queue
        BY <1>3, <2>5 DEF TextMessage
      <3>2. Fatal(file)
        BY <1>1, <2>4, <2>5, FilterPanics
      <3> QED BY <1>1, <2>1, <3>1, <3>2
    <2>6. CASE ~ \E id \in ids : Evaluate(text.text, rs.forwardRules[id]) = "panic"
      <3>1. /\ routed' = UNION {Route(rs.forwardRules[id], m) : id \in ids}
            /\ SubmitAll(PassingRules(m), [v1 |-> "new", v2 |-> v2SnapshotFor(m, "new")])
            /\ UNCHANGED alive
        BY <1>3, <2>6 DEF TextMessage
      <3>2. [v1 |-> "new", v2 |-> v2SnapshotFor(m, "new")] \in FactsOf(m, "new")
        BY DEF FactsOf
      <3>3. PassingRules(m) \in SUBSET RulesFor(m)
        BY DEF PassingRules
      <3>4. queue' \in [Targets -> Seq(E)]
        BY <1>1, <3>1, <3>2, <3>3, SubmitAllKeeps
      <3>5. {View(s) : s \in UNION {Route(rs.forwardRules[id], m) : id \in ToldRules(m)}} =
                UNION {Told(file.forwardRules[id], text.text) : id \in ToldRules(m)}
        BY <1>1, <2>1, <2>2, <2>3, <2>6, TextAsTold
      <3> QED BY <1>1, <2>1, <2>3, <3>1, <3>4, <3>5
    <2> QED BY <2>5, <2>6
  <1>4. RoutedAsTold'
    <2>1. ASSUME alive', text # Absent
          PROVE  {View(s) : s \in routed'} =
                     UNION {Told(file.forwardRules[id], text.text) : id \in ToldRules(m)}
      BY <1>2, <1>3, <2>1 DEF OnNewMessage
    <2> HIDE DEF text
    <2>2. GetFormattedText(msg)' = text
      BY <1>1 DEF text
    <2>3. ToldAll' = UNION {Told(file.forwardRules[id], text.text) : id \in ToldRules(m)}
      BY <1>1, <2>2 DEF ToldAll, Told, ToldOptions, ToldFragments, ToldFor, ToldRules
    <2> QED BY <1>1, <2>1, <2>2, <2>3 DEF RoutedAsTold, View
  <1>5. alive \in BOOLEAN /\ alive
    BY <1>1 DEF RoutingInv, PlainTypes
  <1>6. queue' \in [Targets -> Seq(E)] /\ alive' \in BOOLEAN /\ (alive' \/ Fatal(file))
    <2>1. CASE SystemMessage(m) \/ TextlessMessage(m)
      BY <1>2, <1>5, <2>1
    <2>2. CASE TextMessage(m)
      BY <1>3, <2>2
    <2> QED BY <2>1, <2>2 DEF OnNewMessage
  <1> QED
    BY <1>1, <1>4, <1>6, HandlerKeeps

LEMMA EditedMessageKeeps ==
    ASSUME RoutingInv, NEW m \in MessagesOf(file), OnEditedMessage(m)
    PROVE  RoutingInv'
  <1> DEFINE E == [fact: FactsOf(m, "edited"), target: Published]
             v2 == v2SnapshotFor(m, "edited")
  <1>1. Handles(m, "edited") /\ UNCHANGED alive /\ event' = "edited"
    BY DEF OnEditedMessage, Handles
  <1>2. Served /\ alive /\ queue \in [Targets -> Seq(E)]
    BY <1>1, HandledServed
  <1>3. \A v1 \in {"", "edited"} : [v1 |-> v1, v2 |-> v2] \in FactsOf(m, "edited")
    BY DEF FactsOf
  <1>4. queue' \in [Targets -> Seq(E)]
    <2>1. \/ UNCHANGED queue
          \/ SubmitOnce(m, [v1 |-> "", v2 |-> v2]) \/ SubmitOnce(m, [v1 |-> "edited", v2 |-> v2])
      BY DEF OnEditedMessage
    <2> QED BY <1>2, <1>3, <2>1, SubmitOnceKeeps
  <1>5. RoutedAsTold'
    BY <1>1 DEF RoutedAsTold
  <1> QED
    BY <1>1, <1>2, <1>4, <1>5, HandlerKeeps

LEMMA DeletedMessagesKeep ==
    ASSUME RoutingInv, NEW m \in MessagesOf(file), OnDeletedMessages(m)
    PROVE  RoutingInv'
  <1> DEFINE E == [fact: FactsOf(m, "deleted"), target: Published]
  <1>1. Handles(m, "deleted") /\ UNCHANGED alive /\ event' = "deleted"
    BY DEF OnDeletedMessages, Handles
  <1>2. Served /\ alive /\ queue \in [Targets -> Seq(E)]
    BY <1>1, HandledServed
  <1>3. PICK c \in BOOLEAN :
            SubmitOnce(m, [v1 |-> "deleted", v2 |-> v2DeleteFor(m.chat, m.id, TRUE, c)])
    BY DEF OnDeletedMessages
  <1>4. [v1 |-> "deleted", v2 |-> v2DeleteFor(m.chat, m.id, TRUE, c)] \in FactsOf(m, "deleted")
    BY DEF FactsOf
  <1>5. queue' \in [Targets -> Seq(E)]
    BY <1>2, <1>3, <1>4, SubmitOnceKeeps
  <1>6. RoutedAsTold'
    BY <1>1 DEF RoutedAsTold
  <1> QED
    BY <1>1, <1>2, <1>5, <1>6, HandlerKeeps

\* An attempt is the record of its fields.
LEMMA AttemptFields ==
    ASSUME NEW a, AttemptOK(a)
    PROVE  /\ a = [at |-> a.at, fact |-> a.fact, version |-> a.version, hop |-> a.hop,
                   scheme |-> a.scheme, body |-> a.body, outcome |-> a.outcome]
           /\ a.at \in {"idle", "sent", "ended"} /\ a.version \in {0, 1, 2} /\ a.hop \in 0..3
           /\ a.scheme = "https" /\ a.outcome \in Outcome
  BY DEF AttemptOK

AttemptFieldNames == {"at", "fact", "version", "hop", "scheme", "body", "outcome"}

\* The attempts that follow one, field by field.
LEMMA EndedMade ==
    ASSUME NEW a, NEW at, NEW fact, NEW version, NEW hop, NEW scheme, NEW body, NEW outcome,
           a = [at |-> at, fact |-> fact, version |-> version, hop |-> hop, scheme |-> scheme,
                body |-> body, outcome |-> outcome], NEW final
    PROVE  Ended(a, final) = [at |-> "ended", fact |-> fact, version |-> version, hop |-> 0,
                              scheme |-> "https", body |-> NoPayload, outcome |-> final]
  <1> HIDE DEF NoPayload
  <1>1. /\ a.fact = fact /\ a.version = version
        /\ DOMAIN a = AttemptFieldNames
    BY DEF AttemptFieldNames
  <1>2. Ended(a, final) = [f \in AttemptFieldNames |->
            CASE f = "at" -> "ended" [] f = "fact" -> fact [] f = "version" -> version
              [] f = "hop" -> 0 [] f = "scheme" -> "https" [] f = "body" -> NoPayload
              [] f = "outcome" -> final]
    BY <1>1 DEF Ended, AttemptFieldNames
  <1> QED
    BY <1>2 DEF AttemptFieldNames

LEMMA RedirectMade ==
    ASSUME NEW a, NEW at, NEW fact, NEW version, NEW hop, NEW scheme, NEW body, NEW outcome,
           a = [at |-> at, fact |-> fact, version |-> version, hop |-> hop, scheme |-> scheme,
                body |-> body, outcome |-> outcome], NEW s, NEW b
    PROVE  Followed(a, s, b) =
               [at |-> at, fact |-> fact, version |-> version, hop |-> hop + 1, scheme |-> s,
                body |-> b, outcome |-> outcome]
  <1>1. /\ a.at = at /\ a.fact = fact /\ a.version = version /\ a.outcome = outcome
        /\ a.hop = hop /\ DOMAIN a = AttemptFieldNames
    BY DEF AttemptFieldNames
  <1>2. Followed(a, s, b) = [f \in AttemptFieldNames |->
            CASE f = "at" -> at [] f = "fact" -> fact [] f = "version" -> version
              [] f = "hop" -> hop + 1 [] f = "scheme" -> s [] f = "body" -> b
              [] f = "outcome" -> outcome]
    BY <1>1 DEF AttemptFieldNames, Followed
  <1> QED
    BY <1>2 DEF AttemptFieldNames

LEMMA TookMade ==
    ASSUME NEW t, NEW entry, NEW body
    PROVE  Took(t, entry, body) =
               [at |-> "idle", fact |-> entry.fact, version |-> entry.target.schemaVersion,
                hop |-> 0, scheme |-> "https", body |-> body, outcome |-> "open"]
  <1> HIDE DEF NoPayload, NoFact
  <1> DEFINE a == NoAttempt(t)
  <1>1. /\ a.at = "idle" /\ a.hop = 0 /\ a.scheme = "https" /\ a.outcome = "open"
        /\ DOMAIN a = AttemptFieldNames
    BY DEF AttemptFieldNames, NoAttempt
  <1>2. Took(t, entry, body) = [f \in AttemptFieldNames |->
            CASE f = "at" -> "idle" [] f = "fact" -> entry.fact
              [] f = "version" -> entry.target.schemaVersion
              [] f = "hop" -> 0 [] f = "scheme" -> "https" [] f = "body" -> body
              [] f = "outcome" -> "open"]
    <2>1. Took(t, entry, body) = [a EXCEPT !.fact = entry.fact, !.body = body,
                                           !.version = entry.target.schemaVersion]
      BY DEF Took
    <2> HIDE DEF a
    <2> QED BY <1>1, <2>1 DEF AttemptFieldNames
  <1> QED
    BY <1>2 DEF AttemptFieldNames

LEMMA AttemptMade ==
    ASSUME NEW at \in {"idle", "sent", "ended"}, NEW fact, NEW version \in {0, 1, 2},
           NEW hop \in 0..3, NEW body, NEW outcome \in Outcome,
           LET due == RenderPayload(fact, IF version = 2 THEN 2 ELSE 1) IN
           /\ at # "sent" => body = NoPayload
           /\ at = "sent" => due # NoPayload /\ (body = due \/ (body = NoPayload /\ hop > 0))
           /\ at = "ended" => (outcome = "unavailable" <=> due = NoPayload)
    PROVE  AttemptOK([at |-> at, fact |-> fact, version |-> version, hop |-> hop,
                      scheme |-> "https", body |-> body, outcome |-> outcome])
  <1> DEFINE a == [at |-> at, fact |-> fact, version |-> version, hop |-> hop,
                   scheme |-> "https", body |-> body, outcome |-> outcome]
  <1>1. /\ a.at = at /\ a.fact = fact /\ a.version = version /\ a.hop = hop
        /\ a.body = body /\ a.outcome = outcome
    OBVIOUS
  <1>2. a \in [at: {"idle", "sent", "ended"}, fact: {a.fact}, version: {0, 1, 2}, hop: 0..3,
               scheme: {"https"}, body: {a.body}, outcome: Outcome]
    OBVIOUS
  <1> HIDE DEF a
  <1>3. Due(a) = RenderPayload(fact, IF version = 2 THEN 2 ELSE 1)
    BY <1>1 DEF Due
  <1>4. AttemptOK(a)
    BY <1>1, <1>2, <1>3 DEF AttemptOK
  <1> QED
    BY <1>4 DEF a

LEMMA EndedOK ==
    ASSUME NEW a, AttemptOK(a), a.at = "sent", NEW outcome \in {"delivered", "failed"}
    PROVE  AttemptOK(Ended(a, outcome))
  <1>1. Ended(a, outcome) = [at |-> "ended", fact |-> a.fact, version |-> a.version, hop |-> 0,
                             scheme |-> "https", body |-> NoPayload, outcome |-> outcome]
    BY AttemptFields, EndedMade
  <1>2. RenderPayload(a.fact, IF a.version = 2 THEN 2 ELSE 1) # NoPayload
    BY DEF AttemptOK, Due
  <1>3. a.version \in {0, 1, 2} /\ outcome \in Outcome
    BY AttemptFields DEF Outcome
  <1> HIDE DEF NoPayload
  <1>4. AttemptOK([at |-> "ended", fact |-> a.fact, version |-> a.version, hop |-> 0,
                   scheme |-> "https", body |-> NoPayload, outcome |-> outcome])
    BY <1>2, <1>3, AttemptMade
  <1> QED
    BY <1>1, <1>4

\* A delivery step keeps what every attempt is.
LEMMA DeliverKeeps ==
    ASSUME RoutingInv, Deliver
    PROVE  RoutingInv'
  <1>1. UNCHANGED <<file, rs, alive, msg, event, routed, loads>>
    BY DEF Deliver, routeVars
  <1>2. PICK t \in Targets : Push(t) \/ Delivered(t) \/ Failed(t) \/ Redirect(t)
    BY DEF Deliver, SinkNext
  <1>3. /\ queue \in [Targets -> Seq(Entries)] /\ DOMAIN attempt = Targets
        /\ AttemptOK(attempt[t]) /\ MaxRedirects \in 0..3
    BY RoutingAssumption DEF RoutingInv, QueueInv, AttemptInv
  <1>4. ASSUME NEW b, attempt' = [attempt EXCEPT ![t] = b], AttemptOK(b)
        PROVE  AttemptInv'
    BY <1>4 DEF RoutingInv, AttemptInv
  <1>5. ASSUME NEW outcome \in {"delivered", "failed"}, Busy(t), End(t, outcome)
        PROVE  AttemptInv'
    <2>1. attempt' = [attempt EXCEPT ![t] = Ended(attempt[t], outcome)]
      BY <1>5 DEF End
    <2>2. AttemptOK(Ended(attempt[t], outcome))
      BY <1>3, <1>5, EndedOK DEF Busy
    <2> QED BY <1>4, <2>1, <2>2
  <1>6. ASSUME Push(t)
        PROVE  AttemptInv' /\ queue' \in [Targets -> Seq(Entries)]
    <2> DEFINE entry == Head(queue[t])
               body == RenderPayload(entry.fact, EffectiveSchemaVersion(entry.target))
               made(at, payload, outcome) ==
                   [at |-> at, fact |-> entry.fact, version |-> entry.target.schemaVersion,
                    hop |-> 0, scheme |-> "https", body |-> payload, outcome |-> outcome]
               next == IF body = NoPayload THEN made("ended", NoPayload, "unavailable")
                       ELSE made("sent", body, "open")
    <2>1. queue[t] \in Seq(Entries) /\ queue[t] # <<>>
      BY <1>3, <1>6 DEF Push
    <2>2. entry \in Entries /\ Tail(queue[t]) \in Seq(Entries)
      BY <2>1, HeadTailProperties
    <2>3. ~TargetRefused(entry.target)
      BY <2>2 DEF Entries, RoutingInv, RuleSetInv
    <2>4. /\ entry.target.schemaVersion \in {0, 1, 2}
          /\ body = RenderPayload(entry.fact, IF entry.target.schemaVersion = 2 THEN 2 ELSE 1)
      BY <2>3, ServedTargets
    <2>5. attempt' = [attempt EXCEPT ![t] = next] /\ queue' = [queue EXCEPT ![t] = Tail(queue[t])]
      <3> DEFINE took == Took(t, entry, body)
      <3> HIDE DEF entry, body
      <3>1. took = made("idle", body, "open")
        BY TookMade
      <3>2. /\ attempt' = [attempt EXCEPT ![t] =
                               IF body = NoPayload THEN Ended(took, "unavailable")
                               ELSE [took EXCEPT !.at = "sent"]]
            /\ queue' = [queue EXCEPT ![t] = Tail(queue[t])]
        BY <1>6 DEF Push, entry, body
      <3> HIDE DEF took
      <3>3. Ended(took, "unavailable") = made("ended", NoPayload, "unavailable")
        BY <3>1, EndedMade
      <3>4. [took EXCEPT !.at = "sent"] = made("sent", body, "open")
        BY <3>1
      <3> QED BY <3>2, <3>3, <3>4
    <2> HIDE DEF entry, body
    <2>6. AttemptOK(next)
      <3>1. "unavailable" \in Outcome /\ "open" \in Outcome
        BY DEF Outcome
      <3>2. body = NoPayload => AttemptOK(made("ended", NoPayload, "unavailable"))
        BY <2>4, <3>1, AttemptMade
      <3>3. body # NoPayload => AttemptOK(made("sent", body, "open"))
        BY <2>4, <3>1, AttemptMade
      <3> QED BY <3>2, <3>3
    <2>7. queue' \in [Targets -> Seq(Entries)]
      BY <1>3, <2>2, <2>5
    <2> QED BY <1>4, <2>5, <2>6, <2>7
  <1>7. ASSUME Redirect(t)
        PROVE  AttemptInv' /\ UNCHANGED queue
    <2> DEFINE a == attempt[t]
    <2>1. PICK scheme \in {"https", "http"}, body \in {a.body, NoPayload} :
              IF RefusesRedirect(t, scheme) THEN End(t, "failed")
              ELSE /\ attempt' = [attempt EXCEPT ![t] = Followed(@, scheme, body)]
                   /\ UNCHANGED queue
      BY <1>7 DEF Redirect
    <2>2. CASE RefusesRedirect(t, scheme)
      BY <1>5, <1>7, <2>1, <2>2 DEF Redirect, End
    <2>3. CASE ~RefusesRedirect(t, scheme)
      <3> DEFINE b == Followed(a, scheme, body)
      <3>1. a.hop + 1 <= 3 /\ a.hop \in 0..3 /\ scheme = "https"
        BY <1>3, <2>3 DEF RefusesRedirect, AttemptOK
      <3>2. AttemptOK(b)
        <4>0. b = [at |-> a.at, fact |-> a.fact, version |-> a.version, hop |-> a.hop + 1,
                   scheme |-> scheme, body |-> body, outcome |-> a.outcome]
          <5>1. AttemptOK(a)
            BY <1>3
          <5> HIDE DEF a
          <5> QED BY <5>1, AttemptFields, RedirectMade
        <4>1. b = [at |-> "sent", fact |-> a.fact, version |-> a.version, hop |-> a.hop + 1,
                   scheme |-> "https", body |-> body, outcome |-> a.outcome]
          BY <1>7, <3>1, <4>0 DEF Redirect, Busy
        <4>2. /\ RenderPayload(a.fact, IF a.version = 2 THEN 2 ELSE 1) # NoPayload
              /\ \/ body = RenderPayload(a.fact, IF a.version = 2 THEN 2 ELSE 1)
                 \/ body = NoPayload
          BY <1>3, <1>7 DEF AttemptOK, Due, Redirect, Busy
        <4>3. a.version \in {0, 1, 2} /\ a.outcome \in Outcome /\ a.hop + 1 \in 0..3 /\ a.hop + 1 > 0
          BY <1>3, <3>1, AttemptFields
        <4> HIDE DEF a
        <4> QED BY <4>1, <4>2, <4>3, AttemptMade
      <3>3. attempt' = [attempt EXCEPT ![t] = b]
        BY <2>1, <2>3
      <3> QED BY <1>4, <2>1, <2>3, <3>2, <3>3
    <2> QED BY <2>2, <2>3
  <1>8. AttemptInv' /\ queue' \in [Targets -> Seq(Entries)]
    <2>1. ASSUME Delivered(t) \/ Failed(t) PROVE AttemptInv' /\ UNCHANGED queue
      BY <1>5, <2>1 DEF Delivered, Failed, End
    <2> QED BY <1>2, <1>3, <1>6, <1>7, <2>1
  <1>9. QueueInv'
    <2>1. Entries' = Entries
      BY <1>1 DEF Entries, Published
    <2>2. ASSUME event = "none" PROVE UNCHANGED queue
      <3>1. ~Push(t)
        BY <2>2 DEF RoutingInv, QueueInv, Push
      <3> QED BY <1>2, <1>7, <3>1 DEF Delivered, Failed, End
    <2> QED BY <1>1, <1>8, <2>1, <2>2 DEF RoutingInv, QueueInv
  <1>10. PlainTypes' /\ RuleSetInv' /\ OnlyFatalFilesKill'
    BY <1>1 DEF RoutingInv, PlainTypes, RuleSetInv, Served, Published, OnlyFatalFilesKill
  <1>11. RoutedAsTold'
    <2>1. ToldAll' = ToldAll
      BY <1>1 DEF ToldAll, Told, ToldOptions, ToldFragments, ToldFor, ToldRules
    <2> QED BY <1>1, <2>1 DEF RoutingInv, RoutedAsTold
  <1> QED
    BY <1>8, <1>9, <1>10, <1>11 DEF RoutingInv

LEMMA RoutingStutter ==
    ASSUME RoutingInv, UNCHANGED vars
    PROVE  RoutingInv'
  <1>1. UNCHANGED <<file, rs, alive, msg, event, routed, loads, queue, attempt>>
    BY DEF vars, routeVars, sinkVars
  <1>2. Entries' = Entries
    BY <1>1 DEF Entries, Published
  <1>3. ToldAll' = ToldAll
    BY <1>1 DEF ToldAll, Told, ToldOptions, ToldFragments, ToldFor, ToldRules
  <1> QED
    BY <1>1, <1>2, <1>3 DEF RoutingInv, PlainTypes, RuleSetInv, Served, Published, QueueInv,
                            AttemptInv, OnlyFatalFilesKill, RoutedAsTold

\* The invariant of the routing is inductive: a handler runs under a rule set an accepted
\* file made (Load), routes by it and submits to its targets (SubmitV2), and an attempt
\* sends what its target was told (delivery.go).
THEOREM RoutingInvariant == Spec => []RoutingInv
  <1>1. RoutingInv /\ [Next]_vars => RoutingInv'
    BY LoadKeeps, NewMessageKeeps, EditedMessageKeeps, DeletedMessagesKeep, DeliverKeeps,
       RoutingStutter DEF Next
  <1> QED
    BY RoutingInit, <1>1, PTL DEF Spec

\* For every rules file and every message: a message with a text goes exactly where the
\* file says, by the rules of its chat, in the form and under the settings the file gives
\* (validate, transform and enrich of the rule set repository, Evaluate, processMessage).
THEOREM MessagesGoWhereTold == Spec => []RoutedAsTold
  <1>1. RoutingInv => RoutedAsTold
    BY DEF RoutingInv
  <1> QED
    BY RoutingInvariant, <1>1, PTL

\* For every rules file and every message: the engine ends by a panic only over an entry
\* without a body outside the push targets, or over a filter no text can be put to (Load
\* and Evaluate).
THEOREM NoOtherFileKills == Spec => []OnlyFatalFilesKill
  <1>1. RoutingInv => OnlyFatalFilesKill
    BY DEF RoutingInv
  <1> QED
    BY RoutingInvariant, <1>1, PTL

LEMMA WireOfInv == RoutingInv => WireIsTold
  <1> SUFFICES ASSUME RoutingInv PROVE WireIsTold
    OBVIOUS
  <1>1. SinkTypeOK
    <2>1. ASSUME NEW t \in Targets, NEW i \in DOMAIN queue[t] PROVE queue[t][i].target # Null
      <3>1. queue[t] \in Seq(Entries) /\ i \in 1..Len(queue[t])
        BY <2>1 DEF RoutingInv, QueueInv
      <3>2. queue[t][i] \in Entries
        BY <3>1, ElementOfSeq
      <3>3. ~TargetRefused(queue[t][i].target)
        BY <3>2 DEF Entries, RoutingInv, RuleSetInv
      <3> QED BY <3>3, ServedTargets
    <2>2. ASSUME NEW t \in Targets
          PROVE  LET a == attempt[t] IN
                 /\ a.at \in {"idle", "sent", "ended"} /\ a.outcome \in Outcome
                 /\ a.scheme \in {"https", "http"} /\ a.hop \in Nat
                 /\ a.body.version \in {0, 1, 2}
      <3> DEFINE a == attempt[t]
      <3>1. AttemptOK(a)
        BY DEF RoutingInv, AttemptInv
      <3>2. a.body = NoPayload \/ a.body = Due(a)
        BY <3>1 DEF AttemptOK
      <3>3. Due(a) = NoPayload \/ Due(a).version \in {1, 2}
        BY RenderedPayload DEF Due
      <3>4. NoPayload.version = 0
        BY RenderedPayload
      <3> QED BY <3>1, <3>2, <3>3, <3>4 DEF AttemptOK
    <2> QED BY <2>1, <2>2 DEF SinkTypeOK
  <1>2. TypeOK
    BY <1>1 DEF TypeOK, RoutingInv, PlainTypes, RuleSetInv
  <1>3. ASSUME NEW t \in Targets
        PROVE  LET a == attempt[t]
                   told == IF a.version = 2 THEN 2 ELSE 1
                   has == IF told = 2 THEN V2(a.fact) # NoPayload ELSE a.fact.v1 # ""
               IN  /\ a.at = "sent" => /\ a.scheme = "https" /\ a.hop <= 3 /\ has
                                       /\ a.body.version = told \/ (a.body = NoPayload /\ a.hop > 0)
                                       /\ a.body.version = 2 => KeepsSchema(a.body)
                   /\ a.at = "ended" => (a.outcome = "unavailable" <=> ~has)
    <2> DEFINE a == attempt[t]
               told == IF a.version = 2 THEN 2 ELSE 1
               has == IF told = 2 THEN V2(a.fact) # NoPayload ELSE a.fact.v1 # ""
    <2>1. AttemptOK(a)
      BY DEF RoutingInv, AttemptInv
    <2> HIDE DEF a
    <2>2. Due(a) # NoPayload <=> has
      BY RenderedPayload DEF Due
    <2>3. /\ Due(a) # NoPayload => Due(a).version = told
          /\ (Due(a) # NoPayload /\ told = 2) => KeepsSchema(Due(a))
          /\ NoPayload.version = 0
      BY RenderedPayload DEF Due
    <2> HIDE DEF told, has
    <2>4. a.at = "ended" => (a.outcome = "unavailable" <=> ~has)
      BY <2>1, <2>2 DEF AttemptOK
    <2>5. a.at = "sent" => /\ a.scheme = "https" /\ a.hop <= 3 /\ has
                           /\ a.body = Due(a) \/ (a.body = NoPayload /\ a.hop > 0)
      BY <2>1, <2>2 DEF AttemptOK
    <2>6. a.at = "sent" => /\ a.body.version = told \/ (a.body = NoPayload /\ a.hop > 0)
                           /\ a.body.version = 2 => KeepsSchema(a.body)
      BY <2>2, <2>3, <2>5
    <2> QED BY <2>4, <2>5, <2>6 DEF a, told, has
  <1> QED
    BY <1>2, <1>3 DEF WireIsTold

\* For every rules file and every message: an attempt has on the wire what its target was
\* told to send, with the keys of the frozen v2 contract, over https, after no more
\* redirects than the policy allows, and nothing only for want of that representation
\* (RenderPayload, MarshalNotification, CheckRedirect).
THEOREM TargetsGetWhatTold == Spec => []WireIsTold
  <1> QED
    BY RoutingInvariant, WireOfInv, PTL

(***************************************************************************)
(* Projection and validation agree                                         *)
(***************************************************************************)
LEMMA MarshalsValid ==
    ASSUME NEW n
    PROVE  MarshalNotification(n) # NoPayload <=> validateNotification(n)
  <1>1. NoPayload.version = 0
    BY DEF NoPayload
  <1>2. validateNotification(n) => MarshalNotification(n).version = 2
    BY DEF MarshalNotification
  <1>3. ~validateNotification(n) => MarshalNotification(n) = NoPayload
    BY DEF MarshalNotification
  <1>4. 2 # 0
    OBVIOUS
  <1> HIDE DEF NoPayload
  <1> QED
    BY <1>1, <1>2, <1>3, <1>4, Zenon

\* What is left of a string that may be out of bounds.
LEMMA EmptyOrBounded ==
    ASSUME NEW s
    PROVE  /\ OrEmpty(s) = "" \/ (OrEmpty(s) = s /\ ValidateDiscriminator(s))
           /\ ValidateBoundedString(OrEmpty(s)) <=> ValidateBoundedString(s)
  BY DEF OrEmpty, ValidateBoundedString, ValidateDiscriminator

LEMMA SenderValid ==
    ASSUME NEW s, SenderHasId(s)
    PROVE  validateSender(v2SenderFor(s))
  BY DEF SenderHasId, v2SenderFor, validateSender

LEMMA ContentValid ==
    ASSUME NEW c, TelegramContent(c)
    PROVE  validateContent(v2ContentFor(c))
  <1> DEFINE n == v2ContentFor(c)
  <1>1. \A type \in pinnedContentTypes \cup {UnknownContentType} : ValidateDiscriminator(type)
    BY RoutingAssumption DEF ValidateDiscriminator
  <1>2. CASE c = NoContent
    <2>1. n.type = UnknownContentType /\ n.sourceType = "" /\ n.text = Absent
      BY <1>2 DEF v2ContentFor
    <2> HIDE DEF n
    <2>2. validateText(n.text)
      BY <2>1 DEF validateText
    <2>3. validateContent(n)
      BY <1>1, <2>1, <2>2 DEF validateContent
    <2> QED BY <2>3 DEF n
  <1>3. CASE c # NoContent
    <2>1. /\ n.type = IF c.type \in pinnedContentTypes THEN c.type ELSE UnknownContentType
          /\ n.sourceType = IF c.type \in pinnedContentTypes THEN "" ELSE OrEmpty(c.type)
          /\ n.text = IF c.type \in TextTypes THEN v2FormattedTextFor(c.text) ELSE Absent
      BY <1>3 DEF v2ContentFor
    <2> HIDE DEF n
    <2>2. ValidateDiscriminator(n.type)
      BY <1>1, <2>1
    <2>3. \/ n.sourceType = ""
          \/ n.type = UnknownContentType /\ ValidateDiscriminator(n.sourceType)
      BY <2>1, EmptyOrBounded
    <2>4. validateText(n.text)
      <3>1. CASE c.type \notin TextTypes \/ c.text = Absent
        <4>1. n.text = Absent
          BY <2>1, <3>1 DEF v2FormattedTextFor
        <4> QED BY <4>1 DEF validateText
      <3>2. CASE c.type \in TextTypes /\ c.text # Absent
        <4>1. n.text.entities = {e \in Range(c.text.entities) : ValidateDiscriminator(e.type.kind)}
          <5>1. n.text = v2FormattedTextFor(c.text)
            BY <2>1, <3>2
          <5>2. v2FormattedTextFor(c.text).entities =
                    {e \in Range(c.text.entities) : ValidateDiscriminator(e.type.kind)}
            BY <3>2 DEF v2FormattedTextFor
          <5> QED BY <5>1, <5>2
        <4>2. \A e \in Range(c.text.entities) : e.offset >= 0 /\ e.length >= 0
          BY <1>3, <3>2 DEF TelegramContent
        <4> QED BY <4>1, <4>2 DEF validateText
      <3> QED BY <3>1, <3>2
    <2>5. validateContent(n)
      BY <2>2, <2>3, <2>4 DEF validateContent
    <2> QED BY <2>5 DEF n
  <1> QED
    BY <1>2, <1>3

LEMMA ReplyValid ==
    ASSUME NEW r, r # Absent => r \in [type: {r.type}, chat: Int, message: Nat]
    PROVE  LET n == v2ReplyFor(r) IN
           n = Absent \/ (ValidateDiscriminator(n.type) /\ n.message >= 0)
  <1>1. CASE r = Absent \/ ~ValidateDiscriminator(r.type)
    BY <1>1 DEF v2ReplyFor
  <1>2. CASE r # Absent /\ ValidateDiscriminator(r.type) /\ r.type = "messageReplyToMessage"
    BY <1>2 DEF v2ReplyFor
  <1>3. CASE r # Absent /\ ValidateDiscriminator(r.type) /\ r.type # "messageReplyToMessage"
    <2> DEFINE n == [r EXCEPT !.chat = 0, !.message = 0]
    <2>1. v2ReplyFor(r) = n
      BY <1>3 DEF v2ReplyFor
    <2>2. n.type = r.type /\ n.message = 0
      BY <1>3
    <2> QED BY <1>3, <2>1, <2>2
  <1> QED
    BY <1>1, <1>2, <1>3

\* The one thing that is projected but not valid is a forward with an odd source.
LEMMA ForwardValid ==
    ASSUME NEW f, TelegramForward(f), v2ForwardFor(f) # Absent, f # Absent,
           f.source # Absent => v2SourceFor(f.source) # Absent
    PROVE  validateForward(v2ForwardFor(f)) <=>
               \/ f.source = Absent
               \/ /\ f.source.chat # 0 /\ f.source.message # 0
                  /\ ValidateBoundedString(f.source.senderName)
  <1> DEFINE n == v2ForwardFor(f)
  <1>1. /\ n.origin = v2OriginFor(f.origin) /\ n.source = v2SourceFor(f.source)
        /\ n.announcement = OrEmpty(f.announcement)
    BY DEF v2ForwardFor
  <1> HIDE DEF n
  <1>2. n.announcement = "" \/ ValidateDiscriminator(n.announcement)
    BY <1>1, EmptyOrBounded
  <1>3. n.origin = Absent \/ ValidateDiscriminator(n.origin.type)
    <2>1. CASE f.origin = Absent \/ ~ValidateDiscriminator(f.origin.type)
      BY <1>1, <2>1 DEF v2OriginFor
    <2>2. CASE f.origin # Absent /\ ValidateDiscriminator(f.origin.type)
      <3>1. DOMAIN f.origin = {"type", "senderName", "ids"}
        BY <2>2 DEF TelegramForward
      <3>2. v2OriginFor(f.origin).type = f.origin.type
        BY <2>2, <3>1 DEF v2OriginFor
      <3> QED BY <1>1, <2>2, <3>2
    <2> QED BY <2>1, <2>2
  <1>4. CASE f.source = Absent
    <2>1. n.source = Absent
      BY <1>1, <1>4 DEF v2SourceFor
    <2>2. validateSource(n.source)
      BY <2>1 DEF validateSource
    <2> QED BY <1>2, <1>3, <1>4, <2>2 DEF validateForward, n
  <1>5. CASE f.source # Absent
    <2>1. /\ n.source # Absent /\ n.source.chat = f.source.chat
          /\ n.source.message = f.source.message
          /\ n.source.sender = v2SenderFor(f.source.sender)
          /\ n.source.senderName = OrEmpty(f.source.senderName)
      BY <1>1, <1>5 DEF v2SourceFor
    <2>2. validateSender(n.source.sender)
      BY <1>5, <2>1, SenderValid DEF TelegramForward
    <2>3. ValidateBoundedString(n.source.senderName) <=> ValidateBoundedString(f.source.senderName)
      BY <2>1, EmptyOrBounded
    <2>4. validateSource(n.source) <=>
              /\ f.source.chat # 0 /\ f.source.message # 0
              /\ ValidateBoundedString(f.source.senderName)
      BY <2>1, <2>2, <2>3 DEF validateSource
    <2> QED BY <1>2, <1>3, <1>5, <2>4 DEF validateForward, n
  <1> QED
    BY <1>4, <1>5

LEMMA SnapshotValid ==
    ASSUME NEW f \in Files, NEW m \in MessagesOf(f), NEW ev \in {"new", "edited"}
    PROVE  validateNotification(v2SnapshotFor(m, ev)) <=> ~OddForward(m)
  <1> DEFINE n == v2SnapshotFor(m, ev)
  <1>1. TelegramMessage(m) /\ Absent \notin Nat /\ v2ContentFor(m.content) # Absent
    BY RoutingAssumption DEF AbsentIsNothing
  <1>2. m.forward # Absent =>
            /\ v2ForwardFor(m.forward) # Absent
            /\ m.forward.source # Absent => v2SourceFor(m.forward.source) # Absent
    BY RoutingAssumption DEF AbsentIsNothing
  <1>3. m.chat # 0 /\ m.id # 0 /\ m.date \in Nat \ {0}
    BY <1>1 DEF TelegramMessage
  <1>4. /\ n.event = ev /\ n.chat = m.chat /\ n.message = m.id
        /\ n.sender = v2SenderFor(m.sender) /\ n.sentAt = unixToTime(m.date)
        /\ n.content = v2ContentFor(m.content) /\ n.replyTo = v2ReplyFor(m.replyTo)
        /\ n.context = m.context /\ n.forward = v2ForwardFor(m.forward) /\ n.delete = Absent
    BY <1>3 DEF v2SnapshotFor
  <1> HIDE DEF n
  <1>5. n.sentAt # Absent
    BY <1>1, <1>3, <1>4 DEF unixToTime
  <1>6. validateSender(n.sender) /\ validateContent(n.content)
    BY <1>1, <1>4, SenderValid, ContentValid DEF TelegramMessage
  <1>7. /\ \A k \in ContextIds \ {"message_thread_id"} : n.context[k] >= 0
        /\ n.replyTo = Absent \/ (ValidateDiscriminator(n.replyTo.type) /\ n.replyTo.message >= 0)
    BY <1>1, <1>4, ReplyValid DEF TelegramMessage
  <1>8. (n.forward = Absent \/ validateForward(n.forward)) <=> ~OddForward(m)
    <2>1. CASE m.forward = Absent
      BY <1>4, <2>1 DEF v2ForwardFor, OddForward
    <2>2. CASE m.forward # Absent
      <3>1. TelegramForward(m.forward)
        BY <1>1, <2>2 DEF TelegramMessage
      <3> QED BY <1>2, <1>4, <2>2, <3>1, ForwardValid DEF OddForward
    <2> QED BY <2>1, <2>2
  <1>9. validateNotification(n) <=> ~OddForward(m)
    BY <1>1, <1>3, <1>4, <1>5, <1>6, <1>7, <1>8 DEF validateNotification, validateContext
  <1> QED
    BY <1>9 DEF n

LEMMA DeletionValid ==
    ASSUME NEW f \in Files, NEW m \in MessagesOf(f), NEW c \in BOOLEAN
    PROVE  validateNotification(v2DeleteFor(m.chat, m.id, TRUE, c))
  <1> DEFINE n == v2DeleteFor(m.chat, m.id, TRUE, c)
  <1>1. m.chat # 0 /\ m.id # 0
    BY RoutingAssumption DEF TelegramMessage
  <1>2. /\ n.event = "deleted" /\ n.chat = m.chat /\ n.message = m.id /\ n.sender = Absent
        /\ n.sentAt = Absent /\ n.editedAt = Absent /\ n.content = Absent /\ n.replyTo = Absent
        /\ n.context = NoContext /\ n.notes = NoNotes /\ n.sensitive = FALSE /\ n.forward = Absent
        /\ n.delete = [isPermanent |-> TRUE, fromCache |-> c]
    BY <1>1 DEF v2DeleteFor
  <1>3. n.delete # Absent
    <2>1. Absent \notin [isPermanent: BOOLEAN, fromCache: BOOLEAN]
      BY RoutingAssumption DEF AbsentIsNothing
    <2>2. [isPermanent |-> TRUE, fromCache |-> c] \in [isPermanent: BOOLEAN, fromCache: BOOLEAN]
      OBVIOUS
    <2> HIDE DEF n
    <2> QED BY <1>2, <2>1, <2>2, Zenon
  <1> HIDE DEF n
  <1>4. CarriesNoSnapshot(n) /\ validateSender(n.sender)
    BY <1>2 DEF CarriesNoSnapshot, validateSender
  <1>5. validateContext(n)
    BY <1>2 DEF validateContext, NoContext
  <1>6. validateNotification(n)
    BY <1>1, <1>2, <1>3, <1>4, <1>5 DEF validateNotification
  <1> QED
    BY <1>6 DEF n

\* For every rules file and every message: whatever it contains, a message is fit for a v2
\* target but for a forward with an odd source, and a deletion always is (projection_v2.go
\* and validate.go agree on all else).
THEOREM OthersAreFitForV2 == Spec => []OnlyOddForwardsFail
  <1>1. ASSUME RoutingInv PROVE OnlyOddForwardsFail
    <2>1. SUFFICES ASSUME event # "none", NEW n \in Projected
                   PROVE  MarshalNotification(n) # NoPayload <=> (event = "deleted" \/ ~OddForward(msg))
      BY DEF OnlyOddForwardsFail
    <2>2. PICK t \in Targets : \E entry \in Range(queue[t]) : n = entry.fact.v2
      BY <2>1 DEF Projected
    <2>3. PICK entry \in Range(queue[t]) : n = entry.fact.v2
      BY <2>2
    <2>4. entry \in Entries
      <3>1. queue[t] \in Seq(Entries)
        BY <1>1 DEF RoutingInv, QueueInv
      <3> QED BY <3>1, ElementOfSeq DEF Range
    <2>5. entry.fact \in FactsOf(msg, event)
      BY <2>4 DEF Entries
    <2>6. /\ event \in {"new", "edited", "deleted"}
          /\ file \in Files /\ msg \in MessagesOf(file)
      BY <1>1, <2>1 DEF RoutingInv, PlainTypes, RuleSetInv, Served
    <2>7. CASE event = "deleted"
      <3>1. \E c \in BOOLEAN : n = v2DeleteFor(msg.chat, msg.id, TRUE, c)
        <4>1. PICK c \in BOOLEAN :
                  entry.fact = [v1 |-> "deleted", v2 |-> v2DeleteFor(msg.chat, msg.id, TRUE, c)]
          BY <2>5, <2>7 DEF FactsOf
        <4>2. entry.fact.v2 = v2DeleteFor(msg.chat, msg.id, TRUE, c)
          BY <4>1
        <4> QED BY <2>3, <4>2
      <3> QED BY <2>6, <2>7, <3>1, DeletionValid, MarshalsValid
    <2>8. CASE event # "deleted"
      <3>1. n = v2SnapshotFor(msg, event)
        <4>1. PICK named : entry.fact = [v1 |-> named, v2 |-> v2SnapshotFor(msg, event)]
          BY <2>5, <2>8 DEF FactsOf
        <4>2. entry.fact.v2 = v2SnapshotFor(msg, event)
          BY <4>1
        <4> QED BY <2>3, <4>2
      <3> QED BY <2>6, <2>8, <3>1, SnapshotValid, MarshalsValid
    <2> QED BY <2>7, <2>8
  <1> QED
    BY RoutingInvariant, <1>1, PTL
================================================================================
