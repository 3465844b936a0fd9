------------------------------ MODULE Facade_proofs ------------------------------
(***************************************************************************)
(* Proofs about the authorization, for any posted inputs, rejections and   *)
(* failures, and about the facade, for any requests, menus and goroutines. *)
(***************************************************************************)
EXTENDS Facade, FiniteSetTheorems, TLAPS

LOCAL INSTANCE SequencesExt

(***************************************************************************)
(* The authorization                                                       *)
(***************************************************************************)

Nothing == [k \in Kinds |-> <<>>]

NotAsked == term.at \notin {"prompt", "put"}

\* TDLib asks for one thing at a time, and what it asks for is in one place: on its way to
\* the service, with it, or answered and on its way back.  A service that has stopped may
\* leave it anywhere.
Told  == events \in {<<td>>, <<"closed", td>>} /\ run.at \in {"events", "done"} /\ given = Nothing
Taken == /\ events = <<>> /\ run.at \in {"input", "submit"} /\ run.state = td /\ given = Nothing
         /\ (run.at = "submit" => run.input \in Kinds)
Given == /\ events = <<>> /\ run.at \in {"events", "done"}
         /\ \E x \in Kinds \cup {"none"} :
              given = IF x = "none" THEN Nothing ELSE [Nothing EXCEPT ![td] = <<x>>]

FlowInv ==
    /\ td \in Kinds => Told \/ Taken \/ Given
    /\ td \notin Kinds => run.at \in {"events", "done"} /\ given = Nothing
    /\ td = "start" => events = <<>>
    /\ td \in {"closed", "ready"} => events \in {<<>>, <<td>>}

\* Where the terminal has a question: told to its listener, shown, being answered, or put
\* into the channel.
Silent == calls = [s \in States |-> 0]
Asking(q) ==
    \/ Silent /\ shown = <<>> /\ inputs = <<>> /\ (NotAsked \/ term.state = q)
    \/ /\ NotAsked
       /\ \/ calls = [[s \in States |-> 0] EXCEPT ![q] = 1] /\ shown = <<>> /\ inputs = <<>>
          \/ Silent /\ shown = <<q>> /\ inputs = <<>>
          \/ Silent /\ shown = <<>> /\ inputs = <<q>>

\* As long as nothing is posted, no question is about but the one the service waits for.
NoPosts == \A p \in Posts : post[p] = "idle"
Asked ==
    /\ run.at \in {"events", "submit"} => Silent /\ shown = <<>> /\ inputs = <<>> /\ NotAsked
    /\ run.at = "input" => Asking(run.state)
    /\ run.at = "submit" => run.input = run.state
AskInv == NoPosts => Asked

\* The terminal asks for what TDLib can ask for.
PromptInv == NotAsked \/ term.state \in Kinds

AuthInv == TypeOK /\ FlowInv /\ PromptInv /\ AskInv

LEMMA InitInv == Init => AuthInv
  <1> SUFFICES ASSUME Init PROVE AuthInv
    OBVIOUS
  <1> USE AuthAssumption
  <1>1. TypeOK
    <2>1. /\ given \in [Kinds -> Seq(Kinds)] /\ events \in Seq(States) /\ Len(events) <= 10
          /\ inputs \in Seq(Kinds) /\ Len(inputs) <= 1 /\ shown \in Seq(States) /\ Len(shown) <= 10
      BY DEF Init
    <2>2. calls \in [States -> Nat] /\ rejects \in 0..MaxRejects /\ failures \in 0..MaxFailures
      BY DEF Init
    <2>3. subscribed \in BOOLEAN
      BY DEF Init
    <2>4. run \in [at: {"events", "input", "submit", "done"}, state: States \cup {"start"},
                   input: Kinds \cup {"none"}]
      BY DEF Init
    <2>5. term \in [at: {"off", "select", "prompt", "put", "line", "gone"}, state: States \cup {"start"}]
      BY DEF Init
    <2> QED
      BY <2>1, <2>2, <2>3, <2>4, <2>5 DEF Init, TypeOK
  <1>2. FlowInv
    BY DEF Init, FlowInv, Nothing, Kinds
  <1>3. PromptInv
    BY DEF Init, PromptInv, NotAsked
  <1>4. AskInv
    BY DEF Init, AskInv, Asked, Silent, NotAsked
  <1> QED
    BY <1>1, <1>2, <1>3, <1>4 DEF AuthInv

(***************************************************************************)
(* Types                                                                   *)
(***************************************************************************)
RunRecord  == [at: {"events", "input", "submit", "done"}, state: States \cup {"start"},
               input: Kinds \cup {"none"}]
TermRecord == [at: {"off", "select", "prompt", "put", "line", "gone"}, state: States \cup {"start"}]

TdTyped ==
    /\ td \in States \cup {"start"} /\ given \in [Kinds -> Seq(Kinds)]
    /\ events \in Seq(States) /\ Len(events) <= 10 /\ rejects \in 0..MaxRejects
RunTyped == run \in RunRecord /\ inputs \in Seq(Kinds) /\ Len(inputs) <= 1
TermTyped ==
    /\ calls \in [States -> Nat] /\ shown \in Seq(States) /\ Len(shown) <= 10 /\ term \in TermRecord
    /\ failures \in 0..MaxFailures /\ subscribed \in BOOLEAN
RestTyped ==
    /\ post \in [Posts -> {"idle", "put", "accepted"}]
    /\ clientDone \in BOOLEAN /\ stopping \in BOOLEAN

LEMMA TypeIsParts == TypeOK <=> TdTyped /\ RunTyped /\ TermTyped /\ RestTyped
  BY DEF TypeOK, TdTyped, RunTyped, TermTyped, RestTyped, RunRecord, TermRecord

\* A queue of states, of a bounded length, stays one.
LEMMA AppendTyped ==
    ASSUME NEW q \in Seq(States), NEW s \in States, NEW n \in Nat, Len(q) < n
    PROVE  Append(q, s) \in Seq(States) /\ Len(Append(q, s)) <= n
  OBVIOUS

LEMMA TailTyped ==
    ASSUME NEW q \in Seq(States), q # <<>>, NEW n \in Nat, Len(q) <= n
    PROVE  Head(q) \in States /\ Tail(q) \in Seq(States) /\ Len(Tail(q)) <= n
  OBVIOUS

LEMMA AfterTyped ==
    ASSUME NEW s \in {"start", "closed"} \cup Kinds
    PROVE  After(s) \subseteq States
  BY DEF After, Kinds, States

LEMMA TdTypedStep == AuthInv /\ [Next]_vars => TdTyped'
  <1> SUFFICES ASSUME AuthInv, [Next]_vars PROVE TdTyped'
    OBVIOUS
  <1>1. TdTyped /\ RunTyped /\ FlowInv
    BY TypeIsParts DEF AuthInv
  <1> USE AuthAssumption
  <1>2. ASSUME NEW s \in States, Enter(s), UNCHANGED rejects,
               given' \in [Kinds -> Seq(Kinds)]
        PROVE  TdTyped'
    <2>1. UNCHANGED events \/ (Len(events) < 10 /\ events' = Append(events, s))
      BY <1>2 DEF Enter, Relay
    <2>2. events' \in Seq(States) /\ Len(events') <= 10
      <3>1. CASE UNCHANGED events
        BY <1>1, <3>1 DEF TdTyped
      <3>2. CASE Len(events) < 10 /\ events' = Append(events, s)
        BY <1>1, <1>2, <3>2, AppendTyped DEF TdTyped
      <3> QED
        BY <2>1, <3>1, <3>2
    <2>3. td' \in States
      BY <1>2 DEF Enter
    <2> QED
      BY <1>1, <1>2, <2>2, <2>3 DEF TdTyped
  <1>3. CASE Begin
    <2>1. PICK s \in States : Enter(s)
      BY <1>3, AfterTyped DEF Begin
    <2>2. UNCHANGED <<given, rejects>>
      BY <1>3 DEF Begin
    <2> QED
      BY <1>1, <1>2, <2>1, <2>2 DEF TdTyped
  <1>4. CASE Accept
    <2>1. PICK s \in States : Enter(s)
      BY <1>4, AfterTyped DEF Accept
    <2>2. UNCHANGED rejects /\ td \in Kinds /\ given[td] # <<>> /\ given' = [given EXCEPT ![td] = Tail(@)]
      BY <1>4 DEF Accept
    <2>3. given' \in [Kinds -> Seq(Kinds)]
      BY <1>1, <2>2 DEF TdTyped
    <2> QED
      BY <1>2, <2>1, <2>2, <2>3
  <1>5. CASE Reject
    <2>1. /\ td \in Kinds /\ given[td] # <<>> /\ given' = [given EXCEPT ![td] = Tail(@)]
          /\ Relay(td) /\ UNCHANGED td
      BY <1>5 DEF Reject
    <2>2. rejects' \in 0..MaxRejects
      BY <1>1, <1>5 DEF Reject, TdTyped
    <2>3. given' \in [Kinds -> Seq(Kinds)]
      BY <1>1, <2>1 DEF TdTyped
    <2>4. td \in States
      BY <2>1 DEF States
    <2> QED
      BY <1>1, <2>1, <2>2, <2>3, <2>4, AppendTyped DEF Relay, TdTyped
  <1>6. CASE RunEvent
    <2>1. events # <<>> /\ events' = Tail(events) /\ UNCHANGED <<td, given, rejects>>
      BY <1>6 DEF RunEvent, tdVars
    <2> QED
      BY <1>1, <2>1 DEF TdTyped
  <1>7. CASE RunSubmit
    <2>1. /\ run.at = "submit" /\ UNCHANGED <<td, rejects, events>>
          /\ IF run.state \in Kinds THEN Submit(run.state, run.input) ELSE UNCHANGED given
      BY <1>7 DEF RunSubmit
    <2>2. run.input \in Kinds
      BY <1>1, <2>1 DEF FlowInv, Told, Taken, Given
    <2>3. given' \in [Kinds -> Seq(Kinds)]
      <3>1. <<run.input>> \in Seq(Kinds)
        BY <2>2
      <3>2. given' = given \/ given' = [given EXCEPT ![run.state] = <<run.input>>]
        BY <2>1 DEF Submit
      <3> QED
        BY <1>1, <3>1, <3>2 DEF TdTyped
    <2> QED
      BY <1>1, <2>1, <2>3 DEF TdTyped
  <1>8. CASE UNCHANGED <<td, given, events, rejects>>
    BY <1>1, <1>8 DEF TdTyped
  <1>9. CASE UNCHANGED vars
    BY <1>8, <1>9 DEF vars, tdVars
  <1>10. CASE ClientDone \/ RunInput \/ RunStop \/ Listener \/ Terminal \/ Http \/ Signal
    BY <1>8, <1>10 DEF ClientDone, RunInput, RunStop, Listener, Hear, Terminal, Subscribe, ProcessAuth,
                  ReadPassword, PutInput, PromptLine, ReadLine, TermStop, Http, Post, PostInput, Signal,
                  tdVars
  <1> QED
    BY <1>3, <1>4, <1>5, <1>6, <1>7, <1>9, <1>10 DEF Next, Tdlib, Service

LEMMA RunTypedStep == AuthInv /\ [Next]_vars => RunTyped'
  <1> SUFFICES ASSUME AuthInv, [Next]_vars PROVE RunTyped'
    OBVIOUS
  <1>1. RunTyped /\ TdTyped /\ TermTyped
    BY TypeIsParts DEF AuthInv
  <1>2. CASE RunEvent
    <2>1. /\ Head(events) \in States
          /\ \/ UNCHANGED run
             \/ run' = [at |-> IF Head(events) = "ready" THEN "done" ELSE "input", state |-> Head(events),
                        input |-> "none"]
          /\ UNCHANGED inputs
      BY <1>1, <1>2 DEF RunEvent, TdTyped
    <2> QED
      BY <1>1, <2>1 DEF RunTyped, RunRecord
  <1>3. CASE RunInput
    <2>1. inputs # <<>> /\ inputs' = Tail(inputs) /\ run' = [run EXCEPT !.at = "submit", !.input = Head(inputs)]
      BY <1>3 DEF RunInput
    <2>2. Head(inputs) \in Kinds /\ Tail(inputs) \in Seq(Kinds) /\ Len(Tail(inputs)) <= 1
      BY <1>1, <2>1 DEF RunTyped
    <2>3. run' \in RunRecord
      BY <1>1, <2>1, <2>2 DEF RunTyped, RunRecord
    <2> QED
      BY <2>1, <2>2, <2>3 DEF RunTyped
  <1>4. CASE RunSubmit \/ RunStop
    <2>1. UNCHANGED inputs /\ (run' = [run EXCEPT !.at = "events", !.input = "none"]
                               \/ run' = [run EXCEPT !.at = "done"])
      BY <1>4 DEF RunSubmit, RunStop
    <2> QED
      BY <1>1, <2>1 DEF RunTyped, RunRecord
  <1>5. ASSUME NEW k \in Kinds, inputs' = <<k>>, UNCHANGED run
        PROVE  RunTyped'
    BY <1>1, <1>5 DEF RunTyped
  <1>6. CASE UNCHANGED <<run, inputs>>
    BY <1>1, <1>6 DEF RunTyped
  <1>7. CASE PutInput
    <2>1. term.state \in Kinds
      BY <1>7 DEF AuthInv, PromptInv, NotAsked, PutInput
    <2> QED
      BY <1>5, <1>7, <2>1 DEF PutInput
  <1>8. ASSUME NEW p \in Posts, PostInput(p) PROVE RunTyped'
    BY <1>5, <1>8, AuthAssumption DEF PostInput
  <1>9. CASE UNCHANGED vars
    BY <1>6, <1>9 DEF vars
  <1>10. CASE Tdlib \/ Listener \/ Signal
    BY <1>6, <1>10 DEF Tdlib, Begin, Accept, Reject, ClientDone, Listener, Hear, Signal
  <1>11. CASE Subscribe \/ ProcessAuth \/ ReadPassword \/ PromptLine \/ ReadLine \/ TermStop
    BY <1>6, <1>11 DEF Subscribe, ProcessAuth, ReadPassword, PromptLine, ReadLine, TermStop
  <1>12. ASSUME NEW p \in Posts, Post(p) PROVE RunTyped'
    BY <1>6, <1>12 DEF Post
  <1> QED
    BY <1>2, <1>3, <1>4, <1>7, <1>8, <1>9, <1>10, <1>11, <1>12 DEF Next, Service, Terminal, Http

LEMMA TermTypedStep == AuthInv /\ [Next]_vars => TermTyped'
  <1> SUFFICES ASSUME AuthInv, [Next]_vars PROVE TermTyped'
    OBVIOUS
  <1>1. RunTyped /\ TdTyped /\ TermTyped
    BY TypeIsParts DEF AuthInv
  <1>2. CASE RunEvent
    <2>1. /\ Head(events) \in States /\ UNCHANGED <<shown, term, failures, subscribed>>
          /\ calls' = calls \/ calls' = [calls EXCEPT ![Head(events)] = @ + 1]
      BY <1>1, <1>2 DEF RunEvent, Called, termVars, TdTyped
    <2> QED
      BY <1>1, <2>1 DEF TermTyped
  <1>3. ASSUME NEW s \in States, Hear(s) PROVE TermTyped'
    <2>1. /\ calls[s] > 0 /\ calls' = [calls EXCEPT ![s] = @ - 1]
          /\ UNCHANGED <<term, failures, subscribed>>
          /\ UNCHANGED shown \/ (Len(shown) < 10 /\ shown' = Append(shown, s))
      BY <1>3 DEF Hear
    <2>2. calls' \in [States -> Nat]
      BY <1>1, <2>1 DEF TermTyped
    <2>3. shown' \in Seq(States) /\ Len(shown') <= 10
      <3>1. CASE UNCHANGED shown
        BY <1>1, <3>1 DEF TermTyped
      <3>2. CASE Len(shown) < 10 /\ shown' = Append(shown, s)
        BY <1>1, <1>3, <3>2, AppendTyped DEF TermTyped
      <3> QED
        BY <2>1, <3>1, <3>2
    <2> QED
      BY <1>1, <2>1, <2>2, <2>3 DEF TermTyped
  <1>4. CASE ProcessAuth
    <2>1. /\ shown # <<>> /\ shown' = Tail(shown) /\ UNCHANGED <<calls, failures, subscribed>>
          /\ \/ term' = [at |-> "prompt", state |-> Head(shown)]
             \/ term' = [term EXCEPT !.state = Head(shown)]
      BY <1>4 DEF ProcessAuth
    <2>2. Head(shown) \in States /\ Tail(shown) \in Seq(States) /\ Len(Tail(shown)) <= 10
      BY <1>1, <2>1, TailTyped DEF TermTyped
    <2>3. term' \in TermRecord
      BY <1>1, <2>1, <2>2 DEF TermTyped, TermRecord
    <2> QED
      BY <1>1, <2>1, <2>2, <2>3 DEF TermTyped
  <1>5. CASE Subscribe \/ ReadPassword \/ PutInput \/ PromptLine \/ ReadLine \/ TermStop
    <2>1. /\ UNCHANGED <<calls, shown>> /\ (UNCHANGED subscribed \/ subscribed' = TRUE)
          /\ \E at \in {"select", "put", "line", "gone"} : term' = [term EXCEPT !.at = at]
      BY <1>5 DEF Subscribe, ReadPassword, PutInput, PromptLine, ReadLine, TermStop
    <2>2. UNCHANGED failures \/ (failures < MaxFailures /\ failures' = failures + 1)
      BY <1>5 DEF Subscribe, ReadPassword, PutInput, PromptLine, ReadLine, TermStop
    <2>3. failures' \in 0..MaxFailures
      BY <1>1, <2>2, AuthAssumption DEF TermTyped
    <2>4. term' \in TermRecord
      BY <1>1, <2>1 DEF TermTyped, TermRecord
    <2> QED
      BY <1>1, <2>1, <2>3, <2>4 DEF TermTyped
  <1>6. CASE UNCHANGED <<calls, termVars>>
    BY <1>1, <1>6 DEF TermTyped, termVars
  <1>7. CASE UNCHANGED vars
    BY <1>6, <1>7 DEF vars
  <1>8. CASE Tdlib \/ RunInput \/ RunSubmit \/ RunStop \/ Http \/ Signal
    BY <1>6, <1>8 DEF Tdlib, Begin, Accept, Reject, ClientDone, RunInput, RunSubmit, RunStop, Http,
                      Post, PostInput, Signal
  <1> QED
    BY <1>2, <1>3, <1>4, <1>5, <1>7, <1>8 DEF Next, Service, Listener, Terminal

LEMMA RestTypedStep == AuthInv /\ [Next]_vars => RestTyped'
  <1> SUFFICES ASSUME AuthInv, [Next]_vars PROVE RestTyped'
    OBVIOUS
  <1>1. RestTyped
    BY TypeIsParts DEF AuthInv
  <1>2. ASSUME NEW p \in Posts, Post(p) \/ PostInput(p) PROVE RestTyped'
    <2>1. UNCHANGED <<clientDone, stopping>> /\ \E s \in {"put", "accepted"} : post' = [post EXCEPT ![p] = s]
      BY <1>2 DEF Post, PostInput, tdVars
    <2> QED
      BY <1>1, <2>1 DEF RestTyped
  <1>3. CASE UNCHANGED post /\ clientDone' \in {clientDone, TRUE} /\ stopping' \in {stopping, TRUE}
    BY <1>1, <1>3 DEF RestTyped
  <1>4. CASE UNCHANGED vars
    BY <1>3, <1>4 DEF vars, tdVars
  <1>5. CASE Tdlib \/ Service \/ RunStop \/ Signal
    BY <1>3, <1>5 DEF Tdlib, Begin, Accept, Reject, ClientDone, Service, RunEvent, RunInput,
                      RunSubmit, RunStop, Signal, tdVars
  <1>6. CASE Listener \/ Terminal
    BY <1>3, <1>6 DEF Listener, Hear, Terminal, Subscribe, ProcessAuth, ReadPassword, PutInput,
                      PromptLine, ReadLine, TermStop, tdVars
  <1> QED
    BY <1>2, <1>4, <1>5, <1>6 DEF Next, Http

(***************************************************************************)
(* What TDLib asks for                                                     *)
(***************************************************************************)
LEMMA FlowKept ==
    ASSUME FlowInv, UNCHANGED <<td, events, run, given>>
    PROVE  FlowInv'
  BY DEF FlowInv, Told, Taken, Given, Nothing

\* An answer in its channel: whatever it is, TDLib takes it and asks again, for the next
\* thing or for the same.
LEMMA AnswerTaken ==
    ASSUME TdTyped, FlowInv, td \in Kinds, given[td] # <<>>,
           given' = [given EXCEPT ![td] = Tail(@)]
    PROVE  events = <<>> /\ run.at \in {"events", "done"} /\ given' = Nothing
  <1>1. Given
    BY DEF FlowInv, Told, Taken, Nothing
  <1>2. PICK x \in Kinds \cup {"none"} :
           given = IF x = "none" THEN Nothing ELSE [Nothing EXCEPT ![td] = <<x>>]
    BY <1>1 DEF Given
  <1>3. x # "none"
    BY <1>2 DEF Nothing
  <1>4. given = [k \in Kinds |-> IF k = td THEN <<x>> ELSE <<>>]
    BY <1>2, <1>3 DEF Nothing
  <1>5. given' = [k \in Kinds |-> IF k = td THEN Tail(<<x>>) ELSE <<>>]
    BY <1>4
  <1>6. Tail(<<x>>) = <<>>
    OBVIOUS
  <1> QED
    BY <1>1, <1>5, <1>6 DEF Given, Nothing

LEMMA FlowStep == AuthInv /\ [Next]_vars => FlowInv'
  <1> SUFFICES ASSUME AuthInv, [Next]_vars PROVE FlowInv'
    OBVIOUS
  <1>1. RunTyped /\ TdTyped /\ FlowInv
    BY TypeIsParts DEF AuthInv
  <1> USE DEF Kinds, States
  <1>2. CASE Begin
    <2>1. PICK s \in After(td) : Enter(s)
      BY <1>2 DEF Begin
    <2>2. td \in {"start", "closed"} /\ UNCHANGED <<given, run>>
      BY <1>2 DEF Begin
    <2>3. /\ td' = s /\ run.at \in {"events", "done"} /\ given = Nothing
          /\ (events' = Append(events, s)) \/ (s = "ready" /\ UNCHANGED events)
      BY <1>1, <2>1, <2>2 DEF Enter, Relay, FlowInv
    <2>4. CASE td = "start"
      <3>1. s \in {"phone", "ready", "closed"} /\ events = <<>>
        BY <1>1, <2>1, <2>4 DEF After, FlowInv
      <3>2. events' = <<s>> \/ (s = "ready" /\ events' = <<>>)
        BY <2>3, <3>1
      <3> QED
        BY <2>2, <2>3, <3>1, <3>2 DEF FlowInv, Told, Nothing
    <2>5. CASE td = "closed"
      <3>1. s = "phone" /\ events \in {<<>>, <<"closed">>}
        BY <1>1, <2>1, <2>5 DEF After, FlowInv
      <3>2. events' = <<"phone">> \/ events' = <<"closed", "phone">>
        BY <2>3, <3>1
      <3> QED
        BY <2>2, <2>3, <3>1, <3>2 DEF FlowInv, Told, Nothing
    <2> QED
      BY <2>2, <2>4, <2>5
  <1>3. CASE Accept
    <2>1. PICK s \in After(td) : Enter(s)
      BY <1>3 DEF Accept
    <2>2. /\ td \in Kinds /\ given[td] # <<>> /\ given' = [given EXCEPT ![td] = Tail(@)]
          /\ UNCHANGED run
      BY <1>3 DEF Accept
    <2>3. events = <<>> /\ run.at \in {"events", "done"} /\ given' = Nothing
      BY <1>1, <2>2, AnswerTaken
    <2>4. td' = s /\ ((events' = <<s>>) \/ (s = "ready" /\ events' = <<>>))
      BY <2>1, <2>3 DEF Enter, Relay
    <2>5. s \in {"code", "password", "ready"}
      BY <2>1, <2>2 DEF After
    <2> QED
      BY <2>2, <2>3, <2>4, <2>5 DEF FlowInv, Told, Nothing
  <1>4. CASE Reject
    <2>1. /\ td \in Kinds /\ given[td] # <<>> /\ given' = [given EXCEPT ![td] = Tail(@)]
          /\ UNCHANGED <<td, run>> /\ events' = Append(events, td)
      BY <1>4 DEF Reject, Relay
    <2>2. events = <<>> /\ run.at \in {"events", "done"} /\ given' = Nothing
      BY <1>1, <2>1, AnswerTaken
    <2>3. events' = <<td>>
      BY <2>1, <2>2
    <2> QED
      BY <2>1, <2>2, <2>3 DEF FlowInv, Told, Nothing
  <1>5. CASE RunEvent
    <2>1. /\ run.at = "events" /\ events # <<>> /\ events' = Tail(events) /\ UNCHANGED <<td, given>>
          /\ IF Head(events) = "closed" THEN UNCHANGED run
             ELSE run' = [at |-> IF Head(events) = "ready" THEN "done" ELSE "input",
                          state |-> Head(events), input |-> "none"]
      BY <1>5 DEF RunEvent, Skipped, tdVars
    <2>2. CASE td \in Kinds
      <3>1. Told
        BY <1>1, <2>1, <2>2 DEF FlowInv, Taken, Given
      <3>2. CASE events = <<td>>
        <4>1. Head(events) = td /\ events' = <<>>
          BY <2>1, <3>2
        <4> QED
          BY <2>1, <2>2, <3>1, <4>1 DEF FlowInv, Told, Taken, Nothing
      <3>3. CASE events = <<"closed", td>>
        <4>1. Head(events) = "closed" /\ events' = <<td>>
          BY <2>1, <3>3
        <4> QED
          BY <2>1, <2>2, <3>1, <4>1 DEF FlowInv, Told, Nothing
      <3> QED
        BY <3>1, <3>2, <3>3 DEF Told
    <2>3. CASE td \notin Kinds
      <3>1. td \in {"closed", "ready"} /\ events = <<td>> /\ given = Nothing
        BY <1>1, <2>1, <2>3 DEF FlowInv, TdTyped
      <3>2. Head(events) = td /\ events' = <<>>
        BY <2>1, <3>1
      <3> QED
        BY <2>1, <3>1, <3>2 DEF FlowInv, Nothing
    <2> QED
      BY <2>2, <2>3
  <1>6. CASE RunInput
    <2>1. /\ run.at = "input" /\ inputs # <<>> /\ UNCHANGED <<td, given, events>>
          /\ run' = [run EXCEPT !.at = "submit", !.input = Head(inputs)]
      BY <1>6 DEF RunInput, tdVars
    <2>2. Head(inputs) \in Kinds
      BY <1>1, <2>1 DEF RunTyped
    <2>3. td \in Kinds /\ Taken
      BY <1>1, <2>1 DEF FlowInv, Told, Given
    <2>4. run'.at = "submit" /\ run'.state = run.state /\ run'.input \in Kinds
      BY <1>1, <2>1, <2>2 DEF RunTyped, RunRecord
    <2> QED
      BY <2>1, <2>3, <2>4 DEF FlowInv, Taken, Nothing
  <1>7. CASE RunSubmit
    <2>1. /\ run.at = "submit" /\ UNCHANGED <<td, events>>
          /\ run' = [run EXCEPT !.at = "events", !.input = "none"]
          /\ IF run.state \in Kinds THEN Submit(run.state, run.input) ELSE UNCHANGED given
      BY <1>7 DEF RunSubmit
    <2>2. td \in Kinds /\ Taken
      BY <1>1, <2>1 DEF FlowInv, Told, Given
    <2>3. given' = [Nothing EXCEPT ![td] = <<run.input>>] /\ run.input \in Kinds /\ events = <<>>
      BY <2>1, <2>2 DEF Taken, Submit
    <2>4. run'.at = "events"
      BY <1>1, <2>1 DEF RunTyped, RunRecord
    <2>5. Given'
      BY <2>1, <2>3, <2>4 DEF Given, Nothing
    <2> QED
      BY <2>1, <2>2, <2>5 DEF FlowInv
  <1>8. CASE RunStop
    <2>1. /\ run.at \in {"events", "input"} /\ UNCHANGED <<td, given, events>>
          /\ run' = [run EXCEPT !.at = "done"]
      BY <1>8 DEF RunStop, Stops, tdVars
    <2>2. run'.at = "done"
      BY <1>1, <2>1 DEF RunTyped, RunRecord
    <2>3. CASE td \in Kinds /\ Taken
      BY <2>1, <2>2, <2>3 DEF FlowInv, Taken, Given, Nothing
    <2>4. CASE td \in Kinds /\ (Told \/ Given)
      BY <2>1, <2>2, <2>4 DEF FlowInv, Told, Given, Nothing
    <2>5. CASE td \notin Kinds
      BY <1>1, <2>1, <2>2, <2>5 DEF FlowInv, Nothing
    <2> QED
      BY <1>1, <2>3, <2>4, <2>5 DEF FlowInv
  <1>9. CASE UNCHANGED vars
    BY <1>1, <1>9, FlowKept DEF vars, tdVars
  <1>10. CASE ClientDone \/ Listener \/ Terminal \/ Http \/ Signal
    BY <1>1, <1>10, FlowKept DEF ClientDone, Listener, Hear, Terminal, Subscribe, ProcessAuth,
         ReadPassword, PutInput, PromptLine, ReadLine, TermStop, Http, Post, PostInput, Signal, tdVars
  <1> QED
    BY <1>2, <1>3, <1>4, <1>5, <1>6, <1>7, <1>8, <1>9, <1>10 DEF Next, Tdlib, Service

LEMMA PromptStep == AuthInv /\ [Next]_vars => PromptInv'
  <1> SUFFICES ASSUME AuthInv, [Next]_vars PROVE PromptInv'
    OBVIOUS
  <1>1. PromptInv /\ TermTyped
    BY TypeIsParts DEF AuthInv
  <1>2. CASE ProcessAuth
    <2>1. /\ term.at = "select"
          /\ \/ Head(shown) \in Kinds /\ term' = [at |-> "prompt", state |-> Head(shown)]
             \/ term' = [term EXCEPT !.state = Head(shown)]
      BY <1>2 DEF ProcessAuth
    <2>2. CASE Head(shown) \in Kinds /\ term' = [at |-> "prompt", state |-> Head(shown)]
      BY <2>2 DEF PromptInv, NotAsked
    <2>3. CASE term' = [term EXCEPT !.state = Head(shown)]
      <3>1. term'.at = term.at
        BY <1>1, <2>3 DEF TermTyped, TermRecord
      <3> QED
        BY <2>1, <3>1 DEF PromptInv, NotAsked
    <2> QED
      BY <2>1, <2>2, <2>3
  <1>3. CASE ReadPassword
    <2>1. term.at = "prompt" /\ \E at \in {"select", "put"} : term' = [term EXCEPT !.at = at]
      BY <1>3 DEF ReadPassword
    <2>2. term'.state = term.state
      BY <1>1, <2>1 DEF TermTyped, TermRecord
    <2> QED
      BY <1>1, <2>1, <2>2 DEF PromptInv, NotAsked
  <1>4. CASE Subscribe \/ PutInput \/ PromptLine \/ ReadLine \/ TermStop
    <2>1. \E at \in {"select", "line", "gone"} : term' = [term EXCEPT !.at = at]
      BY <1>4 DEF Subscribe, PutInput, PromptLine, ReadLine, TermStop
    <2>2. term'.at \in {"select", "line", "gone"}
      BY <1>1, <2>1 DEF TermTyped, TermRecord
    <2> QED
      BY <2>2 DEF PromptInv, NotAsked
  <1>5. CASE UNCHANGED term
    BY <1>1, <1>5 DEF PromptInv, NotAsked
  <1>6. CASE UNCHANGED vars
    BY <1>5, <1>6 DEF vars, termVars
  <1>7. CASE Tdlib \/ Service \/ RunStop \/ Listener \/ Http \/ Signal
    BY <1>5, <1>7 DEF Tdlib, Begin, Accept, Reject, ClientDone, Service, RunEvent, RunInput, RunSubmit,
         RunStop, Listener, Hear, Http, Post, PostInput, Signal, termVars
  <1> QED
    BY <1>2, <1>3, <1>4, <1>6, <1>7 DEF Next, Terminal

(***************************************************************************)
(* What the terminal answers                                               *)
(***************************************************************************)
LEMMA AskKept ==
    ASSUME Asked, UNCHANGED <<run, inputs, calls, shown, term>>
    PROVE  Asked'
  BY DEF Asked, Asking, Silent, NotAsked

LEMMA PostsStay ==
    ASSUME RestTyped, [Next]_vars, NoPosts'
    PROVE  NoPosts /\ UNCHANGED post /\ ~Http
  <1>1. ASSUME NEW p \in Posts, Post(p) \/ PostInput(p) PROVE FALSE
    <2>1. PICK s \in {"put", "accepted"} : post' = [post EXCEPT ![p] = s]
      BY <1>1 DEF Post, PostInput
    <2>2. post'[p] = s
      BY <2>1 DEF RestTyped
    <2> QED
      BY <2>2 DEF NoPosts
  <1>2. UNCHANGED post
    <2>1. CASE Tdlib \/ Service \/ RunStop \/ Signal
      BY <2>1 DEF Tdlib, Begin, Accept, Reject, ClientDone, Service, RunEvent, RunInput,
                  RunSubmit, RunStop, Signal
    <2>2. CASE Listener \/ Terminal
      BY <2>2 DEF Listener, Hear, Terminal, Subscribe, ProcessAuth, ReadPassword, PutInput,
                  PromptLine, ReadLine, TermStop
    <2> QED
      BY <1>1, <2>1, <2>2 DEF Next, Http, vars
  <1> QED
    BY <1>1, <1>2 DEF NoPosts, Http

\* The service takes a question, its answer, or none any more.
LEMMA ServiceAsks ==
    ASSUME AuthInv, Asked, Service \/ RunStop
    PROVE  Asked'
  <1>1. RunTyped /\ TdTyped /\ TermTyped /\ FlowInv
    BY TypeIsParts DEF AuthInv
  <1>2. CASE RunEvent
    <2>1. /\ run.at = "events" /\ events # <<>> /\ UNCHANGED <<inputs, shown, term>>
          /\ \/ UNCHANGED <<run, calls>>
             \/ /\ Head(events) # "closed"
                /\ calls' = calls \/ calls' = [calls EXCEPT ![Head(events)] = @ + 1]
                /\ run' = [at |-> IF Head(events) = "ready" THEN "done" ELSE "input",
                           state |-> Head(events), input |-> "none"]
      BY <1>2 DEF RunEvent, Skipped, Called, termVars
    <2>2. Silent /\ shown = <<>> /\ inputs = <<>> /\ NotAsked
      BY <2>1 DEF Asked
    <2>3. CASE UNCHANGED <<run, calls>>
      BY <2>1, <2>3, AskKept
    <2>4. ASSUME Head(events) # "closed",
                 calls' = calls \/ calls' = [calls EXCEPT ![Head(events)] = @ + 1],
                 run' = [at |-> IF Head(events) = "ready" THEN "done" ELSE "input",
                         state |-> Head(events), input |-> "none"]
          PROVE  Asked'
      <3>1. Silent' \/ calls' = [[t \in States |-> 0] EXCEPT ![Head(events)] = 1]
        BY <2>2, <2>4 DEF Silent
      <3>2. CASE Head(events) = "ready"
        BY <2>4, <3>2 DEF Asked
      <3>3. CASE Head(events) # "ready"
        <4>1. run'.at = "input" /\ run'.state = Head(events)
          BY <2>4, <3>3
        <4>2. Asking(run.state)'
          BY <2>1, <2>2, <3>1, <4>1 DEF Asking, NotAsked
        <4> QED
          BY <4>1, <4>2 DEF Asked
      <3> QED
        BY <3>2, <3>3
    <2> QED
      BY <2>1, <2>3, <2>4
  <1>3. CASE RunInput
    <2>1. /\ run.at = "input" /\ inputs # <<>> /\ inputs' = Tail(inputs)
          /\ run' = [run EXCEPT !.at = "submit", !.input = Head(inputs)]
          /\ UNCHANGED <<calls, shown, term>>
      BY <1>3 DEF RunInput, termVars
    <2>2. Silent /\ shown = <<>> /\ NotAsked /\ inputs = <<run.state>>
      BY <2>1 DEF Asked, Asking
    <2>3. Head(inputs) = run.state /\ inputs' = <<>>
      BY <2>1, <2>2
    <2>4. run'.at = "submit" /\ run'.state = run.state /\ run'.input = run.state
      BY <1>1, <2>1, <2>3 DEF RunTyped, RunRecord
    <2> QED
      BY <2>1, <2>2, <2>3, <2>4 DEF Asked, Silent, NotAsked
  <1>4. CASE RunSubmit
    <2>1. /\ run.at = "submit" /\ run' = [run EXCEPT !.at = "events", !.input = "none"]
          /\ UNCHANGED <<inputs, calls, shown, term>>
      BY <1>4 DEF RunSubmit, termVars
    <2>2. run'.at = "events"
      BY <1>1, <2>1 DEF RunTyped, RunRecord
    <2> QED
      BY <2>1, <2>2 DEF Asked, Silent, NotAsked
  <1>5. CASE RunStop
    <2>1. run'.at = "done"
      BY <1>1, <1>5 DEF RunStop, RunTyped, RunRecord
    <2> QED
      BY <2>1 DEF Asked
  <1> QED
    BY <1>2, <1>3, <1>4, <1>5 DEF Service

\* A question goes on to the terminal, which has it alone.
LEMMA TerminalAsks ==
    ASSUME AuthInv, Asked, Listener \/ Terminal
    PROVE  Asked'
  <1>1. RunTyped /\ TdTyped /\ TermTyped /\ FlowInv
    BY TypeIsParts DEF AuthInv
  <1>2. run.at = "input" => run.state \in Kinds
    BY <1>1 DEF FlowInv, Told, Taken, Given
  <1>3. ASSUME NEW s \in States, Hear(s) PROVE Asked'
    <2>1. /\ calls[s] > 0 /\ calls' = [calls EXCEPT ![s] = @ - 1] /\ UNCHANGED <<run, inputs, term>>
          /\ shown' = IF Len(shown) < 10 THEN Append(shown, s) ELSE shown
      BY <1>3 DEF Hear
    <2>2. ~Silent
      BY <2>1 DEF Silent
    <2>3. CASE run.at # "input"
      BY <2>1, <2>2, <2>3 DEF Asked
    <2>4. CASE run.at = "input"
      <3>1. /\ calls = [[t \in States |-> 0] EXCEPT ![run.state] = 1] /\ shown = <<>>
            /\ inputs = <<>> /\ NotAsked
        BY <2>2, <2>4 DEF Asked, Asking
      <3>2. s = run.state
        BY <2>1, <3>1
      <3>3. Silent'
        BY <2>1, <3>1, <3>2 DEF Silent
      <3>4. shown' = <<run.state>>
        BY <2>1, <3>1, <3>2
      <3> QED
        BY <2>1, <2>4, <3>1, <3>3, <3>4 DEF Asked, Asking, NotAsked
    <2> QED
      BY <2>3, <2>4
  <1>4. CASE ProcessAuth
    <2>1. /\ shown # <<>> /\ shown' = Tail(shown) /\ UNCHANGED <<run, inputs, calls>>
          /\ Head(shown) \in Kinds => term' = [at |-> "prompt", state |-> Head(shown)]
      BY <1>4 DEF ProcessAuth
    <2>2. CASE run.at # "input"
      BY <2>1, <2>2 DEF Asked
    <2>3. CASE run.at = "input"
      <3>1. Silent /\ shown = <<run.state>> /\ inputs = <<>>
        BY <2>1, <2>3 DEF Asked, Asking
      <3>2. Head(shown) = run.state /\ shown' = <<>>
        BY <2>1, <3>1
      <3>3. term'.state = run.state
        BY <1>2, <2>1, <2>3, <3>2
      <3> QED
        BY <2>1, <2>3, <3>1, <3>2, <3>3 DEF Asked, Asking, Silent, NotAsked
    <2> QED
      BY <2>2, <2>3
  <1>5. CASE ReadPassword
    <2>1. /\ ~NotAsked /\ UNCHANGED <<run, inputs, calls, shown>> /\ term'.state = term.state
      BY <1>1, <1>5 DEF ReadPassword, NotAsked, TermTyped, TermRecord
    <2>2. CASE run.at # "input"
      BY <2>1, <2>2 DEF Asked
    <2>3. CASE run.at = "input"
      BY <2>1, <2>3 DEF Asked, Asking, Silent, NotAsked
    <2> QED
      BY <2>2, <2>3
  <1>6. CASE PutInput
    <2>1. /\ ~NotAsked /\ UNCHANGED <<run, calls, shown>> /\ term'.at = "select"
          /\ inputs' = <<term.state>>
      BY <1>1, <1>6 DEF PutInput, NotAsked, TermTyped, TermRecord
    <2>2. CASE run.at # "input"
      BY <2>1, <2>2 DEF Asked
    <2>3. CASE run.at = "input"
      BY <2>1, <2>3 DEF Asked, Asking, Silent, NotAsked
    <2> QED
      BY <2>2, <2>3
  <1>7. CASE Subscribe \/ PromptLine \/ ReadLine \/ TermStop
    <2>1. /\ UNCHANGED <<run, inputs, calls, shown>>
          /\ \E at \in {"select", "line", "gone"} : term' = [term EXCEPT !.at = at]
      BY <1>7 DEF Subscribe, PromptLine, ReadLine, TermStop
    <2>2. NotAsked'
      BY <1>1, <2>1 DEF TermTyped, TermRecord, NotAsked
    <2> QED
      BY <2>1, <2>2 DEF Asked, Asking, Silent
  <1> QED
    BY <1>3, <1>4, <1>5, <1>6, <1>7 DEF Listener, Terminal

LEMMA AskStep == AuthInv /\ [Next]_vars => AskInv'
  <1> SUFFICES ASSUME AuthInv, [Next]_vars, NoPosts' PROVE Asked'
    BY DEF AskInv
  <1>1. RestTyped
    BY TypeIsParts DEF AuthInv
  <1>2. NoPosts /\ UNCHANGED post /\ ~Http
    BY <1>1, PostsStay
  <1>3. Asked
    BY <1>2 DEF AuthInv, AskInv
  <1>4. CASE Service \/ RunStop
    BY <1>3, <1>4, ServiceAsks
  <1>5. CASE Listener \/ Terminal
    BY <1>3, <1>5, TerminalAsks
  <1>6. CASE Tdlib \/ Signal \/ UNCHANGED vars
    BY <1>3, <1>6, AskKept DEF Tdlib, Begin, Accept, Reject, ClientDone, Signal, vars, termVars
  <1> QED
    BY <1>2, <1>4, <1>5, <1>6 DEF Next

\* The invariant of what is asked for and what is answered.
THEOREM AuthSafety == Spec => []AuthInv
  <1>1. AuthInv /\ [Next]_vars => AuthInv'
    <2> SUFFICES ASSUME AuthInv, [Next]_vars PROVE AuthInv'
      OBVIOUS
    <2>1. TypeOK'
      BY TdTypedStep, RunTypedStep, TermTypedStep, RestTypedStep
         DEF TypeOK, TdTyped, RunTyped, TermTyped, RestTyped, RunRecord, TermRecord
    <2> QED
      BY <2>1, FlowStep, PromptStep, AskStep DEF AuthInv
  <1> QED
    BY <1>1, InitInv, PTL DEF Spec

\* The service submits only in the state TDLib is in and into an empty channel, and what
\* the terminal was asked for goes out as nothing else.
THEOREM SubmissionsAreAskedFor == Spec => []SubmitsWhatIsAsked
  <1>1. AuthInv => SubmitsWhatIsAsked
    <2> SUFFICES ASSUME AuthInv PROVE SubmitsWhatIsAsked
      OBVIOUS
    <2>1. OwnKind
      BY DEF AuthInv, AskInv, NoPosts, Asked, OwnKind
    <2>2. run.at = "submit" => td \in Kinds /\ run.state = td /\ given = Nothing
      BY DEF AuthInv, FlowInv, Told, Taken, Given
    <2> QED
      BY <2>1, <2>2 DEF AuthInv, SubmitsWhatIsAsked, Nothing
  <1> QED
    BY <1>1, AuthSafety, PTL

(***************************************************************************)
(* The facade                                                              *)
(***************************************************************************)

Results == {"OK", "FloodWaitError", "CallbackAnswerError 4xx", "CallbackAnswerError 502", "untyped"}

\* What a click's result says of what Telegram did: a bot that kept silent has had it.
Tells(result, changes) == changes = IF result \in {"OK", "CallbackAnswerError 502"} THEN 1 ELSE 0

Refusing == {"InvalidArgument", "NotFound", "FailedPrecondition", "ResourceExhausted", "Unavailable"}

RpcRecord(call, status) ==
    [at: {"idle", "call", "wait", "click", "answered"}, req: Requests \cup {"none"}, call: {call},
     ctx: {"live", "DeadlineExceeded", "Canceled"}, result: Results \cup {"none"},
     status: {status}, changes: 0..1, due: 0..1, flood: BOOLEAN]
ClickRecord(data) ==
    [at: {"free", "start", "call", "put"}, data: {data}, mine: BOOLEAN,
     result: Results \cup {"none"}]

ShapeInv ==
    /\ rpc \in RpcRecord(rpc.call, rpc.status) /\ DOMAIN clicks = Goroutines
    /\ \A g \in Goroutines : clicks[g] \in ClickRecord(clicks[g].data)
    /\ closed \in BOOLEAN /\ panicked \in BOOLEAN

\* What a request has changed, by where it is: nothing before its answer, unless a click has
\* its result.
RpcInv ==
    /\ rpc.at = "idle" => rpc = Quiet
    /\ rpc.at \in {"call", "wait"} => rpc.changes = 0
    /\ rpc.at = "click" => /\ rpc.call = "GetCallbackQueryAnswer"
                           /\ rpc.result # "none" => Tells(rpc.result, rpc.changes)
    /\ rpc.at = "answered" => /\ rpc.status = "OK" => rpc.changes = rpc.due
                              /\ rpc.status \in Refusing => rpc.changes = 0

\* At most one goroutine works for the request, which has no result as long as it does.
ClicksInv ==
    \A g \in Goroutines : clicks[g].mine =>
        /\ rpc.at = "click" /\ rpc.result = "none"
        /\ clicks[g].at \in {"start", "call"} => rpc.changes = 0
        /\ clicks[g].at = "put" => clicks[g].result \in Results /\ Tells(clicks[g].result, rpc.changes)
        /\ clicks[g].at # "free"
        /\ \A h \in Goroutines : clicks[h].mine => h = g

StatusInv == ShapeInv /\ RpcInv /\ ClicksInv

\* The facade leaves the authorization as it is: a behaviour of the process is one of it.
THEOREM FacadeKeepsAuth == FacadeSpec => Spec
  <1>1. FacadeInit => Init
    BY DEF FacadeInit
  <1>2. [FacadeNext]_allVars => [Next]_vars
    BY DEF FacadeNext, allVars
  <1> QED
    BY <1>1, <1>2, PTL DEF FacadeSpec, Spec

(***************************************************************************)
(* Requests and clicks                                                     *)
(***************************************************************************)
LEMMA QuietShape == Quiet \in RpcRecord("none", "none") /\ Free \in ClickRecord("none")
  BY DEF Quiet, Free, RpcRecord, ClickRecord

LEMMA FacadeInitInv == FacadeInit => StatusInv
  <1> SUFFICES ASSUME FacadeInit PROVE StatusInv
    OBVIOUS
  <1>1. /\ rpc = Quiet /\ closed = FALSE /\ panicked = FALSE
        /\ DOMAIN clicks = Goroutines /\ \A g \in Goroutines : clicks[g] = Free
    BY DEF FacadeInit
  <1>2. /\ Quiet.at = "idle" /\ Quiet.call = "none" /\ Quiet.status = "none"
        /\ Free.mine = FALSE /\ Free.data = "none"
    BY DEF Quiet, Free
  <1> HIDE DEF Quiet, Free
  <1>3. ShapeInv
    BY <1>1, <1>2, QuietShape DEF ShapeInv
  <1>4. RpcInv
    BY <1>1, <1>2 DEF RpcInv
  <1>5. ClicksInv
    BY <1>1, <1>2 DEF ClicksInv
  <1> QED
    BY <1>3, <1>4, <1>5 DEF StatusInv

LEMMA AnsweredShape ==
    ASSUME NEW r, NEW s, r \in RpcRecord(r.call, r.status)
    PROVE  /\ Answered(r, s) \in RpcRecord("none", s)
           /\ Answered(r, s).at = "answered" /\ Answered(r, s).call = "none"
           /\ Answered(r, s).status = s /\ Answered(r, s).result = "none"
           /\ Answered(r, s).changes = r.changes
           /\ Answered(r, s).due = IF r.call \in Changing THEN 1 ELSE 0
  <1> DEFINE due == IF r.call \in Changing THEN 1 ELSE 0
  <1>1. r.changes \in 0..1 /\ due \in 0..1
    BY DEF RpcRecord
  <1>2. r.flood \in BOOLEAN
    BY DEF RpcRecord
  <1>3. Answered(r, s) = [Quiet EXCEPT !.at = "answered", !.status = s, !.changes = r.changes,
                                       !.due = due, !.flood = r.flood]
    BY DEF Answered
  <1>4. Quiet.call = "none" /\ Quiet.result = "none"
    BY DEF Quiet
  <1> HIDE DEF due, Quiet
  <1>5. Answered(r, s) \in RpcRecord("none", s)
    BY <1>1, <1>2, <1>3, QuietShape DEF RpcRecord
  <1>6. /\ Answered(r, s).at = "answered" /\ Answered(r, s).call = "none"
        /\ Answered(r, s).status = s /\ Answered(r, s).result = "none"
        /\ Answered(r, s).changes = r.changes /\ Answered(r, s).due = due
    BY <1>3, <1>4, QuietShape DEF RpcRecord
  <1> QED
    BY <1>5, <1>6 DEF due

\* The goroutines are as they were, or nobody's any more.
NoneMine == \A g \in Goroutines : ~clicks[g].mine

\* A request without a click under way is answered truly.
LEMMA AnswerStep ==
    ASSUME NEW r, NEW s, r \in RpcRecord(r.call, r.status), rpc' = Answered(r, s),
           s = "OK" => r.changes = IF r.call \in Changing THEN 1 ELSE 0,
           s \in Refusing => r.changes = 0,
           DOMAIN clicks' = Goroutines,
           \A g \in Goroutines : clicks'[g] \in ClickRecord(clicks'[g].data) /\ ~clicks'[g].mine,
           closed' \in BOOLEAN, panicked' \in BOOLEAN
    PROVE  StatusInv'
  <1>1. /\ rpc' \in RpcRecord("none", s) /\ rpc'.at = "answered" /\ rpc'.call = "none"
        /\ rpc'.status = s /\ rpc'.changes = r.changes
        /\ rpc'.due = IF r.call \in Changing THEN 1 ELSE 0
    BY AnsweredShape
  <1>2. ShapeInv'
    BY <1>1 DEF ShapeInv
  <1>3. RpcInv'
    BY <1>1 DEF RpcInv
  <1>4. ClicksInv'
    BY DEF ClicksInv
  <1> QED
    BY <1>2, <1>3, <1>4 DEF StatusInv

\* A request stays, or comes, before a call of its own.
LEMMA CallStep ==
    ASSUME StatusInv, NoneMine, rpc' \in RpcRecord(rpc'.call, rpc'.status),
           rpc'.at \in {"call", "wait"}, rpc'.changes = 0,
           UNCHANGED <<clicks, closed, panicked>>
    PROVE  StatusInv'
  <1>1. ShapeInv'
    BY DEF StatusInv, ShapeInv
  <1>2. RpcInv'
    BY DEF RpcInv
  <1>3. ClicksInv'
    BY DEF ClicksInv, NoneMine
  <1> QED
    BY <1>1, <1>2, <1>3 DEF StatusInv

LEMMA NobodysClick ==
    ASSUME StatusInv, rpc.at # "click"
    PROVE  NoneMine
  BY DEF StatusInv, ClicksInv, NoneMine

LEMMA ReceiveStep ==
    ASSUME StatusInv, NEW q \in Requests, Receive(q)
    PROVE  StatusInv'
  <1>1. rpc = Quiet /\ UNCHANGED <<clicks, closed, panicked>>
    BY DEF Receive
  <1>2. NoneMine
    BY <1>1, NobodysClick DEF Quiet
  <1>3. CASE rpc' = Answered([Quiet EXCEPT !.req = q], "InvalidArgument")
    <2> DEFINE r == [Quiet EXCEPT !.req = q]
    <2>1. r \in RpcRecord(r.call, r.status) /\ r.changes = 0
      <3>1. Quiet.changes = 0
        BY DEF Quiet
      <3> QED
        BY <3>1, QuietShape DEF RpcRecord
    <2>2. rpc' = Answered(r, "InvalidArgument")
      BY <1>3
    <2> HIDE DEF r
    <2> QED
      BY <1>1, <1>2, <2>1, <2>2, AnswerStep DEF StatusInv, ShapeInv, NoneMine
  <1>4. ASSUME NEW call, rpc' = [Quiet EXCEPT !.at = "call", !.req = q, !.call = call]
        PROVE  StatusInv'
    <2>1. /\ rpc' \in RpcRecord(call, "none") /\ rpc'.at = "call" /\ rpc'.call = call
          /\ rpc'.status = "none" /\ rpc'.changes = 0
      <3>1. Quiet.changes = 0
        BY DEF Quiet
      <3> QED
        BY <1>4, <3>1, QuietShape DEF RpcRecord
    <2> QED
      BY <1>1, <1>2, <2>1, CallStep
  <1> QED
    BY <1>3, <1>4 DEF Receive

LEMMA SucceedStep ==
    ASSUME StatusInv, Succeed
    PROVE  StatusInv'
  <1>1. PICK next \in Follows(rpc.req, rpc.call) :
          rpc' = CASE next = "OK" -> Answered([rpc EXCEPT !.changes = Changed(rpc)], "OK")
                   [] next \in {"TargetNotBotError", "MessageNotFoundError"} ->
                        Answered([rpc EXCEPT !.changes = Changed(rpc)], mapFacadeError(next))
                   [] OTHER -> [[rpc EXCEPT !.changes = Changed(rpc)] EXCEPT !.call = next]
    BY DEF Succeed
  <1>2. rpc.at = "call" /\ UNCHANGED <<clicks, closed, panicked>>
    BY DEF Succeed
  <1>3. NoneMine
    BY <1>2, NobodysClick
  <1>4. rpc.changes = 0 /\ rpc \in RpcRecord(rpc.call, rpc.status)
    BY <1>2 DEF StatusInv, RpcInv, ShapeInv
  <1> DEFINE r == [rpc EXCEPT !.changes = Changed(rpc)]
  <1>5. /\ r \in RpcRecord(r.call, r.status) /\ r.call = rpc.call /\ r.at = "call"
        /\ r.changes = IF r.call \in Changing THEN 1 ELSE 0
    BY <1>2, <1>4 DEF Changed, RpcRecord
  <1>6. next = "OK" \/ rpc.call \notin Changing
    BY <1>1 DEF Follows, Changing
  <1>7. rpc' = CASE next = "OK" -> Answered(r, "OK")
                 [] next \in {"TargetNotBotError", "MessageNotFoundError"} ->
                      Answered(r, mapFacadeError(next))
                 [] OTHER -> [r EXCEPT !.call = next]
    BY <1>1
  <1> HIDE DEF r
  <1>8. CASE next = "OK"
    <2>1. rpc' = Answered(r, "OK")
      BY <1>7, <1>8
    <2> QED
      BY <1>2, <1>3, <1>5, <2>1, AnswerStep DEF StatusInv, ShapeInv, NoneMine, Refusing
  <1>9. CASE next \in {"TargetNotBotError", "MessageNotFoundError"}
    <2>1. rpc' = Answered(r, mapFacadeError(next)) /\ mapFacadeError(next) # "OK"
      BY <1>7, <1>9 DEF mapFacadeError
    <2>2. r.changes = 0
      BY <1>5, <1>6, <1>9
    <2> HIDE DEF mapFacadeError
    <2> QED
      BY <1>2, <1>3, <1>5, <2>1, <2>2, AnswerStep DEF StatusInv, ShapeInv, NoneMine
  <1>10. CASE next \notin {"OK", "TargetNotBotError", "MessageNotFoundError"}
    <2>1. rpc' = [r EXCEPT !.call = next]
      BY <1>7, <1>10
    <2>2. /\ rpc' \in RpcRecord(next, rpc'.status) /\ rpc'.call = next /\ rpc'.at = "call"
          /\ rpc'.changes = 0
      BY <1>5, <1>6, <1>10, <2>1 DEF RpcRecord
    <2> QED
      BY <1>2, <1>3, <2>2, CallStep
  <1> QED
    BY <1>8, <1>9, <1>10

\* What the wrappers make of a refusal is OK never, and promises nothing after "other".
LEMMA RefusalsAreTold ==
    ASSUME NEW call, NEW refusal \in RefusalsOf(call)
    PROVE  /\ mapFacadeError(Typed(call, refusal)) # "OK"
           /\ refusal = "other" => mapFacadeError(Typed(call, refusal)) = "Internal"
  BY DEF RefusalsOf, Typed, mapFacadeError

LEMMA RefuseStep ==
    ASSUME StatusInv, Refuse
    PROVE  StatusInv'
  <1>1. PICK refusal \in RefusalsOf(rpc.call) :
          \E changes \in IF refusal = "other" THEN {rpc.changes, Changed(rpc)} ELSE {rpc.changes} :
            rpc' = IF Waits(rpc.call, refusal)
                   THEN [[rpc EXCEPT !.flood = refusal = "flood" /\ rpc.req \in MenuRequests]
                           EXCEPT !.at = "wait", !.changes = changes]
                   ELSE Answered([[rpc EXCEPT !.flood = refusal = "flood" /\ rpc.req \in MenuRequests]
                                    EXCEPT !.changes = changes],
                                 mapFacadeError(Typed(rpc.call, refusal)))
    BY DEF Refuse
  <1>2. rpc.at = "call" /\ UNCHANGED <<clicks, closed, panicked>>
    BY DEF Refuse
  <1>3. NoneMine
    BY <1>2, NobodysClick
  <1>4. rpc.changes = 0 /\ rpc \in RpcRecord(rpc.call, rpc.status)
    BY <1>2 DEF StatusInv, RpcInv, ShapeInv
  <1> DEFINE flood == refusal = "flood" /\ rpc.req \in MenuRequests
             told  == [rpc EXCEPT !.flood = flood]
  <1>5. /\ told \in RpcRecord(rpc.call, rpc.status) /\ told.call = rpc.call
    <2>1. flood \in BOOLEAN
      OBVIOUS
    <2> HIDE DEF flood
    <2> QED
      BY <1>4, <2>1 DEF RpcRecord
  <1>6. PICK changes \in 0..1 :
          /\ refusal # "other" => changes = 0
          /\ rpc' = IF Waits(rpc.call, refusal) THEN [told EXCEPT !.at = "wait", !.changes = changes]
                    ELSE Answered([told EXCEPT !.changes = changes],
                                  mapFacadeError(Typed(rpc.call, refusal)))
    <2>1. PICK changes \in IF refusal = "other" THEN {rpc.changes, Changed(rpc)} ELSE {rpc.changes} :
            rpc' = IF Waits(rpc.call, refusal) THEN [told EXCEPT !.at = "wait", !.changes = changes]
                   ELSE Answered([told EXCEPT !.changes = changes],
                                 mapFacadeError(Typed(rpc.call, refusal)))
      BY <1>1
    <2> HIDE DEF told
    <2>2. changes \in 0..1 /\ (refusal # "other" => changes = 0)
      BY <1>4, <2>1 DEF Changed
    <2> QED
      BY <2>1, <2>2
  <1> HIDE DEF told
  <1>7. CASE Waits(rpc.call, refusal)
    <2>1. changes = 0
      BY <1>6, <1>7 DEF Waits
    <2>2. /\ rpc' \in RpcRecord(rpc'.call, rpc'.status) /\ rpc'.at = "wait" /\ rpc'.changes = 0
      BY <1>5, <1>6, <1>7, <2>1 DEF RpcRecord
    <2> QED
      BY <1>2, <1>3, <2>2, CallStep
  <1>8. CASE ~Waits(rpc.call, refusal)
    <2> DEFINE r == [told EXCEPT !.changes = changes]
               s == mapFacadeError(Typed(rpc.call, refusal))
    <2>1. r \in RpcRecord(r.call, r.status) /\ r.changes = changes
      BY <1>5, <1>6 DEF RpcRecord
    <2>2. rpc' = Answered(r, s)
      BY <1>6, <1>8
    <2>3. s # "OK" /\ (refusal = "other" => s = "Internal")
      BY RefusalsAreTold
    <2> HIDE DEF r, s
    <2>4. s \in Refusing => r.changes = 0
      BY <1>6, <2>1, <2>3 DEF Refusing
    <2> QED
      BY <1>2, <1>3, <2>1, <2>2, <2>3, <2>4, AnswerStep DEF StatusInv, ShapeInv, NoneMine
  <1> QED
    BY <1>7, <1>8

LEMMA ReadyStep ==
    ASSUME StatusInv, Ready
    PROVE  StatusInv'
  <1>1. rpc.at = "wait" /\ UNCHANGED <<clicks, closed, panicked>>
    BY DEF Ready
  <1>2. NoneMine
    BY <1>1, NobodysClick
  <1>3. rpc.changes = 0 /\ rpc \in RpcRecord(rpc.call, rpc.status)
    BY <1>1 DEF StatusInv, RpcInv, ShapeInv
  <1>4. CASE rpc' = [rpc EXCEPT !.at = "call"]
    <2>1. rpc' \in RpcRecord(rpc'.call, rpc'.status) /\ rpc'.at = "call" /\ rpc'.changes = 0
      BY <1>3, <1>4 DEF RpcRecord
    <2> QED
      BY <1>1, <1>2, <2>1, CallStep
  <1>5. CASE rpc' = Answered(rpc, mapFacadeError("ChatNotReadyError"))
    <2>1. rpc' = Answered(rpc, "Unavailable")
      BY <1>5 DEF mapFacadeError
    <2> QED
      BY <1>1, <1>2, <1>3, <2>1, AnswerStep DEF StatusInv, ShapeInv, NoneMine
  <1> QED
    BY <1>4, <1>5 DEF Ready

LEMMA NilClientStep ==
    ASSUME StatusInv, NilClient
    PROVE  StatusInv'
  <1>1. rpc.at = "call" /\ UNCHANGED <<clicks, closed>>
    BY DEF NilClient
  <1>2. NoneMine
    BY <1>1, NobodysClick
  <1>3. rpc.changes = 0 /\ rpc \in RpcRecord(rpc.call, rpc.status)
    BY <1>1 DEF StatusInv, RpcInv, ShapeInv
  <1>4. CASE rpc' = Answered(rpc, "Internal") /\ UNCHANGED panicked
    BY <1>1, <1>2, <1>3, <1>4, AnswerStep DEF StatusInv, ShapeInv, NoneMine, Refusing
  <1>5. CASE panicked' = TRUE /\ UNCHANGED rpc
    BY <1>1, <1>5 DEF StatusInv, ShapeInv, RpcInv, ClicksInv
  <1> QED
    BY <1>4, <1>5 DEF NilClient

LEMMA ClickCallbackButtonStep ==
    ASSUME StatusInv, NEW g \in Goroutines, NEW data, ClickCallbackButton(g, data)
    PROVE  StatusInv'
  <1>1. /\ rpc = Quiet /\ "ClickCallbackButton" \in Requests /\ UNCHANGED <<closed, panicked>>
        /\ rpc' = [Quiet EXCEPT !.at = "click", !.req = "ClickCallbackButton",
                                !.call = "GetCallbackQueryAnswer"]
        /\ clicks' = [clicks EXCEPT ![g] = [Free EXCEPT !.at = "start", !.data = data, !.mine = TRUE]]
    BY DEF ClickCallbackButton
  <1>2. Quiet.at = "idle" /\ Quiet.changes = 0 /\ Quiet.result = "none" /\ Quiet.status = "none"
    BY DEF Quiet
  <1>3. NoneMine
    BY <1>1, <1>2, NobodysClick
  <1> HIDE DEF Quiet, Free
  <1>4. /\ rpc' \in RpcRecord("GetCallbackQueryAnswer", "none") /\ rpc'.at = "click"
        /\ rpc'.call = "GetCallbackQueryAnswer" /\ rpc'.changes = 0 /\ rpc'.result = "none"
        /\ rpc'.status = "none"
    BY <1>1, <1>2, QuietShape DEF RpcRecord
  <1> DEFINE r == [Free EXCEPT !.at = "start", !.data = data, !.mine = TRUE]
  <1>5. r \in ClickRecord(data) /\ r.at = "start" /\ r.data = data
    BY QuietShape DEF ClickRecord
  <1>6. r.mine
    BY QuietShape DEF ClickRecord
  <1>7. /\ DOMAIN clicks' = Goroutines /\ clicks'[g] = r
        /\ \A h \in Goroutines : h # g => clicks'[h] = clicks[h]
    BY <1>1 DEF StatusInv, ShapeInv
  <1> HIDE DEF r
  <1>8. ShapeInv'
    BY <1>1, <1>4, <1>5, <1>7 DEF StatusInv, ShapeInv
  <1>9. RpcInv'
    BY <1>4 DEF RpcInv
  <1>10. ClicksInv'
    BY <1>3, <1>4, <1>5, <1>7 DEF ClicksInv, NoneMine
  <1> QED
    BY <1>8, <1>9, <1>10 DEF StatusInv

LEMMA ClickCallsStep ==
    ASSUME StatusInv, NEW g \in Goroutines, ClickCalls(g)
    PROVE  StatusInv'
  <1>1. clicks[g].at = "start" /\ UNCHANGED <<rpc, closed>>
    BY DEF ClickCalls
  <1>2. CASE clicks' = [clicks EXCEPT ![g].at = "call"] /\ UNCHANGED panicked
    <2>1. /\ DOMAIN clicks' = Goroutines /\ clicks'[g] = [clicks[g] EXCEPT !.at = "call"]
          /\ \A h \in Goroutines : h # g => clicks'[h] = clicks[h]
      BY <1>2 DEF StatusInv, ShapeInv
    <2>2. /\ clicks'[g] \in ClickRecord(clicks'[g].data) /\ clicks'[g].at = "call"
      BY <2>1 DEF StatusInv, ShapeInv, ClickRecord
    <2>3. clicks'[g].mine <=> clicks[g].mine
      BY <2>1 DEF StatusInv, ShapeInv, ClickRecord
    <2>4. ShapeInv'
      BY <1>1, <1>2, <2>1, <2>2 DEF StatusInv, ShapeInv
    <2>5. RpcInv'
      BY <1>1 DEF StatusInv, RpcInv
    <2>6. ClicksInv'
      BY <1>1, <2>1, <2>2, <2>3 DEF StatusInv, ClicksInv
    <2> QED
      BY <2>4, <2>5, <2>6 DEF StatusInv
  <1>3. CASE panicked' = TRUE /\ UNCHANGED clicks
    BY <1>1, <1>3 DEF StatusInv, ShapeInv, RpcInv, ClicksInv
  <1> QED
    BY <1>2, <1>3 DEF ClickCalls

\* What a bot's answer makes of a click.
LEMMA ClickResults ==
    ASSUME NEW result \in RefusalsOf("GetCallbackQueryAnswer")
    PROVE  /\ Typed("GetCallbackQueryAnswer", result) \in Results \ {"OK"}
           /\ Typed("GetCallbackQueryAnswer", result) = "CallbackAnswerError 502" <=> result = "502"
  BY DEF RefusalsOf, Typed, Results, Waiting, Typing

LEMMA ClickReturnsStep ==
    ASSUME StatusInv, NEW g \in Goroutines, ClickReturns(g)
    PROVE  StatusInv'
  <1>1. clicks[g].at = "call" /\ UNCHANGED <<closed, panicked>>
    BY DEF ClickReturns
  <1>2. PICK result \in {"OK"} \cup RefusalsOf("GetCallbackQueryAnswer") :
         /\ clicks' = [clicks EXCEPT ![g].at = "put",
                         ![g].result = IF ~clicks[g].mine THEN "none"
                                       ELSE IF result = "OK" THEN "OK"
                                       ELSE Typed("GetCallbackQueryAnswer", result)]
         /\ rpc' = IF ~clicks[g].mine THEN rpc
                   ELSE [rpc EXCEPT !.changes = IF result \in {"OK", "502"} THEN @ + 1 ELSE @,
                                    !.flood = result = "flood"]
    BY DEF ClickReturns
  <1> DEFINE told == IF result = "OK" THEN "OK" ELSE Typed("GetCallbackQueryAnswer", result)
  <1>3. told \in Results /\ (told \in {"OK", "CallbackAnswerError 502"} <=> result \in {"OK", "502"})
    BY ClickResults DEF Results
  <1>4. clicks' = [clicks EXCEPT ![g].at = "put", ![g].result = IF ~clicks[g].mine THEN "none" ELSE told]
    BY <1>2
  <1> HIDE DEF told
  <1>5. /\ DOMAIN clicks' = Goroutines
        /\ \A h \in Goroutines : h # g => clicks'[h] = clicks[h]
        /\ clicks'[g] = [clicks[g] EXCEPT !.at = "put",
                                          !.result = IF ~clicks[g].mine THEN "none" ELSE told]
    BY <1>4 DEF StatusInv, ShapeInv
  <1>6. /\ clicks'[g] \in ClickRecord(clicks'[g].data) /\ clicks'[g].at = "put"
        /\ clicks'[g].result = IF ~clicks[g].mine THEN "none" ELSE told
    BY <1>3, <1>5 DEF StatusInv, ShapeInv, ClickRecord
  <1>7. clicks'[g].mine <=> clicks[g].mine
    BY <1>5 DEF StatusInv, ShapeInv, ClickRecord
  <1>8. CASE ~clicks[g].mine
    <2>1. UNCHANGED rpc
      BY <1>2, <1>8
    <2>2. ShapeInv'
      BY <1>1, <1>5, <1>6, <2>1 DEF StatusInv, ShapeInv
    <2>3. RpcInv'
      BY <2>1 DEF StatusInv, RpcInv
    <2>4. ClicksInv'
      <3> SUFFICES ASSUME NEW h \in Goroutines, clicks'[h].mine
                   PROVE  /\ clicks'[h] = clicks[h] /\ clicks[h].mine
                          /\ \A k \in Goroutines : clicks'[k].mine => clicks[k].mine
        BY <2>1 DEF StatusInv, ClicksInv
      <3>1. h # g
        BY <1>7, <1>8
      <3>2. ASSUME NEW k \in Goroutines, clicks'[k].mine PROVE clicks[k].mine
        BY <1>5, <1>7, <3>2
      <3> QED
        BY <1>5, <3>1, <3>2
    <2> QED
      BY <2>2, <2>3, <2>4 DEF StatusInv
  <1>9. CASE clicks[g].mine
    <2>1. /\ rpc.at = "click" /\ rpc.result = "none" /\ rpc.changes = 0
          /\ \A h \in Goroutines : clicks[h].mine => h = g
          /\ rpc \in RpcRecord(rpc.call, rpc.status) /\ rpc.call = "GetCallbackQueryAnswer"
      BY <1>1, <1>9 DEF StatusInv, ShapeInv, ClicksInv, RpcInv
    <2> DEFINE made == IF result \in {"OK", "502"} THEN rpc.changes + 1 ELSE rpc.changes
               flooded == result = "flood"
    <2>2. rpc' = [rpc EXCEPT !.changes = made, !.flood = flooded]
      BY <1>2, <1>9
    <2>3. made \in 0..1 /\ Tells(told, made)
      <3>1. made \in 0..1
        BY <2>1
      <3>2. CASE result \in {"OK", "502"}
        <4>1. made = 1
          BY <2>1, <3>2
        <4> HIDE DEF made
        <4> QED
          BY <1>3, <3>1, <3>2, <4>1 DEF Tells
      <3>3. CASE result \notin {"OK", "502"}
        <4>1. made = 0
          BY <2>1, <3>3
        <4> HIDE DEF made
        <4> QED
          BY <1>3, <3>1, <3>3, <4>1 DEF Tells
      <3> QED
        BY <3>2, <3>3
    <2>4. flooded \in BOOLEAN
      OBVIOUS
    <2> HIDE DEF made, flooded
    <2>5. /\ rpc' \in RpcRecord(rpc'.call, rpc'.status) /\ rpc'.at = "click" /\ rpc'.result = "none"
          /\ rpc'.changes = made /\ rpc'.call = "GetCallbackQueryAnswer"
      BY <2>1, <2>2, <2>3, <2>4 DEF RpcRecord
    <2>6. ShapeInv'
      BY <1>1, <1>5, <1>6, <2>5 DEF StatusInv, ShapeInv
    <2>7. RpcInv'
      BY <2>5 DEF RpcInv
    <2>8. ClicksInv'
      <3>1. \A h \in Goroutines : clicks'[h].mine => h = g
        BY <1>5, <2>1
      <3>2. clicks'[g].result \in Results /\ Tells(clicks'[g].result, rpc'.changes)
        BY <1>3, <1>6, <1>9, <2>3, <2>5
      <3> QED
        BY <1>6, <2>5, <3>1, <3>2 DEF ClicksInv
    <2> QED
      BY <2>6, <2>7, <2>8 DEF StatusInv
  <1> QED
    BY <1>8, <1>9

LEMMA ClickPutStep ==
    ASSUME StatusInv, NEW g \in Goroutines, ClickPut(g)
    PROVE  StatusInv'
  <1>1. /\ clicks[g].at = "put" /\ UNCHANGED <<closed, panicked>>
        /\ clicks' = [clicks EXCEPT ![g] = Free]
        /\ rpc' = IF clicks[g].mine THEN [rpc EXCEPT !.result = clicks[g].result] ELSE rpc
    BY DEF ClickPut
  <1>2. Free.mine = FALSE /\ Free.data = "none"
    BY DEF Free
  <1>3. /\ DOMAIN clicks' = Goroutines /\ clicks'[g] = Free
        /\ \A h \in Goroutines : h # g => clicks'[h] = clicks[h]
    BY <1>1 DEF StatusInv, ShapeInv
  <1> HIDE DEF Free
  <1>4. \A h \in Goroutines : clicks'[h] \in ClickRecord(clicks'[h].data)
    BY <1>2, <1>3, QuietShape DEF StatusInv, ShapeInv
  <1>5. CASE ~clicks[g].mine
    <2>1. UNCHANGED rpc
      BY <1>1, <1>5
    <2> QED
      BY <1>1, <1>2, <1>3, <1>4, <2>1 DEF StatusInv, ShapeInv, RpcInv, ClicksInv
  <1>6. CASE clicks[g].mine
    <2>1. /\ rpc.at = "click" /\ rpc.call = "GetCallbackQueryAnswer"
          /\ clicks[g].result \in Results /\ Tells(clicks[g].result, rpc.changes)
          /\ \A h \in Goroutines : clicks[h].mine => h = g
          /\ rpc \in RpcRecord(rpc.call, rpc.status)
      BY <1>1, <1>6 DEF StatusInv, ShapeInv, ClicksInv, RpcInv
    <2>2. /\ rpc' \in RpcRecord(rpc'.call, rpc'.status) /\ rpc'.at = "click"
          /\ rpc'.call = "GetCallbackQueryAnswer" /\ rpc'.changes = rpc.changes
          /\ rpc'.result = clicks[g].result
      BY <1>1, <1>6, <2>1 DEF RpcRecord
    <2>3. ShapeInv'
      BY <1>1, <1>3, <1>4, <2>2 DEF StatusInv, ShapeInv
    <2>4. RpcInv'
      BY <2>1, <2>2 DEF RpcInv
    <2>5. ClicksInv'
      BY <1>2, <1>3, <2>1 DEF ClicksInv
    <2> QED
      BY <2>3, <2>4, <2>5 DEF StatusInv
  <1> QED
    BY <1>5, <1>6

LEMMA CallDoneStep ==
    ASSUME StatusInv, CallDone
    PROVE  StatusInv'
  <1>1. PICK reason \in {"DeadlineExceeded", "Canceled"} : rpc' = [rpc EXCEPT !.ctx = reason]
    BY DEF CallDone
  <1>2. rpc.at = "click" /\ UNCHANGED <<clicks, closed, panicked>>
    BY DEF CallDone
  <1>3. /\ rpc' \in RpcRecord(rpc'.call, rpc'.status) /\ rpc'.at = "click" /\ rpc'.call = rpc.call
        /\ rpc'.changes = rpc.changes /\ rpc'.result = rpc.result
    BY <1>1, <1>2 DEF StatusInv, ShapeInv, RpcRecord
  <1> QED
    BY <1>2, <1>3 DEF StatusInv, ShapeInv, RpcInv, ClicksInv

LEMMA SelectStep ==
    ASSUME StatusInv, Select
    PROVE  StatusInv'
  <1>1. rpc.at = "click" /\ clicks' = Abandoned /\ UNCHANGED <<closed, panicked>>
    BY DEF Select
  <1>2. /\ DOMAIN clicks' = Goroutines
        /\ \A g \in Goroutines : clicks'[g] = [clicks[g] EXCEPT !.mine = FALSE, !.result = "none"]
    BY <1>1 DEF Abandoned
  <1>3. \A g \in Goroutines : clicks'[g] \in ClickRecord(clicks'[g].data)
    BY <1>2 DEF StatusInv, ShapeInv, ClickRecord
  <1>4. \A g \in Goroutines : ~clicks'[g].mine
    BY <1>2 DEF StatusInv, ShapeInv, ClickRecord
  <1>5. /\ rpc \in RpcRecord(rpc.call, rpc.status) /\ rpc.call \in Changing
        /\ rpc.result # "none" => Tells(rpc.result, rpc.changes)
        /\ rpc.ctx \in {"live", "DeadlineExceeded", "Canceled"} /\ rpc.result \in Results \cup {"none"}
    BY <1>1 DEF StatusInv, ShapeInv, RpcInv, RpcRecord, Changing
  <1>6. CASE rpc.ctx # "live" /\ rpc' = Answered(rpc, rpc.ctx)
    <2>1. rpc.ctx # "OK" /\ rpc.ctx \notin Refusing
      BY <1>5, <1>6 DEF Refusing
    <2> QED
      BY <1>1, <1>2, <1>3, <1>4, <1>5, <1>6, <2>1, AnswerStep DEF StatusInv, ShapeInv
  <1>7. CASE rpc.result = "OK" /\ rpc' = Answered(rpc, "OK")
    <2>1. rpc.changes = 1
      BY <1>5, <1>7 DEF Tells
    <2> QED
      BY <1>1, <1>2, <1>3, <1>4, <1>5, <1>7, <2>1, AnswerStep DEF StatusInv, ShapeInv, Refusing
  <1>8. CASE rpc.result \in Results \ {"OK"} /\ rpc' = Answered(rpc, mapFacadeError(rpc.result))
    <2>1. /\ mapFacadeError(rpc.result) # "OK"
          /\ mapFacadeError(rpc.result) \in Refusing => rpc.changes = 0
      BY <1>5, <1>8 DEF mapFacadeError, Results, Refusing, Tells
    <2> HIDE DEF mapFacadeError
    <2> QED
      BY <1>1, <1>2, <1>3, <1>4, <1>5, <1>8, <2>1, AnswerStep DEF StatusInv, ShapeInv
  <1> QED
    BY <1>5, <1>6, <1>7, <1>8 DEF Select

LEMMA DeliverStep ==
    ASSUME StatusInv, Deliver
    PROVE  StatusInv'
  <1>1. rpc.at = "answered" /\ rpc' = Quiet /\ UNCHANGED <<clicks, closed, panicked>>
    BY DEF Deliver
  <1>2. NoneMine
    BY <1>1, NobodysClick
  <1>3. Quiet.at = "idle" /\ Quiet.call = "none" /\ Quiet.status = "none"
    BY DEF Quiet
  <1> HIDE DEF Quiet
  <1>4. ShapeInv'
    BY <1>1, <1>3, QuietShape DEF StatusInv, ShapeInv
  <1>5. RpcInv'
    BY <1>1, <1>3 DEF RpcInv
  <1>6. ClicksInv'
    BY <1>1, <1>2 DEF ClicksInv, NoneMine
  <1> QED
    BY <1>4, <1>5, <1>6 DEF StatusInv

LEMMA FacadeStep == StatusInv /\ [FacadeNext]_allVars => StatusInv'
  <1> SUFFICES ASSUME StatusInv, [FacadeNext]_allVars PROVE StatusInv'
    OBVIOUS
  <1>1. CASE UNCHANGED facadeVars
    BY <1>1 DEF StatusInv, ShapeInv, RpcInv, ClicksInv, facadeVars
  <1>2. CASE Close
    BY <1>2 DEF Close, StatusInv, ShapeInv, RpcInv, ClicksInv
  <1>3. CASE Handler
    BY <1>3, ReceiveStep, ClickCallbackButtonStep, ClickCallsStep, ClickReturnsStep, SucceedStep,
       RefuseStep, ReadyStep, NilClientStep, CallDoneStep, SelectStep, DeliverStep DEF Handler
  <1>4. CASE Clicking
    BY <1>4, ClickPutStep DEF Clicking
  <1> QED
    BY <1>1, <1>2, <1>3, <1>4 DEF FacadeNext, allVars

\* The invariant of requests, their clicks and what Telegram did for them.
THEOREM StatusSafety == FacadeSpec => []StatusInv
  BY FacadeInitInv, FacadeStep, PTL DEF FacadeSpec

\* OK stands for exactly one change by a request that makes one, a status a client answers
\* by asking again or differently for none.
THEOREM StatusTellsTheTruth == FacadeSpec => []StatusIsTrue
  <1>1. StatusInv => StatusIsTrue
    <2> SUFFICES ASSUME StatusInv PROVE StatusIsTrue
      OBVIOUS
    <2>1. \A g \in Goroutines : clicks[g].at \in {"free", "start", "call", "put"} /\ clicks[g].mine \in BOOLEAN
      BY DEF StatusInv, ShapeInv, ClickRecord
    <2>2. Cardinality({g \in Goroutines : clicks[g].mine}) <= 1
      <3>1. CASE \E g \in Goroutines : clicks[g].mine
        <4>1. PICK g \in Goroutines : {h \in Goroutines : clicks[h].mine} = {g}
          BY <3>1 DEF StatusInv, ClicksInv
        <4>2. Cardinality({g}) = 1
          BY FS_Singleton
        <4> QED
          BY <4>1, <4>2
      <3>2. CASE ~\E g \in Goroutines : clicks[g].mine
        <4>1. {h \in Goroutines : clicks[h].mine} = {}
          BY <3>2
        <4> QED
          BY <4>1, FS_EmptySet
      <3> QED
        BY <3>1, <3>2
    <2>3. /\ rpc.at \in {"idle", "call", "wait", "click", "answered"}
          /\ rpc.req \in Requests \cup {"none"} /\ rpc.ctx \in {"live", "DeadlineExceeded", "Canceled"}
          /\ rpc.changes \in 0..1 /\ rpc.due \in 0..1
      BY DEF StatusInv, ShapeInv, RpcRecord
    <2>4. FacadeTypeOK
      BY <2>1, <2>2, <2>3 DEF FacadeTypeOK, StatusInv, ShapeInv
    <2> QED
      BY <2>3, <2>4 DEF StatusIsTrue, StatusInv, RpcInv, Refusing
  <1> QED
    BY <1>1, StatusSafety, PTL

(***************************************************************************)
(* Menus and clicks                                                        *)
(***************************************************************************)

\* What clients may click on was offered, and so was what the goroutines click.
OfferInv ==
    /\ \A data \in offered : Offers(data)
    /\ \A g \in Goroutines : clicks[g].at # "free" => clicks[g].data \in offered

LEMMA MenusOffer ==
    ASSUME NEW k \in Keyboards, NEW data \in Clickable(inlineMenuToProto(k))
    PROVE  Offers(data)
  <1> DEFINE menu == inlineMenuToProto(k)
  <1>1. PICK i \in DOMAIN menu : \E c \in menu[i] : c.action = "callback_data" /\ c.value = data
    BY DEF Clickable
  <1>2. PICK c \in menu[i] : c.action = "callback_data" /\ c.value = data
    BY <1>1
  <1>3. /\ i \in DOMAIN k.rows
        /\ menu[i] = {IF k.kind = "inline" THEN InlineButton(b) ELSE ReplyButton(b) :
                         b \in ToSet(k.rows[i]) \ {NoButton}}
    BY DEF inlineMenuToProto
  <1>4. PICK b \in ToSet(k.rows[i]) :
            c = IF k.kind = "inline" THEN InlineButton(b) ELSE ReplyButton(b)
    BY <1>2, <1>3
  <1>5. k.kind = "inline"
    BY <1>2, <1>4 DEF ReplyButton
  <1>6. b.type = "callback" /\ b.data = data
    BY <1>2, <1>4, <1>5 DEF InlineButton
  <1>7. b = [type |-> b.type, data |-> b.data]
    BY <1>3, FacadeAssumption
  <1> QED
    BY <1>3, <1>5, <1>6, <1>7 DEF Offers

LEMMA OfferInit == FacadeInit => OfferInv
  BY DEF FacadeInit, OfferInv, Free

\* What is offered stays so, and a busy goroutine keeps what it clicks.
LEMMA OfferKept ==
    ASSUME OfferInv, offered \subseteq offered', \A data \in offered' : Offers(data),
           \A g \in Goroutines : clicks'[g].at # "free" =>
               clicks[g].at # "free" /\ clicks'[g].data = clicks[g].data
    PROVE  OfferInv'
  BY DEF OfferInv, Offers

LEMMA OfferStep == StatusInv /\ OfferInv /\ [FacadeNext]_allVars => OfferInv'
  <1> SUFFICES ASSUME StatusInv, OfferInv, [FacadeNext]_allVars PROVE OfferInv'
    OBVIOUS
  <1>a. DOMAIN clicks = Goroutines /\ \A g \in Goroutines : clicks[g] \in ClickRecord(clicks[g].data)
    BY DEF StatusInv, ShapeInv
  <1>1. ASSUME UNCHANGED <<clicks, offered>> PROVE OfferInv'
    BY <1>1, OfferKept DEF OfferInv
  <1>2. CASE Succeed
    <2>1. offered' = offered \/ \E k \in Keyboards :
              offered' = offered \cup Clickable(inlineMenuToProto(k))
      BY <1>2 DEF Succeed
    <2>2. offered \subseteq offered' /\ \A data \in offered' : Offers(data)
      BY <2>1, MenusOffer DEF OfferInv
    <2>3. UNCHANGED clicks
      BY <1>2 DEF Succeed
    <2> QED
      BY <2>2, <2>3, OfferKept
  <1>3. ASSUME NEW g \in Goroutines, NEW data \in offered, ClickCallbackButton(g, data)
        PROVE  OfferInv'
    <2> DEFINE r == [Free EXCEPT !.at = "start", !.data = data, !.mine = TRUE]
    <2>1. r.data = data
      BY DEF Free
    <2>2. /\ clicks' = [clicks EXCEPT ![g] = r] /\ offered' = offered
      BY <1>3 DEF ClickCallbackButton
    <2> QED
      BY <1>a, <2>1, <2>2 DEF OfferInv, Offers
  <1>4. ASSUME NEW g \in Goroutines, ClickCalls(g) \/ ClickReturns(g) \/ ClickPut(g)
        PROVE  OfferInv'
    <2>1. offered' = offered /\ \A h \in Goroutines : h # g => clicks'[h] = clicks[h]
      BY <1>a, <1>4 DEF ClickCalls, ClickReturns, ClickPut
    <2>2. clicks'[g].at # "free" => clicks[g].at # "free" /\ clicks'[g].data = clicks[g].data
      <3>1. CASE ClickCalls(g)
        BY <1>a, <3>1 DEF ClickCalls, ClickRecord
      <3>2. CASE ClickReturns(g)
        <4>1. PICK x : clicks' = [clicks EXCEPT ![g].at = "put", ![g].result = x]
          BY <3>2 DEF ClickReturns
        <4> QED
          BY <1>a, <3>2, <4>1 DEF ClickReturns, ClickRecord
      <3>3. CASE ClickPut(g)
        BY <1>a, <3>3 DEF ClickPut, Free
      <3> QED
        BY <1>4, <3>1, <3>2, <3>3
    <2> QED
      BY <2>1, <2>2, OfferKept DEF OfferInv
  <1>5. CASE Select
    <2>1. offered' = offered /\ clicks' = Abandoned
      BY <1>5 DEF Select
    <2>2. \A g \in Goroutines : clicks'[g].at = clicks[g].at /\ clicks'[g].data = clicks[g].data
      BY <1>a, <2>1 DEF Abandoned, ClickRecord
    <2> QED
      BY <2>1, <2>2, OfferKept DEF OfferInv
  <1>6. CASE UNCHANGED facadeVars \/ Close \/ Refuse \/ Ready \/ NilClient \/ CallDone \/ Deliver
             \/ \E q \in Requests : Receive(q)
    BY <1>1, <1>6 DEF facadeVars, Close, Refuse, Ready, NilClient, CallDone, Deliver, Receive
  <1> QED
    BY <1>2, <1>3, <1>4, <1>5, <1>6 DEF FacadeNext, allVars, Handler, Clicking

\* What is clicked is the data of a callback button that a bot offered, never an URL or
\* another button's payload (transport.go, inlineMenuToProto).
THEOREM OnlyOffersAreClicked == FacadeSpec => []ClicksAreOffered
  <1>1. OfferInv => ClicksAreOffered
    BY DEF OfferInv, ClicksAreOffered
  <1> QED
    BY <1>1, OfferInit, OfferStep, StatusSafety, PTL DEF FacadeSpec

\* What AuthFlow promises, the process that has the facade keeps.
THEOREM FacadeSubmitsWhatIsAsked == FacadeSpec => []SubmitsWhatIsAsked
  BY FacadeKeepsAuth, SubmissionsAreAskedFor, PTL
=============================================================================
