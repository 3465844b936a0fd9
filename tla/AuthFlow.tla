-------------------------------- MODULE AuthFlow --------------------------------
(***************************************************************************)
(* Authorization: auth.Service (internal/app/auth), the authorization part *)
(* of internal/infra/telegram/repo.go, the terminal and HTTP transports    *)
(* that feed it.  TDLib asks for a phone number, a code and perhaps a      *)
(* password; one channel carries whatever anybody enters.                  *)
(***************************************************************************)
EXTENDS Integers, Sequences, FiniteSets

CONSTANTS
    Posts,         \* HTTP: the inputs that are posted, one request each
    Kind,          \* HTTP: the kind each of them is posted as
    MaxRejects,    \* bound: inputs TDLib rejects although their kind is right
    MaxFailures,   \* bound: reads and logouts that fail
    SubscribeLate  \* the terminal may subscribe after TDLib's first state

Kinds == {"phone", "code", "password"}

ASSUME AuthAssumption ==
    /\ IsFiniteSet(Posts) /\ Kind \in [Posts -> Kinds]
    /\ {MaxRejects, MaxFailures} \subseteq Nat /\ SubscribeLate \in BOOLEAN

VARIABLES
    td,          \* TDLib's authorization state
    given,       \* the authorizer's channels phoneCh, codeCh and passwordCh
    events,      \* authStates
    run,         \* Service.run: [at, state, input]
    inputs,      \* inputChan, of capacity 1: the kinds of what was entered
    subscribed,  \* the terminal's listener is registered
    calls,       \* goroutines of setState calling the listener, by state
    shown,       \* authStateChan
    term,        \* the terminal's loop: [at, state]
    post,        \* HTTP requests
    clientDone,  \* NewClient has returned
    stopping,    \* the process context is cancelled
    rejects, failures

tdVars   == <<td, given, clientDone, rejects>>
termVars == <<subscribed, shown, term, failures>>
vars == <<tdVars, events, run, inputs, calls, termVars, post, stopping>>

States == Kinds \cup {"ready", "closed"}

TypeOK ==
    /\ td \in States \cup {"start"} /\ given \in [Kinds -> Seq(Kinds)]
    /\ events \in Seq(States) /\ Len(events) <= 10
    /\ run \in [at: {"events", "input", "submit", "done"}, state: States \cup {"start"},
                input: Kinds \cup {"none"}]
    /\ inputs \in Seq(Kinds) /\ Len(inputs) <= 1
    /\ calls \in [States -> Nat] /\ shown \in Seq(States) /\ Len(shown) <= 10
    /\ term \in [at: {"off", "select", "prompt", "put", "line", "gone"}, state: States \cup {"start"}]
    /\ post \in [Posts -> {"idle", "put", "accepted"}]
    /\ {subscribed, clientDone, stopping} \subseteq BOOLEAN
    /\ rejects \in 0..MaxRejects /\ failures \in 0..MaxFailures

Init ==
    /\ td = "start" /\ given = [k \in Kinds |-> <<>>] /\ events = <<>>
    /\ run = [at |-> "events", state |-> "start", input |-> "none"]
    /\ inputs = <<>> /\ calls = [s \in States |-> 0]
    /\ subscribed = ~SubscribeLate
    /\ term = [at |-> IF SubscribeLate THEN "off" ELSE "select", state |-> "start"]
    /\ shown = <<>> /\ post = [p \in Posts |-> "idle"]
    /\ clientDone = FALSE /\ stopping = FALSE /\ rejects = 0 /\ failures = 0

(***************************************************************************)
(* TDLib, its authorizer, runAuthLoop and listenAuthStates                 *)
(***************************************************************************)

\* What TDLib turns to after an input it takes, or at the start.
After(s) == CASE s = "start" -> {"phone", "ready", "closed"}
              [] s = "closed" -> {"phone"}
              [] s = "phone" -> {"code"}
              [] s = "code" -> {"password", "ready"}
              [] s = "password" -> {"ready"}

\* listenAuthStates queues a state relevant to auth.Service; the last one may get lost.
Relay(s) == Len(events) < 10 /\ events' = Append(events, s)

Enter(s) ==
    /\ td' = s
    /\ \/ Relay(s)
       \/ s = "ready" /\ UNCHANGED events

Begin ==
    /\ td \in {"start", "closed"}
    /\ \E s \in After(td) : Enter(s)
    /\ UNCHANGED <<given, clientDone, rejects, run, inputs, calls, termVars, post, stopping>>

Accept ==
    /\ td \in Kinds /\ given[td] # <<>> /\ Head(given[td]) = td
    /\ given' = [given EXCEPT ![td] = Tail(@)]
    /\ \E s \in After(td) : Enter(s)
    /\ UNCHANGED <<clientDone, rejects, run, inputs, calls, termVars, post, stopping>>

\* A rejected input brings the same state again.
Reject ==
    /\ td \in Kinds /\ given[td] # <<>>
    /\ given' = [given EXCEPT ![td] = Tail(@)]
    /\ \/ Head(given[td]) # td /\ UNCHANGED rejects
       \/ rejects < MaxRejects /\ rejects' = rejects + 1
    /\ Relay(td)
    /\ UNCHANGED <<td, clientDone, run, inputs, calls, termVars, post, stopping>>

ClientDone ==
    /\ td = "ready" /\ ~clientDone
    /\ clientDone' = TRUE
    /\ UNCHANGED <<td, given, rejects, events, run, inputs, calls, termVars, post, stopping>>

(***************************************************************************)
(* auth.Service                                                            *)
(***************************************************************************)

\* setState: every listener is called in a goroutine of its own.
CalledTwice(s) == IF subscribed THEN [calls EXCEPT ![s] = @ + 2] ELSE calls
                                                \* mutant: the listener is there twice
Called(s) == IF subscribed THEN [calls EXCEPT ![s] = @ + 1] ELSE calls

NeverSkipped(s) == FALSE                        \* mutant: transitional states are taken
Skipped(s) == s = "closed"

RunEvent ==
    LET s == Head(events) IN
    /\ run.at = "events" /\ events # <<>>
    /\ events' = Tail(events)
    /\ IF Skipped(s) THEN UNCHANGED <<run, calls>>
       ELSE /\ calls' = Called(s)
            /\ run' = [at |-> IF s = "ready" THEN "done" ELSE "input", state |-> s, input |-> "none"]
    /\ UNCHANGED <<tdVars, inputs, termVars, post, stopping>>

RunInput ==
    /\ run.at = "input" /\ inputs # <<>>
    /\ inputs' = Tail(inputs)
    /\ run' = [run EXCEPT !.at = "submit", !.input = Head(inputs)]
    /\ UNCHANGED <<tdVars, events, calls, termVars, post, stopping>>

\* SubmitPhone, SubmitCode and SubmitPassword: channels of capacity 1.
Submit(kind, input) == given[kind] = <<>> /\ given' = [given EXCEPT ![kind] = <<input>>]

RunSubmit ==
    /\ run.at = "submit"
    /\ IF run.state \in Kinds THEN Submit(run.state, run.input) ELSE UNCHANGED given
    /\ run' = [run EXCEPT !.at = "events", !.input = "none"]
    /\ UNCHANGED <<td, clientDone, rejects, events, inputs, calls, termVars, post, stopping>>

StopsOutside == {"events"}                      \* mutant: the inner select has no ctx.Done
Stops == {"events", "input"}

RunStop ==
    /\ stopping /\ run.at \in Stops
    /\ run' = [run EXCEPT !.at = "done"]
    /\ UNCHANGED <<tdVars, events, inputs, calls, termVars, post, stopping>>

(***************************************************************************)
(* The terminal                                                            *)
(***************************************************************************)
Subscribe ==
    /\ term.at = "off"
    /\ subscribed' = TRUE
    /\ term' = [term EXCEPT !.at = "select"]
    /\ UNCHANGED <<tdVars, events, run, inputs, calls, shown, failures, post, stopping>>

\* The listener: a full channel drops the state.
Hear(s) ==
    /\ calls[s] > 0
    /\ calls' = [calls EXCEPT ![s] = @ - 1]
    /\ shown' = IF Len(shown) < 10 THEN Append(shown, s) ELSE shown
    /\ UNCHANGED <<tdVars, events, run, inputs, subscribed, term, failures, post, stopping>>

ProcessAuth ==
    LET s == Head(shown) IN
    /\ term.at = "select" /\ shown # <<>>
    /\ shown' = Tail(shown)
    /\ term' = IF s \in Kinds THEN [at |-> "prompt", state |-> s] ELSE [term EXCEPT !.state = s]
    /\ UNCHANGED <<tdVars, events, run, inputs, calls, subscribed, failures, post, stopping>>

\* The user answers the prompt (a configured phone number answers by itself), or reading
\* fails and the prompt is given up.
ReadPassword ==
    /\ term.at = "prompt"
    /\ \/ term' = [term EXCEPT !.at = "put"] /\ UNCHANGED failures
       \/ term' = [term EXCEPT !.at = "select"]
          /\ failures < MaxFailures /\ failures' = failures + 1
    /\ UNCHANGED <<tdVars, events, run, inputs, calls, subscribed, shown, post, stopping>>

PutInput ==
    /\ term.at = "put" /\ inputs = <<>>
    /\ inputs' = <<term.state>>
    /\ term' = [term EXCEPT !.at = "select"]
    /\ UNCHANGED <<tdVars, events, run, calls, subscribed, shown, failures, post, stopping>>

PromptLine ==
    /\ term.at = "select" /\ clientDone
    /\ term' = [term EXCEPT !.at = "line"]
    /\ UNCHANGED <<tdVars, events, run, inputs, calls, subscribed, shown, failures, post, stopping>>

\* processCommand: exit and a successful logout stop the process; others, and a logout
\* that fails, lead back to the loop; the end of the input ends the loop alone.
ReadLine ==
    /\ term.at = "line"
    /\ \/ term' = [term EXCEPT !.at = "select"] /\ stopping' \in {stopping, TRUE}
          /\ UNCHANGED failures
       \/ term' = [term EXCEPT !.at = "gone"] /\ UNCHANGED stopping
          /\ failures < MaxFailures /\ failures' = failures + 1
    /\ UNCHANGED <<tdVars, events, run, inputs, calls, subscribed, shown, post>>

TermStop ==
    /\ stopping /\ term.at = "select"
    /\ term' = [term EXCEPT !.at = "gone"]
    /\ UNCHANGED <<tdVars, events, run, inputs, calls, subscribed, shown, failures, post, stopping>>

(***************************************************************************)
(* HTTP and the process                                                    *)
(***************************************************************************)

\* handlePostPhone, handlePostCode, handlePostPassword: the state is not looked at.
Post(p) ==
    /\ post[p] = "idle"
    /\ post' = [post EXCEPT ![p] = "put"]
    /\ UNCHANGED <<tdVars, events, run, inputs, calls, termVars, stopping>>

PostInput(p) ==
    /\ post[p] = "put" /\ inputs = <<>>
    /\ inputs' = <<Kind[p]>>
    /\ post' = [post EXCEPT ![p] = "accepted"]
    /\ UNCHANGED <<tdVars, events, run, calls, termVars, stopping>>

Signal ==
    /\ ~stopping /\ stopping' = TRUE
    /\ UNCHANGED <<tdVars, events, run, inputs, calls, termVars, post>>

Tdlib    == Begin \/ Accept \/ Reject \/ ClientDone
Service  == RunEvent \/ RunInput \/ RunSubmit
Listener == \E s \in States : Hear(s)
Terminal == Subscribe \/ ProcessAuth \/ ReadPassword \/ PutInput \/ PromptLine \/ ReadLine \/ TermStop
Http     == \E p \in Posts : Post(p) \/ PostInput(p)
Next == Tdlib \/ Service \/ RunStop \/ Listener \/ Terminal \/ Http \/ Signal

Spec == Init /\ [][Next]_vars

\* The goroutines of the process go on; users and TDLib owe nothing.
FairSpec ==
    /\ Spec /\ WF_vars(Service) /\ WF_vars(RunStop) /\ WF_vars(Listener)
    /\ WF_vars(Subscribe \/ ProcessAuth \/ PutInput)

(***************************************************************************)
(* Properties                                                              *)
(***************************************************************************)

\* While the terminal alone enters anything, an input is submitted as what it was asked
\* for: a code never goes out as a password.
OwnKind ==
    run.at = "submit" /\ (\A p \in Posts : post[p] = "idle") => run.input = run.state

\* Whatever is entered when, by whom and how often it is rejected, the service submits
\* only in the state TDLib is in and into an empty channel, so it never blocks there; and
\* what the terminal was asked for goes out as nothing else.
SubmitsWhatIsAsked ==
    /\ TypeOK
    /\ run.at = "submit" => run.state \in Kinds /\ td = run.state /\ given[td] = <<>>
    /\ OwnKind

\* The first authorization through the terminal (README.md:109): when the service waits for
\* input, the terminal has asked for it or will.  The code breaks it: a state set before
\* Run has subscribed is not told to the terminal, and nobody asks again.
PromptReaches ==
    run.at = "input" ~> run.at # "input" \/ term.at \in {"prompt", "put", "gone"} \/ failures > 0
================================================================================
