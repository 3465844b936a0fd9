------------------------------ MODULE SourceOpener ------------------------------
(***************************************************************************)
(* internal/infra/telegram/source_opener.go: one worker keeps every channel *)
(* and supergroup that is a source of the rules open in the TDLib session. *)
(* ApplySet (each load of the rules) and OnSessionSwap (the session        *)
(* appears) change the state under o.mu and then signal the worker through *)
(* a channel of capacity one.                                              *)
(***************************************************************************)
EXTENDS Naturals, FiniteSets

CONSTANTS
    Chats,        \* ids a rule set may name as sources
    Channels,     \* those of them that are channels or supergroups
    NoChat,
    Passes,       \* openRetryPasses (4 in the code)
    MaxEdges,     \* bound: calls of ApplySet
    MaxFaults,    \* bound: failing GetChat, OpenChat and CloseChat calls
    MayCancel     \* the lifecycle context may be cancelled

ASSUME OpenerAssumption ==
    /\ IsFiniteSet(Chats) /\ Channels \subseteq Chats /\ NoChat \notin Chats
    /\ Passes \in Nat \ {0} /\ {MaxEdges, MaxFaults} \subseteq Nat
    /\ MayCancel \in BOOLEAN

VARIABLES
    desired, opened, sessionReady,
    request,      \* reconcileReq holds its token
    unsignalled,  \* callers between o.mu.Unlock and signal
    pc,           \* the worker: "asleep", "close", "closed", "pass", "open", "openChat",
                  \*   "record", "stopped"
    todo,         \* the worker: toClose or toOpen, what is left of it
    current,      \* the worker: the chat of the call in progress
    missed,       \* the worker: stillUnopened # 0
    pass,
    cancelled,
    opens,        \* TDLib: how often each chat is open (open_count)
    lingering,    \* TDLib: of those, opens whose CloseChat failed
    edges, faults

stateVars  == <<desired, opened, sessionReady, request, unsignalled>>
workerVars == <<pc, todo, current, missed, pass>>
tdlibVars  == <<opens, lingering>>
openerVars == <<stateVars, workerVars, tdlibVars, cancelled, edges, faults>>

OpenerTypeOK ==
    /\ desired \subseteq Channels /\ opened \subseteq Channels
    /\ {sessionReady, request, missed, cancelled} \subseteq BOOLEAN
    /\ unsignalled \subseteq {"apply", "swap"}
    /\ pc \in {"asleep", "close", "closed", "pass", "open", "openChat", "record", "stopped"}
    /\ todo \subseteq Channels
    /\ current \in Channels \cup {NoChat}
    /\ pass \in 1..Passes
    /\ opens \in [Channels -> Nat] /\ lingering \in [Channels -> Nat]
    /\ edges \in 0..MaxEdges /\ faults \in 0..MaxFaults

\* Start: the worker begins with a reconciliation that finds nothing to close.
OpenerInit ==
    /\ desired = {} /\ opened = {} /\ sessionReady = FALSE
    /\ request = FALSE /\ unsignalled = {}
    /\ pc = "close" /\ todo = {} /\ current = NoChat /\ missed = FALSE /\ pass = 1
    /\ cancelled = FALSE
    /\ opens = [c \in Channels |-> 0] /\ lingering = [c \in Channels |-> 0]
    /\ edges = 0 /\ faults = 0

(***************************************************************************)
(* The two edges                                                           *)
(***************************************************************************)

\* A load of the rules passes the full set of its sources.
ApplySet(ids) ==
    /\ "apply" \notin unsignalled
    /\ edges < MaxEdges /\ edges' = edges + 1
    /\ desired' = ids \cap Channels
    /\ unsignalled' = unsignalled \cup {"apply"}
    /\ UNCHANGED <<opened, sessionReady, request, workerVars, tdlibVars, cancelled, faults>>

\* runAuthLoop fires the callback once, when the client exists.
OnSessionSwap ==
    /\ ~sessionReady
    /\ sessionReady' = TRUE /\ opened' = {}
    /\ unsignalled' = unsignalled \cup {"swap"}
    /\ UNCHANGED <<desired, request, workerVars, tdlibVars, cancelled, edges, faults>>

\* A token that is already there stands for this signal too.
OnlyApplyWakes(who) == who = "apply"            \* mutant: the swap does not signal
Wakes(who) == TRUE
Signal(who) ==
    /\ who \in unsignalled
    /\ unsignalled' = unsignalled \ {who}
    /\ request' = (request \/ Wakes(who))
    /\ UNCHANGED <<desired, opened, sessionReady, workerVars, tdlibVars, cancelled, edges, faults>>

Cancel ==
    /\ MayCancel /\ ~cancelled /\ cancelled' = TRUE
    /\ UNCHANGED <<stateVars, workerVars, tdlibVars, edges, faults>>

(***************************************************************************)
(* The worker                                                              *)
(***************************************************************************)

\* One call of the client fails.
Fails == faults < MaxFaults /\ faults' = faults + 1

\* A token wakes the worker; reconcile computes what to close.
Wake ==
    /\ pc = "asleep" /\ request
    /\ request' = FALSE
    /\ pc' = "close" /\ todo' = opened \ desired
    /\ UNCHANGED <<desired, opened, sessionReady, unsignalled, current, missed, pass,
                   tdlibVars, cancelled, edges, faults>>

\* With the context cancelled select may also end the worker.
Stop ==
    /\ pc = "asleep" /\ cancelled
    /\ pc' = "stopped"
    /\ UNCHANGED <<stateVars, todo, current, missed, pass, tdlibVars, cancelled, edges, faults>>

\* CloseChat succeeds or is logged; the source is taken out of opened afterwards.
CloseChat(c) ==
    /\ pc = "close" /\ c \in todo
    /\ \/ opens' = [opens EXCEPT ![c] = @ - 1] /\ UNCHANGED <<lingering, faults>>
       \/ Fails /\ lingering' = [lingering EXCEPT ![c] = @ + 1] /\ UNCHANGED opens
    /\ pc' = "closed" /\ current' = c /\ todo' = todo \ {c}
    /\ UNCHANGED <<stateVars, missed, pass, cancelled, edges>>

NotOpened(c) == opened \ {c}
ForgetClosed ==
    /\ pc = "closed"
    /\ opened' = NotOpened(current)
    /\ pc' = "close" /\ current' = NoChat
    /\ UNCHANGED <<desired, sessionReady, request, unsignalled, todo, missed, pass,
                   tdlibVars, cancelled, edges, faults>>

CloseDone ==
    /\ pc = "close" /\ todo = {}
    /\ pc' = "pass" /\ pass' = 1
    /\ UNCHANGED <<stateVars, todo, current, missed, tdlibVars, cancelled, edges, faults>>

\* A pass: nothing before the session, else what is desired and not yet opened.
EverySource == desired                          \* mutant: the pass opens all of them
Unopened == desired \ opened
StartPass ==
    /\ pc = "pass"
    /\ IF ~sessionReady \/ Unopened = {}
       THEN pc' = "asleep" /\ UNCHANGED <<todo, missed>>
       ELSE pc' = "open" /\ todo' = Unopened /\ missed' = FALSE
    /\ UNCHANGED <<stateVars, current, pass, tdlibVars, cancelled, edges, faults>>

\* ctx.Err inside the pass: reconcile returns.
Interrupt ==
    /\ pc = "open" /\ cancelled /\ todo # {}
    /\ pc' = "asleep" /\ todo' = {}
    /\ UNCHANGED <<stateVars, current, missed, pass, tdlibVars, cancelled, edges, faults>>

\* GetChat of the next source.  The context may be cancelled while it runs.
GetChat(c) ==
    /\ pc = "open" /\ c \in todo /\ ~cancelled
    /\ todo' = todo \ {c}
    /\ \/ pc' = "openChat" /\ current' = c /\ UNCHANGED <<missed, faults>>
       \/ Fails /\ missed' = TRUE /\ UNCHANGED <<pc, current>>
    /\ UNCHANGED <<stateVars, pass, tdlibVars, cancelled, edges>>

OpenChat ==
    /\ pc = "openChat"
    /\ \/ /\ pc' = "record" /\ opens' = [opens EXCEPT ![current] = @ + 1]
          /\ UNCHANGED <<current, missed, faults>>
       \/ /\ Fails /\ missed' = TRUE /\ pc' = "open" /\ current' = NoChat
          /\ UNCHANGED opens
    /\ UNCHANGED <<stateVars, todo, pass, lingering, cancelled, edges>>

RecordOpen ==
    /\ pc = "record"
    /\ opened' = opened \cup {current}
    /\ pc' = "open" /\ current' = NoChat
    /\ UNCHANGED <<desired, sessionReady, request, unsignalled, todo, missed, pass,
                   tdlibVars, cancelled, edges, faults>>

\* The pass is over: done, another pass after the backoff, or the next edge.
NoMorePasses == FALSE                           \* mutant: no retry inside the edge
PassesLeft == pass < Passes
EndPass ==
    /\ pc = "open" /\ todo = {}
    /\ IF missed /\ PassesLeft THEN pc' = "pass" /\ pass' = pass + 1
       ELSE pc' = "asleep" /\ UNCHANGED pass
    /\ UNCHANGED <<stateVars, todo, current, missed, tdlibVars, cancelled, edges, faults>>

Worker ==
    \/ Wake \/ Stop \/ ForgetClosed \/ CloseDone \/ StartPass \/ Interrupt
    \/ OpenChat \/ RecordOpen \/ EndPass
    \/ \E c \in Channels : CloseChat(c) \/ GetChat(c)

OpenerNext ==
    \/ \E ids \in SUBSET Chats : ApplySet(ids)
    \/ OnSessionSwap \/ Cancel \/ Worker
    \/ \E who \in {"apply", "swap"} : Signal(who)

OpenerSpec == OpenerInit /\ [][OpenerNext]_openerVars

\* The worker runs and a caller that changed the state goes on to signal; nothing
\* says that the rules are loaded again or that the user authorises the session.
SignalStep == \E who \in {"apply", "swap"} : Signal(who)
FairOpener == OpenerSpec /\ WF_openerVars(Worker) /\ WF_openerVars(SignalStep)

(***************************************************************************)
(* Properties                                                              *)
(***************************************************************************)

\* Open once, keep: TDLib's open count of a source is one while the opener believes it
\* open, zero else, plus the closes that failed; ApplySet, swap, retries and the two
\* windows between a call and its record never make it open a source twice.
OpenOnceKeep ==
    /\ OpenerTypeOK
    /\ \A c \in Channels :
         LET busy(state) == pc = state /\ current = c
             believed == (c \in opened /\ ~busy("closed")) \/ busy("record")
         IN opens[c] = lingering[c] + (IF believed THEN 1 ELSE 0)

Resting == pc = "asleep" /\ ~request /\ unsignalled = {} /\ ~cancelled

\* Exactly the desired sources are open, unless the last reconciliation used all passes.
Settled ==
    sessionReady => /\ opened \subseteq desired
                    /\ desired \subseteq opened \/ (missed /\ pass = Passes)

\* No edge is lost between the mutex, the one-token channel and the worker: when the
\* worker sleeps and no token or signal is under way, the open set is settled.
RestIsSettled == Resting => Settled

\* The edges come to an end, and so does the work on them: unless the engine is being
\* stopped, the worker comes to rest with the open set of the last rule set.
Converges == <>[](~cancelled => Resting /\ Settled)
================================================================================
