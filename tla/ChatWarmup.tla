------------------------------- MODULE ChatWarmup -------------------------------
(***************************************************************************)
(* internal/infra/telegram/warmup.go: calls that name one chat wait until  *)
(* TDLib knows it.  Certificates (readyEntry) live in the table of the     *)
(* TDLib session; table 0 is the one of New, table 1 the one runAuthLoop   *)
(* swaps in when the client appears, which happens once.  The calls of     *)
(* other chats meet this one only in the LoadChats bootstrap.              *)
(***************************************************************************)
EXTENDS Naturals, FiniteSets

CONSTANTS
    Calls,        \* calls of withReady for the chat
    MaxLeaves,    \* bound: how often TDLib drops the dialog again
    MaxFaults,    \* bound: calls that fail with another error
    MaxIntervals  \* bound: how often warmMinInterval passes between bootstraps

ASSUME WarmupAssumption ==
    /\ IsFiniteSet(Calls)
    /\ {MaxLeaves, MaxFaults, MaxIntervals} \subseteq Nat

Tables  == {0, 1}
Entries == 1..(Cardinality(Calls) + 3)   \* enough: held ones, tabled ones and a fresh one
Nothing == 0

VARIABLES
    table,      \* readiness: the current table
    client,     \* clientAdapter is set
    certs,      \* the chat's entry in each table, or Nothing
    closed,     \* entries whose ready channel is closed
    known,      \* TDLib: the dialog is in the map
    edge,       \* TDLib: an updateNewChat is on its way to listenUpdates
    pc,         \* each call: "idle", "table", "first", "select", "drive", "loading",
                \*   "parked", "awake", "lookup", "retry", "refute",
                \*   "returned"
    result,     \* "none", "ok", "error", "notReady", "panic"
    entry,      \* the entry the call waits on
    cur,        \* the table the call read last
    expired,    \* calls whose deadline has fired
    refuted,    \* observer: the call has itself refuted the entry it holds
    inFlight,   \* warmInFlight
    recent,     \* time.Since(lastWarm) < warmMinInterval
    leaves, faults, intervals

certVars == <<certs, closed>>
tdVars   == <<table, client, known, edge>>
callVars == <<pc, result, entry, cur, expired, refuted>>
warmVars == <<inFlight, recent, intervals>>
vars == <<certVars, tdVars, callVars, warmVars, leaves, faults>>

TypeOK ==
    /\ table \in Tables /\ client \in BOOLEAN
    /\ certs \in [Tables -> Entries \cup {Nothing}] /\ closed \subseteq Entries
    /\ {known, edge, inFlight, recent} \subseteq BOOLEAN
    /\ pc \in [Calls -> {"idle", "table", "first", "select", "drive", "loading", "parked",
                         "awake", "lookup", "retry", "refute", "returned"}]
    /\ result \in [Calls -> {"none", "ok", "error", "notReady", "panic"}]
    /\ entry \in [Calls -> Entries \cup {Nothing}] /\ cur \in [Calls -> Tables]
    /\ expired \subseteq Calls /\ refuted \subseteq Calls
    /\ leaves \in 0..MaxLeaves /\ faults \in 0..MaxFaults /\ intervals \in 0..MaxIntervals

Init ==
    /\ table = 0 /\ client = FALSE
    /\ certs = [t \in Tables |-> Nothing] /\ closed = {}
    /\ known = FALSE /\ edge = FALSE
    /\ pc = [c \in Calls |-> "idle"] /\ result = [c \in Calls |-> "none"]
    /\ entry = [c \in Calls |-> Nothing] /\ cur = [c \in Calls |-> 0]
    /\ expired = {} /\ refuted = {}
    /\ inFlight = FALSE /\ recent = FALSE
    /\ leaves = 0 /\ faults = 0 /\ intervals = 0

(***************************************************************************)
(* sessionReadiness                                                        *)
(***************************************************************************)

\* An entry nobody refers to; closed ones are reused with a new channel.
Fresh == CHOOSE e \in Entries :
           /\ \A t \in Tables : certs[t] # e
           /\ \A c \in Calls : entry[c] # e

\* getOrInsert and the assignment of its result to the call's entry.
GetOrInsert(c, t) ==
    IF certs[t] # Nothing
    THEN entry' = [entry EXCEPT ![c] = certs[t]] /\ UNCHANGED certVars
    ELSE /\ entry' = [entry EXCEPT ![c] = Fresh]
         /\ certs' = [certs EXCEPT ![t] = Fresh]
         /\ closed' = closed \ {Fresh}

Certify(t) == closed' = closed \cup ({certs[t]} \ {Nothing}) /\ UNCHANGED certs

\* closeFailed closes and deletes whatever entry the table holds now.
ClosesNothing(t) == closed                      \* mutant: deleted but not closed
Failed(t) == closed \cup ({certs[t]} \ {Nothing})
CloseFailed(t) == closed' = Failed(t) /\ certs' = [certs EXCEPT ![t] = Nothing]

(***************************************************************************)
(* TDLib and the session                                                   *)
(***************************************************************************)

\* runAuthLoop: the table first, the adapter after it.
SwapSessionTable ==
    /\ table = 0 /\ table' = 1
    /\ UNCHANGED <<certVars, client, known, edge, callVars, warmVars, leaves, faults>>

SetClient ==
    /\ table = 1 /\ ~client /\ client' = TRUE
    /\ UNCHANGED <<certVars, table, known, edge, callVars, warmVars, leaves, faults>>

\* add_new_dialog: a message arrives or a page of LoadChats brings the chat.
Materialise ==
    /\ client /\ ~known /\ known' = TRUE /\ edge' = TRUE
    /\ UNCHANGED <<certVars, table, client, callVars, warmVars, leaves, faults>>

Leave ==
    /\ known /\ leaves < MaxLeaves
    /\ known' = FALSE /\ leaves' = leaves + 1
    /\ UNCHANGED <<certVars, table, client, edge, callVars, warmVars, faults>>

\* listenUpdates hands updateNewChat to the current table.
SignalEdge ==
    /\ edge /\ edge' = FALSE
    /\ Certify(table)
    /\ UNCHANGED <<table, client, known, callVars, warmVars, leaves, faults>>

(***************************************************************************)
(* withReady.  withChatReady passes the background context: no call is     *)
(* cancelled.                                                              *)
(***************************************************************************)
Goto(c, label) == pc' = [pc EXCEPT ![c] = label]
Stay == UNCHANGED <<result, entry, cur, expired, refuted>>
Return(c, outcome) ==
    /\ Goto(c, "returned")
    /\ result' = [result EXCEPT ![c] = outcome]
    /\ entry' = [entry EXCEPT ![c] = Nothing] /\ cur' = [cur EXCEPT ![c] = 0]
    /\ expired' = expired \ {c} /\ refuted' = refuted \ {c}

\* The call reads the table, then inserts its entry.
ReadTable(c) ==
    /\ pc[c] = "idle" /\ Goto(c, "table")
    /\ cur' = [cur EXCEPT ![c] = table]
    /\ UNCHANGED <<certVars, tdVars, result, entry, expired, refuted, warmVars, leaves, faults>>

Subscribe(c) ==
    /\ pc[c] = "table" /\ Goto(c, "first")
    /\ GetOrInsert(c, cur[c])
    /\ UNCHANGED <<tdVars, result, cur, expired, refuted, warmVars, leaves, faults>>

\* The first call of fn; before the client exists it dereferences a nil adapter.
FirstTry(c) ==
    /\ pc[c] = "first"
    /\ \/ ~client /\ Return(c, "panic") /\ UNCHANGED <<certVars, faults>>
       \/ client /\ known /\ Return(c, "ok") /\ Certify(cur[c]) /\ UNCHANGED faults
       \/ client /\ ~known /\ Goto(c, "select") /\ Stay /\ UNCHANGED <<certVars, faults>>
       \/ /\ client /\ faults < MaxFaults /\ faults' = faults + 1
          /\ Return(c, "error") /\ UNCHANGED certVars
    /\ UNCHANGED <<tdVars, warmVars, leaves>>

Expire(c) ==
    /\ pc[c] \notin {"idle", "table", "first", "returned"} /\ c \notin expired
    /\ expired' = expired \cup {c}
    /\ UNCHANGED <<certVars, tdVars, pc, result, entry, cur, refuted, warmVars, leaves, faults>>

\* The cases of the select.
Deadline(c) ==
    /\ pc[c] = "select" /\ c \in expired
    /\ CloseFailed(table) /\ Return(c, "notReady")
    /\ UNCHANGED <<tdVars, warmVars, leaves, faults>>

Tick(c) ==
    /\ pc[c] = "select" /\ Goto(c, "drive")
    /\ Stay /\ UNCHANGED <<certVars, tdVars, warmVars, leaves, faults>>

EntryReady(c) ==
    /\ pc[c] = "select" /\ entry[c] \in closed /\ Goto(c, "lookup")
    /\ Stay /\ UNCHANGED <<certVars, tdVars, warmVars, leaves, faults>>

\* Every wakeup reads the current table again and takes its entry.
Lookup(c) ==
    /\ pc[c] = "lookup" /\ Goto(c, "retry")
    /\ cur' = [cur EXCEPT ![c] = table] /\ refuted' = refuted \ {c}
    /\ GetOrInsert(c, table)
    /\ UNCHANGED <<tdVars, result, expired, warmVars, leaves, faults>>

Retry(c) ==
    /\ pc[c] = "retry"
    /\ \/ known /\ Return(c, "ok") /\ Certify(cur[c]) /\ UNCHANGED faults
       \/ ~known /\ Goto(c, "refute") /\ Stay /\ UNCHANGED <<certVars, faults>>
       \/ /\ faults < MaxFaults /\ faults' = faults + 1
          /\ Return(c, "error") /\ CloseFailed(cur[c])
    /\ UNCHANGED <<tdVars, warmVars, leaves>>

\* A closed certificate that fn has just refuted leaves the table; the call keeps its
\* own reference to it.
Refute(c) ==
    /\ pc[c] = "refute" /\ Goto(c, "select")
    /\ IF entry[c] \in closed
       THEN CloseFailed(cur[c]) /\ refuted' = refuted \cup {c}
       ELSE UNCHANGED <<certVars, refuted>>
    /\ UNCHANGED <<tdVars, result, entry, cur, expired, warmVars, leaves, faults>>

(***************************************************************************)
(* warmChatsOnce                                                           *)
(***************************************************************************)
MayLoad == ~inFlight
Drive(c) ==
    /\ pc[c] = "drive"
    /\ \/ ~MayLoad /\ Goto(c, "parked") /\ UNCHANGED warmVars
       \/ /\ MayLoad /\ recent
          /\ Goto(c, "lookup") /\ UNCHANGED warmVars
       \/ /\ MayLoad /\ ~recent
          /\ inFlight' = TRUE
          /\ Goto(c, "loading") /\ UNCHANGED <<recent, intervals>>
    /\ Stay /\ UNCHANGED <<certVars, tdVars, leaves, faults>>

\* The loop of LoadChats ends with an error, the normal one being an empty list; a page
\* may bring the chat.
NobodyWoken == pc                               \* mutant: warmCond is not signalled
Woken == [d \in Calls |-> IF pc[d] = "parked" THEN "awake" ELSE pc[d]]
LoadChats(c) ==
    /\ pc[c] = "loading"
    /\ pc' = [Woken EXCEPT ![c] = "lookup"]
    /\ inFlight' = FALSE /\ recent' = TRUE
    /\ \/ ~known /\ known' = TRUE /\ edge' = TRUE
       \/ UNCHANGED <<known, edge>>
    /\ UNCHANGED <<certVars, table, client, result, entry, cur, expired, refuted, intervals,
                   leaves, faults>>

\* warmCond.Wait returns with warmMu: the loop looks at warmInFlight again.
WaitOver(c) ==
    /\ pc[c] = "awake" /\ Goto(c, IF inFlight THEN "parked" ELSE "lookup")
    /\ Stay /\ UNCHANGED <<certVars, tdVars, warmVars, leaves, faults>>

IntervalOver ==
    /\ recent /\ recent' = FALSE
    /\ intervals < MaxIntervals /\ intervals' = intervals + 1
    /\ UNCHANGED <<certVars, tdVars, callVars, inFlight, leaves, faults>>

Step(c) ==
    \/ ReadTable(c) \/ Subscribe(c) \/ FirstTry(c)
    \/ EntryReady(c) \/ Lookup(c) \/ Retry(c) \/ Refute(c)
    \/ Drive(c) \/ WaitOver(c) \/ LoadChats(c)

Session == SwapSessionTable \/ SetClient

Next ==
    \/ Session \/ Materialise \/ Leave \/ SignalEdge \/ IntervalOver
    \/ \E c \in Calls : Step(c) \/ Expire(c) \/ Deadline(c) \/ Tick(c)

Spec == Init /\ [][Next]_vars

\* A call that began goes on, the timer fires, select does not ignore a ready case for
\* ever (Go picks among them at random), the listener handles the updates it has.
Started(c) == pc[c] # "idle" /\ Step(c)
FairSpec ==
    /\ Spec /\ WF_vars(SignalEdge)
    /\ \A c \in Calls : WF_vars(Started(c)) /\ WF_vars(Expire(c)) /\ SF_vars(Deadline(c))

(***************************************************************************)
(* Properties                                                              *)
(***************************************************************************)

\* One LoadChats bootstrap at a time, whichever calls miss at once.
OneBootstrap ==
    /\ TypeOK
    /\ Cardinality({c \in Calls : pc[c] = "loading"}) = IF inFlight THEN 1 ELSE 0

\* A call that sleeps on an open certificate sleeps on the one held by the table it read
\* last: no close or delete leaves it open, and no second waiter puts another in its place.
\* So the edges, successes and failures that go to that table wake it.  The table may be the
\* retired one only for a call that has not woken since the swap (then its tick or deadline
\* wakes it, see EveryCallReturns): whoever wakes retries, certifies and closes in the current
\* table, the swap cannot come in between.  The bootstrap a caller waits for is the only one.
NobodySleepsOrphaned ==
    /\ OneBootstrap
    /\ \A c \in Calls : pc[c] = "select" /\ entry[c] \notin closed => certs[cur[c]] = entry[c]
    /\ \A c \in Calls : pc[c] \in {"retry", "refute"} => cur[c] = table

\* "The current table, not the captured one: after a session change it is there that the
\* entry this waiter waits on lives" (internal/infra/telegram/warmup.go:281).
WaitsInCurrentTable ==
    \A c \in Calls : pc[c] = "select" /\ entry[c] \notin closed => certs[table] = entry[c]

\* Every call returns: no wakeup of the bootstrap is lost, and the deadline ends what
\* neither an edge nor a tick does.
EveryCallReturns == \A c \in Calls : pc[c] # "idle" ~> pc[c] = "returned"

\* "A certificate the oracle refuted is deleted: otherwise the next select wakes at once
\* on the same one" (internal/infra/telegram/warmup.go:313).
RefutedIsLeft == \A c \in refuted : pc[c] = "select" => entry[c] \notin closed
================================================================================
