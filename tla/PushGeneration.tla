---------------------------- MODULE PushGeneration ----------------------------
(***************************************************************************)
(* One dispatcher generation of internal/service/push/dispatcher.go: the   *)
(* lease that lets submitters race retirement, one bounded channel and one *)
(* worker per endpoint, and Retire.  Each call of Submit, SubmitV2 or      *)
(* SubmitV2Only carries one event, so calls name events too.               *)
(***************************************************************************)
EXTENDS Integers, Sequences, FiniteSets

CONSTANTS
    Calls,       \* submissions
    Retirers,    \* callers of Retire
    Endpoints,   \* endpoint names of the generation
    Names,       \* endpoint names callers may use
    NamesOf,     \* the names each call asks for, in order
    Capacity,    \* the buffer of each endpoint (EndpointConfig.BufferCapacity)
    NoCall

ASSUME GenerationAssumption ==
    /\ IsFiniteSet(Calls)
    /\ Endpoints \subseteq Names
    /\ NamesOf \in [Calls -> Seq(Names)]
    /\ Capacity \in [Endpoints -> Int]
    /\ NoCall \notin Calls

DefaultCapacity == 256

\* newGeneration: a capacity that is not positive means the default.
BufferOf(e) == IF Capacity[e] <= 0 THEN DefaultCapacity ELSE Capacity[e]

VARIABLES
    pc,            \* each call: "idle", "leased", "returned"
    todo,          \* the names a leased call has still to try
    result,        \* SubmitResults of each call
    activeLeases, retiring,
    retirer,       \* callers of Retire
    retireDone,    \* the channel retireDone is closed
    buffer,        \* worker.queue of each endpoint
    closed,        \* endpoints whose channel is closed
    worker,        \* each worker: "receive", "push", "exited"
    inFlight,      \* the event a worker pushes, or NoCall
    tries,         \* sink.Push calls so far, per endpoint and event
    panicked       \* a send hit a closed channel

callVars   == <<pc, todo, result>>
leaseVars  == <<activeLeases, retiring>>
workerVars == <<worker, inFlight, tries>>
vars == <<callVars, leaseVars, retirer, retireDone, buffer, closed, workerVars, panicked>>

Outcomes == {"none", "accepted", "full", "retired", "unknown"}

TypeOK ==
    /\ pc \in [Calls -> {"idle", "leased", "returned"}]
    /\ todo \in [Calls -> Seq(Names)]
    /\ result \in [Calls -> [Names -> Outcomes]]
    /\ activeLeases \in Nat
    /\ retiring \in BOOLEAN
    /\ retirer \in [Retirers -> {"idle", "check", "parked", "join", "wait", "returned"}]
    /\ retireDone \in BOOLEAN
    /\ buffer \in [Endpoints -> Seq(Calls)]
    /\ \A e \in Endpoints : Len(buffer[e]) <= BufferOf(e)
    /\ closed \subseteq Endpoints
    /\ worker \in [Endpoints -> {"receive", "push", "exited"}]
    /\ inFlight \in [Endpoints -> Calls \cup {NoCall}]
    /\ tries \in [Endpoints -> [Calls -> Nat]]
    /\ panicked \in BOOLEAN

Init ==
    /\ pc = [c \in Calls |-> "idle"]
    /\ todo = [c \in Calls |-> <<>>]
    /\ result = [c \in Calls |-> [n \in Names |-> "none"]]
    /\ activeLeases = 0 /\ retiring = FALSE
    /\ retirer = [r \in Retirers |-> "idle"]
    /\ retireDone = FALSE
    /\ buffer = [e \in Endpoints |-> <<>>] /\ closed = {}
    /\ worker = [e \in Endpoints |-> "receive"]
    /\ inFlight = [e \in Endpoints |-> NoCall]
    /\ tries = [e \in Endpoints |-> [c \in Calls |-> 0]]
    /\ panicked = FALSE

(***************************************************************************)
(* Submit                                                                  *)
(***************************************************************************)

\* acquireLease refuses: every name of the call is rejected as retired.
SubmitRetired(c) ==
    /\ pc[c] = "idle" /\ retiring
    /\ pc' = [pc EXCEPT ![c] = "returned"]
    /\ result' = [result EXCEPT ![c] = [n \in Names |->
                    IF \E i \in DOMAIN NamesOf[c] : NamesOf[c][i] = n
                    THEN "retired" ELSE "none"]]
    /\ UNCHANGED <<todo, leaseVars, retirer, retireDone, buffer, closed, workerVars, panicked>>

\* acquireLease, under leaseMu.
AcquireLease(c) ==
    /\ pc[c] = "idle" /\ ~retiring
    /\ pc' = [pc EXCEPT ![c] = "leased"]
    /\ todo' = [todo EXCEPT ![c] = NamesOf[c]]
    /\ activeLeases' = activeLeases + 1
    /\ UNCHANGED <<result, retiring, retirer, retireDone, buffer, closed, workerVars, panicked>>

\* One turn of submit's loop: the outcome it gives to name n and what it sends.
HasRoom(n) == Len(buffer[n]) < BufferOf(n)
Outcome(c, n) ==
    IF result[c][n] # "none" THEN result[c][n]
    ELSE IF n \notin Endpoints THEN "unknown"
    ELSE IF HasRoom(n) THEN "accepted" ELSE "full"

Sends(c, n) == result[c][n] = "none" /\ n \in Endpoints

TrySend(c) ==
    LET n == Head(todo[c]) IN
    /\ pc[c] = "leased" /\ todo[c] # <<>>
    /\ todo' = [todo EXCEPT ![c] = Tail(@)]
    /\ IF Sends(c, n) /\ n \in closed
       THEN panicked' = TRUE /\ UNCHANGED <<result, buffer>>
       ELSE /\ result' = [result EXCEPT ![c][n] = Outcome(c, n)]
            /\ buffer' = IF Sends(c, n) /\ Outcome(c, n) = "accepted"
                         THEN [buffer EXCEPT ![n] = Append(@, c)] ELSE buffer
            /\ UNCHANGED panicked
    /\ UNCHANGED <<pc, leaseVars, retirer, retireDone, closed, workerVars>>

NoBroadcast(r) == FALSE            \* mutant: leaseCond is not signalled
Woken(r) == activeLeases = 1 /\ retirer[r] = "parked"

\* releaseLease, under leaseMu: the last lease wakes the retirer that waits.
ReleaseLease(c) ==
    /\ pc[c] = "leased" /\ todo[c] = <<>>
    /\ pc' = [pc EXCEPT ![c] = "returned"]
    /\ activeLeases' = activeLeases - 1
    /\ retirer' = [r \in Retirers |-> IF Woken(r) THEN "check" ELSE retirer[r]]
    /\ UNCHANGED <<todo, result, retiring, retireDone, buffer, closed, workerVars, panicked>>

(***************************************************************************)
(* Retire                                                                  *)
(***************************************************************************)

\* retireOnce: the first caller runs the retirement, the others wait for it.
CallRetire(r) ==
    /\ retirer[r] = "idle"
    /\ IF retiring
       THEN retirer' = [retirer EXCEPT ![r] = "wait"] /\ UNCHANGED retiring
       ELSE retirer' = [retirer EXCEPT ![r] = "check"] /\ retiring' = TRUE
    /\ UNCHANGED <<callVars, activeLeases, retireDone, buffer, closed, workerVars, panicked>>

\* leaseCond.Wait gives leaseMu back until the broadcast.
WaitForLeases(r) ==
    /\ retirer[r] = "check" /\ activeLeases # 0
    /\ retirer' = [retirer EXCEPT ![r] = "parked"]
    /\ UNCHANGED <<callVars, leaseVars, retireDone, buffer, closed, workerVars, panicked>>

\* No lease is active: leaseMu is held while every channel is closed.
LeasesIgnored == TRUE              \* mutant: channels close under active senders
LeasesGone == activeLeases = 0
CloseQueues(r) ==
    /\ retirer[r] = "check" /\ LeasesGone
    /\ retirer' = [retirer EXCEPT ![r] = "join"]
    /\ closed' = Endpoints
    /\ UNCHANGED <<callVars, leaseVars, retireDone, buffer, workerVars, panicked>>

\* workers.Wait, then close(retireDone).
SomeWorkerGone == Endpoints = {} \/ \E e \in Endpoints : worker[e] = "exited"
                                   \* mutant: the first worker ends the wait
WorkersGone == \A e \in Endpoints : worker[e] = "exited"
JoinWorkers(r) ==
    /\ retirer[r] = "join" /\ WorkersGone
    /\ retirer' = [retirer EXCEPT ![r] = "returned"]
    /\ retireDone' = TRUE
    /\ UNCHANGED <<callVars, leaseVars, buffer, closed, workerVars, panicked>>

AwaitRetired(r) ==
    /\ retirer[r] = "wait" /\ retireDone
    /\ retirer' = [retirer EXCEPT ![r] = "returned"]
    /\ UNCHANGED <<callVars, leaseVars, retireDone, buffer, closed, workerVars, panicked>>

(***************************************************************************)
(* The endpoint workers                                                    *)
(***************************************************************************)

Receive(e) ==
    /\ worker[e] = "receive" /\ buffer[e] # <<>>
    /\ worker' = [worker EXCEPT ![e] = "push"]
    /\ inFlight' = [inFlight EXCEPT ![e] = Head(buffer[e])]
    /\ buffer' = [buffer EXCEPT ![e] = Tail(@)]
    /\ UNCHANGED <<callVars, leaseVars, retirer, retireDone, closed, tries, panicked>>

\* sink.Push ends within the worker's timeout; success or failure, the event is
\* done with.
Push(e) ==
    /\ worker[e] = "push"
    /\ tries' = [tries EXCEPT ![e][inFlight[e]] = @ + 1]
    /\ inFlight' = [inFlight EXCEPT ![e] = NoCall]
    /\ worker' = [worker EXCEPT ![e] = "receive"]
    /\ UNCHANGED <<callVars, leaseVars, retirer, retireDone, buffer, closed, panicked>>

\* The range loop ends when the channel is closed and empty.
Drained(e) == buffer[e] = <<>>
Exit(e) ==
    /\ worker[e] = "receive" /\ e \in closed /\ Drained(e)
    /\ worker' = [worker EXCEPT ![e] = "exited"]
    /\ UNCHANGED <<callVars, leaseVars, retirer, retireDone, buffer, closed, inFlight, tries, panicked>>

Submit(c) == SubmitRetired(c) \/ AcquireLease(c) \/ TrySend(c) \/ ReleaseLease(c)
Retire(r) == CallRetire(r) \/ WaitForLeases(r) \/ CloseQueues(r) \/ JoinWorkers(r) \/ AwaitRetired(r)
RunWorker(e) == Receive(e) \/ Push(e) \/ Exit(e)

Next == \/ \E c \in Calls : Submit(c)
        \/ \E r \in Retirers : Retire(r)
        \/ \E e \in Endpoints : RunWorker(e)

Spec == Init /\ [][Next]_vars

\* A call that holds a lease goes on (its sends do not block), a retirement that was
\* called goes on, workers run: sink.Push is bounded by the endpoint's timeout.
Fairness == /\ \A c \in Calls : WF_vars(TrySend(c) \/ ReleaseLease(c))
            /\ \A r \in Retirers : WF_vars(retirer[r] # "idle" /\ Retire(r))
            /\ \A e \in Endpoints : WF_vars(RunWorker(e))
FairSpec == Spec /\ Fairness

(***************************************************************************)
(* Properties                                                              *)
(***************************************************************************)

\* No submitter sends on a channel Retire has closed, which would panic the caller:
\* the lease of acquireLease keeps Retire from closing while a call is in its loop.
NeverPanics == ~panicked

Accepted == {p \in Calls \X Endpoints : result[p[1]][p[2]] = "accepted"}

\* The generation implements the at-most-once promise of doc.go: one attempt for an
\* accepted event, none for a rejected one, nothing left when Retire returns.
Promise == INSTANCE AtMostOnce
             WITH accepted <- Accepted, attempts <- tries, retired <- retireDone
KeepsPromise == Promise!Spec

\* Every call of Retire returns: the wait for leases misses no wakeup, the workers
\* drain and end, and concurrent callers are released by the first.
RetireReturns == \A r \in Retirers : retirer[r] # "idle" ~> retirer[r] = "returned"

\* An accepted event is attempted, whether or not the generation is retired meanwhile.
AcceptedIsTried ==
    \A c \in Calls, e \in Endpoints : result[c][e] = "accepted" ~> tries[e][c] = 1

\* Retirement is a drain that ends: nobody waits in it for ever, and nothing accepted is
\* left in a queue for it.
RetireDrains == RetireReturns /\ AcceptedIsTried
================================================================================
