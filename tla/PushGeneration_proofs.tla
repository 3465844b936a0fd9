------------------------- MODULE PushGeneration_proofs -------------------------
(***************************************************************************)
(* Proofs about a dispatcher generation, for any number of calls, retirers *)
(* and endpoints and any buffer sizes.                                     *)
(***************************************************************************)
EXTENDS PushGeneration, FiniteSetTheorems, TLAPS

Leased == {c \in Calls : pc[c] = "leased"}

\* The types the safety argument needs (the buffer bound of TypeOK is not among them).
Types ==
    /\ pc \in [Calls -> {"idle", "leased", "returned"}]
    /\ todo \in [Calls -> Seq(Names)]
    /\ result \in [Calls -> [Names -> Outcomes]]
    /\ activeLeases \in Nat
    /\ retiring \in BOOLEAN
    /\ retirer \in [Retirers -> {"idle", "check", "parked", "join", "wait", "returned"}]
    /\ retireDone \in BOOLEAN
    /\ buffer \in [Endpoints -> Seq(Calls)]
    /\ closed \subseteq Endpoints
    /\ worker \in [Endpoints -> {"receive", "push", "exited"}]
    /\ inFlight \in [Endpoints -> Calls \cup {NoCall}]
    /\ tries \in [Endpoints -> [Calls -> Nat]]
    /\ panicked \in BOOLEAN

\* The lease: activeLeases counts the calls in their loop, a channel is closed only
\* when there is none and no new one can come.
LeaseInv ==
    /\ activeLeases = Cardinality(Leased)
    /\ closed # {} => retiring /\ Leased = {}
    /\ \A r \in Retirers : retirer[r] # "idle" => retiring
    /\ ~panicked

\* A worker pushes exactly while an event is in flight.
WorkerInv == \A e \in Endpoints : worker[e] = "push" <=> inFlight[e] # NoCall

SafetyInv == Types /\ LeaseInv /\ WorkerInv

\* newGeneration never makes an unbuffered channel.
LEMMA CapacityPositive == \A e \in Endpoints : BufferOf(e) \in Nat /\ BufferOf(e) > 0
  BY GenerationAssumption DEF BufferOf, DefaultCapacity

\* Finitely many calls hold a lease, so that they can be counted.
LEMMA LeasedFinite == IsFiniteSet(Leased)
  <1>1. Leased \subseteq Calls
    BY DEF Leased
  <1> QED BY <1>1, GenerationAssumption, FS_Subset

\* The safety invariant holds of a new generation.
LEMMA SafetyInit == Init => SafetyInv
  <1> SUFFICES ASSUME Init PROVE SafetyInv
    OBVIOUS
  <1>1. Types
    <2>1. todo \in [Calls -> Seq(Names)] /\ buffer \in [Endpoints -> Seq(Calls)]
      BY DEF Init
    <2>2. result \in [Calls -> [Names -> Outcomes]]
      BY DEF Init, Outcomes
    <2>3. tries \in [Endpoints -> [Calls -> Nat]]
      BY DEF Init
    <2> QED BY <2>1, <2>2, <2>3 DEF Init, Types
  <1>2. Leased = {}
    BY DEF Init, Leased
  <1>3. LeaseInv
    BY <1>2, FS_EmptySet DEF Init, LeaseInv
  <1>4. WorkerInv
    BY DEF Init, WorkerInv
  <1> QED BY <1>1, <1>3, <1>4 DEF SafetyInv

\* Every step keeps the types,
LEMMA TypesStep == SafetyInv /\ [Next]_vars => Types'
  <1> SUFFICES ASSUME SafetyInv, [Next]_vars PROVE Types'
    OBVIOUS
  <1> USE DEF SafetyInv, Types
  <1>1. ASSUME NEW c \in Calls, SubmitRetired(c) PROVE Types'
    BY <1>1 DEF SubmitRetired, leaseVars, workerVars, Outcomes
  <1>2. ASSUME NEW c \in Calls, AcquireLease(c) PROVE Types'
    <2>1. NamesOf[c] \in Seq(Names)
      BY GenerationAssumption
    <2>2. todo' \in [Calls -> Seq(Names)]
      BY <1>2, <2>1 DEF AcquireLease
    <2> QED BY <1>2, <2>2 DEF AcquireLease, workerVars
  <1>3. ASSUME NEW c \in Calls, TrySend(c) PROVE Types'
    <2>1. Head(todo[c]) \in Names /\ Tail(todo[c]) \in Seq(Names)
      BY <1>3 DEF TrySend
    <2>2. Outcome(c, Head(todo[c])) \in Outcomes
      BY <2>1 DEF Outcome, Outcomes
    <2>3. \/ result' = result
          \/ result' = [result EXCEPT ![c][Head(todo[c])] = Outcome(c, Head(todo[c]))]
      BY <1>3 DEF TrySend
    <2>4. result' \in [Calls -> [Names -> Outcomes]]
      <3>1. [result[c] EXCEPT ![Head(todo[c])] = Outcome(c, Head(todo[c]))]
               \in [Names -> Outcomes]
        BY <2>1, <2>2
      <3> QED BY <2>3, <3>1
    <2>5. \/ buffer' = buffer
          \/ /\ Head(todo[c]) \in Endpoints
             /\ buffer' = [buffer EXCEPT ![Head(todo[c])] = Append(@, c)]
      BY <1>3 DEF TrySend, Sends
    <2>6. buffer' \in [Endpoints -> Seq(Calls)]
      <3>1. \A e \in Endpoints : Append(buffer[e], c) \in Seq(Calls)
        OBVIOUS
      <3> QED BY <2>5, <3>1
    <2> QED BY <1>3, <2>1, <2>4, <2>6 DEF TrySend, leaseVars, workerVars
  <1>4. ASSUME NEW c \in Calls, ReleaseLease(c) PROVE Types'
    <2>1. c \in Leased
      BY <1>4 DEF ReleaseLease, Leased
    <2>2. Cardinality(Leased) \in Nat /\ Cardinality(Leased) # 0
      BY <2>1, LeasedFinite, FS_CardinalityType, FS_EmptySet
    <2>3. activeLeases - 1 \in Nat
      BY <2>2 DEF LeaseInv
    <2> QED BY <1>4, <2>3 DEF ReleaseLease, workerVars
  <1>5. ASSUME NEW r \in Retirers, Retire(r) PROVE Types'
    BY <1>5 DEF Retire, CallRetire, WaitForLeases, CloseQueues, JoinWorkers,
                AwaitRetired, callVars, leaseVars, workerVars
  <1>6. ASSUME NEW e \in Endpoints, RunWorker(e) PROVE Types'
    <2>1. CASE Receive(e)
      BY <2>1 DEF Receive, callVars, leaseVars
    <2>2. CASE Push(e)
      BY <2>2 DEF Push, WorkerInv, callVars, leaseVars
    <2>3. CASE Exit(e)
      BY <2>3 DEF Exit, callVars, leaseVars
    <2> QED BY <1>6, <2>1, <2>2, <2>3 DEF RunWorker
  <1>7. CASE UNCHANGED vars
    BY <1>7 DEF vars, callVars, leaseVars, workerVars
  <1> QED BY <1>1, <1>2, <1>3, <1>4, <1>5, <1>6, <1>7 DEF Next, Submit

\* the worker's phase and its event in agreement,
LEMMA WorkerStep == SafetyInv /\ [Next]_vars => WorkerInv'
  <1> SUFFICES ASSUME SafetyInv, [Next]_vars PROVE WorkerInv'
    OBVIOUS
  <1> USE DEF SafetyInv, WorkerInv
  <1>1. ASSUME NEW c \in Calls, Submit(c) PROVE WorkerInv'
    BY <1>1 DEF Submit, SubmitRetired, AcquireLease, TrySend, ReleaseLease, workerVars
  <1>2. ASSUME NEW r \in Retirers, Retire(r) PROVE WorkerInv'
    BY <1>2 DEF Retire, CallRetire, WaitForLeases, CloseQueues, JoinWorkers,
                AwaitRetired, workerVars
  <1>3. ASSUME NEW e \in Endpoints, RunWorker(e) PROVE WorkerInv'
    <2>1. CASE Receive(e)
      <3>1. Head(buffer[e]) \in Calls
        BY <2>1 DEF Receive, Types
      <3> QED BY <2>1, <3>1, GenerationAssumption DEF Receive, Types
    <2>2. CASE Push(e)
      BY <2>2 DEF Push, Types
    <2>3. CASE Exit(e)
      BY <2>3 DEF Exit, Types
    <2> QED BY <1>3, <2>1, <2>2, <2>3 DEF RunWorker
  <1>4. CASE UNCHANGED vars
    BY <1>4 DEF vars, workerVars
  <1> QED BY <1>1, <1>2, <1>3, <1>4 DEF Next

\* and the leases in agreement with activeLeases and the closed channels.
LEMMA LeaseStep == SafetyInv /\ [Next]_vars => LeaseInv'
  <1> SUFFICES ASSUME SafetyInv, [Next]_vars PROVE LeaseInv'
    OBVIOUS
  <1> USE DEF SafetyInv, Types, LeaseInv
  <1>1. ASSUME NEW c \in Calls, SubmitRetired(c) PROVE LeaseInv'
    <2>1. Leased' = Leased
      BY <1>1 DEF SubmitRetired, Leased
    <2> QED BY <1>1, <2>1 DEF SubmitRetired, leaseVars
  <1>2. ASSUME NEW c \in Calls, AcquireLease(c) PROVE LeaseInv'
    <2>1. Leased' = Leased \cup {c} /\ c \notin Leased
      BY <1>2 DEF AcquireLease, Leased
    <2>2. Cardinality(Leased') = Cardinality(Leased) + 1
      BY <2>1, LeasedFinite, FS_AddElement
    <2> QED BY <1>2, <2>2 DEF AcquireLease
  <1>3. ASSUME NEW c \in Calls, TrySend(c) PROVE LeaseInv'
    <2>1. Leased' = Leased /\ c \in Leased
      BY <1>3 DEF TrySend, Leased
    <2>2. ~panicked'
      BY <1>3, <2>1 DEF TrySend
    <2> QED BY <1>3, <2>1, <2>2 DEF TrySend, leaseVars
  <1>4. ASSUME NEW c \in Calls, ReleaseLease(c) PROVE LeaseInv'
    <2>1. Leased' = Leased \ {c} /\ c \in Leased
      BY <1>4 DEF ReleaseLease, Leased
    <2>2. Cardinality(Leased') = Cardinality(Leased) - 1
      BY <2>1, LeasedFinite, FS_RemoveElement
    <2>3. \A r \in Retirers : retirer'[r] # "idle" => retirer[r] # "idle"
      BY <1>4 DEF ReleaseLease, Woken
    <2> QED BY <1>4, <2>1, <2>2, <2>3 DEF ReleaseLease
  <1>5. ASSUME NEW r \in Retirers, Retire(r) PROVE LeaseInv'
    <2>1. Leased' = Leased
      BY <1>5 DEF Retire, CallRetire, WaitForLeases, CloseQueues, JoinWorkers,
                  AwaitRetired, callVars, Leased
    <2>2. CASE CallRetire(r)
      BY <2>1, <2>2 DEF CallRetire
    <2>3. CASE WaitForLeases(r)
      BY <2>1, <2>3 DEF WaitForLeases, leaseVars
    <2>4. CASE CloseQueues(r)
      <3>1. Leased = {}
        BY <2>4, LeasedFinite, FS_EmptySet DEF CloseQueues, LeasesGone
      <3> QED BY <2>1, <2>4, <3>1 DEF CloseQueues, leaseVars
    <2>5. CASE JoinWorkers(r)
      BY <2>1, <2>5 DEF JoinWorkers, leaseVars
    <2>6. CASE AwaitRetired(r)
      BY <2>1, <2>6 DEF AwaitRetired, leaseVars
    <2> QED BY <1>5, <2>2, <2>3, <2>4, <2>5, <2>6 DEF Retire
  <1>6. ASSUME NEW e \in Endpoints, RunWorker(e) PROVE LeaseInv'
    <2>1. Leased' = Leased
      BY <1>6 DEF RunWorker, Receive, Push, Exit, callVars, Leased
    <2> QED BY <1>6, <2>1 DEF RunWorker, Receive, Push, Exit, callVars, leaseVars
  <1>7. CASE UNCHANGED vars
    <2>1. Leased' = Leased
      BY <1>7 DEF vars, callVars, Leased
    <2> QED BY <1>7, <2>1 DEF vars, callVars, leaseVars
  <1> QED BY <1>1, <1>2, <1>3, <1>4, <1>5, <1>6, <1>7 DEF Next, Submit

\* Types, leases and workers, as one invariant of the generation.
THEOREM Safety == Spec => []SafetyInv
  <1>1. SafetyInv /\ [Next]_vars => SafetyInv'
    BY TypesStep, WorkerStep, LeaseStep DEF SafetyInv
  <1> QED BY SafetyInit, <1>1, PTL DEF Spec

\* The channel of an endpoint never holds more than its buffer.
Bounded == \A e \in Endpoints : Len(buffer[e]) <= BufferOf(e)

\* A send happens only when there is room; everything else leaves the buffers or shrinks
\* them.
LEMMA BoundedStep == Bounded /\ SafetyInv /\ [Next]_vars => Bounded'
  <1> SUFFICES ASSUME Bounded, SafetyInv, [Next]_vars PROVE Bounded'
    OBVIOUS
  <1>a. buffer \in [Endpoints -> Seq(Calls)]
    BY DEF SafetyInv, Types
  <1>b. \A e \in Endpoints : BufferOf(e) \in Nat
    BY CapacityPositive
  <1>1. ASSUME NEW c \in Calls, TrySend(c) PROVE Bounded'
    <2> DEFINE n == Head(todo[c])
    <2>1. CASE buffer' = buffer
      BY <2>1 DEF Bounded, BufferOf
    <2>2. CASE n \in Endpoints /\ HasRoom(n) /\ buffer' = [buffer EXCEPT ![n] = Append(@, c)]
      <3>1. Len(buffer[n]) \in Nat /\ Len(buffer[n]) < BufferOf(n)
        BY <1>a, <2>2 DEF HasRoom
      <3>2. Len(Append(buffer[n], c)) = Len(buffer[n]) + 1
        BY <1>a, <2>2
      <3>3. Len(buffer'[n]) <= BufferOf(n)
        BY <1>a, <1>b, <2>2, <3>1, <3>2
      <3>4. \A e \in Endpoints : e # n => buffer'[e] = buffer[e]
        BY <1>a, <2>2
      <3> QED BY <3>3, <3>4 DEF Bounded, BufferOf
    <2>3. \/ buffer' = buffer
          \/ n \in Endpoints /\ HasRoom(n) /\ buffer' = [buffer EXCEPT ![n] = Append(@, c)]
      BY <1>1 DEF TrySend, Sends, Outcome
    <2> QED BY <2>1, <2>2, <2>3
  <1>2. ASSUME NEW e \in Endpoints, Receive(e) PROVE Bounded'
    <2>1. buffer[e] \in Seq(Calls) /\ buffer[e] # <<>>
      BY <1>a, <1>2 DEF Receive
    <2>2. Len(buffer'[e]) <= Len(buffer[e]) /\ Len(buffer'[e]) \in Nat /\ Len(buffer[e]) \in Nat
      BY <1>a, <1>2, <2>1 DEF Receive
    <2>3. Len(buffer'[e]) <= BufferOf(e)
      BY <1>b, <2>2 DEF Bounded
    <2>4. \A d \in Endpoints : d # e => buffer'[d] = buffer[d]
      BY <1>a, <1>2 DEF Receive
    <2> QED BY <2>3, <2>4 DEF Bounded, BufferOf
  <1>3. CASE UNCHANGED buffer
    BY <1>3 DEF Bounded, BufferOf
  <1> QED BY <1>1, <1>2, <1>3 DEF Next, Submit, Retire, RunWorker, SubmitRetired, AcquireLease,
             ReleaseLease, CallRetire, WaitForLeases, CloseQueues, JoinWorkers, AwaitRetired,
             Push, Exit, vars

\* Type correctness of a generation, the buffers of its endpoints included.
THEOREM TypeCorrect == Spec => []TypeOK
  <1>1. Init => Bounded
    BY CapacityPositive DEF Init, Bounded
  <1>2. Bounded /\ SafetyInv => TypeOK
    BY DEF Bounded, SafetyInv, Types, TypeOK
  <1> QED BY Safety, BoundedStep, <1>1, <1>2, PTL DEF Spec

\* No submitter ever sends on a channel that Retire has closed.
THEOREM NoSendOnClosedChannel == Spec => []NeverPanics
  <1>1. SafetyInv => NeverPanics
    BY DEF SafetyInv, LeaseInv, NeverPanics
  <1> QED BY Safety, <1>1, PTL

--------------------------------------------------------------------------------

\* Where an accepted event is: waiting once in the buffer, in flight, or tried.
BufferInv(e) ==
    /\ \A i, j \in DOMAIN buffer[e] : buffer[e][i] = buffer[e][j] => i = j
    /\ \A i \in DOMAIN buffer[e] :
         /\ result[buffer[e][i]][e] = "accepted"
         /\ tries[e][buffer[e][i]] = 0
         /\ inFlight[e] # buffer[e][i]
FlightInv(e) ==
    inFlight[e] # NoCall => /\ result[inFlight[e]][e] = "accepted"
                            /\ tries[e][inFlight[e]] = 0
TriesInv(e) ==
    \A c \in Calls :
      /\ tries[e][c] \in {0, 1}
      /\ tries[e][c] = 1 => result[c][e] = "accepted"
      /\ result[c][e] = "accepted" /\ tries[e][c] = 0 =>
           inFlight[e] = c \/ \E i \in DOMAIN buffer[e] : buffer[e][i] = c
ExitInv(e) == worker[e] = "exited" => e \in closed /\ buffer[e] = <<>>

PromiseInv ==
    /\ \A e \in Endpoints : BufferInv(e) /\ FlightInv(e) /\ TriesInv(e) /\ ExitInv(e)
    /\ \A c \in Calls : pc[c] = "idle" => \A n \in Names : result[c][n] = "none"
    /\ retireDone => \A e \in Endpoints : worker[e] = "exited"

\* A new generation holds and owes nothing.
LEMMA PromiseInit == Init => PromiseInv
  <1> SUFFICES ASSUME Init PROVE PromiseInv
    OBVIOUS
  <1> QED BY GenerationAssumption
          DEF Init, PromiseInv, BufferInv, FlightInv, TriesInv, ExitInv

\* A step that leaves results, buffers and workers alone.
LEMMA PromiseKept ==
    ASSUME PromiseInv, SafetyInv, UNCHANGED <<result, buffer, workerVars>>,
           closed \subseteq closed',
           \A c \in Calls : pc'[c] = "idle" => pc[c] = "idle",
           retireDone' => retireDone \/ WorkersGone
    PROVE  PromiseInv'
  BY DEF PromiseInv, BufferInv, FlightInv, TriesInv, ExitInv, workerVars, WorkersGone

\* Every step keeps each accepted event in exactly one place.
LEMMA PromiseStep == PromiseInv /\ SafetyInv /\ [Next]_vars => PromiseInv'
  <1> SUFFICES ASSUME PromiseInv, SafetyInv, [Next]_vars PROVE PromiseInv'
    OBVIOUS
  <1>1. ASSUME NEW c \in Calls, SubmitRetired(c) PROVE PromiseInv'
    <2>1. \A n \in Names : result[c][n] = "none" /\ result'[c][n] # "accepted"
      BY <1>1 DEF SubmitRetired, PromiseInv, SafetyInv, Types
    <2>2. \A d \in Calls : d # c => result'[d] = result[d]
      BY <1>1 DEF SubmitRetired, SafetyInv, Types
    <2>3. \A d \in Calls, n \in Names : result'[d][n] = "accepted" <=> result[d][n] = "accepted"
      BY <2>1, <2>2
    <2>4. \A d \in Calls : pc'[d] = "idle" => d # c /\ pc[d] = "idle"
      BY <1>1 DEF SubmitRetired, SafetyInv, Types
    <2>5. UNCHANGED <<buffer, worker, inFlight, tries, closed, retireDone>>
      BY <1>1 DEF SubmitRetired, workerVars
    <2>6. \A e \in Endpoints : e \in Names
      BY GenerationAssumption
    <2>7. ASSUME NEW e \in Endpoints
          PROVE (BufferInv(e) /\ FlightInv(e) /\ TriesInv(e) /\ ExitInv(e))'
      <3>1. \A i \in DOMAIN buffer[e] : buffer[e][i] \in Calls
        BY DEF SafetyInv, Types
      <3>2. inFlight[e] \in Calls \cup {NoCall}
        BY DEF SafetyInv, Types
      <3> QED BY <2>3, <2>5, <2>6, <3>1, <3>2
              DEF PromiseInv, BufferInv, FlightInv, TriesInv, ExitInv
    <2> QED BY <2>2, <2>4, <2>5, <2>7 DEF PromiseInv
  <1>2. ASSUME NEW c \in Calls, AcquireLease(c) PROVE PromiseInv'
    BY <1>2, PromiseKept DEF AcquireLease, SafetyInv, Types
  <1>3. ASSUME NEW c \in Calls, TrySend(c) PROVE PromiseInv'
    <2>1. PICK n \in Names : n = Head(todo[c])
      BY <1>3 DEF TrySend, SafetyInv, Types
    <2>2. pc[c] = "leased" /\ pc' = pc /\ closed = {} /\ ~panicked'
      BY <1>3 DEF TrySend, SafetyInv, Types, LeaseInv, Leased
    <2>3. UNCHANGED <<closed, worker, inFlight, tries, retireDone>>
      BY <1>3 DEF TrySend, workerVars
    <2>4. result' = [result EXCEPT ![c][n] = Outcome(c, n)]
      BY <1>3, <2>1, <2>2 DEF TrySend
    <2>5. \A d \in Calls, m \in Names : d # c \/ m # n => result'[d][m] = result[d][m]
      BY <2>1, <2>4 DEF SafetyInv, Types
    <2>6. CASE Sends(c, n) /\ Outcome(c, n) = "accepted"
      <3>1. n \in Endpoints /\ result[c][n] = "none" /\ result'[c][n] = "accepted"
        BY <2>1, <2>4, <2>6 DEF Sends, SafetyInv, Types
      <3>2. buffer' = [buffer EXCEPT ![n] = Append(@, c)]
        BY <1>3, <2>1, <2>2, <2>6 DEF TrySend
      <3>3. \A i \in DOMAIN buffer[n] : buffer[n][i] # c
        BY <3>1 DEF PromiseInv, BufferInv
      <3>4. tries[n][c] = 0 /\ inFlight[n] # c
        BY <3>1, GenerationAssumption DEF PromiseInv, TriesInv, FlightInv
      <3>5. /\ Len(buffer'[n]) = Len(buffer[n]) + 1 /\ DOMAIN buffer'[n] = 1..Len(buffer'[n])
            /\ buffer'[n][Len(buffer'[n])] = c
            /\ \A i \in DOMAIN buffer[n] : buffer'[n][i] = buffer[n][i]
            /\ Len(buffer[n]) \in Nat /\ DOMAIN buffer[n] = 1..Len(buffer[n])
        BY <3>1, <3>2 DEF SafetyInv, Types
      <3>6. ASSUME NEW e \in Endpoints, e # n
            PROVE (BufferInv(e) /\ FlightInv(e) /\ TriesInv(e) /\ ExitInv(e))'
        <4>1. buffer'[e] = buffer[e]
          BY <3>2, <3>6 DEF SafetyInv, Types
        <4>2. \A d \in Calls : result'[d][e] = result[d][e]
          BY <2>5, <3>6, GenerationAssumption
        <4>3. \A i \in DOMAIN buffer[e] : buffer[e][i] \in Calls
          BY DEF SafetyInv, Types
        <4>4. inFlight[e] \in Calls \cup {NoCall}
          BY DEF SafetyInv, Types
        <4> QED BY <2>3, <4>1, <4>2, <4>3, <4>4
                DEF PromiseInv, BufferInv, FlightInv, TriesInv, ExitInv
      <3>7. /\ \A i \in DOMAIN buffer[n] : buffer[n][i] \in Calls
            /\ inFlight[n] \in Calls \cup {NoCall}
        BY <3>1 DEF SafetyInv, Types
      <3>8. \A i \in DOMAIN buffer[n] : result'[buffer[n][i]][n] = "accepted"
        BY <2>5, <3>1, <3>3, <3>7 DEF PromiseInv, BufferInv
      <3>9. BufferInv(n)'
        <4>1. \A i, j \in DOMAIN buffer'[n] : i # j => buffer'[n][i] # buffer'[n][j]
          BY <3>1, <3>3, <3>5 DEF PromiseInv, BufferInv
        <4>2. ASSUME NEW i \in DOMAIN buffer'[n]
              PROVE  /\ result'[buffer'[n][i]][n] = "accepted"
                     /\ tries[n][buffer'[n][i]] = 0 /\ inFlight[n] # buffer'[n][i]
          <5>1. CASE i \in DOMAIN buffer[n]
            BY <3>1, <3>5, <3>8, <5>1 DEF PromiseInv, BufferInv
          <5>2. CASE i \notin DOMAIN buffer[n]
            <6>1. i = Len(buffer'[n])
              BY <3>5, <5>2
            <6> QED BY <3>1, <3>4, <3>5, <6>1
          <5> QED BY <5>1, <5>2
        <4> QED BY <2>3, <4>1, <4>2 DEF BufferInv
      <3>10. FlightInv(n)'
        BY <2>3, <2>5, <3>1, <3>4, <3>7 DEF PromiseInv, FlightInv
      <3>11. TriesInv(n)'
        <4> SUFFICES ASSUME NEW d \in Calls
                     PROVE  /\ tries[n][d] \in {0, 1}
                            /\ tries[n][d] = 1 => result'[d][n] = "accepted"
                            /\ result'[d][n] = "accepted" /\ tries[n][d] = 0 =>
                                 inFlight[n] = d \/ \E i \in DOMAIN buffer'[n] : buffer'[n][i] = d
          BY <2>3 DEF TriesInv
        <4>1. CASE d = c
          BY <3>1, <3>4, <3>5, <4>1
        <4>2. CASE d # c
          <5>1. result'[d][n] = result[d][n]
            BY <2>1, <2>5, <4>2
          <5> QED BY <3>1, <3>5, <5>1 DEF PromiseInv, TriesInv
        <4> QED BY <4>1, <4>2
      <3>12. ExitInv(n)'
        BY <2>2, <2>3, <3>1 DEF PromiseInv, ExitInv
      <3> QED BY <2>2, <2>3, <2>5, <3>6, <3>9, <3>10, <3>11, <3>12 DEF PromiseInv
    <2>7. CASE ~(Sends(c, n) /\ Outcome(c, n) = "accepted")
      <3>1. buffer' = buffer
        BY <1>3, <2>1, <2>2, <2>7 DEF TrySend
      <3>2. \A d \in Calls, e \in Endpoints : result'[d][e] = "accepted" <=> result[d][e] = "accepted"
        <4>1. ASSUME n \in Endpoints
              PROVE  Outcome(c, n) = "accepted" <=> result[c][n] = "accepted"
          BY <2>7, <4>1 DEF Sends, Outcome
        <4>2. n \in Endpoints => result'[c][n] = Outcome(c, n)
          BY <2>1, <2>4 DEF SafetyInv, Types
        <4> QED BY <2>5, <4>1, <4>2, GenerationAssumption
      <3>3. ASSUME NEW e \in Endpoints
            PROVE (BufferInv(e) /\ FlightInv(e) /\ TriesInv(e) /\ ExitInv(e))'
        <4>1. \A i \in DOMAIN buffer[e] : buffer[e][i] \in Calls
          BY DEF SafetyInv, Types
        <4>2. inFlight[e] \in Calls \cup {NoCall}
          BY DEF SafetyInv, Types
        <4> QED BY <2>3, <3>1, <3>2, <4>1, <4>2
                DEF PromiseInv, BufferInv, FlightInv, TriesInv, ExitInv
      <3> QED BY <2>2, <2>3, <2>5, <3>3 DEF PromiseInv
    <2> QED BY <2>6, <2>7
  <1>4. ASSUME NEW c \in Calls, ReleaseLease(c) PROVE PromiseInv'
    BY <1>4, PromiseKept DEF ReleaseLease, SafetyInv, Types
  <1>5. ASSUME NEW r \in Retirers, Retire(r) PROVE PromiseInv'
    <2>1. /\ UNCHANGED <<pc, result, buffer, workerVars>>
          /\ retireDone' => retireDone \/ WorkersGone
      BY <1>5 DEF Retire, CallRetire, WaitForLeases, CloseQueues, JoinWorkers,
                  AwaitRetired, callVars
    <2>2. closed \subseteq closed'
      BY <1>5 DEF Retire, CallRetire, WaitForLeases, CloseQueues, JoinWorkers,
                  AwaitRetired, SafetyInv, Types
    <2> QED BY <2>1, <2>2, PromiseKept
  <1>6. ASSUME NEW e \in Endpoints, Receive(e) PROVE PromiseInv'
    <2> DEFINE c == Head(buffer[e])
    <2>1. buffer[e] # <<>> /\ buffer[e] \in Seq(Calls) /\ c \in Calls /\ c # NoCall
      BY <1>6, GenerationAssumption DEF Receive, SafetyInv, Types
    <2>2. /\ buffer' = [buffer EXCEPT ![e] = Tail(buffer[e])]
          /\ inFlight' = [inFlight EXCEPT ![e] = c]
          /\ worker' = [worker EXCEPT ![e] = "push"]
          /\ UNCHANGED <<pc, result, tries, closed, retireDone>>
      BY <1>6 DEF Receive, callVars
    <2>3. worker[e] = "receive" /\ inFlight[e] = NoCall
      BY <1>6 DEF Receive, SafetyInv, Types, WorkerInv
    <2>4. /\ Len(buffer[e]) \in Nat /\ DOMAIN buffer[e] = 1..Len(buffer[e])
          /\ Len(Tail(buffer[e])) = Len(buffer[e]) - 1
          /\ DOMAIN Tail(buffer[e]) = 1..(Len(buffer[e]) - 1)
          /\ \A i \in 1..(Len(buffer[e]) - 1) : Tail(buffer[e])[i] = buffer[e][i + 1]
          /\ 1 \in DOMAIN buffer[e] /\ c = buffer[e][1]
      BY <2>1
    <2>5. buffer'[e] = Tail(buffer[e]) /\ inFlight'[e] = c /\ worker'[e] = "push"
      BY <2>2 DEF SafetyInv, Types
    <2>6. BufferInv(e)'
      <3>1. BufferInv(e)
        BY DEF PromiseInv
      <3>2. \A i \in DOMAIN buffer'[e] : i + 1 \in DOMAIN buffer[e] /\ buffer'[e][i] = buffer[e][i + 1]
        BY <2>4, <2>5
      <3>3. \A i, j \in DOMAIN buffer'[e] : buffer'[e][i] = buffer'[e][j] => i = j
        <4> SUFFICES ASSUME NEW i \in DOMAIN buffer'[e], NEW j \in DOMAIN buffer'[e],
                            buffer'[e][i] = buffer'[e][j]
                     PROVE  i = j
          OBVIOUS
        <4>1. i + 1 = j + 1
          BY <3>1, <3>2 DEF BufferInv
        <4> QED BY <4>1, <2>4, <2>5
      <3>4. \A i \in DOMAIN buffer'[e] : buffer'[e][i] # c
        <4> SUFFICES ASSUME NEW i \in DOMAIN buffer'[e], buffer'[e][i] = c
                     PROVE  FALSE
          OBVIOUS
        <4>1. i + 1 = 1
          BY <2>4, <3>1, <3>2 DEF BufferInv
        <4> QED BY <4>1, <2>4, <2>5
      <3> QED BY <2>2, <2>5, <3>1, <3>2, <3>3, <3>4 DEF BufferInv
    <2>7. FlightInv(e)'
      BY <2>2, <2>4, <2>5 DEF PromiseInv, BufferInv, FlightInv
    <2>8. TriesInv(e)'
      <3> SUFFICES ASSUME NEW d \in Calls, result[d][e] = "accepted", tries[e][d] = 0, d # c
                   PROVE  \E i \in DOMAIN buffer'[e] : buffer'[e][i] = d
        BY <2>2, <2>5 DEF PromiseInv, TriesInv
      <3>1. PICK j \in DOMAIN buffer[e] : buffer[e][j] = d
        BY <2>3, GenerationAssumption DEF PromiseInv, TriesInv
      <3>2. j # 1
        BY <2>4, <3>1
      <3>3. j - 1 \in DOMAIN buffer'[e] /\ buffer'[e][j - 1] = d
        BY <2>4, <2>5, <3>1, <3>2
      <3> QED BY <3>3
    <2>9. ExitInv(e)'
      BY <2>5 DEF ExitInv
    <2>10. ASSUME NEW f \in Endpoints, f # e
           PROVE (BufferInv(f) /\ FlightInv(f) /\ TriesInv(f) /\ ExitInv(f))'
      <3>1. buffer'[f] = buffer[f] /\ inFlight'[f] = inFlight[f] /\ worker'[f] = worker[f]
        BY <2>2, <2>10 DEF SafetyInv, Types
      <3>2. BufferInv(f) /\ FlightInv(f) /\ TriesInv(f) /\ ExitInv(f)
        BY DEF PromiseInv
      <3>3. UNCHANGED <<result, tries, closed>>
        BY <2>2
      <3> QED BY <3>1, <3>2, <3>3 DEF BufferInv, FlightInv, TriesInv, ExitInv
    <2>11. ~retireDone
      BY <2>3 DEF PromiseInv
    <2> QED BY <2>2, <2>6, <2>7, <2>8, <2>9, <2>10, <2>11 DEF PromiseInv
  <1>7. ASSUME NEW e \in Endpoints, Push(e) PROVE PromiseInv'
    <2> DEFINE c == inFlight[e]
    <2>1. c \in Calls /\ c # NoCall /\ worker[e] = "push"
      BY <1>7, GenerationAssumption DEF Push, SafetyInv, Types, WorkerInv
    <2>2. /\ tries' = [tries EXCEPT ![e][c] = tries[e][c] + 1]
          /\ inFlight' = [inFlight EXCEPT ![e] = NoCall]
          /\ worker' = [worker EXCEPT ![e] = "receive"]
          /\ UNCHANGED <<pc, result, buffer, closed, retireDone>>
      BY <1>7 DEF Push, callVars
    <2>3. tries[e][c] = 0 /\ result[c][e] = "accepted"
      BY <2>1 DEF PromiseInv, FlightInv
    <2>4. /\ tries'[e][c] = 1 /\ inFlight'[e] = NoCall /\ worker'[e] = "receive"
          /\ \A d \in Calls : d # c => tries'[e][d] = tries[e][d]
      BY <2>1, <2>2, <2>3 DEF SafetyInv, Types
    <2>5. \A i \in DOMAIN buffer[e] : buffer[e][i] \in Calls /\ buffer[e][i] # c
      BY <2>1 DEF PromiseInv, BufferInv, SafetyInv, Types
    <2>6. BufferInv(e)'
      BY <2>2, <2>4, <2>5, GenerationAssumption DEF PromiseInv, BufferInv
    <2>7. FlightInv(e)' /\ ExitInv(e)'
      BY <2>4 DEF FlightInv, ExitInv
    <2>8. TriesInv(e)'
      BY <2>1, <2>2, <2>3, <2>4 DEF PromiseInv, TriesInv
    <2>9. ASSUME NEW f \in Endpoints, f # e
          PROVE (BufferInv(f) /\ FlightInv(f) /\ TriesInv(f) /\ ExitInv(f))'
      <3>1. tries'[f] = tries[f] /\ inFlight'[f] = inFlight[f] /\ worker'[f] = worker[f]
        BY <2>2, <2>9 DEF SafetyInv, Types
      <3> QED BY <2>2, <3>1 DEF PromiseInv, BufferInv, FlightInv, TriesInv, ExitInv
    <2>10. ~retireDone
      BY <2>1 DEF PromiseInv
    <2> QED BY <2>2, <2>6, <2>7, <2>8, <2>9, <2>10 DEF PromiseInv
  <1>8. ASSUME NEW e \in Endpoints, Exit(e) PROVE PromiseInv'
    <2>1. /\ worker' = [worker EXCEPT ![e] = "exited"] /\ e \in closed /\ buffer[e] = <<>>
          /\ UNCHANGED <<pc, result, buffer, inFlight, tries, closed, retireDone>>
      BY <1>8 DEF Exit, Drained, callVars
    <2>2. \A f \in Endpoints : worker'[f] = "exited" <=> f = e \/ worker[f] = "exited"
      BY <2>1 DEF SafetyInv, Types
    <2> QED BY <2>1, <2>2 DEF PromiseInv, BufferInv, FlightInv, TriesInv, ExitInv
  <1>9. CASE UNCHANGED vars
    BY <1>9, PromiseKept DEF vars, callVars
  <1> QED BY <1>1, <1>2, <1>3, <1>4, <1>5, <1>6, <1>7, <1>8, <1>9
          DEF Next, Submit, RunWorker

\* Every accepted event is waiting in its buffer, in flight, or tried once, and a
\* generation whose retirement is over has none waiting or in flight.
THEOREM PromiseInvariant == Spec => []PromiseInv
  <1>1. PromiseInv /\ SafetyInv /\ [Next]_vars => PromiseInv'
    BY PromiseStep
  <1> QED BY PromiseInit, Safety, <1>1, PTL DEF Spec

\* A new generation is an empty channel of AtMostOnce.
LEMMA PromiseInitMaps == Init => Promise!Init
  <1> SUFFICES ASSUME Init PROVE Promise!Init
    OBVIOUS
  <1>1. Accepted = {}
    BY GenerationAssumption DEF Init, Accepted
  <1> QED BY <1>1 DEF Init, Promise!Init

\* Every step of a generation is a step of AtMostOnce or none.
LEMMA PromiseStepMaps ==
    PromiseInv /\ SafetyInv /\ [Next]_vars => [Promise!Next]_(Promise!vars)
  <1> SUFFICES ASSUME PromiseInv, SafetyInv, [Next]_vars
               PROVE  [Promise!Next]_(Promise!vars)
    OBVIOUS
  <1> USE DEF Promise!vars
  <1>1. ASSUME NEW c \in Calls, SubmitRetired(c) PROVE UNCHANGED Promise!vars
    <2>1. \A n \in Names : result[c][n] # "accepted" /\ result'[c][n] # "accepted"
      BY <1>1 DEF SubmitRetired, PromiseInv, SafetyInv, Types
    <2>2. \A d \in Calls : d # c => result'[d] = result[d]
      BY <1>1 DEF SubmitRetired, SafetyInv, Types
    <2>3. \A d \in Calls, e \in Endpoints : result'[d][e] = "accepted" <=> result[d][e] = "accepted"
      BY <2>1, <2>2, GenerationAssumption
    <2>4. Accepted' = Accepted
      BY <2>3 DEF Accepted
    <2> QED BY <1>1, <2>4 DEF SubmitRetired, workerVars
  <1>2. ASSUME NEW c \in Calls, AcquireLease(c) PROVE UNCHANGED Promise!vars
    BY <1>2 DEF AcquireLease, workerVars, Accepted
  <1>3. ASSUME NEW c \in Calls, TrySend(c) PROVE [Promise!Next]_(Promise!vars)
    <2>1. PICK n \in Names : n = Head(todo[c])
      BY <1>3 DEF TrySend, SafetyInv, Types
    <2>2. pc[c] = "leased" /\ closed = {} /\ ~panicked'
      BY <1>3 DEF TrySend, SafetyInv, Types, LeaseInv, Leased
    <2>3. UNCHANGED <<tries, retireDone>>
      BY <1>3 DEF TrySend, workerVars
    <2>4. result' = [result EXCEPT ![c][n] = Outcome(c, n)]
      BY <1>3, <2>1, <2>2 DEF TrySend
    <2>5. \A d \in Calls, m \in Names : d # c \/ m # n => result'[d][m] = result[d][m]
      BY <2>4 DEF SafetyInv, Types
    <2>6. result'[c][n] = Outcome(c, n)
      BY <2>4 DEF SafetyInv, Types
    <2>7. CASE n \in Endpoints /\ result[c][n] = "none" /\ Outcome(c, n) = "accepted"
      <3>1. Accepted' = Accepted \cup {<<c, n>>}
        BY <2>5, <2>6, <2>7, GenerationAssumption DEF Accepted
      <3>2. <<c, n>> \notin Accepted
        BY <2>7 DEF Accepted
      <3>3. ~retireDone
        BY <2>2, <2>7 DEF PromiseInv, ExitInv
      <3>4. Promise!Accept(c, n)
        BY <2>3, <3>1, <3>2, <3>3 DEF Promise!Accept
      <3> QED BY <2>7, <3>4 DEF Promise!Next
    <2>8. CASE ~(n \in Endpoints /\ result[c][n] = "none" /\ Outcome(c, n) = "accepted")
      <3>1. n \in Endpoints => (result'[c][n] = "accepted" <=> result[c][n] = "accepted")
        BY <2>6, <2>8 DEF Outcome
      <3>2. \A d \in Calls, e \in Endpoints : result'[d][e] = "accepted" <=> result[d][e] = "accepted"
        BY <2>5, <3>1, GenerationAssumption
      <3>3. Accepted' = Accepted
        BY <3>2 DEF Accepted
      <3> QED BY <2>3, <3>3
    <2> QED BY <2>7, <2>8
  <1>4. ASSUME NEW c \in Calls, ReleaseLease(c) PROVE UNCHANGED Promise!vars
    BY <1>4 DEF ReleaseLease, workerVars, Accepted
  <1>5. ASSUME NEW r \in Retirers, Retire(r) PROVE [Promise!Next]_(Promise!vars)
    <2>1. Accepted' = Accepted /\ tries' = tries
      BY <1>5 DEF Retire, CallRetire, WaitForLeases, CloseQueues, JoinWorkers,
                  AwaitRetired, callVars, workerVars, Accepted
    <2>2. CASE JoinWorkers(r)
      <3>1. ASSUME NEW p \in Accepted PROVE tries[p[2]][p[1]] = 1
        <4>1. p[1] \in Calls /\ p[2] \in Endpoints /\ result[p[1]][p[2]] = "accepted"
          BY DEF Accepted
        <4>2. worker[p[2]] = "exited"
          BY <2>2, <4>1 DEF JoinWorkers, WorkersGone
        <4>3. inFlight[p[2]] = NoCall /\ buffer[p[2]] = <<>>
          BY <4>1, <4>2 DEF PromiseInv, ExitInv, SafetyInv, WorkerInv, Types
        <4> QED BY <4>1, <4>3, GenerationAssumption DEF PromiseInv, TriesInv
      <3>2. Promise!Retire
        BY <2>1, <2>2, <3>1 DEF Promise!Retire, JoinWorkers
      <3> QED BY <3>2 DEF Promise!Next
    <2>3. CASE ~JoinWorkers(r)
      BY <1>5, <2>1, <2>3 DEF Retire, CallRetire, WaitForLeases, CloseQueues, AwaitRetired
    <2> QED BY <2>2, <2>3
  <1>6. ASSUME NEW e \in Endpoints, Receive(e) \/ Exit(e) PROVE UNCHANGED Promise!vars
    BY <1>6 DEF Receive, Exit, callVars, Accepted
  <1>7. ASSUME NEW e \in Endpoints, Push(e) PROVE [Promise!Next]_(Promise!vars)
    <2>1. PICK c \in Calls : c = inFlight[e]
      BY <1>7, GenerationAssumption DEF Push, SafetyInv, Types, WorkerInv
    <2>2. result[c][e] = "accepted" /\ tries[e][c] = 0
      BY <2>1, GenerationAssumption DEF PromiseInv, FlightInv
    <2>3. tries' = [tries EXCEPT ![e][c] = 1]
      BY <1>7, <2>1, <2>2 DEF Push, SafetyInv, Types
    <2>4. Accepted' = Accepted /\ retireDone' = retireDone
      BY <1>7 DEF Push, callVars, Accepted
    <2>5. Promise!Attempt(c, e)
      BY <2>2, <2>3, <2>4 DEF Promise!Attempt, Accepted
    <2> QED BY <2>5 DEF Promise!Next
  <1>8. CASE UNCHANGED vars
    BY <1>8 DEF vars, callVars, workerVars, Accepted
  <1> QED BY <1>1, <1>2, <1>3, <1>4, <1>5, <1>6, <1>7, <1>8 DEF Next, Submit, RunWorker

\* A generation implements AtMostOnce: one attempt for every accepted event and none
\* for the others, and nothing accepted left when Retire returns.
THEOREM DeliversAtMostOnce == Spec => KeepsPromise
  <1>1. PromiseInv /\ SafetyInv /\ [Next]_vars => [Promise!Next]_(Promise!vars)
    BY PromiseStepMaps
  <1> QED BY PromiseInitMaps, Safety, PromiseInvariant, <1>1, PTL
          DEF Spec, KeepsPromise, Promise!Spec
================================================================================
