---------------------------- MODULE ChatWarmup_proofs ----------------------------
(***************************************************************************)
(* Proofs about withReady, for any calls and numbers of faults.            *)
(***************************************************************************)
EXTENDS ChatWarmup, FiniteSetTheorems, TLAPS

\* The one call in the bootstrap's loop is why warmInFlight is set.
BootInv ==
    /\ inFlight => \E c \in Calls : pc[c] = "loading"
    /\ \A c \in Calls : pc[c] = "loading" => /\ inFlight
                                             /\ \A d \in Calls : pc[d] = "loading" => d = c

\* An entry somebody reaches through table t: its waiters wake at once, or t holds it.
Reachable(e, t) == e \in closed \/ certs[t] = e

Holding == {"first", "select", "drive", "loading", "parked", "awake", "lookup", "retry", "refute"}

\* Every call that holds an entry, asleep or not, holds one that is reached through the table
\* the call read last.
HeldInv ==
    \A c \in Calls : /\ pc[c] \in Holding <=> entry[c] # Nothing
                     /\ entry[c] # Nothing => Reachable(entry[c], cur[c])

WarmInv == TypeOK /\ BootInv /\ HeldInv

\* The swap comes before the client, and without a client no call gets past its first try: a
\* call that wakes reads the table of the session that stays.
SwapInv ==
    /\ client => table = 1
    /\ \A c \in Calls : /\ pc[c] \in Holding \ {"first"} => client
                        /\ pc[c] \in {"retry", "refute"} => cur[c] = table

LEMMA InitInv == Init => WarmInv
  <1> SUFFICES ASSUME Init PROVE WarmInv
    OBVIOUS
  <1> USE WarmupAssumption
  <1>1. TypeOK
    <2>1. 0 \in 0..MaxLeaves /\ 0 \in 0..MaxFaults /\ 0 \in 0..MaxIntervals
      OBVIOUS
    <2>2. certs \in [Tables -> Entries \cup {Nothing}] /\ entry \in [Calls -> Entries \cup {Nothing}]
      BY DEF Init
    <2> QED
      BY <2>1, <2>2 DEF Init, TypeOK, Tables
  <1>2. BootInv /\ HeldInv
    BY DEF Init, BootInv, HeldInv, Holding
  <1> QED
    BY <1>1, <1>2 DEF WarmInv

\* There is always an entry nobody refers to: the calls and the tables refer to too few.
LEMMA FreshExists ==
    ASSUME TypeOK
    PROVE  /\ Fresh \in Entries
           /\ \A t \in Tables : certs[t] # Fresh
           /\ \A c \in Calls : entry[c] # Fresh
  <1> DEFINE Held == {entry[c] : c \in Calls}
             Both == {certs[0]} \cup {certs[1]}
  <1>1. IsFiniteSet(Calls) /\ Cardinality(Calls) \in Nat
    BY WarmupAssumption, FS_CardinalityType
  <1>2. IsFiniteSet(Held) /\ Cardinality(Held) <= Cardinality(Calls)
    <2>1. entry \in [Calls -> Entries \cup {Nothing}]
      BY DEF TypeOK
    <2>2. entry \in Surjection(Calls, Held)
      BY <2>1 DEF Surjection
    <2> HIDE DEF Held
    <2> QED
      BY <1>1, <2>2, FS_Surjection
  <1>3. IsFiniteSet(Both) /\ Cardinality(Both) <= 2
    <2>1. /\ IsFiniteSet({certs[0]}) /\ Cardinality({certs[0]}) = 1
      BY FS_Singleton
    <2> QED
      BY <2>1, FS_AddElement
  <1> HIDE DEF Held, Both
  <1>4. IsFiniteSet(Held \cup Both) /\ Cardinality(Held \cup Both) <= Cardinality(Calls) + 2
    <2>1. Cardinality(Held) \in Nat /\ Cardinality(Both) \in Nat /\ Cardinality(Held \cap Both) \in Nat
      <3>1. IsFiniteSet(Held \cap Both)
        BY <1>2, FS_Subset
      <3> QED
        BY <1>2, <1>3, <3>1, FS_CardinalityType
    <2>2. /\ IsFiniteSet(Held \cup Both)
          /\ Cardinality(Held \cup Both) = Cardinality(Held) + Cardinality(Both) - Cardinality(Held \cap Both)
      BY <1>2, <1>3, FS_Union
    <2> QED
      BY <1>1, <1>2, <1>3, <2>1, <2>2
  <1>5. IsFiniteSet(Entries) /\ Cardinality(Entries) = Cardinality(Calls) + 3
    <2>1. Cardinality(Calls) + 3 \in Int /\ 1 <= Cardinality(Calls) + 3
      BY <1>1
    <2> QED
      BY <1>1, <2>1, FS_Interval DEF Entries
  <1>6. ~(Entries \subseteq Held \cup Both)
    <2> SUFFICES ASSUME Entries \subseteq Held \cup Both PROVE FALSE
      OBVIOUS
    <2>1. Cardinality(Entries) <= Cardinality(Held \cup Both) /\ Cardinality(Held \cup Both) \in Nat
      BY <1>4, FS_Subset, FS_CardinalityType
    <2> QED
      BY <1>1, <1>4, <1>5, <2>1
  <1>7. \E e \in Entries : /\ \A t \in Tables : certs[t] # e
                           /\ \A c \in Calls : entry[c] # e
    BY <1>6 DEF Held, Both, Tables
  <1> QED
    BY <1>7 DEF Fresh

(***************************************************************************)
(* The three parts, each by what a step may do to it                       *)
(***************************************************************************)

\* What a step does to the certificates: nothing, certify, or close and delete.
CertsMove ==
    \/ UNCHANGED certVars
    \/ \E t \in Tables : Certify(t) \/ CloseFailed(t)

LEMMA CertsMoveKeeps ==
    ASSUME TypeOK, CertsMove
    PROVE  /\ certs' \in [Tables -> Entries \cup {Nothing}] /\ closed' \subseteq Entries
           /\ \A e, t : e # Nothing /\ t \in Tables /\ Reachable(e, t) => Reachable(e, t)'
  <1>1. certs' \in [Tables -> Entries \cup {Nothing}]
    BY DEF TypeOK, CertsMove, Certify, CloseFailed, certVars
  <1>2. closed' \subseteq Entries
    BY DEF TypeOK, CertsMove, Certify, CloseFailed, Failed, certVars
  <1>3. ASSUME NEW e, NEW u \in Tables, e # Nothing, Reachable(e, u) PROVE Reachable(e, u)'
    <2>1. CASE UNCHANGED certVars
      BY <1>3, <2>1 DEF Reachable, certVars
    <2>2. ASSUME NEW t \in Tables, Certify(t) PROVE Reachable(e, u)'
      BY <1>3, <2>2 DEF Reachable, Certify
    <2>3. ASSUME NEW t \in Tables, CloseFailed(t) PROVE Reachable(e, u)'
      BY <1>3, <2>3 DEF Reachable, CloseFailed, Failed, TypeOK
    <2> QED
      BY <2>1, <2>2, <2>3 DEF CertsMove
  <1> QED
    BY <1>1, <1>2, <1>3

\* A step that hands out no entry: a call keeps its entry or ends without one.
LEMMA HeldKept ==
    ASSUME WarmInv, CertsMove,
           \A c \in Calls : \/ /\ entry'[c] = entry[c] /\ (pc[c] \in Holding => cur'[c] = cur[c])
                               /\ pc'[c] \in Holding <=> pc[c] \in Holding
                            \/ entry'[c] = Nothing /\ pc'[c] \notin Holding
    PROVE  HeldInv'
  <1>1. \A e, t : e # Nothing /\ t \in Tables /\ Reachable(e, t) => Reachable(e, t)'
    BY CertsMoveKeeps DEF WarmInv
  <1> QED
    BY <1>1 DEF WarmInv, HeldInv, TypeOK

\* A call takes the entry of a table, or makes one.
LEMMA HeldTaken ==
    ASSUME WarmInv, NEW c \in Calls, NEW t \in Tables, GetOrInsert(c, t),
           pc'[c] \in Holding, cur'[c] = t,
           \A d \in Calls : d # c => pc'[d] = pc[d] /\ cur'[d] = cur[d]
    PROVE  /\ HeldInv' /\ entry' \in [Calls -> Entries \cup {Nothing}]
           /\ certs' \in [Tables -> Entries \cup {Nothing}] /\ closed' \subseteq Entries
  <1> USE DEF WarmInv, TypeOK
  <1>1. CASE certs[t] # Nothing
    <2>1. entry' = [entry EXCEPT ![c] = certs[t]] /\ UNCHANGED <<certs, closed>>
      BY <1>1 DEF GetOrInsert, certVars
    <2>2. entry'[c] = certs[t] /\ \A d \in Calls : d # c => entry'[d] = entry[d]
      BY <2>1
    <2>3. HeldInv'
      BY <1>1, <2>1, <2>2 DEF HeldInv, Reachable
    <2> QED
      BY <2>1, <2>3
  <1>2. CASE certs[t] = Nothing
    <2>1. PICK e \in Entries : /\ e = Fresh
                               /\ \A u \in Tables : certs[u] # e
                               /\ \A d \in Calls : entry[d] # e
      BY FreshExists
    <2>2. /\ entry' = [entry EXCEPT ![c] = e]
          /\ certs' = [certs EXCEPT ![t] = e]
          /\ closed' = closed \ {e}
      BY <1>2, <2>1 DEF GetOrInsert
    <2>3. e # Nothing
      BY <2>1 DEF Entries, Nothing
    <2>4. Reachable(e, t)'
      BY <2>2 DEF Reachable
    <2>5. \A f, u : f # Nothing /\ f # e /\ u \in Tables /\ Reachable(f, u) => Reachable(f, u)'
      BY <1>2, <2>2 DEF Reachable
    <2>6. entry'[c] = e /\ \A d \in Calls : d # c => entry'[d] = entry[d]
      BY <2>2
    <2>7. HeldInv'
      BY <2>1, <2>3, <2>4, <2>5, <2>6 DEF HeldInv, Holding
    <2> QED
      BY <2>1, <2>2, <2>7
  <1> QED
    BY <1>1, <1>2

\* A step that lets nobody begin or end a bootstrap.
LEMMA BootKept ==
    ASSUME BootInv, UNCHANGED inFlight,
           \A c \in Calls : pc'[c] = "loading" <=> pc[c] = "loading"
    PROVE  BootInv'
  BY DEF BootInv

(***************************************************************************)
(* The steps                                                               *)
(***************************************************************************)

\* What the steps of the session, TDLib and the clock leave to the calls.
LEMMA OutsideStep ==
    ASSUME WarmInv,
           Session \/ Materialise \/ Leave \/ SignalEdge \/ IntervalOver
    PROVE  WarmInv'
  <1> USE DEF WarmInv
  <1>1. UNCHANGED <<callVars, inFlight>> /\ CertsMove
    BY DEF Session, SwapSessionTable, SetClient, Materialise, Leave, SignalEdge, IntervalOver,
           certVars, callVars, warmVars, CertsMove, TypeOK
  <1>2. TypeOK'
    <2>1. certs' \in [Tables -> Entries \cup {Nothing}] /\ closed' \subseteq Entries
      BY <1>1, CertsMoveKeeps
    <2>2. table' \in Tables /\ client' \in BOOLEAN /\ {known', edge', recent'} \subseteq BOOLEAN
      BY DEF Session, SwapSessionTable, SetClient, Materialise, Leave, SignalEdge,
             IntervalOver, tdVars, callVars, warmVars, TypeOK, Tables
    <2>3. leaves' \in 0..MaxLeaves /\ faults' \in 0..MaxFaults /\ intervals' \in 0..MaxIntervals
      <3>1. \/ UNCHANGED <<leaves, faults, intervals>>
            \/ leaves < MaxLeaves /\ leaves' = leaves + 1 /\ UNCHANGED <<faults, intervals>>
            \/ intervals < MaxIntervals /\ intervals' = intervals + 1 /\ UNCHANGED <<leaves, faults>>
        BY DEF Session, SwapSessionTable, SetClient, Materialise, Leave, SignalEdge,
               IntervalOver, warmVars
      <3> QED
        BY <3>1, WarmupAssumption DEF TypeOK
    <2> QED
      BY <1>1, <2>1, <2>2, <2>3 DEF TypeOK, callVars
  <1>3. BootInv'
    BY <1>1, BootKept DEF callVars
  <1>4. HeldInv'
    BY <1>1, HeldKept DEF callVars
  <1> QED
    BY <1>2, <1>3, <1>4

\* A step of a call that holds on to what it has.
LEMMA CallContinues ==
    ASSUME WarmInv, NEW c \in Calls, NEW label \in {"idle", "table", "returned"} \cup Holding,
           Goto(c, label), pc[c] # "loading", label # "loading",
           label \in Holding <=> pc[c] \in Holding,
           CertsMove, UNCHANGED <<tdVars, warmVars, result, entry, leaves, faults>>,
           (cur' = [cur EXCEPT ![c] = table] /\ pc[c] \notin Holding) \/ UNCHANGED cur,
           expired' \subseteq expired \cup {c}, refuted' \subseteq refuted \cup {c}
    PROVE  WarmInv'
  <1> USE DEF WarmInv, Goto
  <1>1. pc \in [Calls -> {"idle", "table", "returned"} \cup Holding]
    BY DEF TypeOK, Holding
  <1>2. pc'[c] = label /\ \A d \in Calls : d # c => pc'[d] = pc[d]
    BY <1>1
  <1>3. TypeOK'
    <2>1. certs' \in [Tables -> Entries \cup {Nothing}] /\ closed' \subseteq Entries
      BY CertsMoveKeeps
    <2>2. cur' \in [Calls -> Tables] /\ expired' \subseteq Calls /\ refuted' \subseteq Calls
      BY DEF TypeOK
    <2>3. pc' \in [Calls -> {"idle", "table", "returned"} \cup Holding]
      BY <1>1
    <2> QED
      BY <2>1, <2>2, <2>3 DEF TypeOK, Holding, tdVars, warmVars
  <1>4. BootInv'
    BY <1>2, BootKept DEF warmVars
  <1>5. HeldInv'
    <2>1. \A d \in Calls : /\ entry'[d] = entry[d] /\ (pc[d] \in Holding => cur'[d] = cur[d])
                         /\ pc'[d] \in Holding <=> pc[d] \in Holding
      BY <1>2 DEF TypeOK
    <2> QED
      BY <2>1, HeldKept
  <1> QED
    BY <1>3, <1>4, <1>5

\* The end of a call outside the bootstrap.
LEMMA CallReturns ==
    ASSUME WarmInv, NEW c \in Calls, NEW outcome \in {"ok", "error", "notReady", "panic"},
           Return(c, outcome), pc[c] # "loading",
           CertsMove, UNCHANGED <<tdVars, warmVars, leaves>>, faults' \in 0..MaxFaults
    PROVE  WarmInv'
  <1> USE DEF WarmInv, Return, Goto
  <1>2. pc'[c] = "returned" /\ \A d \in Calls : d # c => pc'[d] = pc[d]
    BY DEF TypeOK
  <1>3. TypeOK'
    <2>1. certs' \in [Tables -> Entries \cup {Nothing}] /\ closed' \subseteq Entries
      BY CertsMoveKeeps
    <2>2. /\ entry' \in [Calls -> Entries \cup {Nothing}] /\ cur' \in [Calls -> Tables]
          /\ expired' \subseteq Calls /\ refuted' \subseteq Calls
      BY DEF TypeOK, Tables
    <2>3. /\ pc' \in [Calls -> {"idle", "table", "first", "select", "drive", "loading", "parked",
                         "awake", "lookup", "retry", "refute", "returned"}]
          /\ result' \in [Calls -> {"none", "ok", "error", "notReady", "panic"}]
      BY DEF TypeOK
    <2> QED
      BY <2>1, <2>2, <2>3 DEF TypeOK, tdVars, warmVars
  <1>4. BootInv'
    BY <1>2, BootKept DEF warmVars
  <1>5. HeldInv'
    <2>1. entry'[c] = Nothing /\ \A d \in Calls : d # c => entry'[d] = entry[d] /\ cur'[d] = cur[d]
      BY DEF TypeOK
    <2>2. pc'[c] \notin Holding
      BY <1>2 DEF Holding
    <2> QED
      BY <1>2, <2>1, <2>2, HeldKept
  <1> QED
    BY <1>3, <1>4, <1>5

LEMMA FaultTyped ==
    ASSUME TypeOK, faults < MaxFaults, faults' = faults + 1
    PROVE  faults' \in 0..MaxFaults
  BY WarmupAssumption DEF TypeOK

LEMMA FirstTryStep ==
    ASSUME WarmInv, NEW c \in Calls, FirstTry(c)
    PROVE  WarmInv'
  <1> USE DEF WarmInv
  <1>1. /\ pc[c] = "first" /\ UNCHANGED <<tdVars, warmVars, leaves>>
        /\ cur[c] \in Tables /\ faults \in 0..MaxFaults
    BY DEF FirstTry, TypeOK
  <1>2. CASE Return(c, "panic") /\ UNCHANGED <<certVars, faults>>
    BY <1>1, <1>2, CallReturns DEF CertsMove
  <1>3. CASE Return(c, "ok") /\ Certify(cur[c]) /\ UNCHANGED faults
    BY <1>1, <1>3, CallReturns DEF CertsMove
  <1>4. CASE Goto(c, "select") /\ Stay /\ UNCHANGED <<certVars, faults>>
    BY <1>1, <1>4, CallContinues DEF CertsMove, Stay, Holding
  <1>5. CASE /\ faults < MaxFaults /\ faults' = faults + 1
             /\ Return(c, "error") /\ UNCHANGED certVars
    BY <1>1, <1>5, CallReturns, FaultTyped DEF CertsMove
  <1> QED
    BY <1>2, <1>3, <1>4, <1>5 DEF FirstTry

LEMMA RetryStep ==
    ASSUME WarmInv, NEW c \in Calls, Retry(c)
    PROVE  WarmInv'
  <1> USE DEF WarmInv
  <1>1. /\ pc[c] = "retry" /\ UNCHANGED <<tdVars, warmVars, leaves>>
        /\ cur[c] \in Tables /\ faults \in 0..MaxFaults
    BY DEF Retry, TypeOK
  <1>2. CASE Return(c, "ok") /\ Certify(cur[c]) /\ UNCHANGED faults
    BY <1>1, <1>2, CallReturns DEF CertsMove
  <1>3. CASE Goto(c, "refute") /\ Stay /\ UNCHANGED <<certVars, faults>>
    BY <1>1, <1>3, CallContinues DEF CertsMove, Stay, Holding
  <1>4. CASE /\ faults < MaxFaults /\ faults' = faults + 1
             /\ Return(c, "error") /\ CloseFailed(cur[c])
    BY <1>1, <1>4, CallReturns, FaultTyped DEF CertsMove
  <1> QED
    BY <1>2, <1>3, <1>4 DEF Retry

LEMMA SelectStep ==
    ASSUME WarmInv, NEW c \in Calls,
           ReadTable(c) \/ Expire(c) \/ Deadline(c) \/ Tick(c) \/ EntryReady(c) \/ Refute(c)
             \/ WaitOver(c)
    PROVE  WarmInv'
  <1> USE DEF WarmInv
  <1>1. table \in Tables /\ cur[c] \in Tables /\ pc \in [Calls -> {"idle", "table", "returned"} \cup Holding]
    BY DEF TypeOK, Holding
  <1>2. CASE ReadTable(c)
    BY <1>1, <1>2, CallContinues DEF ReadTable, CertsMove, Holding
  <1>3. CASE Expire(c)
    <2>1. pc' = pc /\ CertsMove /\ UNCHANGED <<tdVars, warmVars, result, entry, cur, refuted, leaves, faults>>
      BY <1>3 DEF Expire, CertsMove
    <2>2. expired' \subseteq Calls
      BY <1>3 DEF Expire, TypeOK
    <2>3. TypeOK'
      BY <2>1, <2>2, CertsMoveKeeps DEF TypeOK, tdVars, warmVars
    <2> QED
      BY <2>1, <2>3, BootKept, HeldKept DEF warmVars
  <1>4. CASE Deadline(c)
    <2>1. faults' \in 0..MaxFaults
      BY <1>4 DEF Deadline, TypeOK
    <2> QED
      BY <1>1, <1>4, <2>1, CallReturns DEF Deadline, CertsMove
  <1>5. CASE Tick(c)
    BY <1>1, <1>5, CallContinues DEF Tick, Stay, CertsMove, Holding
  <1>6. CASE EntryReady(c)
    BY <1>1, <1>6, CallContinues DEF EntryReady, Stay, CertsMove, Holding
  <1>7. CASE Refute(c)
    <2>1. CertsMove /\ refuted' \subseteq refuted \cup {c}
      BY <1>1, <1>7 DEF Refute, CertsMove
    <2> QED
      BY <1>1, <1>7, <2>1, CallContinues DEF Refute, Holding
  <1>8. CASE WaitOver(c)
    <2>1. PICK label \in {"parked", "lookup"} : Goto(c, label)
      BY <1>8 DEF WaitOver
    <2>2. /\ pc[c] = "awake" /\ UNCHANGED <<tdVars, warmVars, leaves, faults>> /\ Stay /\ CertsMove
      BY <1>8 DEF WaitOver, CertsMove
    <2> QED
      BY <2>1, <2>2, CallContinues DEF Stay, Holding
  <1> QED
    BY <1>2, <1>3, <1>4, <1>5, <1>6, <1>7, <1>8

\* A call gets its entry, the first or another one.
LEMMA TakeStep ==
    ASSUME WarmInv, NEW c \in Calls, Subscribe(c) \/ Lookup(c)
    PROVE  WarmInv'
  <1> USE DEF WarmInv
  <1>1. cur[c] \in Tables /\ table \in Tables
    BY DEF TypeOK
  <1>2. PICK t \in Tables : GetOrInsert(c, t) /\ cur'[c] = t
    BY <1>1 DEF Subscribe, Lookup, TypeOK
  <1>3. /\ pc[c] # "loading" /\ (Goto(c, "first") \/ Goto(c, "retry"))
        /\ UNCHANGED <<tdVars, warmVars, result, expired, leaves, faults>>
        /\ cur' = [cur EXCEPT ![c] = table] \/ UNCHANGED cur
        /\ refuted' \subseteq refuted
    BY DEF Subscribe, Lookup
  <1>4. /\ pc'[c] # "loading" /\ pc'[c] \in Holding
        /\ \A d \in Calls : d # c => pc'[d] = pc[d] /\ cur'[d] = cur[d]
        /\ pc' \in [Calls -> {"idle", "table", "first", "select", "drive", "loading", "parked",
                         "awake", "lookup", "retry", "refute", "returned"}]
    BY <1>3 DEF Goto, TypeOK, Holding
  <1>5. /\ HeldInv' /\ entry' \in [Calls -> Entries \cup {Nothing}]
        /\ certs' \in [Tables -> Entries \cup {Nothing}] /\ closed' \subseteq Entries
    BY <1>2, <1>4, HeldTaken
  <1>6. TypeOK'
    <2>1. cur' \in [Calls -> Tables] /\ refuted' \subseteq Calls
      BY <1>3 DEF TypeOK
    <2> QED
      BY <1>3, <1>4, <1>5, <2>1 DEF TypeOK, tdVars, warmVars
  <1>7. BootInv'
    BY <1>3, <1>4, BootKept DEF warmVars
  <1> QED
    BY <1>5, <1>6, <1>7

\* The bootstrap: whoever may begin it begins it alone, and who ends it wakes the others.
LEMMA DriveStep ==
    ASSUME WarmInv, NEW c \in Calls, Drive(c)
    PROVE  WarmInv'
  <1> USE DEF WarmInv
  <1>1. /\ pc[c] = "drive" /\ Stay /\ UNCHANGED <<certVars, tdVars, leaves, faults>>
    BY DEF Drive
  <1>2. CASE (Goto(c, "parked") \/ Goto(c, "lookup")) /\ UNCHANGED warmVars
    BY <1>1, <1>2, CallContinues DEF CertsMove, Stay, Holding
  <1>3. CASE MayLoad /\ inFlight' = TRUE /\ Goto(c, "loading") /\ UNCHANGED <<recent, intervals>>
    <2>1. /\ pc'[c] = "loading" /\ \A d \in Calls : d # c => pc'[d] = pc[d]
          /\ pc' \in [Calls -> {"idle", "table", "first", "select", "drive", "loading", "parked",
                         "awake", "lookup", "retry", "refute", "returned"}]
      BY <1>3 DEF Goto, TypeOK
    <2>2. TypeOK'
      BY <1>1, <1>3, <2>1 DEF TypeOK, Stay, certVars, tdVars
    <2>3. BootInv'
      BY <1>3, <2>1 DEF BootInv, MayLoad
    <2>4. HeldInv'
      BY <1>1, <2>1, HeldKept DEF CertsMove, Stay, Holding
    <2> QED
      BY <2>2, <2>3, <2>4
  <1> QED
    BY <1>2, <1>3 DEF Drive

LEMMA LoadChatsStep ==
    ASSUME WarmInv, NEW c \in Calls, LoadChats(c)
    PROVE  WarmInv'
  <1> USE DEF WarmInv
  <1>1. /\ pc[c] = "loading" /\ pc' = [Woken EXCEPT ![c] = "lookup"]
        /\ inFlight' = FALSE /\ recent' = TRUE
        /\ UNCHANGED <<certVars, table, client, result, entry, cur, expired, refuted, intervals,
                       leaves, faults>>
    BY DEF LoadChats
  <1>2. known' \in BOOLEAN /\ edge' \in BOOLEAN
    BY DEF LoadChats, TypeOK
  <1>3. /\ pc'[c] = "lookup"
        /\ \A d \in Calls : d # c => pc'[d] = IF pc[d] = "parked" THEN "awake" ELSE pc[d]
        /\ pc' \in [Calls -> {"idle", "table", "first", "select", "drive", "loading", "parked",
                         "awake", "lookup", "retry", "refute", "returned"}]
    BY <1>1 DEF Woken, TypeOK
  <1>4. TypeOK'
    BY <1>1, <1>2, <1>3 DEF TypeOK, certVars
  <1>5. BootInv'
    <2>1. \A d \in Calls : pc'[d] # "loading"
      BY <1>1, <1>3 DEF BootInv
    <2> QED
      BY <1>1, <2>1 DEF BootInv
  <1>6. HeldInv'
    <2>1. \A d \in Calls : pc'[d] \in Holding <=> pc[d] \in Holding
      BY <1>1, <1>3 DEF Holding
    <2> QED
      BY <1>1, <2>1, HeldKept DEF CertsMove
  <1> QED
    BY <1>4, <1>5, <1>6

LEMMA WarmStep == WarmInv /\ [Next]_vars => WarmInv'
  <1> SUFFICES ASSUME WarmInv, [Next]_vars PROVE WarmInv'
    OBVIOUS
  <1>1. CASE UNCHANGED vars
    BY <1>1 DEF WarmInv, TypeOK, BootInv, HeldInv, Reachable, vars, certVars, tdVars, callVars,
                warmVars
  <1>2. CASE Session \/ Materialise \/ Leave \/ SignalEdge \/ IntervalOver
    BY <1>2, OutsideStep
  <1>3. ASSUME NEW c \in Calls, Step(c) \/ Expire(c) \/ Deadline(c) \/ Tick(c)
        PROVE  WarmInv'
    BY <1>3, FirstTryStep, RetryStep, SelectStep, TakeStep, DriveStep, LoadChatsStep DEF Step
  <1> QED
    BY <1>1, <1>2, <1>3 DEF Next

\* The invariant of the bootstrap and of what calls hold.
THEOREM WarmSafety == Spec => []WarmInv
  BY InitInv, WarmStep, PTL DEF Spec

\* One LoadChats bootstrap at a time, whichever calls miss at once.
THEOREM OneBootstrapAtATime == Spec => []OneBootstrap
  <1>1. WarmInv => OneBootstrap
    <2> SUFFICES ASSUME WarmInv PROVE OneBootstrap
      OBVIOUS
    <2> DEFINE loading == {c \in Calls : pc[c] = "loading"}
    <2>1. CASE inFlight
      <3>1. PICK c \in Calls : loading = {c}
        BY <2>1 DEF WarmInv, BootInv
      <3> QED
        BY <2>1, <3>1, FS_Singleton DEF WarmInv, OneBootstrap
    <2>2. CASE ~inFlight
      <3>1. loading = {}
        BY <2>2 DEF WarmInv, BootInv
      <3> QED
        BY <2>2, <3>1, FS_EmptySet DEF WarmInv, OneBootstrap
    <2> QED
      BY <2>1, <2>2
  <1> QED
    BY <1>1, WarmSafety, PTL

LEMMA SwapStart == Init => SwapInv
  BY DEF Init, SwapInv, Holding

\* The swap and the client's arrival cannot come again; a call learns of the client by a try
\* that did not panic and reads the table whenever it wakes.
LEMMA SwapStep == WarmInv /\ SwapInv /\ [Next]_vars => SwapInv'
  <1> SUFFICES ASSUME TypeOK, SwapInv, [Next]_vars PROVE SwapInv'
    BY DEF WarmInv
  <1>1. CASE UNCHANGED vars
    BY <1>1 DEF SwapInv, vars, tdVars, callVars
  <1>2. CASE Session \/ Materialise \/ Leave \/ SignalEdge \/ IntervalOver
    <2>1. UNCHANGED callVars /\ (client => client' /\ table' = table) /\ (client' => table' = 1)
      BY <1>2 DEF Session, SwapSessionTable, SetClient, Materialise, Leave, SignalEdge,
                  IntervalOver, tdVars, SwapInv
    <2> QED
      BY <2>1 DEF SwapInv, callVars, Holding
  <1>3. ASSUME NEW c \in Calls, LoadChats(c)
        PROVE  SwapInv'
    <2>1. /\ pc[c] = "loading" /\ UNCHANGED <<client, table, cur>> /\ pc'[c] = "lookup"
          /\ \A d \in Calls : d # c => \/ pc'[d] = pc[d]
                                       \/ pc[d] = "parked" /\ pc'[d] = "awake"
      BY <1>3 DEF LoadChats, Woken, TypeOK
    <2> QED
      BY <2>1 DEF SwapInv, Holding
  <1>4. ASSUME NEW c \in Calls, Step(c) \/ Expire(c) \/ Deadline(c) \/ Tick(c), ~LoadChats(c)
        PROVE  SwapInv'
    <2>1. UNCHANGED <<client, table>>
      BY <1>4 DEF Step, ReadTable, Subscribe, FirstTry, EntryReady, Lookup, Retry, Refute, Drive,
                  WaitOver, Expire, Deadline, Tick, tdVars
    <2>2. \A d \in Calls : d # c => pc'[d] = pc[d] /\ cur'[d] = cur[d]
      BY <1>4 DEF Step, ReadTable, Subscribe, FirstTry, EntryReady, Lookup, Retry, Refute, Drive,
                  WaitOver, Expire, Deadline, Tick, Goto, Stay, Return, TypeOK
    <2>3. pc'[c] \in Holding \ {"first"} => client
      BY <1>4 DEF Step, ReadTable, Subscribe, FirstTry, EntryReady, Lookup, Retry, Refute, Drive,
                  WaitOver, Expire, Deadline, Tick, Goto, Return, TypeOK, SwapInv, Holding
    <2>4. pc'[c] \in {"retry", "refute"} => cur'[c] = table
      BY <1>4 DEF Step, ReadTable, Subscribe, FirstTry, EntryReady, Lookup, Retry, Refute, Drive,
                  WaitOver, Expire, Deadline, Tick, Goto, Stay, Return, TypeOK, SwapInv
    <2> QED
      BY <2>1, <2>2, <2>3, <2>4 DEF SwapInv
  <1> QED
    BY <1>1, <1>2, <1>3, <1>4 DEF Next

\* A call that sleeps on an open certificate sleeps on the one held by the table it read last,
\* and whoever wakes goes on in the current table: only a call that has not woken since the
\* swap is on the retired one.
THEOREM SleepersAreReached == Spec => []NobodySleepsOrphaned
  <1>1. WarmInv /\ SwapInv => (OneBootstrap => NobodySleepsOrphaned)
    BY DEF WarmInv, HeldInv, SwapInv, Reachable, Holding, NobodySleepsOrphaned
  <1> QED
    BY <1>1, SwapStart, SwapStep, WarmSafety, OneBootstrapAtATime, PTL DEF Spec
=============================================================================
