-------------------------- MODULE AlbumCollector_proofs --------------------------
(***************************************************************************)
(* Proofs about media albums, for any members, rules, destinations,        *)
(* deletions and albums that Telegram takes in part.                       *)
(***************************************************************************)
EXTENDS AlbumCollector, FiniteSetTheorems, FunctionTheorems, SequenceTheorems, TLAPS

(***************************************************************************)
(* Where a member is                                                       *)
(***************************************************************************)
Key(m, r) == <<r, AlbumOf[m]>>

\* The update loop has still to come to rule r for member m.
Ahead(m, r) == m \notin arrived \/ (update.msg = m /\ r \in Range(update.rules))

InAlbum(m, r) == m \in Range(albums[Key(m, r)])
InHand(m, r)  == worker.at = "spread" /\ worker.key[1] = r /\ m \in Range(worker.batch)

Carries(t, m, r, d) == t.kind = "forward" /\ t.rule = r /\ t.dst = d /\ m \in Range(t.batch)
InTask(m, r, d) == \E i \in DOMAIN queue : Carries(queue[i], m, r, d)

Is(c, m, r, d) == c.msg = m /\ c.rule = r /\ c.dst = d
InChat(m, r, d) == \E i \in DOMAIN sent : Is(sent[i], m, r, d)

Done(m, r, d) == InTask(m, r, d) \/ InChat(m, r, d) \/ <<m, r, d>> \in refused

News(f, r) == f.event = "new" /\ f.rule = r
Told(m, r) == \E i \in DOMAIN facts[m] : News(facts[m][i], r)

\* The worker has not come to destination d of its rule r.
Walked(r) == Len(To[r]) - Len(worker.to)
Owed(r, d) == \A i \in 1..Walked(r) : To[r][i] # d

(***************************************************************************)
(* The invariant                                                           *)
(***************************************************************************)
UpdateInv ==
    /\ update.rules = <<>> => update = NoUpdate
    /\ update.rules # <<>> => update.msg \in arrived \ gone
    /\ \A i, j \in DOMAIN update.rules : update.rules[i] = update.rules[j] => i = j

\* What a worker has in hand.
WorkerInv ==
    /\ worker.at = "free" => worker = Free
    /\ worker.at # "free" => worker.key \in Keys
    /\ worker.at = "spread" =>
         /\ Len(worker.to) <= Len(To[worker.key[1]])
         /\ \A i \in DOMAIN worker.to :
              worker.to[i] = To[worker.key[1]][Walked(worker.key[1]) + i]

\* Members are collected under the key of their album, and none comes twice.
Distinct(s) == \A i, j \in DOMAIN s : s[i] = s[j] => i = j
AlbumInv ==
    /\ \A k \in Keys : Distinct(albums[k]) /\ \A m \in Range(albums[k]) : k[2] = AlbumOf[m]
    /\ worker.at = "spread" => Distinct(worker.batch)
    /\ \A i \in DOMAIN queue : queue[i].kind = "forward" => Distinct(queue[i].batch)

\* Nothing has happened with a member of the update loop or an album; in the hands of the
\* worker, nothing for the destinations it has still to come to.
AheadOf(m, r) ==
    /\ Ahead(m, r) => ~InAlbum(m, r)
    /\ Ahead(m, r) \/ InAlbum(m, r) =>
         ~InHand(m, r) /\ ~Told(m, r) /\ \A d \in Dsts : ~Done(m, r, d)
    /\ InHand(m, r) => \A d \in Dsts : Owed(r, d) => ~Done(m, r, d)

\* One new fact, one task for a destination or one copy there.
NewsOnce(m, r) ==
    \A i, j \in DOMAIN facts[m] : News(facts[m][i], r) /\ News(facts[m][j], r) => i = j
TaskOnce(m, r, d) ==
    \A i, j \in DOMAIN queue : Carries(queue[i], m, r, d) /\ Carries(queue[j], m, r, d) => i = j
ChatOnce(m, r, d) ==
    \A i, j \in DOMAIN sent : Is(sent[i], m, r, d) /\ Is(sent[j], m, r, d) => i = j
OnceOf(m, r) ==
    /\ NewsOnce(m, r)
    /\ \A d \in Dsts : /\ InTask(m, r, d) => ~InChat(m, r, d)
                       /\ TaskOnce(m, r, d) /\ ChatOnce(m, r, d)

\* A member that was collected is still in its album, or told and on its way everywhere.
CompleteOf(m, r) ==
    ~Ahead(m, r) /\ Collects(m, r) /\ ~InAlbum(m, r) =>
      /\ Told(m, r) <=> m \in Emitted(<<m>>, r)
      /\ \A d \in Range(To[r]) : (InHand(m, r) /\ Owed(r, d)) \/ Done(m, r, d)

PlaceInv ==
    \A m \in Members, r \in RuleIds : AheadOf(m, r) /\ OnceOf(m, r) /\ CompleteOf(m, r)

\* An entry of the album service has one collection, queued or at work.
CollectionOf(t, k) == t.kind = "collect" /\ t.key = k
Waiting(k) == \E i \in DOMAIN queue : CollectionOf(queue[i], k)
AtWork(k) == worker.at \in {"check", "sleep", "pop"} /\ worker.key = k
TaskInv ==
    \A k \in Keys :
      /\ \A i, j \in DOMAIN queue : CollectionOf(queue[i], k) /\ CollectionOf(queue[j], k) => i = j
      /\ AtWork(k) => ~Waiting(k)
      /\ albums[k] # <<>> <=> AtWork(k) \/ Waiting(k)

\* Stamps that a new fact of m has or will have, and those of its deletion.
DueAt(k, s) ==
    \/ AtWork(k) /\ worker.stamp = s
    \/ \E i \in DOMAIN queue : CollectionOf(queue[i], k) /\ queue[i].stamp = s
NewAt(m, s) ==
    \/ \E i \in DOMAIN facts[m] : facts[m][i].event = "new" /\ facts[m][i].at = s
    \/ \E k \in Keys : m \in Range(albums[k]) /\ DueAt(k, s)
Deletes(t, m, s) == t.kind = "delete" /\ t.msg = m /\ t.stamp = s
GoneAt(m, s) ==
    \/ \E i \in DOMAIN facts[m] : facts[m][i].event = "deleted" /\ facts[m][i].at = s
    \/ \E i \in DOMAIN queue : Deletes(queue[i], m, s)
StampInv ==
    /\ \A m \in Members, s \in Nat :
         /\ NewAt(m, s) => s <= clock
         /\ GoneAt(m, s) => m \in gone
         /\ \A t \in Nat : NewAt(m, s) /\ GoneAt(m, t) => s < t
    /\ \A k \in Keys, s \in Nat : DueAt(k, s) => s <= clock

\* The store maps a member to copies of it.
CopiedInv ==
    /\ \A m \in Members : \A i \in copied[m] : sent[i].msg = m
    /\ \A i \in DOMAIN sent : ~sent[i].kept => sent[i].msg \in gone

CollectInv ==
    /\ TypeOK /\ UpdateInv /\ WorkerInv /\ AlbumInv /\ PlaceInv
    /\ TaskInv /\ StampInv /\ CopiedInv

(***************************************************************************)
(* Members in the order of their ids                                       *)
(***************************************************************************)
Rank(S, m) == Cardinality({n \in S : n <= m})

LEMMA RankRange ==
    ASSUME NEW S \in SUBSET Nat, IsFiniteSet(S), NEW m \in S
    PROVE  Rank(S, m) \in 1..Cardinality(S)
  <1> DEFINE B == {n \in S : n <= m}
  <1>1. IsFiniteSet(B) /\ Cardinality(B) <= Cardinality(S)
    BY FS_Subset
  <1>2. Cardinality(B) \in Nat /\ Cardinality(S) \in Nat
    BY <1>1, FS_CardinalityType
  <1>3. m \in B
    BY m \in Nat
  <1>4. Cardinality(B) # 0
    BY <1>1, <1>3, FS_EmptySet
  <1> QED BY <1>1, <1>2, <1>4 DEF Rank

LEMMA RankGrows ==
    ASSUME NEW S \in SUBSET Nat, IsFiniteSet(S), NEW m \in S, NEW n \in S, m < n
    PROVE  Rank(S, m) < Rank(S, n)
  <1> DEFINE B(x) == {k \in S : k <= x}
  <1>0. S \subseteq Nat /\ m \in Nat /\ n \in Nat /\ n <= n /\ ~(n <= m)
    OBVIOUS
  <1>1. B(m) \in SUBSET B(n) /\ n \in B(n) /\ n \notin B(m)
    <2>1. \A k \in S : k <= m => k <= n
      BY <1>0
    <2> QED BY <1>0, <2>1
  <1>2. IsFiniteSet(B(n)) /\ IsFiniteSet(B(m))
    BY FS_Subset
  <1>3. Cardinality(B(n)) \in Nat /\ Cardinality(B(m)) \in Nat
    BY <1>2, FS_CardinalityType
  <1>4. Cardinality(B(m)) <= Cardinality(B(n)) /\ Cardinality(B(m)) # Cardinality(B(n))
    <2> HIDE DEF B
    <2> QED BY <1>1, <1>2, FS_Subset
  <1> QED BY <1>3, <1>4 DEF Rank

\* Every rank up to the number of members is that of one member.
LEMMA RankTaken ==
    ASSUME NEW S \in SUBSET Nat, IsFiniteSet(S), NEW i \in 1..Cardinality(S)
    PROVE  \E m \in S : /\ Rank(S, m) = i
                        /\ \A n \in S : Rank(S, n) = i => n = m
  <1> DEFINE N == 1..Cardinality(S)
             f == [m \in S |-> Rank(S, m)]
  <1>1. Cardinality(S) \in Nat
    BY FS_CardinalityType
  <1>2. f \in [S -> N]
    BY RankRange
  <1>3. ASSUME NEW m \in S, NEW n \in S, Rank(S, m) = Rank(S, n)
        PROVE  m = n
    <2>1. Rank(S, m) \in Nat /\ Rank(S, n) \in Nat
      BY RankRange
    <2> QED BY <1>3, <2>1, RankGrows
  <1>4. f \in Injection(S, N)
    BY <1>2, <1>3, Fun_IsInj
  <1>5. IsFiniteSet(N) /\ Cardinality(N) = Cardinality(S)
    BY <1>1, FS_Interval
  <1>6. f \in Surjection(S, N)
    <2> HIDE DEF f, N
    <2> QED BY <1>4, <1>5, FS_Injection
  <1>7. PICK m \in S : f[m] = i
    <2>1. \A t \in N : \E s \in S : f[s] = t
      <3> HIDE DEF f, N
      <3> QED BY <1>6, Fun_SurjectionProperties
    <2> QED BY <2>1
  <1> QED BY <1>3, <1>7

LEMMA SortedProperties ==
    ASSUME NEW S \in SUBSET Nat, IsFiniteSet(S)
    PROVE  /\ Sorted(S) \in Seq(S) /\ Len(Sorted(S)) = Cardinality(S) /\ Cardinality(S) \in Nat
           /\ DOMAIN Sorted(S) = 1..Cardinality(S)
           /\ \A i \in 1..Cardinality(S) : Sorted(S)[i] \in S /\ Rank(S, Sorted(S)[i]) = i
           /\ \A m \in S : Sorted(S)[Rank(S, m)] = m
  <1>1. Cardinality(S) \in Nat
    BY FS_CardinalityType
  <1>2. ASSUME NEW i \in 1..Cardinality(S)
        PROVE  Sorted(S)[i] \in S /\ Rank(S, Sorted(S)[i]) = i
    <2>1. Sorted(S)[i] = CHOOSE m \in S : Rank(S, m) = i
      BY DEF Sorted, Rank
    <2> QED BY <2>1, RankTaken
  <1>3. ASSUME NEW m \in S PROVE Sorted(S)[Rank(S, m)] = m
    <2> DEFINE i == Rank(S, m)
    <2>1. i \in 1..Cardinality(S)
      BY RankRange
    <2>2. Sorted(S)[i] \in S /\ Rank(S, Sorted(S)[i]) = i
      BY <1>2, <2>1
    <2>3. \A n, k \in S : Rank(S, n) = i /\ Rank(S, k) = i => n = k
      <3> HIDE DEF i
      <3> QED BY <2>1, RankTaken
    <2> QED BY <2>2, <2>3
  <1> DEFINE g(i) == CHOOSE m \in S : Cardinality({n \in S : n <= m}) = i
             N == 1..Cardinality(S)
  <1>a. Sorted(S) = [i \in N |-> g(i)]
    BY DEF Sorted
  <1> HIDE DEF g, N
  <1>b. DOMAIN Sorted(S) = N /\ Sorted(S) = [i \in N |-> Sorted(S)[i]]
    BY <1>a
  <1>4. DOMAIN Sorted(S) = 1..Cardinality(S)
    BY <1>b DEF N
  <1>5. Sorted(S) = [i \in 1..Cardinality(S) |-> Sorted(S)[i]]
    BY <1>b DEF N
  <1>6. Sorted(S) \in [1..Cardinality(S) -> S]
    BY <1>2, <1>5
  <1>7. Sorted(S) \in Seq(S) /\ Len(Sorted(S)) = Cardinality(S)
    BY <1>1, <1>4, <1>6
  <1> QED BY <1>1, <1>2, <1>3, <1>4, <1>7

LEMMA SortedRange ==
    ASSUME NEW S \in SUBSET Nat, IsFiniteSet(S)
    PROVE  Range(Sorted(S)) = S /\ Distinct(Sorted(S))
  <1> DEFINE s == Sorted(S)
             N == 1..Cardinality(S)
  <1>1. \A m \in S : Rank(S, m) \in N
    BY RankRange
  <1>2. /\ DOMAIN s = N
        /\ \A i \in N : s[i] \in S /\ Rank(S, s[i]) = i
        /\ \A m \in S : s[Rank(S, m)] = m
    BY SortedProperties
  <1> HIDE DEF s, N
  <1>3. Range(s) = S
    BY <1>1, <1>2 DEF Range
  <1>4. Distinct(s)
    BY <1>2 DEF Distinct
  <1> QED BY <1>3, <1>4 DEF s

\* Up to the first member that is missing, the order is the same without the missing.
LEMMA SortedPrefix ==
    ASSUME NEW S \in SUBSET Nat, IsFiniteSet(S), NEW missing, NEW j \in 1..Cardinality(S),
           \A h \in 1..j : Sorted(S)[h] \notin missing
    PROVE  j <= Cardinality(S \ missing) /\ Sorted(S \ missing)[j] = Sorted(S)[j]
  <1> DEFINE T == S \ missing
             m == Sorted(S)[j]
  <1>1. m \in S /\ Rank(S, m) = j /\ m \in T
    BY SortedProperties
  <1>2. ASSUME NEW n \in S, n <= m PROVE n \notin missing
    <2>1. Rank(S, n) \in 1..Cardinality(S) /\ j \in Nat /\ Cardinality(S) \in Nat
      BY RankRange, SortedProperties
    <2>2. Rank(S, n) <= j
      <3>1. m \in Nat /\ n \in Nat
        BY <1>1
      <3>2. CASE n = m
        BY <1>1, <3>2, <2>1
      <3>3. CASE n < m
        <4>1. Rank(S, n) < Rank(S, m)
          BY <1>1, <3>3, RankGrows
        <4> QED BY <1>1, <2>1, <4>1
      <3> QED BY <1>2, <3>1, <3>2, <3>3
    <2>3. Sorted(S)[Rank(S, n)] = n
      BY SortedProperties
    <2> QED BY <2>1, <2>2, <2>3
  <1>3. {n \in T : n <= m} = {n \in S : n <= m}
    BY <1>2
  <1>4. Rank(T, m) = j
    BY <1>1, <1>3 DEF Rank
  <1>5. IsFiniteSet(T) /\ T \in SUBSET Nat
    BY FS_Subset
  <1>6. Sorted(T)[Rank(T, m)] = m /\ Rank(T, m) \in 1..Cardinality(T)
    <2> HIDE DEF T, m
    <2> QED BY <1>1, <1>5, SortedProperties, RankRange
  <1> QED BY <1>4, <1>6

(***************************************************************************)
(* Sequences, constants and tasks                                          *)
(***************************************************************************)
LEMMA Appended ==
    ASSUME NEW S, NEW s \in Seq(S), NEW x \in S
    PROVE  /\ Append(s, x) \in Seq(S) /\ Len(Append(s, x)) = Len(s) + 1
           /\ DOMAIN Append(s, x) = 1..(Len(s) + 1) /\ DOMAIN s = 1..Len(s) /\ Len(s) \in Nat
           /\ \A i \in DOMAIN s : i \in DOMAIN Append(s, x) /\ Append(s, x)[i] = s[i]
           /\ \A i \in DOMAIN Append(s, x) : i \in DOMAIN s \/ i = Len(s) + 1
           /\ Len(s) + 1 \notin DOMAIN s /\ Append(s, x)[Len(s) + 1] = x
           /\ Append(s, x) # <<>>
  OBVIOUS

LEMMA AppendedRange ==
    ASSUME NEW S, NEW s \in Seq(S), NEW x \in S
    PROVE  Range(Append(s, x)) = Range(s) \cup {x}
  <1> DEFINE a == Append(s, x)
  <1>1. /\ \A i \in DOMAIN s : i \in DOMAIN a /\ a[i] = s[i]
        /\ \A i \in DOMAIN a : i \in DOMAIN s \/ i = Len(s) + 1
        /\ Len(s) + 1 \in DOMAIN a /\ a[Len(s) + 1] = x
    BY Appended
  <1> HIDE DEF a
  <1>2. Range(a) = Range(s) \cup {x}
    BY <1>1 DEF Range
  <1> QED BY <1>2 DEF a

LEMMA Tailed ==
    ASSUME NEW S, NEW s \in Seq(S), s # <<>>
    PROVE  /\ Tail(s) \in Seq(S) /\ Head(s) = s[1] /\ Head(s) \in S /\ Len(Tail(s)) = Len(s) - 1
           /\ DOMAIN Tail(s) = 1..(Len(s) - 1) /\ DOMAIN s = 1..Len(s) /\ Len(s) \in Nat /\ Len(s) > 0
           /\ 1 \in DOMAIN s
           /\ \A i \in DOMAIN Tail(s) : i \in Nat /\ i + 1 \in DOMAIN s /\ Tail(s)[i] = s[i + 1]
           /\ \A i \in DOMAIN s : i = 1 \/ (i - 1 \in DOMAIN Tail(s) /\ Tail(s)[i - 1] = s[i])
  OBVIOUS

LEMMA TailedRange ==
    ASSUME NEW S, NEW s \in Seq(S), s # <<>>
    PROVE  Range(s) = {Head(s)} \cup Range(Tail(s))
  <1> DEFINE t == Tail(s)
  <1>1. /\ 1 \in DOMAIN s /\ Head(s) = s[1]
        /\ \A i \in DOMAIN t : i + 1 \in DOMAIN s /\ t[i] = s[i + 1]
        /\ \A i \in DOMAIN s : i = 1 \/ (i - 1 \in DOMAIN t /\ t[i - 1] = s[i])
    BY Tailed
  <1> HIDE DEF t
  <1>2. Range(s) = {Head(s)} \cup Range(t)
    BY <1>1 DEF Range
  <1> QED BY <1>2 DEF t

LEMMA InRange ==
    ASSUME NEW S, NEW s \in Seq(S)
    PROVE  Range(s) \subseteq S /\ \A i \in DOMAIN s : s[i] \in S /\ s[i] \in Range(s)
  BY DEF Range

LEMMA Config ==
    /\ Rules \in Seq(RuleIds) /\ RuleIds \subseteq Nat
    /\ \A r \in RuleIds : To[r] \in Seq(Dsts) /\ Range(To[r]) \subseteq Dsts
    /\ \A m \in Members, r \in RuleIds : Key(m, r) \in Keys /\ AlbumOf[m] \in Albums
    /\ \A k \in Keys : k = <<k[1], k[2]>> /\ k[1] \in RuleIds
    /\ Quiet \in Nat /\ Quiet > 0 /\ MaxFaults \in Nat
    /\ Members \subseteq Nat /\ IsFiniteSet(Members)
  <1>1. /\ Rules \in Seq(Nat) /\ To \in [RuleIds -> Seq(Dsts)] /\ Quiet \in Nat /\ Quiet > 0
        /\ MaxFaults \in Nat /\ AlbumOf \in [Members -> Albums]
        /\ Members \subseteq Nat /\ IsFiniteSet(Members)
    BY AlbumAssumption DEF RuleIds
  <1>2. Rules \in Seq(RuleIds) /\ RuleIds \subseteq Nat
    <2>1. DOMAIN Rules = 1..Len(Rules) /\ Len(Rules) \in Nat
      BY <1>1
    <2>2. \A i \in 1..Len(Rules) : Rules[i] \in RuleIds /\ Rules[i] \in Nat
      BY <1>1, <2>1 DEF RuleIds, Range
    <2>3. RuleIds \subseteq Nat
      BY <2>1, <2>2 DEF RuleIds, Range
    <2>4. Rules = [i \in 1..Len(Rules) |-> Rules[i]]
      BY <1>1
    <2> QED BY <2>1, <2>2, <2>3, <2>4
  <1>3. \A r \in RuleIds : To[r] \in Seq(Dsts) /\ Range(To[r]) \subseteq Dsts
    BY <1>1, InRange
  <1>4. \A m \in Members, r \in RuleIds : Key(m, r) \in Keys /\ AlbumOf[m] \in Albums
    BY <1>1 DEF Key, Keys
  <1>5. \A k \in Keys : k = <<k[1], k[2]>> /\ k[1] \in RuleIds
    BY DEF Keys
  <1> QED BY <1>1, <1>2, <1>3, <1>4, <1>5

LEMMA Kinds ==
    ASSUME NEW t \in Task
    PROVE  /\ t.kind = "collect" => t.key \in Keys /\ t.stamp \in Nat
           /\ t.kind = "forward" => t.rule \in RuleIds /\ t.dst \in Dsts /\ t.batch \in Seq(Members)
           /\ t.kind = "stats" => t.rule \in RuleIds
           /\ t.kind = "delete" => t.msg \in Members /\ t.stamp \in Nat
  BY DEF Task

\* A batch is a finite set of members, in the order of their ids.
LEMMA Batch ==
    ASSUME NEW batch \in Seq(Members), NEW missing
    PROVE  LET S == Range(batch) IN
           /\ S \in SUBSET Nat /\ S \in SUBSET Members /\ IsFiniteSet(S)
           /\ S \ missing \in SUBSET Nat /\ IsFiniteSet(S \ missing)
           /\ Sorted(S) \in Seq(Members) /\ Range(Sorted(S)) = S /\ Distinct(Sorted(S))
           /\ DOMAIN Sorted(S) = 1..Cardinality(S) /\ Cardinality(S) \in Nat
           /\ Without(Sorted(S), missing) = Sorted(S \ missing)
           /\ Sorted(S \ missing) \in Seq(Members) /\ Range(Sorted(S \ missing)) = S \ missing
           /\ Distinct(Sorted(S \ missing))
           /\ DOMAIN Sorted(S \ missing) = 1..Cardinality(S \ missing)
           /\ Len(Sorted(S \ missing)) = Cardinality(S \ missing)
           /\ Cardinality(S \ missing) \in Nat
  <1> DEFINE S == Range(batch)
             T == S \ missing
  <1>1. S \in SUBSET Members /\ S \in SUBSET Nat
    BY Config, InRange
  <1>2. IsFiniteSet(S) /\ IsFiniteSet(T) /\ T \in SUBSET Members /\ T \in SUBSET Nat
    BY <1>1, Config, FS_Subset
  <1> HIDE DEF T, S
  <1>3. /\ Sorted(S) \in Seq(S) /\ DOMAIN Sorted(S) = 1..Cardinality(S) /\ Cardinality(S) \in Nat
        /\ Range(Sorted(S)) = S /\ Distinct(Sorted(S))
    BY <1>1, <1>2, SortedProperties, SortedRange
  <1>4. /\ Sorted(T) \in Seq(T) /\ DOMAIN Sorted(T) = 1..Cardinality(T) /\ Cardinality(T) \in Nat
        /\ Len(Sorted(T)) = Cardinality(T)
        /\ Range(Sorted(T)) = T /\ Distinct(Sorted(T))
    BY <1>1, <1>2, SortedProperties, SortedRange
  <1>5. Sorted(S) \in Seq(Members) /\ Sorted(T) \in Seq(Members)
    <2>1. \A A, B : A \in SUBSET B => Seq(A) \subseteq Seq(B)
      OBVIOUS
    <2> QED BY <1>1, <1>2, <1>3, <1>4, <2>1
  <1>6. Without(Sorted(S), missing) = Sorted(T)
    BY <1>3 DEF Without, T
  <1> QED BY <1>1, <1>2, <1>3, <1>4, <1>5, <1>6 DEF S, T

Copy == [msg: Members, rule: RuleIds, dst: Dsts, kept: BOOLEAN]

LEMMA Sending ==
    ASSUME NEW batch \in Seq(Members), NEW t, t.rule \in RuleIds, t.dst \in Dsts
    PROVE  /\ Messages(batch, t) \in Seq(Copy)
           /\ Len(Messages(batch, t)) = Len(batch) /\ DOMAIN Messages(batch, t) = DOMAIN batch
           /\ \A i \in DOMAIN batch :
                /\ Messages(batch, t)[i].msg = batch[i] /\ Messages(batch, t)[i].rule = t.rule
                /\ Messages(batch, t)[i].dst = t.dst /\ Messages(batch, t)[i].kept
  <1> DEFINE ms == Messages(batch, t)
  <1>1. DOMAIN batch = 1..Len(batch) /\ Len(batch) \in Nat /\ \A i \in DOMAIN batch : batch[i] \in Members
    OBVIOUS
  <1>2. \A i \in DOMAIN batch :
          [msg |-> batch[i], rule |-> t.rule, dst |-> t.dst, kept |-> TRUE] \in Copy
    BY <1>1 DEF Copy
  <1>3. ms \in [1..Len(batch) -> Copy] /\ DOMAIN ms = DOMAIN batch
    BY <1>1, <1>2 DEF Messages
  <1>4. ms \in Seq(Copy) /\ Len(ms) = Len(batch)
    <2> HIDE DEF ms
    <2> QED BY <1>1, <1>3
  <1> QED BY <1>3, <1>4 DEF Messages

(***************************************************************************)
(* Types                                                                   *)
(***************************************************************************)
Fact == [event: {"new", "deleted"}, rule: RuleIds \cup {0}, at: Nat]
WorkerType ==
    [at: {"free", "check", "sleep", "pop", "spread"}, key: Keys \cup {<<0, 0>>},
     stamp: Nat, left: 0..Quiet, batch: Seq(Members), to: Seq(Dsts)]

LEMMA FreeType == Free \in WorkerType
  <1>1. <<>> \in Seq(Members) /\ <<>> \in Seq(Dsts)
    OBVIOUS
  <1> QED BY <1>1, Config DEF Free, WorkerType

LEMMA TypeInit == Init => TypeOK
  <1> SUFFICES ASSUME Init PROVE TypeOK
    OBVIOUS
  <1>1. /\ <<>> \in Seq(Members) /\ <<>> \in Seq(RuleIds) /\ <<>> \in Seq(Task) /\ <<>> \in Seq(Copy)
        /\ <<>> \in Seq(Fact)
    OBVIOUS
  <1>2. NoUpdate \in [msg: Members \cup {0}, rules: Seq(RuleIds)]
    BY <1>1 DEF NoUpdate
  <1>3. MaxFaults \in Nat /\ Quiet \in Nat
    BY Config
  <1> QED BY <1>1, <1>2, <1>3, FreeType DEF Init, TypeOK, Copy, Fact, WorkerType

\* The parts of TypeOK that a proof needs at a time.
LEMMA HeadTask ==
    ASSUME TypeOK, NEW k, NextTaskIs(k)
    PROVE  /\ queue \in Seq(Task) /\ queue # <<>> /\ Head(queue) \in Task /\ Head(queue).kind = k
           /\ Head(queue) = queue[1] /\ 1 \in DOMAIN queue /\ worker = Free
           /\ Tail(queue) \in Seq(Task)
  BY Tailed DEF TypeOK, NextTaskIs

LEMMA AddType ==
    ASSUME TypeOK, UpdateInv, AddMessage
    PROVE  /\ update.msg \in Members /\ update.rules \in Seq(RuleIds) /\ update.rules # <<>>
           /\ Head(update.rules) \in RuleIds
           /\ <<Head(update.rules), AlbumOf[update.msg]>> \in Keys
           /\ update.rules = <<Head(update.rules)>> \o Tail(update.rules)
           /\ update' \in [msg: Members \cup {0}, rules: Seq(RuleIds)]
  <1>1. /\ update.rules \in Seq(RuleIds) /\ update.rules # <<>>
        /\ update.msg \in Members
        /\ update \in [msg: Members \cup {0}, rules: Seq(RuleIds)]
    BY DEF TypeOK, UpdateInv, AddMessage
  <1>2. Head(update.rules) \in RuleIds /\ Tail(update.rules) \in Seq(RuleIds)
    BY <1>1
  <1>3. NoUpdate \in [msg: Members \cup {0}, rules: Seq(RuleIds)]
    BY DEF NoUpdate
  <1>4. [update EXCEPT !.rules = Tail(@)] \in [msg: Members \cup {0}, rules: Seq(RuleIds)]
    BY <1>1, <1>2
  <1>5. <<Head(update.rules), AlbumOf[update.msg]>> \in Keys
    BY <1>1, <1>2, Config DEF Key
  <1>6. update.rules = <<Head(update.rules)>> \o Tail(update.rules)
    BY <1>1
  <1> QED BY <1>1, <1>2, <1>3, <1>4, <1>5, <1>6 DEF AddMessage

LEMMA TypeUpdateLoop ==
    ASSUME TypeOK, UpdateInv, UpdateLoop
    PROVE  TypeOK'
  <1> USE DEF sourceVars, albumVars, outVars, faultVars
  <1>0. queue \in Seq(Task) /\ clock \in Nat /\ clock + 1 \in Nat
    BY DEF TypeOK
  <1>1. CASE AddMessage
    <2> DEFINE k == <<Head(update.rules), AlbumOf[update.msg]>>
               t == [kind |-> "collect", key |-> k, stamp |-> clock + 1]
    <2>1. k \in Keys /\ update.msg \in Members
      BY <1>1, AddType
    <2>2. albums' \in [Keys -> Seq(Members)] /\ quiet' \in [Keys -> 0..Quiet]
      <3>1. albums[k] \in Seq(Members) /\ Append(albums[k], update.msg) \in Seq(Members)
        BY <2>1, Appended DEF TypeOK
      <3>2. 0 \in 0..Quiet
        BY Config
      <3> QED BY <1>1, <3>1, <3>2 DEF TypeOK, AddMessage
    <2>3. t \in Task
      BY <1>0, <2>1 DEF Task
    <2>4. queue' \in Seq(Task) /\ clock' \in Nat
      <3>1. queue' \in {queue, Append(queue, t)} /\ clock' \in {clock, clock + 1}
        BY <1>1 DEF AddMessage
      <3>2. Append(queue, t) \in Seq(Task)
        <4> HIDE DEF t
        <4> QED BY <1>0, <2>3, Appended
      <3> QED BY <1>0, <3>1, <3>2
    <2>5. update' \in [msg: Members \cup {0}, rules: Seq(RuleIds)]
      BY <1>1, AddType
    <2> QED BY <1>1, <2>2, <2>4, <2>5 DEF TypeOK, AddMessage
  <1>2. ASSUME NEW m \in Members, OnNewMessage(m) PROVE TypeOK'
    <2>1. /\ NoUpdate \in [msg: Members \cup {0}, rules: Seq(RuleIds)]
          /\ [msg |-> m, rules |-> Rules] \in [msg: Members \cup {0}, rules: Seq(RuleIds)]
      BY Config DEF NoUpdate
    <2>2. update' \in [msg: Members \cup {0}, rules: Seq(RuleIds)]
      BY <1>2, <2>1 DEF OnNewMessage
    <2> QED BY <1>2, <2>2 DEF OnNewMessage, TypeOK
  <1>3. ASSUME NEW m \in Members, OnDeletedMessages(m) PROVE TypeOK'
    <2>1. [kind |-> "delete", msg |-> m, stamp |-> clock + 1] \in Task
      BY <1>0 DEF Task
    <2>2. queue' \in Seq(Task)
      BY <1>0, <1>3, <2>1 DEF OnDeletedMessages
    <2> QED BY <1>0, <1>3, <2>2 DEF OnDeletedMessages, TypeOK
  <1> QED BY <1>1, <1>2, <1>3 DEF UpdateLoop

LEMMA TypeCollect ==
    ASSUME TypeOK, WorkerInv,
           StartCollect \/ CheckAge \/ WakeUp \/ Tick \/ Pop \/ SpreadDst \/ SpreadStats
    PROVE  TypeOK'
  <1> USE DEF sourceVars, albumVars, outVars, faultVars
  <1>0. worker \in WorkerType /\ queue \in Seq(Task) /\ Quiet \in Nat /\ Free \in WorkerType
    BY Config, FreeType DEF TypeOK, WorkerType
  <1>1. CASE StartCollect
    <2>1. Head(queue) \in Task /\ Tail(queue) \in Seq(Task) /\ Head(queue).kind = "collect"
      BY <1>1, HeadTask DEF StartCollect
    <2>2. Head(queue).key \in Keys /\ Head(queue).stamp \in Nat
      BY <2>1, Kinds
    <2>3. worker' \in WorkerType
      BY <1>0, <1>1, <2>2 DEF StartCollect, WorkerType
    <2> QED BY <1>1, <2>1, <2>3 DEF StartCollect, Dequeue, TypeOK, WorkerType
  <1>2. CASE CheckAge
    <2>1. worker.key \in Keys
      BY <1>2 DEF CheckAge, WorkerInv
    <2>2. Age(worker.key) \in 0..Quiet
      BY <1>0, <2>1 DEF Age, TypeOK
    <2>3. Quiet - Age(worker.key) \in 0..Quiet
      BY <1>0, <2>2
    <2>4. worker' \in WorkerType
      BY <1>0, <1>2, <2>3 DEF CheckAge, WorkerType
    <2> QED BY <1>2, <2>4 DEF CheckAge, TypeOK, WorkerType
  <1>3. CASE WakeUp
    <2>1. worker' \in WorkerType
      BY <1>0, <1>3 DEF WakeUp, WorkerType
    <2> QED BY <1>3, <2>1 DEF WakeUp, TypeOK, WorkerType
  <1>4. CASE Tick
    <2>1. \A k \in Keys : (IF quiet[k] < Quiet THEN quiet[k] + 1 ELSE Quiet) \in 0..Quiet
      BY <1>0 DEF TypeOK
    <2>2. (IF worker.left > 0 THEN worker.left - 1 ELSE 0) \in 0..Quiet
      BY <1>0 DEF WorkerType
    <2>3. worker' \in WorkerType
      BY <1>0, <1>4, <2>2 DEF Tick, WorkerType
    <2> QED BY <1>4, <2>1, <2>3 DEF Tick, TypeOK, WorkerType
  <1>5. CASE Pop
    <2> DEFINE k == worker.key
               f == [event |-> "new", rule |-> k[1], at |-> FactStamp(worker.stamp)]
    <2>1. k \in Keys /\ k[1] \in RuleIds
      BY <1>5, Config DEF Pop, WorkerInv
    <2>2. f \in Fact
      BY <1>0, <2>1 DEF Fact, FactStamp, WorkerType
    <2>3. \A m \in Members : facts[m] \in Seq(Fact) /\ Append(facts[m], f) \in Seq(Fact)
      <3> HIDE DEF f
      <3>1. \A m \in Members : facts[m] \in Seq(Fact)
        BY DEF TypeOK, Fact
      <3> QED BY <2>2, <3>1, Appended
    <2>4. facts' \in [Members -> Seq(Fact)]
      <3> HIDE DEF f
      <3>1. facts' = [m \in Members |-> IF m \notin Emitted(albums[k], k[1]) THEN facts[m]
                                        ELSE Append(facts[m], f)]
        BY <1>5 DEF Pop, f
      <3> QED BY <2>3, <3>1
    <2>5. albums' \in [Keys -> Seq(Members)] /\ albums[k] \in Seq(Members)
      BY <1>5, <2>1 DEF Pop, Popped, TypeOK
    <2>6. worker' \in WorkerType
      BY <1>0, <1>5, <2>1, <2>5, Config DEF Pop, WorkerType
    <2> QED BY <1>5, <2>4, <2>5, <2>6 DEF Pop, TypeOK, WorkerType, Fact
  <1>6. CASE SpreadDst
    <2>1. /\ worker.key \in Keys /\ worker.key[1] \in RuleIds /\ worker.to \in Seq(Dsts)
          /\ worker.batch \in Seq(Members) /\ Head(worker.to) \in Dsts
          /\ Tail(worker.to) \in Seq(Dsts)
      BY <1>0, <1>6, Config DEF SpreadDst, WorkerInv, WorkerType
    <2>2. [kind |-> "forward", rule |-> worker.key[1], dst |-> Head(worker.to),
           batch |-> worker.batch] \in Task
      BY <2>1 DEF Task
    <2>3. queue' \in Seq(Task)
      BY <1>0, <1>6, <2>2 DEF SpreadDst
    <2>4. worker' \in WorkerType
      BY <1>0, <1>6, <2>1 DEF SpreadDst, WorkerType
    <2> QED BY <1>6, <2>3, <2>4 DEF SpreadDst, TypeOK, WorkerType
  <1>7. CASE SpreadStats
    <2>1. worker.key[1] \in RuleIds
      BY <1>7, Config DEF SpreadStats, WorkerInv
    <2>2. [kind |-> "stats", rule |-> worker.key[1]] \in Task
      BY <2>1 DEF Task
    <2>3. queue' \in Seq(Task)
      BY <1>0, <1>7, <2>2 DEF SpreadStats
    <2> QED BY <1>0, <1>7, <2>3 DEF SpreadStats, TypeOK, WorkerType
  <1> QED BY <1>1, <1>2, <1>3, <1>4, <1>5, <1>6, <1>7

\* What forwardAlbum sends of a batch, with what Telegram does not take.
Taken(missing) ==
    LET t == Head(queue) IN
    sent' = sent \o Messages(Sorted(Range(t.batch) \ missing), t)

LEMMA Sent ==
    ASSUME TypeOK, NextTaskIs("forward"), NEW missing, Taken(missing)
    PROVE  LET t == Head(queue)  s == Sorted(Range(t.batch) \ missing) IN
           /\ t \in Task /\ t.rule \in RuleIds /\ t.dst \in Dsts /\ t.batch \in Seq(Members)
           /\ sent \in Seq(Copy) /\ sent' \in Seq(Copy) /\ s \in Seq(Members)
           /\ DOMAIN s = 1..Len(s) /\ Len(s) \in Nat
           /\ Len(sent) \in Nat /\ Len(sent') = Len(sent) + Len(s)
           /\ DOMAIN sent = 1..Len(sent) /\ DOMAIN sent' = 1..(Len(sent) + Len(s))
           /\ \A i \in DOMAIN sent : i \in DOMAIN sent' /\ sent'[i] = sent[i]
           /\ \A i \in DOMAIN s :
                /\ Len(sent) + i \in DOMAIN sent' /\ Len(sent) + i \notin DOMAIN sent
                /\ sent'[Len(sent) + i].msg = s[i] /\ sent'[Len(sent) + i].rule = t.rule
                /\ sent'[Len(sent) + i].dst = t.dst /\ sent'[Len(sent) + i].kept
           /\ \A i \in DOMAIN sent' :
                i \in DOMAIN sent \/ \E j \in DOMAIN s : i = Len(sent) + j
  <1> DEFINE t == Head(queue)
             s == Sorted(Range(t.batch) \ missing)
             ms == Messages(s, t)
  <1>1. t \in Task /\ t.rule \in RuleIds /\ t.dst \in Dsts /\ t.batch \in Seq(Members)
    BY HeadTask, Kinds
  <1>2. s \in Seq(Members)
    BY <1>1, Batch
  <1> HIDE DEF t, s
  <1>3. /\ ms \in Seq(Copy) /\ Len(ms) = Len(s) /\ DOMAIN ms = DOMAIN s
        /\ \A i \in DOMAIN s :
             ms[i].msg = s[i] /\ ms[i].rule = t.rule /\ ms[i].dst = t.dst /\ ms[i].kept
    BY <1>1, <1>2, Sending
  <1>4. sent \in Seq(Copy) /\ sent' = sent \o ms
    BY DEF TypeOK, Copy, Taken, t, s
  <1> HIDE DEF ms
  <1>5. /\ sent' \in Seq(Copy) /\ Len(sent') = Len(sent) + Len(s) /\ Len(sent) \in Nat
        /\ Len(s) \in Nat /\ DOMAIN s = 1..Len(s)
        /\ DOMAIN sent = 1..Len(sent) /\ DOMAIN sent' = 1..(Len(sent) + Len(s))
    <2>1. Len(ms) \in Nat /\ Len(s) \in Nat /\ Len(sent) \in Nat /\ DOMAIN s = 1..Len(s)
          /\ DOMAIN sent = 1..Len(sent)
      BY <1>2, <1>3, <1>4
    <2>2. sent' \in Seq(Copy) /\ Len(sent') = Len(sent) + Len(ms)
      <3>1. \A a, b \in Seq(Copy) : a \o b \in Seq(Copy) /\ Len(a \o b) = Len(a) + Len(b)
        OBVIOUS
      <3> QED BY <1>3, <1>4, <3>1
    <2>3. DOMAIN sent' = 1..Len(sent')
      BY <2>2
    <2> QED BY <1>3, <2>1, <2>2, <2>3
  <1>6. \A i \in DOMAIN sent : i \in DOMAIN sent' /\ sent'[i] = sent[i]
    BY <1>3, <1>4, <1>5
  <1>7. \A i \in DOMAIN s : /\ Len(sent) + i \in DOMAIN sent' /\ Len(sent) + i \notin DOMAIN sent
                            /\ sent'[Len(sent) + i] = ms[i]
    BY <1>3, <1>4, <1>5
  <1>8. ASSUME NEW i \in DOMAIN sent', i \notin DOMAIN sent
        PROVE  \E j \in DOMAIN s : i = Len(sent) + j
    <2>1. i - Len(sent) \in DOMAIN s /\ i = Len(sent) + (i - Len(sent))
      BY <1>5, <1>8
    <2> QED BY <2>1
  <1>9. \A i \in DOMAIN s :
          /\ Len(sent) + i \in DOMAIN sent' /\ Len(sent) + i \notin DOMAIN sent
          /\ sent'[Len(sent) + i].msg = s[i] /\ sent'[Len(sent) + i].rule = t.rule
          /\ sent'[Len(sent) + i].dst = t.dst /\ sent'[Len(sent) + i].kept
    BY <1>3, <1>7
  <1> QED BY <1>1, <1>2, <1>4, <1>5, <1>6, <1>8, <1>9 DEF t, s

\* forwardAlbum maps a member only to a copy of it, wherever the answer has its holes.
LEMMA MappedToCopies ==
    ASSUME TypeOK, NextTaskIs("forward"), NEW missing, Taken(missing), NEW m, NEW j,
           <<m, j>> \in Mapped(Sorted(Range(Head(queue).batch)), missing)
    PROVE  Len(sent) + j \in DOMAIN sent' /\ sent'[Len(sent) + j].msg = m
  <1> DEFINE t == Head(queue)
             S == Range(t.batch)
             T == S \ missing
  <1>1. t.batch \in Seq(Members)
    BY Sent
  <1>2. /\ S \in SUBSET Nat /\ IsFiniteSet(S) /\ DOMAIN Sorted(S) = 1..Cardinality(S)
        /\ Cardinality(S) \in Nat /\ DOMAIN Sorted(T) = 1..Cardinality(T) /\ Cardinality(T) \in Nat
    <2> HIDE DEF t
    <2> QED BY <1>1, Batch
  <1>3. /\ j \in DOMAIN Sorted(S) /\ Sorted(S)[j] = m
        /\ \A h \in 1..j : Sorted(S)[h] \notin missing
    <2> DEFINE b == Sorted(S)
    <2>1. <<m, j>> \in {<<b[i], i>> : i \in {g \in DOMAIN b : \A h \in 1..g : b[h] \notin missing}}
      BY DEF Mapped
    <2> HIDE DEF b
    <2> QED BY <2>1 DEF b
  <1>4. j <= Cardinality(T) /\ Sorted(T)[j] = m
    <2> HIDE DEF S
    <2> QED BY <1>2, <1>3, SortedPrefix
  <1>5. j \in DOMAIN Sorted(T)
    <2> HIDE DEF S, T
    <2>1. j \in 1..Cardinality(S)
      BY <1>2, <1>3
    <2>2. j \in 1..Cardinality(T)
      BY <1>2, <1>4, <2>1
    <2> QED BY <1>2, <2>2
  <1> DEFINE s == Sorted(T)
  <1>6. \A i \in DOMAIN s :
          /\ Len(sent) + i \in DOMAIN sent'
          /\ sent'[Len(sent) + i].msg = s[i]
    BY Sent
  <1>7. j \in DOMAIN s /\ s[j] = m
    BY <1>4, <1>5
  <1> HIDE DEF s, t, S, T
  <1> QED BY <1>6, <1>7

\* forwardAlbum in either mode: what Telegram takes, what the store maps to it.
Unsent(missing) == missing \X {Head(queue).rule} \X {Head(queue).dst}

LEMMA Forwarded ==
    ASSUME TypeOK, ForwardAlbum
    PROVE  \E missing \in SUBSET Range(Head(queue).batch) :
             /\ Taken(missing) /\ refused' = refused \cup Unsent(missing)
             /\ refused' \subseteq Routes /\ faults' \in 0..MaxFaults
             /\ copied' \in [Members -> SUBSET (1..Len(sent'))]
             /\ \A m \in Members : \A i \in copied'[m] :
                  i \in copied[m] \/ (i \in DOMAIN sent' /\ i \notin DOMAIN sent /\ sent'[i].msg = m)
  <1> DEFINE t == Head(queue)
             S == Range(t.batch)
             b == Sorted(S)
  <1>1. NextTaskIs("forward")
    BY DEF ForwardAlbum
  <1>2. t \in Task /\ t.rule \in RuleIds /\ t.dst \in Dsts /\ t.batch \in Seq(Members)
    BY <1>1, HeadTask, Kinds
  <1>3. /\ Range(b) = S /\ S \in SUBSET Members
        /\ \A missing : Without(b, missing) = Sorted(S \ missing)
    <2> HIDE DEF t
    <2> QED BY <1>2, Batch
  <1>4. ASSUME NEW missing \in SUBSET S, refused' = refused \cup Unsent(missing)
        PROVE  refused' \subseteq Routes
    <2>1. Unsent(missing) \subseteq Routes
      BY <1>2, <1>3 DEF Unsent, Routes
    <2>2. refused \subseteq Routes
      BY DEF TypeOK
    <2> QED BY <1>4, <2>1, <2>2
  <1>5. /\ copied \in [Members -> SUBSET (1..Len(sent))] /\ faults \in 0..MaxFaults
        /\ MaxFaults \in Nat
    BY Config DEF TypeOK
  <1>6. CASE t.rule \in Copying
    <2>1. CopyAlbum(t, b)
      BY <1>6 DEF ForwardAlbum
    <2> HIDE DEF b, t, S
    <2>2. PICK missing \in SUBSET Range(b) :
            /\ faults' = IF missing = {} THEN faults ELSE faults + 1
            /\ faults' <= MaxFaults
            /\ sent' = sent \o Messages(Without(b, missing), t)
            /\ copied' = [m \in Members |-> copied[m] \cup
                            {Len(sent) + i : i \in {j \in DOMAIN b : <<m, j>> \in Mapped(b, missing)}}]
            /\ refused' = refused \cup (missing \X {t.rule} \X {t.dst})
      BY <2>1 DEF CopyAlbum
    <2>3. missing \in SUBSET S /\ Taken(missing) /\ refused' = refused \cup Unsent(missing)
      BY <1>3, <2>2 DEF Taken, Unsent, t, S
    <2>4. faults' \in 0..MaxFaults
      BY <1>5, <2>2
    <2>5. ASSUME NEW m \in Members, NEW i \in copied'[m], i \notin copied[m]
          PROVE  i \in DOMAIN sent' /\ i \notin DOMAIN sent /\ sent'[i].msg = m
      <3>1. PICK j \in DOMAIN b : <<m, j>> \in Mapped(b, missing) /\ i = Len(sent) + j
        BY <2>2, <2>5
      <3>2. i \in DOMAIN sent' /\ sent'[i].msg = m
        BY <1>1, <2>3, <3>1, MappedToCopies DEF b, S, t
      <3>3. j \in Nat /\ j > 0
        <4>1. DOMAIN Sorted(S) = 1..Cardinality(S)
          BY <1>2, Batch DEF S
        <4> QED BY <3>1, <4>1 DEF b
      <3>4. i \notin DOMAIN sent
        BY <1>1, <2>3, <3>1, <3>3, Sent
      <3> QED BY <3>2, <3>4
    <2>6. copied' \in [Members -> SUBSET (1..Len(sent'))]
      <3>1. /\ DOMAIN sent = 1..Len(sent) /\ DOMAIN sent' = 1..Len(sent')
            /\ DOMAIN sent \subseteq DOMAIN sent'
        BY <1>1, <2>3, Sent
      <3>2. \A m \in Members : copied'[m] \subseteq 1..Len(sent')
        BY <1>5, <2>5, <3>1
      <3>3. copied' = [m \in Members |-> copied'[m]]
        BY <2>2
      <3> QED BY <3>2, <3>3
    <2> QED BY <1>4, <2>3, <2>4, <2>5, <2>6 DEF S, t
  <1>7. CASE t.rule \notin Copying
    <2> DEFINE missing == S \cap (gone \cup Protected)
    <2>1. ForwardNatively(t, b)
      BY <1>7 DEF ForwardAlbum
    <2> HIDE DEF b, t, S
    <2>2. /\ sent' = sent \o Messages(Without(b, missing), t)
          /\ refused' = refused \cup (missing \X {t.rule} \X {t.dst})
          /\ copied' = copied /\ faults' = faults
      BY <1>3, <2>1 DEF ForwardNatively
    <2>3. missing \in SUBSET S /\ Taken(missing) /\ refused' = refused \cup Unsent(missing)
      BY <1>3, <2>2 DEF Taken, Unsent, t, S
    <2>4. DOMAIN sent = 1..Len(sent) /\ DOMAIN sent' = 1..Len(sent') /\ DOMAIN sent \subseteq DOMAIN sent'
      BY <1>1, <2>3, Sent
    <2>5. copied' \in [Members -> SUBSET (1..Len(sent'))]
      BY <1>5, <2>2, <2>4
    <2> QED BY <1>4, <1>5, <2>2, <2>3, <2>5 DEF S, t
  <1> QED BY <1>6, <1>7

LEMMA Counted ==
    ASSUME NEW r \in RuleIds, NEW d
    PROVE  Cardinality({i \in DOMAIN To[r] : To[r][i] = d}) \in Nat
  <1>1. DOMAIN To[r] = 1..Len(To[r]) /\ Len(To[r]) \in Nat
    BY Config
  <1>2. IsFiniteSet(1..Len(To[r]))
    BY <1>1, FS_Interval
  <1>3. {i \in DOMAIN To[r] : To[r][i] = d} \subseteq 1..Len(To[r])
    BY <1>1
  <1> QED BY <1>2, <1>3, FS_Subset, FS_CardinalityType

\* What deleteMessages does to the copies.
LEMMA Removed ==
    ASSUME TypeOK, RunDelete
    PROVE  /\ sent' \in Seq(Copy) /\ Len(sent') = Len(sent) /\ DOMAIN sent' = DOMAIN sent
           /\ DOMAIN sent = 1..Len(sent)
           /\ \A i \in DOMAIN sent :
                /\ sent'[i].msg = sent[i].msg /\ sent'[i].rule = sent[i].rule
                /\ sent'[i].dst = sent[i].dst
                /\ ~sent'[i].kept => ~sent[i].kept \/ i \in copied[Head(queue).msg]
  <1> DEFINE C == copied[Head(queue).msg]
  <1>1. sent \in Seq(Copy) /\ DOMAIN sent = 1..Len(sent) /\ Len(sent) \in Nat
    BY DEF TypeOK, Copy
  <1> HIDE DEF C
  <1>2. sent' = [i \in DOMAIN sent |->
                   IF i \in C THEN [sent[i] EXCEPT !.kept = FALSE] ELSE sent[i]]
    BY DEF RunDelete, C
  <1>3. \A i \in DOMAIN sent : sent[i] \in Copy
    BY <1>1
  <1>4. ASSUME NEW i \in DOMAIN sent
        PROVE  /\ sent'[i] \in Copy
               /\ sent'[i].msg = sent[i].msg /\ sent'[i].rule = sent[i].rule
               /\ sent'[i].dst = sent[i].dst
               /\ ~sent'[i].kept => ~sent[i].kept \/ i \in C
    BY <1>2, <1>3 DEF Copy
  <1>5. DOMAIN sent' = DOMAIN sent
    BY <1>2
  <1>6. sent' \in [1..Len(sent) -> Copy]
    BY <1>1, <1>2, <1>4, <1>5
  <1>7. sent' \in Seq(Copy) /\ Len(sent') = Len(sent)
    BY <1>1, <1>6
  <1> QED BY <1>1, <1>4, <1>5, <1>7 DEF C

LEMMA TypeRun ==
    ASSUME TypeOK, ForwardAlbum \/ RunStats \/ RunDelete
    PROVE  TypeOK'
  <1> USE DEF sourceVars, albumVars, outVars, faultVars
  <1>1. CASE ForwardAlbum
    <2>1. /\ Tail(queue) \in Seq(Task) /\ NextTaskIs("forward")
      BY <1>1, HeadTask DEF ForwardAlbum
    <2>2. /\ sent' \in Seq(Copy) /\ faults' \in 0..MaxFaults /\ refused' \subseteq Routes
          /\ copied' \in [Members -> SUBSET (1..Len(sent'))]
      BY <1>1, <2>1, Forwarded, Sent
    <2>3. UNCHANGED <<arrived, gone, update, albums, quiet, worker, facts, counted, clock>>
      BY <1>1 DEF ForwardAlbum
    <2>4. queue' \in Seq(Task)
      BY <1>1, <2>1 DEF ForwardAlbum, Dequeue
    <2> QED BY <2>2, <2>3, <2>4 DEF TypeOK, Copy
  <1>2. CASE RunStats
    <2>1. Tail(queue) \in Seq(Task) /\ Head(queue) \in Task /\ Head(queue).kind = "stats"
      BY <1>2, HeadTask DEF RunStats
    <2>2. Head(queue).rule \in RuleIds
      BY <2>1, Kinds
    <2> DEFINE n(d) == Cardinality({i \in DOMAIN To[Head(queue).rule] : To[Head(queue).rule][i] = d})
    <2>3. \A d \in Dsts : n(d) \in Nat /\ counted[d] \in Nat
      BY <2>2, Counted DEF TypeOK
    <2>4. counted' = [d \in Dsts |-> counted[d] + n(d)]
      BY <1>2 DEF RunStats
    <2>5. counted' \in [Dsts -> Nat]
      <3> HIDE DEF n
      <3> QED BY <2>3, <2>4
    <2> QED BY <1>2, <2>1, <2>5 DEF RunStats, Dequeue, TypeOK
  <1>3. CASE RunDelete
    <2>1. /\ Tail(queue) \in Seq(Task) /\ Head(queue) \in Task /\ Head(queue).kind = "delete"
      BY <1>3, HeadTask DEF RunDelete
    <2>2. Head(queue).msg \in Members /\ Head(queue).stamp \in Nat
      BY <2>1, Kinds
    <2> DEFINE f == [event |-> "deleted", rule |-> 0, at |-> Head(queue).stamp]
               m == Head(queue).msg
    <2>3. f \in Fact
      BY <2>2 DEF Fact
    <2>4. facts \in [Members -> Seq(Fact)]
      BY DEF TypeOK, Fact
    <2>5. facts' \in [Members -> Seq(Fact)]
      <3>1. facts' \in {facts, [facts EXCEPT ![m] = Append(@, f)]}
        BY <1>3 DEF RunDelete
      <3> HIDE DEF f, m
      <3>2. m \in Members
        BY <2>2 DEF m
      <3>3. Append(facts[m], f) \in Seq(Fact)
        BY <2>3, <2>4, <3>2, Appended
      <3> QED BY <2>4, <3>1, <3>2, <3>3
    <2>6. copied' \in [Members -> SUBSET (1..Len(sent'))]
      <3>1. Len(sent') = Len(sent)
        BY <1>3, Removed
      <3> QED BY <1>3, <3>1 DEF RunDelete, TypeOK
    <2>7. sent' \in Seq(Copy)
      BY <1>3, Removed
    <2> QED BY <1>3, <2>1, <2>5, <2>6, <2>7 DEF RunDelete, Dequeue, TypeOK, Fact, Copy
  <1> QED BY <1>1, <1>2, <1>3

LEMMA TypeStep ==
    ASSUME TypeOK, UpdateInv, WorkerInv, [Next]_vars
    PROVE  TypeOK'
  <1>1. CASE UNCHANGED vars
    BY <1>1 DEF vars, sourceVars, albumVars, outVars, faultVars, TypeOK
  <1>2. CASE UpdateLoop
    BY <1>2, TypeUpdateLoop
  <1>3. CASE Worker \/ Tick
    BY <1>3, TypeCollect, TypeRun DEF Worker
  <1> QED BY <1>1, <1>2, <1>3 DEF Next

(***************************************************************************)
(* The update loop, the worker and the albums                              *)
(***************************************************************************)
LEMMA UpdateKept ==
    ASSUME TypeOK, UpdateInv, [Next]_vars
    PROVE  UpdateInv'
  <1> USE DEF sourceVars
  <1>1. CASE AddMessage
    <2>1. /\ update.rules \in Seq(RuleIds) /\ update.rules # <<>>
          /\ update \in [msg: Members \cup {0}, rules: Seq(RuleIds)]
          /\ UNCHANGED <<arrived, gone>>
      BY <1>1, AddType DEF AddMessage, TypeOK
    <2>2. CASE Len(update.rules) = 1
      <3>1. update' = NoUpdate
        BY <1>1, <2>2 DEF AddMessage
      <3> QED BY <3>1 DEF UpdateInv, NoUpdate
    <2>3. CASE Len(update.rules) # 1
      <3> DEFINE t == Tail(update.rules)
      <3>1. update' = [update EXCEPT !.rules = t] /\ update'.rules = t /\ update'.msg = update.msg
        BY <1>1, <2>1, <2>3 DEF AddMessage
      <3>2. t # <<>>
        <4>1. Len(t) # 0
          BY <2>1, <2>3, Tailed
        <4>2. Len(<<>>) = 0
          OBVIOUS
        <4> HIDE DEF t
        <4> QED BY <4>1, <4>2
      <3>3. ASSUME NEW i \in DOMAIN t, NEW j \in DOMAIN t, t[i] = t[j] PROVE i = j
        <4>1. /\ i + 1 \in DOMAIN update.rules /\ t[i] = update.rules[i + 1]
              /\ j + 1 \in DOMAIN update.rules /\ t[j] = update.rules[j + 1]
              /\ i \in Nat /\ j \in Nat
          BY <2>1, Tailed
        <4>2. i + 1 = j + 1
          BY <3>3, <4>1 DEF UpdateInv
        <4> QED BY <4>1, <4>2
      <3> HIDE DEF t
      <3> QED BY <2>1, <3>1, <3>2, <3>3 DEF UpdateInv
    <2> QED BY <2>2, <2>3
  <1>2. ASSUME NEW m \in Members, OnNewMessage(m) PROVE UpdateInv'
    <2>1. m \notin gone /\ m \in arrived' /\ gone' = gone
      BY <1>2 DEF OnNewMessage, TypeOK
    <2>2. CASE Rules = <<>>
      BY <1>2, <2>2 DEF OnNewMessage, UpdateInv, NoUpdate
    <2>3. CASE Rules # <<>>
      <3>1. update'.msg = m /\ update'.rules = Rules
        BY <1>2, <2>3 DEF OnNewMessage
      <3> QED BY <2>1, <2>3, <3>1, AlbumAssumption DEF UpdateInv
    <2> QED BY <2>2, <2>3
  <1>3. ASSUME NEW m \in Members, OnDeletedMessages(m) PROVE UpdateInv'
    BY <1>3 DEF OnDeletedMessages, UpdateInv, NoUpdate
  <1>4. CASE Worker \/ Tick \/ UNCHANGED vars
    <2>1. UNCHANGED <<update, arrived, gone>>
      BY <1>4 DEF Worker, StartCollect, CheckAge, WakeUp, Pop, SpreadDst, SpreadStats,
                  ForwardAlbum, RunStats, RunDelete, Tick, vars
    <2> QED BY <2>1 DEF UpdateInv
  <1> QED BY <1>1, <1>2, <1>3, <1>4 DEF Next, UpdateLoop

LEMMA WorkerKept ==
    ASSUME TypeOK, WorkerInv, [Next]_vars
    PROVE  WorkerInv'
  <1>0. worker \in WorkerType
    BY DEF TypeOK, WorkerType
  <1>1. CASE StartCollect
    <2>1. Head(queue).key \in Keys
      BY <1>1, HeadTask, Kinds DEF StartCollect
    <2>2. worker'.at = "check" /\ worker'.key = Head(queue).key
      BY <1>1 DEF StartCollect, Free
    <2> QED BY <2>1, <2>2 DEF WorkerInv
  <1>2. CASE CheckAge \/ WakeUp
    <2>1. worker'.at \in {"check", "sleep", "pop"} /\ worker'.key = worker.key /\ worker.at # "free"
      BY <1>0, <1>2 DEF CheckAge, WakeUp, WorkerType
    <2> QED BY <2>1 DEF WorkerInv
  <1>3. CASE Pop
    <2> DEFINE k == worker.key
    <2>1. k \in Keys /\ k[1] \in RuleIds /\ To[k[1]] \in Seq(Dsts)
      BY <1>3, Config DEF Pop, WorkerInv
    <2>2. worker'.at = "spread" /\ worker'.key = k /\ worker'.to = To[k[1]]
      BY <1>0, <1>3 DEF Pop, WorkerType
    <2> HIDE DEF k
    <2>3. Len(To[k[1]]) \in Nat /\ \A i \in DOMAIN To[k[1]] : i \in Nat /\ 0 + i = i
      BY <2>1
    <2>4. Len(To[k[1]]) - Len(To[k[1]]) = 0
      BY <2>3
    <2> QED BY <2>1, <2>2, <2>3, <2>4 DEF WorkerInv, Walked
  <1>4. CASE SpreadDst
    <2> DEFINE r == worker.key[1]
    <2>1. worker.key \in Keys /\ r \in RuleIds /\ To[r] \in Seq(Dsts)
      BY <1>4, Config DEF SpreadDst, WorkerInv
    <2>2. /\ worker'.at = "spread" /\ worker'.key = worker.key /\ worker'.to = Tail(worker.to)
          /\ worker.to # <<>> /\ worker.to \in Seq(Dsts) /\ worker.at = "spread"
      BY <1>0, <1>4 DEF SpreadDst, WorkerType
    <2>3. /\ Len(worker.to) <= Len(To[r])
          /\ \A i \in DOMAIN worker.to : worker.to[i] = To[r][(Len(To[r]) - Len(worker.to)) + i]
      BY <2>2 DEF WorkerInv, Walked
    <2> DEFINE n == Len(To[r])
               to == worker.to
    <2> HIDE DEF r
    <2>4. n \in Nat /\ Len(to) \in Nat /\ Len(Tail(to)) = Len(to) - 1
      BY <2>1, <2>2, Tailed
    <2>5. ASSUME NEW i \in DOMAIN Tail(to)
          PROVE  Tail(to)[i] = To[r][(n - Len(Tail(to))) + i]
      <3>1. i \in Nat /\ i + 1 \in DOMAIN to /\ Tail(to)[i] = to[i + 1]
        BY <2>2, Tailed
      <3>2. to[i + 1] = To[r][(n - Len(to)) + (i + 1)]
        BY <2>3, <3>1
      <3>3. (n - Len(to)) + (i + 1) = (n - Len(Tail(to))) + i
        <4> HIDE DEF n, to
        <4> QED BY <2>4, <3>1
      <3> QED BY <3>1, <3>2, <3>3
    <2>6. Len(Tail(to)) <= n
      BY <2>3, <2>4
    <2> HIDE DEF n, to
    <2> QED BY <2>1, <2>2, <2>5, <2>6 DEF WorkerInv, Walked, n, to, r
  <1>5. CASE SpreadStats
    BY <1>5 DEF SpreadStats, WorkerInv, Free
  <1>6. CASE Tick
    <2>1. /\ worker'.at = worker.at /\ worker'.key = worker.key /\ worker'.to = worker.to
          /\ worker = Free => worker' = Free
      BY <1>0, <1>6 DEF Tick, WorkerType, Free
    <2> QED BY <2>1 DEF WorkerInv, Walked
  <1>7. CASE ForwardAlbum \/ RunStats \/ RunDelete \/ UpdateLoop \/ UNCHANGED vars
    <2>1. worker' = worker
      BY <1>7 DEF ForwardAlbum, RunStats, RunDelete, UpdateLoop, AddMessage, OnNewMessage,
                  OnDeletedMessages, vars
    <2> QED BY <2>1 DEF WorkerInv, Walked
  <1> QED BY <1>1, <1>2, <1>3, <1>4, <1>5, <1>6, <1>7 DEF Next, Worker

\* What the queue gains and loses in a step.
Collection ==
    [kind |-> "collect", key |-> Key(update.msg, Head(update.rules)), stamp |-> clock + 1]
Forwarding ==
    [kind |-> "forward", rule |-> worker.key[1], dst |-> Head(worker.to), batch |-> worker.batch]
Loses(k) ==
    /\ NextTaskIs(k) /\ Dequeue
    /\ k = "collect" => StartCollect
    /\ k = "forward" => ForwardAlbum
    /\ k = "delete" => RunDelete
Gains(t) ==
    /\ t \in Task /\ queue' = Append(queue, t)
    /\ t.kind = "collect" => AddMessage /\ t = Collection
    /\ t.kind = "forward" => SpreadDst /\ t = Forwarding
    /\ t.kind = "delete" => OnDeletedMessages(t.msg) /\ t.stamp = clock + 1

LEMMA QueueStep ==
    ASSUME TypeOK, UpdateInv, WorkerInv, [Next]_vars
    PROVE  \/ queue' = queue
           \/ \E k : Loses(k)
           \/ \E t : Gains(t)
  <1>0. clock \in Nat
    BY DEF TypeOK
  <1>1. CASE AddMessage
    <2>1. Collection \in Task
      <3>1. Key(update.msg, Head(update.rules)) \in Keys
        BY <1>1, AddType DEF Key
      <3> QED BY <1>0, <3>1 DEF Collection, Task
    <2>2. queue' \in {queue, Append(queue, Collection)}
      BY <1>1 DEF AddMessage, Collection, Key
    <2>3. Collection.kind = "collect"
      BY DEF Collection
    <2> QED BY <1>1, <2>1, <2>2, <2>3 DEF Gains
  <1>2. ASSUME NEW m \in Members, OnDeletedMessages(m)
        PROVE  \E t \in Task : Gains(t)
    <2> DEFINE t == [kind |-> "delete", msg |-> m, stamp |-> clock + 1]
    <2>1. t \in Task
      BY <1>0 DEF Task
    <2>2. queue' = Append(queue, t) /\ t.kind = "delete" /\ t.msg = m /\ t.stamp = clock + 1
      BY <1>2 DEF OnDeletedMessages
    <2> HIDE DEF t
    <2>3. Gains(t)
      BY <1>2, <2>1, <2>2 DEF Gains
    <2> QED BY <2>1, <2>3
  <1>3. CASE StartCollect \/ ForwardAlbum \/ RunStats \/ RunDelete
    <2>1. CASE StartCollect
      <3>1. Loses("collect")
        BY <2>1 DEF StartCollect, Loses
      <3> QED BY <3>1
    <2>2. CASE ForwardAlbum
      <3>1. Loses("forward")
        BY <2>2 DEF ForwardAlbum, Loses
      <3> QED BY <3>1
    <2>3. CASE RunStats
      <3>1. Loses("stats")
        BY <2>3 DEF RunStats, Loses
      <3> QED BY <3>1
    <2>4. CASE RunDelete
      <3>1. Loses("delete")
        BY <2>4 DEF RunDelete, Loses
      <3> QED BY <3>1
    <2> QED BY <1>3, <2>1, <2>2, <2>3, <2>4
  <1>4. CASE SpreadDst
    <2>1. worker.key[1] \in RuleIds /\ Head(worker.to) \in Dsts /\ worker.batch \in Seq(Members)
      BY <1>4, Config, Tailed DEF SpreadDst, WorkerInv, TypeOK
    <2>2. Forwarding \in Task /\ Forwarding.kind = "forward"
      BY <2>1 DEF Task, Forwarding
    <2>3. queue' \in {queue, Append(queue, Forwarding)}
      BY <1>4 DEF SpreadDst, Forwarding
    <2> QED BY <1>4, <2>2, <2>3 DEF Gains
  <1>5. CASE SpreadStats
    <2> DEFINE t == [kind |-> "stats", rule |-> worker.key[1]]
    <2>1. t \in Task
      BY <1>5, Config DEF SpreadStats, WorkerInv, Task
    <2>2. queue' = Append(queue, t) /\ t.kind = "stats"
      BY <1>5 DEF SpreadStats
    <2> HIDE DEF t
    <2> QED BY <2>1, <2>2 DEF Gains
  <1>6. CASE CheckAge \/ WakeUp \/ Pop \/ Tick \/ UNCHANGED vars \/ \E m \in Members : OnNewMessage(m)
    BY <1>6 DEF CheckAge, WakeUp, Pop, Tick, vars, OnNewMessage
  <1> QED BY <1>1, <1>2, <1>3, <1>4, <1>5, <1>6 DEF Next, UpdateLoop, Worker

\* What a step leaves alone.
LEMMA Stays ==
    ASSUME [Next]_vars
    PROVE  /\ ~AddMessage /\ ~Pop => albums' = albums
           /\ ~Pop /\ ~RunDelete => facts' = facts
           /\ ~ForwardAlbum /\ ~RunDelete => sent' = sent /\ copied' = copied
           /\ ~ForwardAlbum => refused' = refused
           /\ (\A m \in Members : ~OnDeletedMessages(m)) => gone' = gone
           /\ ~AddMessage /\ (\A m \in Members : ~OnDeletedMessages(m)) => clock' = clock
           /\ ~AddMessage /\ (\A m \in Members : ~OnNewMessage(m)) => update' = update
           /\ (\A m \in Members : ~OnNewMessage(m)) => arrived' = arrived
  <1> USE DEF sourceVars, albumVars, outVars, faultVars
  <1>1. CASE UpdateLoop
    BY <1>1 DEF UpdateLoop, AddMessage, OnNewMessage, OnDeletedMessages
  <1>2. CASE StartCollect \/ CheckAge \/ WakeUp \/ Tick \/ UNCHANGED vars
    BY <1>2 DEF StartCollect, CheckAge, WakeUp, Tick, vars
  <1>3. CASE Pop \/ SpreadDst \/ SpreadStats
    BY <1>3 DEF Pop, SpreadDst, SpreadStats
  <1>4. CASE ForwardAlbum \/ RunStats \/ RunDelete
    BY <1>4 DEF ForwardAlbum, RunStats, RunDelete
  <1> QED BY <1>1, <1>2, <1>3, <1>4 DEF Next, Worker

\* The collection the worker is at.
LEMMA WorkStep ==
    ASSUME TypeOK, [Next]_vars
    PROVE  /\ StartCollect => \A k : ~AtWork(k) /\ (AtWork(k)' <=> k = Head(queue).key)
           /\ Pop => \A k : ~AtWork(k)' /\ (AtWork(k) <=> k = worker.key)
           /\ ~StartCollect /\ ~Pop =>
                \A k : (AtWork(k)' <=> AtWork(k)) /\ (AtWork(k) => worker'.stamp = worker.stamp)
           /\ worker'.stamp \in {0, worker.stamp} \/ (StartCollect /\ worker'.stamp = Head(queue).stamp)
  <1>0. worker \in WorkerType
    BY DEF TypeOK, WorkerType
  <1>1. CASE StartCollect
    <2>1. worker'.at = "check" /\ worker'.key = Head(queue).key /\ worker'.stamp = Head(queue).stamp
      BY <1>1 DEF StartCollect, Free
    <2>2. worker.at = "free"
      BY <1>1 DEF StartCollect, NextTaskIs, Free
    <2>3. ~Pop
      BY <2>2 DEF Pop
    <2> QED BY <1>1, <2>1, <2>2, <2>3 DEF AtWork
  <1>2. CASE Pop
    <2>1. worker.at = "pop" /\ worker'.at = "spread" /\ worker'.stamp = worker.stamp
      BY <1>0, <1>2 DEF Pop, WorkerType
    <2>2. ~StartCollect
      BY <2>1 DEF StartCollect, NextTaskIs, Free
    <2> QED BY <1>2, <2>1, <2>2 DEF AtWork
  <1>3. CASE ~StartCollect /\ ~Pop
    <2>1. CASE CheckAge \/ WakeUp
      <3>1. /\ worker.at \in {"check", "sleep", "pop"} /\ worker'.at \in {"check", "sleep", "pop"}
            /\ worker'.key = worker.key /\ worker'.stamp = worker.stamp
        BY <1>0, <2>1 DEF CheckAge, WakeUp, WorkerType
      <3> QED BY <1>3, <3>1 DEF AtWork
    <2>2. CASE SpreadDst
      <3>1. worker.at = "spread" /\ worker'.at = "spread" /\ worker'.stamp = worker.stamp
        BY <1>0, <2>2 DEF SpreadDst, WorkerType
      <3> QED BY <1>3, <3>1 DEF AtWork
    <2>3. CASE SpreadStats
      <3>1. worker.at = "spread" /\ worker'.at = "free" /\ worker'.stamp = 0
        BY <2>3 DEF SpreadStats, Free
      <3> QED BY <1>3, <3>1 DEF AtWork
    <2>4. CASE Tick
      <3>1. worker'.at = worker.at /\ worker'.key = worker.key /\ worker'.stamp = worker.stamp
        BY <1>0, <2>4 DEF Tick, WorkerType
      <3> QED BY <1>3, <3>1 DEF AtWork
    <2>5. CASE ForwardAlbum \/ RunStats \/ RunDelete \/ UpdateLoop \/ UNCHANGED vars
      <3>1. worker' = worker
        BY <2>5 DEF ForwardAlbum, RunStats, RunDelete, UpdateLoop, AddMessage, OnNewMessage,
                    OnDeletedMessages, vars
      <3> QED BY <1>3, <3>1 DEF AtWork
    <2> QED BY <1>3, <2>1, <2>2, <2>3, <2>4, <2>5 DEF Next, Worker
  <1> QED BY <1>1, <1>2, <1>3

LEMMA AppendDistinct ==
    ASSUME NEW S, NEW s \in Seq(S), NEW x \in S, Distinct(s), x \notin Range(s)
    PROVE  Distinct(Append(s, x))
  <1> DEFINE a == Append(s, x)
  <1>1. /\ \A i \in DOMAIN s : i \in DOMAIN a /\ a[i] = s[i] /\ s[i] \in Range(s)
        /\ \A i \in DOMAIN a : i \in DOMAIN s \/ i = Len(s) + 1
        /\ a[Len(s) + 1] = x
    BY Appended DEF Range
  <1> HIDE DEF a
  <1>2. Distinct(a)
    BY <1>1 DEF Distinct
  <1> QED BY <1>2 DEF a

\* The loop hands a member to an album only where the album does not hold it.
LEMMA AlbumKept ==
    ASSUME TypeOK, UpdateInv, WorkerInv, AlbumInv, PlaceInv, [Next]_vars
    PROVE  AlbumInv'
  <1> USE DEF sourceVars, albumVars
  <1>1. ASSUME NEW k \in Keys
        PROVE  Distinct(albums'[k]) /\ \A m \in Range(albums'[k]) : k[2] = AlbumOf[m]
    <2>1. Distinct(albums[k]) /\ \A m \in Range(albums[k]) : k[2] = AlbumOf[m]
      BY DEF AlbumInv
    <2>2. CASE AddMessage
      <3> DEFINE m == update.msg  r == Head(update.rules)
      <3>1. m \in Members /\ r \in RuleIds /\ r \in Range(update.rules) /\ Key(m, r) \in Keys
        BY <2>2, AddType, TailedRange, Config
      <3>2. m \notin Range(albums[Key(m, r)])
        BY <3>1 DEF PlaceInv, AheadOf, Ahead, InAlbum
      <3>3. albums \in [Keys -> Seq(Members)]
        BY DEF TypeOK
      <3>4. \/ albums' = albums
            \/ albums' = [albums EXCEPT ![Key(m, r)] = Append(@, m)]
        BY <2>2 DEF AddMessage, Key
      <3>5. Key(m, r)[2] = AlbumOf[m]
        BY DEF Key
      <3> HIDE DEF m, r
      <3>6. CASE albums' = [albums EXCEPT ![Key(m, r)] = Append(@, m)] /\ k = Key(m, r)
        <4>1. albums'[k] = Append(albums[k], m) /\ albums[k] \in Seq(Members)
          BY <3>3, <3>6
        <4>2. Range(albums'[k]) = Range(albums[k]) \cup {m}
          BY <3>1, <4>1, AppendedRange
        <4>3. Distinct(albums'[k])
          BY <2>1, <3>1, <3>2, <3>6, <4>1, AppendDistinct
        <4> QED BY <2>1, <3>5, <3>6, <4>2, <4>3
      <3>7. CASE albums' = albums \/ k # Key(m, r)
        <4>1. albums'[k] = albums[k]
          BY <3>3, <3>4, <3>7
        <4> QED BY <2>1, <4>1
      <3> QED BY <3>4, <3>6, <3>7
    <2>3. CASE Pop
      <3>1. albums'[k] = albums[k] \/ albums'[k] = <<>>
        BY <2>3 DEF Pop, Popped, TypeOK
      <3>2. Distinct(<<>>) /\ Range(<<>>) = {}
        BY DEF Distinct, Range
      <3> QED BY <2>1, <3>1, <3>2
    <2>4. CASE ~AddMessage /\ ~Pop
      <3>1. albums' = albums
        BY <2>4, Stays
      <3> QED BY <2>1, <3>1
    <2> QED BY <2>2, <2>3, <2>4
  <1>2. ASSUME worker'.at = "spread" PROVE Distinct(worker'.batch)
    <2>1. CASE Pop
      <3>1. worker'.batch = albums[worker.key]
        BY <2>1 DEF Pop, TypeOK
      <3>2. worker.key \in Keys
        BY <2>1 DEF Pop, WorkerInv
      <3> QED BY <3>1, <3>2 DEF AlbumInv
    <2>2. CASE ~Pop
      <3>1. worker.at = "spread" /\ worker'.batch = worker.batch
        <4>1. worker \in WorkerType
          BY DEF TypeOK, WorkerType
        <4>2. CASE StartCollect \/ CheckAge \/ WakeUp \/ SpreadStats
          <5>1. worker'.at # "spread"
            <6>1. StartCollect \/ SpreadStats => worker'.at # "spread"
              <7>1. CASE StartCollect
                <8>1. worker'.at = "check"
                  BY <7>1 DEF StartCollect, Free
                <8> QED BY <8>1
              <7>2. CASE SpreadStats
                <8>1. worker'.at = "free"
                  BY <7>2 DEF SpreadStats, Free
                <8> QED BY <8>1
              <7> QED BY <7>1, <7>2
            <6>2. CheckAge \/ WakeUp => worker'.at # "spread"
              BY <4>1 DEF CheckAge, WakeUp, WorkerType
            <6> QED BY <4>2, <6>1, <6>2
          <5> QED BY <1>2, <5>1
        <4>3. CASE SpreadDst \/ Tick
          BY <1>2, <4>1, <4>3 DEF SpreadDst, Tick, WorkerType
        <4>4. CASE UpdateLoop \/ ForwardAlbum \/ RunStats \/ RunDelete \/ UNCHANGED vars
          BY <1>2, <4>4 DEF UpdateLoop, AddMessage, OnNewMessage, OnDeletedMessages, ForwardAlbum,
                            RunStats, RunDelete, vars
        <4> QED BY <2>2, <4>2, <4>3, <4>4 DEF Next, Worker
      <3> QED BY <3>1 DEF AlbumInv
    <2> QED BY <2>1, <2>2
  <1>3. ASSUME NEW i \in DOMAIN queue', queue'[i].kind = "forward"
        PROVE  Distinct(queue'[i].batch)
    <2>0. /\ queue \in Seq(Task)
          /\ \A j \in DOMAIN queue : queue[j].kind = "forward" => Distinct(queue[j].batch)
      BY DEF TypeOK, AlbumInv
    <2>1. CASE queue' = queue
      BY <1>3, <2>0, <2>1
    <2>2. ASSUME NEW k, Loses(k) PROVE Distinct(queue'[i].batch)
      <3>1. queue # <<>> /\ queue' = Tail(queue)
        BY <2>2 DEF Loses, NextTaskIs, Dequeue
      <3>2. i + 1 \in DOMAIN queue /\ queue'[i] = queue[i + 1]
        BY <1>3, <2>0, <3>1, Tailed
      <3> QED BY <1>3, <2>0, <3>2
    <2>3. ASSUME NEW t, Gains(t) PROVE Distinct(queue'[i].batch)
      <3>1. t.kind = "forward" => Distinct(t.batch)
        BY <2>3 DEF Gains, Forwarding, SpreadDst, AlbumInv
      <3>2. t \in Task /\ queue' = Append(queue, t)
        BY <2>3 DEF Gains
      <3> QED BY <1>3, <2>0, <3>1, <3>2, Appended
    <2> QED BY <2>1, <2>2, <2>3, QueueStep
  <1> QED BY <1>1, <1>2, <1>3 DEF AlbumInv

\* The tasks in a queue that gains t, and in one that loses its first.
LEMMA TasksGained ==
    ASSUME TypeOK, NEW t \in Task, queue' = Append(queue, t)
    PROVE  /\ \A k : Waiting(k)' <=> Waiting(k) \/ CollectionOf(t, k)
           /\ \A k : /\ \A i, j \in DOMAIN queue :
                          CollectionOf(queue[i], k) /\ CollectionOf(queue[j], k) => i = j
                     /\ ~(Waiting(k) /\ CollectionOf(t, k))
                     => \A i, j \in DOMAIN queue' :
                          CollectionOf(queue'[i], k) /\ CollectionOf(queue'[j], k) => i = j
           /\ \A k, s : (\E i \in DOMAIN queue' : CollectionOf(queue'[i], k) /\ queue'[i].stamp = s)
                          <=> \/ \E i \in DOMAIN queue : CollectionOf(queue[i], k) /\ queue[i].stamp = s
                              \/ CollectionOf(t, k) /\ t.stamp = s
           /\ \A m, s : (\E i \in DOMAIN queue' : Deletes(queue'[i], m, s))
                          <=> (\E i \in DOMAIN queue : Deletes(queue[i], m, s)) \/ Deletes(t, m, s)
           /\ \A m, r, d : InTask(m, r, d)' <=> InTask(m, r, d) \/ Carries(t, m, r, d)
           /\ \A m, r, d : TaskOnce(m, r, d) /\ ~(InTask(m, r, d) /\ Carries(t, m, r, d))
                             => TaskOnce(m, r, d)'
  <1> DEFINE q == queue'
             n == Len(queue) + 1
  <1>1. queue \in Seq(Task)
    BY DEF TypeOK
  <1>2. /\ n \in DOMAIN q /\ q[n] = t /\ n \notin DOMAIN queue
        /\ \A i \in DOMAIN queue : i \in DOMAIN q /\ q[i] = queue[i]
        /\ \A i \in DOMAIN q : i \in DOMAIN queue \/ i = n
    BY <1>1, Appended
  <1> HIDE DEF n, q
  <1>3. /\ \A k : (\E i \in DOMAIN q : CollectionOf(q[i], k)) <=> Waiting(k) \/ CollectionOf(t, k)
        /\ \A k, s : (\E i \in DOMAIN q : CollectionOf(q[i], k) /\ q[i].stamp = s)
                       <=> \/ \E i \in DOMAIN queue : CollectionOf(queue[i], k) /\ queue[i].stamp = s
                           \/ CollectionOf(t, k) /\ t.stamp = s
        /\ \A m, s : (\E i \in DOMAIN q : Deletes(q[i], m, s))
                       <=> (\E i \in DOMAIN queue : Deletes(queue[i], m, s)) \/ Deletes(t, m, s)
        /\ \A m, r, d : (\E i \in DOMAIN q : Carries(q[i], m, r, d))
                          <=> InTask(m, r, d) \/ Carries(t, m, r, d)
    BY <1>2 DEF Waiting, InTask
  <1>4. ASSUME NEW k, ~(Waiting(k) /\ CollectionOf(t, k)),
               \A i, j \in DOMAIN queue :
                 CollectionOf(queue[i], k) /\ CollectionOf(queue[j], k) => i = j
        PROVE  \A i, j \in DOMAIN q : CollectionOf(q[i], k) /\ CollectionOf(q[j], k) => i = j
    BY <1>2, <1>4 DEF Waiting
  <1>5. ASSUME NEW m, NEW r, NEW d, ~(InTask(m, r, d) /\ Carries(t, m, r, d)),
               \A i, j \in DOMAIN queue :
                 Carries(queue[i], m, r, d) /\ Carries(queue[j], m, r, d) => i = j
        PROVE  \A i, j \in DOMAIN q : Carries(q[i], m, r, d) /\ Carries(q[j], m, r, d) => i = j
    BY <1>2, <1>5 DEF InTask
  <1> QED BY <1>3, <1>4, <1>5 DEF Waiting, InTask, TaskOnce, q, CollectionOf, Carries

LEMMA TasksLost ==
    ASSUME TypeOK, NEW c, NextTaskIs(c), Dequeue
    PROVE  LET t == Head(queue) IN
           /\ \A k : Waiting(k) <=> Waiting(k)' \/ CollectionOf(t, k)
           /\ \A k : (\A i, j \in DOMAIN queue :
                        CollectionOf(queue[i], k) /\ CollectionOf(queue[j], k) => i = j)
                     => /\ ~(Waiting(k)' /\ CollectionOf(t, k))
                        /\ \A i, j \in DOMAIN queue' :
                             CollectionOf(queue'[i], k) /\ CollectionOf(queue'[j], k) => i = j
           /\ \A k, s : (\E i \in DOMAIN queue : CollectionOf(queue[i], k) /\ queue[i].stamp = s)
                          <=> \/ \E i \in DOMAIN queue' : CollectionOf(queue'[i], k) /\ queue'[i].stamp = s
                              \/ CollectionOf(t, k) /\ t.stamp = s
           /\ \A m, s : (\E i \in DOMAIN queue : Deletes(queue[i], m, s))
                          <=> (\E i \in DOMAIN queue' : Deletes(queue'[i], m, s)) \/ Deletes(t, m, s)
           /\ \A m, r, d : InTask(m, r, d) <=> InTask(m, r, d)' \/ Carries(t, m, r, d)
           /\ \A m, r, d : TaskOnce(m, r, d)
                             => ~(InTask(m, r, d)' /\ Carries(t, m, r, d)) /\ TaskOnce(m, r, d)'
  <1> DEFINE q == queue'
             t == Head(queue)
  <1>1. queue \in Seq(Task) /\ queue # <<>> /\ q = Tail(queue)
    BY DEF TypeOK, NextTaskIs, Dequeue
  <1>2. /\ 1 \in DOMAIN queue /\ queue[1] = t
        /\ \A i \in DOMAIN q : i \in Nat /\ i # 0 /\ i + 1 \in DOMAIN queue /\ q[i] = queue[i + 1]
        /\ \A i \in DOMAIN queue : i = 1 \/ (i - 1 \in DOMAIN q /\ q[i - 1] = queue[i])
    BY <1>1, Tailed
  <1>3. \A i, j \in DOMAIN q : i + 1 # 1 /\ (i + 1 = j + 1 => i = j)
    BY <1>2
  <1> HIDE DEF q, t
  <1>4. /\ \A k : Waiting(k) <=> (\E i \in DOMAIN q : CollectionOf(q[i], k)) \/ CollectionOf(t, k)
        /\ \A k, s : (\E i \in DOMAIN queue : CollectionOf(queue[i], k) /\ queue[i].stamp = s)
                       <=> \/ \E i \in DOMAIN q : CollectionOf(q[i], k) /\ q[i].stamp = s
                           \/ CollectionOf(t, k) /\ t.stamp = s
        /\ \A m, s : (\E i \in DOMAIN queue : Deletes(queue[i], m, s))
                       <=> (\E i \in DOMAIN q : Deletes(q[i], m, s)) \/ Deletes(t, m, s)
        /\ \A m, r, d : InTask(m, r, d)
                          <=> (\E i \in DOMAIN q : Carries(q[i], m, r, d)) \/ Carries(t, m, r, d)
    BY <1>2 DEF Waiting, InTask
  <1>5. ASSUME NEW k, \A i, j \in DOMAIN queue :
                        CollectionOf(queue[i], k) /\ CollectionOf(queue[j], k) => i = j
        PROVE  /\ ~((\E i \in DOMAIN q : CollectionOf(q[i], k)) /\ CollectionOf(t, k))
               /\ \A i, j \in DOMAIN q : CollectionOf(q[i], k) /\ CollectionOf(q[j], k) => i = j
    BY <1>2, <1>3, <1>5
  <1>6. ASSUME NEW m, NEW r, NEW d,
               \A i, j \in DOMAIN queue :
                 Carries(queue[i], m, r, d) /\ Carries(queue[j], m, r, d) => i = j
        PROVE  /\ ~((\E i \in DOMAIN q : Carries(q[i], m, r, d)) /\ Carries(t, m, r, d))
               /\ \A i, j \in DOMAIN q : Carries(q[i], m, r, d) /\ Carries(q[j], m, r, d) => i = j
    BY <1>2, <1>3, <1>6
  <1> QED BY <1>4, <1>5, <1>6 DEF Waiting, InTask, TaskOnce, q, t, CollectionOf, Carries

(***************************************************************************)
(* Collections and stamps                                                  *)
(***************************************************************************)

\* What AddMessage does to the album of the member, and to the queue.
LEMMA Added ==
    ASSUME TypeOK, UpdateInv, AddMessage
    PROVE  LET m == update.msg  r == Head(update.rules)  k0 == Key(m, r) IN
           /\ m \in Members /\ m \in arrived /\ m \notin gone /\ r \in RuleIds /\ k0 \in Keys
           /\ r \in Range(update.rules) /\ UNCHANGED <<arrived, gone, worker, outVars, faultVars>>
           /\ \/ ~Collects(m, r) /\ UNCHANGED <<albums, queue, clock>>
              \/ /\ Collects(m, r) /\ albums'[k0] = Append(albums[k0], m) /\ albums'[k0] # <<>>
                 /\ Range(albums'[k0]) = Range(albums[k0]) \cup {m}
                 /\ \A k \in Keys : k # k0 => albums'[k] = albums[k]
                 /\ \/ albums[k0] # <<>> /\ UNCHANGED <<queue, clock>>
                    \/ /\ albums[k0] = <<>> /\ Collection \in Task /\ clock' = clock + 1
                       /\ Collection.kind = "collect" /\ Collection.key = k0
                       /\ Collection.stamp = clock + 1 /\ queue' = Append(queue, Collection)
  <1> DEFINE m == update.msg
             r == Head(update.rules)
             k0 == Key(m, r)
  <1>1. /\ m \in Members /\ r \in RuleIds /\ k0 \in Keys /\ r \in Range(update.rules)
        /\ m \in arrived /\ m \notin gone
    BY AddType, TailedRange, Config DEF UpdateInv
  <1>2. UNCHANGED <<arrived, gone, worker, outVars, faultVars>>
    BY DEF AddMessage
  <1>3. CASE ~Collects(m, r)
    BY <1>1, <1>2, <1>3 DEF AddMessage, albumVars
  <1>4. CASE Collects(m, r)
    <2>1. albums \in [Keys -> Seq(Members)]
      BY DEF TypeOK
    <2>2. albums' = [albums EXCEPT ![k0] = Append(@, m)]
      BY <1>4 DEF AddMessage, Key
    <2>3. \/ albums[k0] # <<>> /\ UNCHANGED <<queue, clock>>
          \/ /\ albums[k0] = <<>> /\ clock' = clock + 1 /\ queue' = Append(queue, Collection)
      BY <1>4 DEF AddMessage, Key, IsFirst, Collection
    <2>4. /\ Collection.kind = "collect" /\ Collection.key = k0 /\ Collection.stamp = clock + 1
          /\ Collection \in Task
      BY <1>1 DEF Collection, Task, TypeOK
    <2> HIDE DEF m, r, k0
    <2>5. albums'[k0] = Append(albums[k0], m) /\ \A k \in Keys : k # k0 => albums'[k] = albums[k]
      BY <1>1, <2>1, <2>2
    <2>6. albums'[k0] # <<>> /\ Range(albums'[k0]) = Range(albums[k0]) \cup {m}
      BY <1>1, <2>1, <2>5, AppendedRange, Appended
    <2> QED BY <1>1, <1>2, <1>4, <2>3, <2>4, <2>5, <2>6 DEF m, r, k0
  <1> QED BY <1>3, <1>4

LEMMA Popping ==
    ASSUME TypeOK, WorkerInv, Pop
    PROVE  LET k0 == worker.key IN
           /\ k0 \in Keys /\ k0[1] \in RuleIds /\ albums[k0] \in Seq(Members)
           /\ albums'[k0] = <<>> /\ Range(albums'[k0]) = {}
           /\ \A k \in Keys : k # k0 => albums'[k] = albums[k]
           /\ worker'.at = "spread" /\ worker'.key = k0 /\ worker'.batch = albums[k0]
           /\ worker'.to = To[k0[1]] /\ worker.at = "pop"
           /\ UNCHANGED <<update, arrived, gone, queue, sent, copied, clock, faultVars>>
  <1>1. worker.key \in Keys /\ worker.key[1] \in RuleIds
    BY Config DEF Pop, WorkerInv
  <1>2. albums \in [Keys -> Seq(Members)] /\ albums' = [albums EXCEPT ![worker.key] = <<>>]
    BY DEF Pop, Popped, TypeOK
  <1>3. Range(<<>>) = {}
    BY DEF Range
  <1>4. worker \in WorkerType
    BY DEF TypeOK, WorkerType
  <1>5. /\ worker'.at = "spread" /\ worker'.key = worker.key
        /\ worker'.batch = albums[worker.key] /\ worker'.to = To[worker.key[1]]
        /\ worker.at = "pop"
    BY <1>4 DEF Pop, WorkerType
  <1>6. UNCHANGED <<update, arrived, gone, queue, sent, copied, clock, faultVars>>
    BY DEF Pop, sourceVars
  <1> QED BY <1>1, <1>2, <1>3, <1>5, <1>6

LEMMA TaskKept ==
    ASSUME TypeOK, UpdateInv, WorkerInv, TaskInv, [Next]_vars
    PROVE  TaskInv'
  <1> SUFFICES
        ASSUME NEW k \in Keys
        PROVE  /\ \A i, j \in DOMAIN queue' :
                    CollectionOf(queue'[i], k) /\ CollectionOf(queue'[j], k) => i = j
               /\ AtWork(k)' => ~Waiting(k)'
               /\ albums'[k] # <<>> <=> AtWork(k)' \/ Waiting(k)'
    BY DEF TaskInv, CollectionOf
  <1>0. /\ \A i, j \in DOMAIN queue :
             CollectionOf(queue[i], k) /\ CollectionOf(queue[j], k) => i = j
        /\ AtWork(k) => ~Waiting(k)
        /\ albums[k] # <<>> <=> AtWork(k) \/ Waiting(k)
    BY DEF TaskInv
  <1>1. queue' = queue => (Waiting(k)' <=> Waiting(k))
    BY DEF Waiting, CollectionOf
  <1>2. CASE AddMessage
    <2> DEFINE k0 == Key(update.msg, Head(update.rules))
    <2>1. AtWork(k)' <=> AtWork(k)
      BY <1>2 DEF AddMessage, AtWork
    <2>2. CASE UNCHANGED <<albums, queue>>
      BY <1>0, <1>1, <2>1, <2>2
    <2>3. CASE /\ \A h \in Keys : h # k0 => albums'[h] = albums[h]
               /\ albums'[k0] # <<>> /\ albums[k0] # <<>> /\ queue' = queue
      BY <1>0, <1>1, <2>1, <2>3
    <2>4. CASE /\ \A h \in Keys : h # k0 => albums'[h] = albums[h]
               /\ albums'[k0] # <<>> /\ albums[k0] = <<>> /\ queue' = Append(queue, Collection)
               /\ Collection \in Task /\ Collection.kind = "collect" /\ Collection.key = k0
      <3>1. CollectionOf(Collection, k) <=> k = k0
        BY <2>4 DEF CollectionOf
      <3>2. /\ Waiting(k)' <=> Waiting(k) \/ k = k0
            /\ ~(Waiting(k) /\ k = k0) =>
                 \A i, j \in DOMAIN queue' :
                   CollectionOf(queue'[i], k) /\ CollectionOf(queue'[j], k) => i = j
        BY <1>0, <2>4, <3>1, TasksGained
      <3> HIDE DEF k0
      <3> QED BY <1>0, <2>1, <2>4, <3>2
    <2> QED BY <1>2, <2>2, <2>3, <2>4, Added
  <1>3. CASE Pop
    <2>1. /\ ~AtWork(k)' /\ (AtWork(k) <=> k = worker.key) /\ queue' = queue
          /\ albums'[worker.key] = <<>> /\ (k # worker.key => albums'[k] = albums[k])
      BY <1>3, WorkStep, Popping
    <2> QED BY <1>0, <1>1, <2>1
  <1>4. CASE StartCollect
    <2> DEFINE t == Head(queue)
    <2>1. /\ ~AtWork(k) /\ (AtWork(k)' <=> k = t.key)
      BY <1>4, WorkStep
    <2>2. NextTaskIs("collect") /\ Dequeue /\ t.kind = "collect" /\ albums' = albums
      BY <1>4 DEF StartCollect, NextTaskIs, albumVars
    <2>3. CollectionOf(t, k) <=> k = t.key
      BY <2>2 DEF CollectionOf
    <2>4. /\ Waiting(k) <=> Waiting(k)' \/ k = t.key
          /\ ~(Waiting(k)' /\ k = t.key)
          /\ \A i, j \in DOMAIN queue' :
               CollectionOf(queue'[i], k) /\ CollectionOf(queue'[j], k) => i = j
      BY <1>0, <2>2, <2>3, TasksLost
    <2> HIDE DEF t
    <2> QED BY <1>0, <2>1, <2>2, <2>4
  <1>5. CASE ~AddMessage /\ ~Pop /\ ~StartCollect
    <2>1. albums' = albums /\ (AtWork(k)' <=> AtWork(k))
      BY <1>5, Stays, WorkStep
    <2>2. CASE queue' = queue
      BY <1>0, <1>1, <2>1, <2>2
    <2>3. ASSUME NEW c, Loses(c)
          PROVE  /\ Waiting(k)' <=> Waiting(k)
                 /\ \A i, j \in DOMAIN queue' :
                      CollectionOf(queue'[i], k) /\ CollectionOf(queue'[j], k) => i = j
      <3>1. NextTaskIs(c) /\ Dequeue /\ Head(queue).kind # "collect"
        BY <1>5, <2>3 DEF Loses, NextTaskIs
      <3>2. ~CollectionOf(Head(queue), k)
        BY <3>1 DEF CollectionOf
      <3> QED BY <1>0, <3>1, <3>2, TasksLost
    <2>4. ASSUME NEW t, Gains(t)
          PROVE  /\ Waiting(k)' <=> Waiting(k)
                 /\ \A i, j \in DOMAIN queue' :
                      CollectionOf(queue'[i], k) /\ CollectionOf(queue'[j], k) => i = j
      <3>1. t \in Task /\ queue' = Append(queue, t) /\ ~CollectionOf(t, k)
        BY <1>5, <2>4 DEF Gains, CollectionOf
      <3> QED BY <1>0, <3>1, TasksGained
    <2> QED BY <1>0, <2>1, <2>2, <2>3, <2>4, QueueStep
  <1> QED BY <1>2, <1>3, <1>4, <1>5

\* No step makes a stamp due but the one that queues its collection, and none queues the
\* deletion of a member but OnDeletedMessages.
LEMMA DueStep ==
    ASSUME TypeOK, UpdateInv, WorkerInv, [Next]_vars, NEW k \in Keys, NEW s \in Nat, DueAt(k, s)'
    PROVE  \/ DueAt(k, s)
           \/ AddMessage /\ queue' = Append(queue, Collection) /\ Collection.key = k /\ s = clock + 1
  <1> DEFINE Q == \E i \in DOMAIN queue : CollectionOf(queue[i], k) /\ queue[i].stamp = s
             R == \E i \in DOMAIN queue' : CollectionOf(queue'[i], k) /\ queue'[i].stamp = s
  <1>1. DueAt(k, s) <=> (AtWork(k) /\ worker.stamp = s) \/ Q
    BY DEF DueAt
  <1>2. DueAt(k, s)' <=> (AtWork(k)' /\ worker'.stamp = s) \/ R
    BY DEF DueAt, CollectionOf
  <1>3. R => \/ Q
             \/ AddMessage /\ queue' = Append(queue, Collection) /\ Collection.key = k /\ s = clock + 1
    <2>1. CASE queue' = queue
      BY <2>1
    <2>2. ASSUME NEW c, Loses(c) PROVE R => Q
      <3>1. NextTaskIs(c) /\ Dequeue
        BY <2>2 DEF Loses
      <3> QED BY <3>1, TasksLost
    <2>3. ASSUME NEW t, Gains(t)
          PROVE  R => \/ Q
                      \/ /\ AddMessage /\ queue' = Append(queue, Collection)
                         /\ Collection.key = k /\ s = clock + 1
      <3>1. t \in Task /\ queue' = Append(queue, t)
        BY <2>3 DEF Gains
      <3>2. R => Q \/ (CollectionOf(t, k) /\ t.stamp = s)
        BY <3>1, TasksGained
      <3>3. CollectionOf(t, k) /\ t.stamp = s => AddMessage /\ t = Collection
        BY <2>3 DEF Gains, CollectionOf
      <3>4. Collection.stamp = clock + 1
        BY DEF Collection
      <3> HIDE DEF R, Q
      <3> QED BY <3>1, <3>2, <3>3, <3>4 DEF CollectionOf
    <2> QED BY <2>1, <2>2, <2>3, QueueStep
  <1>4. AtWork(k)' /\ worker'.stamp = s => (AtWork(k) /\ worker.stamp = s) \/ Q
    <2>1. CASE StartCollect
      <3> DEFINE t == Head(queue)
      <3>1. NextTaskIs("collect") /\ Dequeue /\ t.kind = "collect" /\ worker'.stamp = t.stamp
        BY <2>1 DEF StartCollect, NextTaskIs, Free
      <3>2. AtWork(k)' => k = t.key
        BY <2>1, WorkStep
      <3>3. CollectionOf(t, k) /\ t.stamp = s => Q
        BY <3>1, TasksLost
      <3> HIDE DEF t, Q
      <3> QED BY <3>1, <3>2, <3>3 DEF CollectionOf
    <2>2. CASE ~StartCollect
      BY <2>2, WorkStep
    <2> QED BY <2>1, <2>2
  <1> HIDE DEF Q, R
  <1> QED BY <1>1, <1>2, <1>3, <1>4

LEMMA DeleteStep ==
    ASSUME TypeOK, UpdateInv, WorkerInv, [Next]_vars, NEW m \in Members, NEW s \in Nat,
           \E i \in DOMAIN queue' : Deletes(queue'[i], m, s)
    PROVE  \/ \E i \in DOMAIN queue : Deletes(queue[i], m, s)
           \/ OnDeletedMessages(m) /\ s = clock + 1
  <1>1. CASE queue' = queue
    BY <1>1
  <1>2. ASSUME NEW c, Loses(c) PROVE \E i \in DOMAIN queue : Deletes(queue[i], m, s)
    <2>1. NextTaskIs(c) /\ Dequeue
      BY <1>2 DEF Loses
    <2> QED BY <2>1, TasksLost
  <1>3. ASSUME NEW t, Gains(t)
        PROVE  \/ \E i \in DOMAIN queue : Deletes(queue[i], m, s)
               \/ OnDeletedMessages(m) /\ s = clock + 1
    <2>1. t \in Task /\ queue' = Append(queue, t)
      BY <1>3 DEF Gains
    <2>2. (\E i \in DOMAIN queue : Deletes(queue[i], m, s)) \/ Deletes(t, m, s)
      BY <2>1, TasksGained
    <2> QED BY <1>3, <2>2 DEF Gains, Deletes
  <1> QED BY <1>1, <1>2, <1>3, QueueStep

LEMMA StampKept ==
    ASSUME TypeOK, UpdateInv, WorkerInv, StampInv, [Next]_vars
    PROVE  StampInv'
  <1> DEFINE FactAt(m, e, s) == \E i \in DOMAIN facts[m] : facts[m][i].event = e /\ facts[m][i].at = s
             FactNext(m, e, s) == \E i \in DOMAIN facts'[m] : facts'[m][i].event = e /\ facts'[m][i].at = s
             m0 == update.msg
             k0 == Key(m0, Head(update.rules))
             Q(m, s) == \E i \in DOMAIN queue : Deletes(queue[i], m, s)
             QNext(m, s) == \E i \in DOMAIN queue' : Deletes(queue'[i], m, s)
  <1>1. /\ clock \in Nat /\ facts \in [Members -> Seq(Fact)]
        /\ \A m \in Members : facts[m] \in Seq(Fact)
    BY DEF TypeOK, Fact
  <1>2. \A m \in Members, s \in Nat :
          /\ NewAt(m, s) => s <= clock
          /\ GoneAt(m, s) => m \in gone
          /\ \A t \in Nat : NewAt(m, s) /\ GoneAt(m, t) => s < t
    BY DEF StampInv
  <1>3. \A k \in Keys, s \in Nat : DueAt(k, s) => s <= clock
    BY DEF StampInv
  <1>4. \A m, s : /\ NewAt(m, s) <=> FactAt(m, "new", s) \/ \E k \in Keys : m \in Range(albums[k]) /\ DueAt(k, s)
                  /\ GoneAt(m, s) <=> FactAt(m, "deleted", s) \/ Q(m, s)
    BY DEF NewAt, GoneAt
  <1>5. \A m, s : /\ NewAt(m, s)' <=> \/ FactNext(m, "new", s)
                                      \/ \E k \in Keys : m \in Range(albums'[k]) /\ DueAt(k, s)'
                  /\ GoneAt(m, s)' <=> FactNext(m, "deleted", s) \/ QNext(m, s)
    BY DEF NewAt, GoneAt, Deletes
  <1>6. facts' = facts => \A m, e, s : FactNext(m, e, s) <=> FactAt(m, e, s)
    OBVIOUS
  <1>7. CASE AddMessage
    <2> HIDE DEF FactAt, FactNext, Q, QNext
    <2>1. /\ m0 \notin gone /\ gone' = gone /\ facts' = facts /\ clock' \in {clock, clock + 1}
          /\ \A k \in Keys : k # k0 => albums'[k] = albums[k]
          /\ Range(albums'[k0]) \subseteq Range(albums[k0]) \cup {m0}
          /\ queue' = Append(queue, Collection) => /\ clock' = clock + 1 /\ Collection.key = k0
                                                   /\ albums[k0] = <<>>
      <3>1. Collection.key = k0 /\ queue \in Seq(Task)
        BY DEF Collection, TypeOK
      <3>2. queue' = queue => queue' # Append(queue, Collection)
        BY <3>1
      <3> HIDE DEF m0, k0
      <3> QED BY <1>7, <3>1, <3>2, Added DEF m0, k0, outVars
    <2> HIDE DEF m0, k0
    <2>2. Range(<<>>) = {}
      BY DEF Range
    <2>3. \A k \in Keys, s \in Nat : DueAt(k, s)' => \/ DueAt(k, s)
                                                    \/ /\ k = k0 /\ s = clock + 1
                                                       /\ clock' = clock + 1 /\ albums[k0] = <<>>
      BY <2>1, DueStep
    <2>4. \A m \in Members, s \in Nat : NewAt(m, s)' => NewAt(m, s) \/ (m = m0 /\ s <= clock')
      <3> TAKE m \in Members, s \in Nat
      <3> HAVE NewAt(m, s)'
      <3>1. CASE FactNext(m, "new", s)
        BY <1>4, <1>6, <2>1, <3>1
      <3>2. ASSUME NEW k \in Keys, m \in Range(albums'[k]), DueAt(k, s)'
            PROVE  NewAt(m, s) \/ (m = m0 /\ s <= clock')
        <4>1. CASE m \in Range(albums[k])
          <5>1. DueAt(k, s)
            BY <2>2, <2>3, <3>2, <4>1
          <5> QED BY <1>4, <4>1, <5>1
        <4>2. CASE m \notin Range(albums[k])
          <5>1. k = k0 /\ m = m0
            BY <2>1, <3>2, <4>2
          <5>2. s <= clock'
            BY <1>1, <1>3, <2>1, <2>3, <3>2
          <5> QED BY <5>1, <5>2
        <4> QED BY <4>1, <4>2
      <3> QED BY <1>5, <3>1, <3>2
    <2>5. \A m \in Members, s \in Nat : GoneAt(m, s)' => GoneAt(m, s)
      <3>1. \A m : ~OnDeletedMessages(m)
        BY <1>7 DEF AddMessage, OnDeletedMessages
      <3>2. \A m \in Members, s \in Nat : QNext(m, s) => Q(m, s)
        BY <3>1, DeleteStep DEF Q, QNext
      <3> QED BY <1>4, <1>5, <1>6, <2>1, <3>2
    <2>6. \A k \in Keys, s \in Nat : DueAt(k, s)' => s <= clock'
      BY <1>1, <1>3, <2>1, <2>3
    <2>7. \A m \in Members, s \in Nat :
            /\ NewAt(m, s)' => s <= clock'
            /\ GoneAt(m, s)' => m \in gone'
            /\ \A t \in Nat : NewAt(m, s)' /\ GoneAt(m, t)' => s < t
      BY <1>1, <1>2, <2>1, <2>4, <2>5
    <2> QED BY <2>6, <2>7 DEF StampInv
  <1>8. ASSUME NEW d \in Members, OnDeletedMessages(d) PROVE StampInv'
    <2> HIDE DEF FactAt, FactNext, Q, QNext
    <2>1. facts' = facts /\ albums' = albums /\ gone' = gone \cup {d} /\ clock' = clock + 1 /\ ~AddMessage
      BY <1>8 DEF OnDeletedMessages, AddMessage, outVars, albumVars
    <2>2. \A k \in Keys, s \in Nat : DueAt(k, s)' => DueAt(k, s)
      BY <2>1, DueStep
    <2>3. \A m \in Members, s \in Nat : NewAt(m, s)' => NewAt(m, s)
      BY <1>4, <1>5, <1>6, <2>1, <2>2
    <2>4. \A m \in Members, s \in Nat : GoneAt(m, s)' => GoneAt(m, s) \/ (m = d /\ s = clock + 1)
      <3>1. \A m \in Members : OnDeletedMessages(m) => m = d
        <4>1. d \notin gone
          BY <1>8 DEF OnDeletedMessages
        <4>2. \A m \in Members : OnDeletedMessages(m) => m \notin gone /\ gone' = gone \cup {m}
          BY DEF OnDeletedMessages
        <4> QED BY <2>1, <4>1, <4>2
      <3>2. \A m \in Members, s \in Nat : QNext(m, s) => Q(m, s) \/ (m = d /\ s = clock + 1)
        BY <3>1, DeleteStep DEF Q, QNext
      <3> QED BY <1>4, <1>5, <1>6, <2>1, <3>2
    <2>5. \A m \in Members, s \in Nat :
            /\ NewAt(m, s)' => s <= clock'
            /\ GoneAt(m, s)' => m \in gone'
            /\ \A t \in Nat : NewAt(m, s)' /\ GoneAt(m, t)' => s < t
      BY <1>1, <1>2, <2>1, <2>3, <2>4
    <2>6. \A k \in Keys, s \in Nat : DueAt(k, s)' => s <= clock'
      BY <1>1, <1>3, <2>1, <2>2
    <2> QED BY <2>5, <2>6 DEF StampInv
  <1>9. CASE ~AddMessage /\ \A d \in Members : ~OnDeletedMessages(d)
    <2>1. gone' = gone /\ clock' = clock
      BY <1>9, Stays
    <2>2. \A k \in Keys, s \in Nat : DueAt(k, s)' => DueAt(k, s)
      BY <1>9, DueStep
    <2>3. \A m \in Members, s \in Nat : QNext(m, s) => Q(m, s)
      BY <1>9, DeleteStep
    <2>4. \A m \in Members, s \in Nat :
            /\ NewAt(m, s)' => NewAt(m, s)
            /\ GoneAt(m, s)' => GoneAt(m, s)
      <3>1. CASE Pop
        <4> DEFINE k == worker.key
                   f == [event |-> "new", rule |-> k[1], at |-> FactStamp(worker.stamp)]
        <4>1. /\ k \in Keys /\ \A h \in Keys : Range(albums'[h]) \subseteq Range(albums[h])
          BY <3>1, Popping
        <4>2. AtWork(k) /\ DueAt(k, worker.stamp)
          BY <3>1, WorkStep DEF DueAt
        <4>3. f.event = "new" /\ f.at = worker.stamp /\ f \in Fact
          <5>1. k[1] \in RuleIds /\ worker.stamp \in Nat
            BY <3>1, Popping DEF TypeOK
          <5> QED BY <5>1 DEF FactStamp, Fact
        <4>4. \A m \in Members : \/ facts'[m] = facts[m]
                                 \/ facts'[m] = Append(facts[m], f) /\ m \in Range(albums[k])
          BY <3>1 DEF Pop, Emitted
        <4> HIDE DEF k, f
        <4>5. \A m \in Members : \A e, s : FactNext(m, e, s) =>
                \/ FactAt(m, e, s)
                \/ e = "new" /\ s = worker.stamp /\ m \in Range(albums[k])
          <5> TAKE m \in Members
          <5> TAKE e, s
          <5>1. CASE facts'[m] = facts[m]
            BY <5>1
          <5>2. CASE facts'[m] = Append(facts[m], f) /\ m \in Range(albums[k])
            BY <1>1, <4>3, <5>2, Appended
          <5> QED BY <4>4, <5>1, <5>2
        <4> HIDE DEF FactAt, FactNext, Q, QNext
        <4>6. \A m \in Members, s \in Nat : GoneAt(m, s)' => GoneAt(m, s)
          BY <1>4, <1>5, <2>3, <4>5
        <4>7. ASSUME NEW m \in Members, NEW s \in Nat, NewAt(m, s)' PROVE NewAt(m, s)
          <5>1. CASE FactNext(m, "new", s)
            BY <1>4, <4>1, <4>2, <4>5, <5>1
          <5>2. CASE \E h \in Keys : m \in Range(albums'[h]) /\ DueAt(h, s)'
            BY <1>4, <2>2, <4>1, <5>2
          <5> QED BY <1>5, <4>7, <5>1, <5>2
        <4> QED BY <4>6, <4>7
      <3>2. CASE RunDelete
        <4> DEFINE t == Head(queue)
                   f == [event |-> "deleted", rule |-> 0, at |-> t.stamp]
        <4>1. NextTaskIs("delete") /\ Dequeue /\ albums' = albums
          BY <3>2 DEF RunDelete, albumVars
        <4>2. t.kind = "delete" /\ t.msg \in Members /\ t.stamp \in Nat
          BY <4>1, HeadTask, Kinds
        <4>3. Q(t.msg, t.stamp)
          <5>1. Deletes(t, t.msg, t.stamp)
            BY <4>2 DEF Deletes
          <5> QED BY <4>1, <5>1, TasksLost
        <4>4. f.event = "deleted" /\ f.at = t.stamp /\ f \in Fact
          BY <4>2 DEF Fact
        <4>5. \A m \in Members : \/ facts'[m] = facts[m]
                                 \/ facts'[m] = Append(facts[m], f) /\ m = t.msg
          BY <1>1, <3>2 DEF RunDelete
        <4> HIDE DEF t, f
        <4>6. \A m \in Members : \A e, s : FactNext(m, e, s) =>
                \/ FactAt(m, e, s)
                \/ e = "deleted" /\ s = t.stamp /\ m = t.msg
          <5> TAKE m \in Members
          <5> TAKE e, s
          <5>1. CASE facts'[m] = facts[m]
            BY <5>1
          <5>2. CASE facts'[m] = Append(facts[m], f) /\ m = t.msg
            BY <1>1, <4>4, <5>2, Appended
          <5> QED BY <4>5, <5>1, <5>2
        <4> HIDE DEF FactAt, FactNext, Q, QNext
        <4>7. ASSUME NEW m \in Members, NEW s \in Nat, NewAt(m, s)' PROVE NewAt(m, s)
          <5>1. CASE FactNext(m, "new", s)
            BY <1>4, <4>6, <5>1
          <5>2. CASE \E h \in Keys : m \in Range(albums'[h]) /\ DueAt(h, s)'
            BY <1>4, <2>2, <4>1, <5>2
          <5> QED BY <1>5, <4>7, <5>1, <5>2
        <4>8. \A m \in Members, s \in Nat : GoneAt(m, s)' => GoneAt(m, s)
          BY <1>4, <1>5, <2>3, <4>3, <4>6
        <4> QED BY <4>7, <4>8
      <3>3. CASE ~Pop /\ ~RunDelete
        <4>1. facts' = facts /\ albums' = albums
          BY <1>9, <3>3, Stays
        <4> HIDE DEF FactAt, FactNext, Q, QNext
        <4> QED BY <1>4, <1>5, <1>6, <2>2, <2>3, <4>1
      <3> QED BY <3>1, <3>2, <3>3
    <2>5. \A m \in Members, s \in Nat :
            /\ NewAt(m, s)' => s <= clock'
            /\ GoneAt(m, s)' => m \in gone'
            /\ \A t \in Nat : NewAt(m, s)' /\ GoneAt(m, t)' => s < t
      BY <1>2, <2>1, <2>4
    <2>6. \A k \in Keys, s \in Nat : DueAt(k, s)' => s <= clock'
      BY <1>3, <2>1, <2>2
    <2> QED BY <2>5, <2>6 DEF StampInv
  <1> QED BY <1>7, <1>8, <1>9

LEMMA CopiedKept ==
    ASSUME TypeOK, UpdateInv, WorkerInv, StampInv, CopiedInv, [Next]_vars
    PROVE  CopiedInv'
  <1>0. /\ \A m \in Members : \A i \in copied[m] : i \in DOMAIN sent /\ sent[i].msg = m
        /\ \A i \in DOMAIN sent : ~sent[i].kept => sent[i].msg \in gone
    BY DEF CopiedInv, TypeOK
  <1>1. CASE ForwardAlbum
    <2>1. PICK missing \in SUBSET Range(Head(queue).batch) :
            /\ Taken(missing)
            /\ \A m \in Members : \A i \in copied'[m] :
                 i \in copied[m] \/ (i \in DOMAIN sent' /\ i \notin DOMAIN sent /\ sent'[i].msg = m)
      BY <1>1, Forwarded
    <2>2. NextTaskIs("forward") /\ gone' = gone
      BY <1>1 DEF ForwardAlbum, sourceVars
    <2> DEFINE s == Sorted(Range(Head(queue).batch) \ missing)
    <2>3. /\ \A i \in DOMAIN sent : i \in DOMAIN sent' /\ sent'[i] = sent[i]
          /\ \A i \in DOMAIN sent' : i \in DOMAIN sent \/ \E j \in DOMAIN s : i = Len(sent) + j
          /\ \A j \in DOMAIN s : sent'[Len(sent) + j].kept
      BY <2>1, <2>2, Sent
    <2> HIDE DEF s
    <2>4. \A i \in DOMAIN sent' : ~sent'[i].kept => i \in DOMAIN sent
      BY <2>3
    <2>5. \A i \in DOMAIN sent' : ~sent'[i].kept => sent'[i].msg \in gone'
      BY <1>0, <2>2, <2>3, <2>4
    <2>6. \A m \in Members : \A i \in copied'[m] : sent'[i].msg = m
      BY <1>0, <2>1, <2>3
    <2> QED BY <2>5, <2>6 DEF CopiedInv
  <1>2. CASE RunDelete
    <2> DEFINE t == Head(queue)
    <2>1. NextTaskIs("delete") /\ Dequeue /\ gone' = gone /\ copied' = [copied EXCEPT ![t.msg] = {}]
      BY <1>2 DEF RunDelete, sourceVars
    <2>2. t.kind = "delete" /\ t.msg \in Members /\ t.stamp \in Nat
      BY <2>1, HeadTask, Kinds
    <2>3. t.msg \in gone
      <3>1. Deletes(t, t.msg, t.stamp)
        BY <2>2 DEF Deletes
      <3>2. \E i \in DOMAIN queue : Deletes(queue[i], t.msg, t.stamp)
        BY <2>1, <3>1, TasksLost
      <3>3. GoneAt(t.msg, t.stamp)
        BY <3>2 DEF GoneAt
      <3> QED BY <2>2, <3>3 DEF StampInv
    <2>4. /\ DOMAIN sent' = DOMAIN sent
          /\ \A i \in DOMAIN sent : /\ sent'[i].msg = sent[i].msg
                                    /\ ~sent'[i].kept => ~sent[i].kept \/ i \in copied[t.msg]
      BY <1>2, Removed
    <2>5. \A m \in Members : copied'[m] \subseteq copied[m]
      BY <2>1 DEF TypeOK
    <2> HIDE DEF t
    <2>6. \A i \in DOMAIN sent' : ~sent'[i].kept => sent'[i].msg \in gone'
      BY <1>0, <2>1, <2>2, <2>3, <2>4
    <2>7. \A m \in Members : \A i \in copied'[m] : sent'[i].msg = m
      BY <1>0, <2>4, <2>5
    <2> QED BY <2>6, <2>7 DEF CopiedInv
  <1>3. CASE ~ForwardAlbum /\ ~RunDelete
    <2>1. sent' = sent /\ copied' = copied
      BY <1>3, Stays
    <2>2. gone \subseteq gone'
      <3>1. \A m \in Members : OnDeletedMessages(m) => gone \subseteq gone'
        BY DEF OnDeletedMessages
      <3> QED BY <3>1, Stays
    <2> QED BY <2>1, <2>2 DEF CopiedInv
  <1> QED BY <1>1, <1>2, <1>3

(***************************************************************************)
(* The places of a member                                                  *)
(***************************************************************************)

\* Steps that move members are taken one at a time.
LEMMA Alone ==
    ASSUME TypeOK, UpdateInv
    PROVE  /\ AddMessage => ~Pop /\ ~SpreadDst /\ ~SpreadStats /\ ~ForwardAlbum
           /\ Pop => ~SpreadDst /\ ~SpreadStats /\ ~ForwardAlbum
           /\ SpreadDst => ~SpreadStats /\ ~ForwardAlbum
           /\ SpreadStats => ~ForwardAlbum
  <1>1. AddMessage => update' # update
    <2> SUFFICES ASSUME AddMessage PROVE update' # update
      OBVIOUS
    <2>1. update.rules \in Seq(RuleIds) /\ update.rules # <<>> /\ update # NoUpdate
      BY AddType DEF AddMessage
    <2>2. Len(Tail(update.rules)) # Len(update.rules)
      BY <2>1, Tailed
    <2>3. update' = NoUpdate \/ update'.rules = Tail(update.rules)
      BY DEF AddMessage, TypeOK
    <2> QED BY <2>1, <2>2, <2>3
  <1>2. Pop \/ SpreadDst \/ SpreadStats \/ ForwardAlbum => update' = update
    BY DEF Pop, SpreadDst, SpreadStats, ForwardAlbum, sourceVars
  <1>3. /\ Pop => worker.at = "pop"
        /\ SpreadDst => worker.at = "spread" /\ worker.to # <<>>
        /\ SpreadStats => worker.at = "spread" /\ worker.to = <<>>
        /\ ForwardAlbum => worker.at = "free"
    BY DEF Pop, SpreadDst, SpreadStats, ForwardAlbum, NextTaskIs, Free
  <1> QED BY <1>1, <1>2, <1>3

LEMMA AheadStep ==
    ASSUME TypeOK, UpdateInv, [Next]_vars, NEW m \in Members, NEW r \in RuleIds
    PROVE  /\ ~AddMessage => (Ahead(m, r)' <=> Ahead(m, r))
           /\ AddMessage /\ m = update.msg /\ r = Head(update.rules)
                => Ahead(m, r) /\ ~Ahead(m, r)'
           /\ AddMessage /\ ~(m = update.msg /\ r = Head(update.rules))
                => (Ahead(m, r)' <=> Ahead(m, r))
  <1>0. Range(<<>>) = {} /\ NoUpdate.rules = <<>>
    BY DEF Range, NoUpdate
  <1>1. ASSUME ~AddMessage PROVE Ahead(m, r)' <=> Ahead(m, r)
    <2>1. ASSUME NEW n \in Members, OnNewMessage(n) PROVE Ahead(m, r)' <=> Ahead(m, r)
      <3>1. Rules # <<>> /\ r \in Range(Rules)
        <4>1. Range(Rules) # {}
          BY DEF RuleIds
        <4> QED BY <1>0, <4>1 DEF RuleIds
      <3>2. /\ update'.msg = n /\ update'.rules = Rules /\ arrived' = arrived \cup {n}
            /\ n \notin arrived /\ update.rules = <<>>
        BY <2>1, <3>1, <1>0 DEF OnNewMessage
      <3>3. Ahead(m, r) <=> m \notin arrived
        BY <1>0, <3>2 DEF Ahead
      <3>4. Ahead(m, r)' <=> m \notin arrived' \/ m = n
        BY <3>1, <3>2 DEF Ahead
      <3> QED BY <3>2, <3>3, <3>4
    <2>2. CASE \A n \in Members : ~OnNewMessage(n)
      BY <1>1, <2>2, Stays DEF Ahead
    <2> QED BY <2>1, <2>2
  <1>2. ASSUME AddMessage
        PROVE  /\ m = update.msg /\ r = Head(update.rules) => Ahead(m, r) /\ ~Ahead(m, r)'
               /\ ~(m = update.msg /\ r = Head(update.rules)) => (Ahead(m, r)' <=> Ahead(m, r))
    <2> DEFINE rs == update.rules
    <2>1. /\ rs \in Seq(RuleIds) /\ rs # <<>> /\ arrived' = arrived /\ update.msg \in arrived
          /\ \A i, j \in DOMAIN rs : rs[i] = rs[j] => i = j
      BY <1>2, AddType DEF AddMessage, UpdateInv
    <2>2. Range(rs) = {Head(rs)} \cup Range(Tail(rs))
      BY <2>1, TailedRange
    <2>3. Head(rs) \notin Range(Tail(rs))
      <3>1. /\ 1 \in DOMAIN rs /\ Head(rs) = rs[1]
            /\ \A i \in DOMAIN Tail(rs) : i \in Nat /\ i + 1 \in DOMAIN rs /\ Tail(rs)[i] = rs[i + 1]
            /\ DOMAIN Tail(rs) = 1..(Len(rs) - 1)
        BY <2>1, Tailed
      <3>2. \A i \in DOMAIN Tail(rs) : i + 1 # 1
        BY <3>1, <2>1
      <3> HIDE DEF rs
      <3>3. \A i \in DOMAIN Tail(rs) : Tail(rs)[i] # Head(rs)
        BY <2>1, <3>1, <3>2
      <3> QED BY <3>3 DEF Range
    <2>4. \/ update'.rules = <<>> /\ Tail(rs) = <<>>
          \/ update'.rules = Tail(rs) /\ update'.msg = update.msg
      <3>1. CASE Len(rs) = 1
        <4>1. Tail(rs) = <<>>
          BY <2>1, <3>1
        <4> QED BY <1>2, <1>0, <3>1, <4>1 DEF AddMessage
      <3>2. CASE Len(rs) # 1
        BY <1>2, <3>2 DEF AddMessage, TypeOK
      <3> QED BY <3>1, <3>2
    <2> HIDE DEF rs
    <2>5. Ahead(m, r)' <=> m \notin arrived \/ (m = update.msg /\ r \in Range(Tail(rs)))
      BY <1>0, <2>1, <2>4 DEF Ahead
    <2>6. Ahead(m, r) <=> m \notin arrived \/ (m = update.msg /\ r \in Range(rs))
      BY DEF Ahead, rs
    <2> QED BY <2>1, <2>2, <2>3, <2>5, <2>6 DEF rs
  <1> QED BY <1>1, <1>2

LEMMA NewsStep ==
    ASSUME TypeOK, ~Pop, [Next]_vars, NEW m \in Members, NEW r
    PROVE  /\ Told(m, r)' <=> Told(m, r)
           /\ NewsOnce(m, r) => NewsOnce(m, r)'
  <1>1. CASE ~RunDelete
    <2>1. facts' = facts
      BY <1>1, Stays
    <2> QED BY <2>1 DEF Told, NewsOnce
  <1>2. CASE RunDelete
    <2> DEFINE f == [event |-> "deleted", rule |-> 0, at |-> Head(queue).stamp]
    <2>1. NextTaskIs("delete")
      BY <1>2 DEF RunDelete
    <2>2. Head(queue).stamp \in Nat
      BY <2>1, HeadTask, Kinds
    <2>3. f \in Fact /\ ~News(f, r)
      BY <2>2 DEF Fact, News
    <2>4. facts[m] \in Seq(Fact)
      BY DEF TypeOK, Fact
    <2>5. facts'[m] \in {facts[m], Append(facts[m], f)}
      BY <1>2 DEF RunDelete, TypeOK
    <2> HIDE DEF f
    <2>6. CASE facts'[m] = facts[m]
      BY <2>6 DEF Told, NewsOnce
    <2>7. CASE facts'[m] = Append(facts[m], f)
      <3> DEFINE a == facts'[m]
                 n == Len(facts[m]) + 1
      <3>1. /\ \A i \in DOMAIN facts[m] : i \in DOMAIN a /\ a[i] = facts[m][i]
            /\ \A i \in DOMAIN a : i \in DOMAIN facts[m] \/ i = n
            /\ a[n] = f
        BY <2>3, <2>4, <2>7, Appended
      <3> HIDE DEF a, n
      <3>2. (\E i \in DOMAIN a : News(a[i], r)) <=> Told(m, r)
        BY <2>3, <3>1 DEF Told
      <3>3. NewsOnce(m, r) => \A i, j \in DOMAIN a : News(a[i], r) /\ News(a[j], r) => i = j
        BY <2>3, <3>1 DEF NewsOnce
      <3> QED BY <3>2, <3>3 DEF Told, NewsOnce, a, News
    <2> QED BY <2>5, <2>6, <2>7
  <1> QED BY <1>1, <1>2

LEMMA ChatStep ==
    ASSUME TypeOK, ~ForwardAlbum, [Next]_vars, NEW m, NEW r, NEW d
    PROVE  /\ InChat(m, r, d)' <=> InChat(m, r, d)
           /\ ChatOnce(m, r, d) => ChatOnce(m, r, d)'
           /\ refused' = refused
  <1>1. refused' = refused
    BY Stays
  <1>2. CASE ~RunDelete
    <2>1. sent' = sent
      BY <1>2, Stays
    <2> QED BY <1>1, <2>1 DEF InChat, ChatOnce
  <1>3. CASE RunDelete
    <2>1. /\ DOMAIN sent' = DOMAIN sent
          /\ \A i \in DOMAIN sent : Is(sent'[i], m, r, d) <=> Is(sent[i], m, r, d)
      BY <1>3, Removed DEF Is
    <2> QED BY <1>1, <2>1 DEF InChat, ChatOnce, Is
  <1> QED BY <1>2, <1>3

LEMMA TaskStep ==
    ASSUME TypeOK, UpdateInv, WorkerInv, ~ForwardAlbum, ~SpreadDst, [Next]_vars,
           NEW m, NEW r, NEW d
    PROVE  /\ InTask(m, r, d)' <=> InTask(m, r, d)
           /\ TaskOnce(m, r, d) => TaskOnce(m, r, d)'
  <1>1. CASE queue' = queue
    BY <1>1 DEF InTask, TaskOnce, Carries
  <1>2. ASSUME NEW c, Loses(c)
        PROVE  /\ InTask(m, r, d)' <=> InTask(m, r, d)
               /\ TaskOnce(m, r, d) => TaskOnce(m, r, d)'
    <2>1. NextTaskIs(c) /\ Dequeue /\ ~Carries(Head(queue), m, r, d)
      BY <1>2 DEF Loses, NextTaskIs, Carries
    <2> QED BY <2>1, TasksLost
  <1>3. ASSUME NEW t, Gains(t)
        PROVE  /\ InTask(m, r, d)' <=> InTask(m, r, d)
               /\ TaskOnce(m, r, d) => TaskOnce(m, r, d)'
    <2>1. t \in Task /\ queue' = Append(queue, t) /\ ~Carries(t, m, r, d)
      BY <1>3 DEF Gains, Carries
    <2> QED BY <2>1, TasksGained
  <1> QED BY <1>1, <1>2, <1>3, QueueStep

LEMMA HandStep ==
    ASSUME TypeOK, ~Pop, ~SpreadDst, ~SpreadStats, [Next]_vars, NEW m, NEW r
    PROVE  /\ InHand(m, r)' <=> InHand(m, r)
           /\ \A d : InHand(m, r) => (Owed(r, d)' <=> Owed(r, d))
  <1>0. worker \in WorkerType
    BY DEF TypeOK, WorkerType
  <1>1. CASE StartCollect
    <2>1. worker'.at = "check"
      BY <1>1 DEF StartCollect, Free
    <2>2. worker.at = "free"
      BY <1>1 DEF StartCollect, NextTaskIs, Free
    <2> QED BY <2>1, <2>2 DEF InHand
  <1>2. CASE CheckAge \/ WakeUp
    <2>1. worker.at \in {"check", "sleep"} /\ worker'.at \in {"check", "sleep", "pop"}
      BY <1>0, <1>2 DEF CheckAge, WakeUp, WorkerType
    <2> QED BY <2>1 DEF InHand
  <1>3. CASE Tick
    <2>1. /\ worker'.at = worker.at /\ worker'.key = worker.key /\ worker'.to = worker.to
          /\ worker'.batch = worker.batch
      BY <1>0, <1>3 DEF Tick, WorkerType
    <2> QED BY <2>1 DEF InHand, Owed, Walked
  <1>4. CASE ForwardAlbum \/ RunStats \/ RunDelete \/ UpdateLoop \/ UNCHANGED vars
    <2>1. worker' = worker
      BY <1>4 DEF ForwardAlbum, RunStats, RunDelete, UpdateLoop, AddMessage, OnNewMessage,
                  OnDeletedMessages, vars
    <2> QED BY <2>1 DEF InHand, Owed, Walked
  <1> QED BY <1>1, <1>2, <1>3, <1>4 DEF Next, Worker

Place(m, r) == AheadOf(m, r) /\ OnceOf(m, r) /\ CompleteOf(m, r)

\* A step that leaves a member where it is keeps what holds of it there.
LEMMA PlaceQuiet ==
    ASSUME NEW m, NEW r, Place(m, r),
           Ahead(m, r)' <=> Ahead(m, r), InAlbum(m, r)' <=> InAlbum(m, r),
           InHand(m, r)' <=> InHand(m, r),
           \A d : InHand(m, r) => (Owed(r, d)' <=> Owed(r, d)),
           Told(m, r)' <=> Told(m, r), NewsOnce(m, r) => NewsOnce(m, r)',
           \A d : /\ InTask(m, r, d)' <=> InTask(m, r, d)
                  /\ TaskOnce(m, r, d) => TaskOnce(m, r, d)'
                  /\ InChat(m, r, d)' <=> InChat(m, r, d)
                  /\ ChatOnce(m, r, d) => ChatOnce(m, r, d)'
                  /\ refused' = refused
    PROVE  Place(m, r)'
  <1>1. \A d : /\ Done(m, r, d)' <=> Done(m, r, d)
               /\ InHand(m, r)' /\ Owed(r, d)' <=> InHand(m, r) /\ Owed(r, d)
    BY DEF Done
  <1>2. AheadOf(m, r)'
    BY <1>1 DEF Place, AheadOf
  <1>3. OnceOf(m, r)'
    BY DEF Place, OnceOf
  <1>4. CompleteOf(m, r)'
    BY <1>1 DEF Place, CompleteOf, Emitted
  <1> QED BY <1>2, <1>3, <1>4 DEF Place

\* The loop comes to rule r for the member, and the member goes to its album or nowhere.
LEMMA PlaceAdded ==
    ASSUME TypeOK, UpdateInv, WorkerInv, AddMessage, [Next]_vars,
           NEW m \in Members, NEW r \in RuleIds, Place(m, r)
    PROVE  Place(m, r)'
  <1> DEFINE m0 == update.msg
             r0 == Head(update.rules)
             k0 == Key(m0, r0)
  <1>1. ~Pop /\ ~SpreadDst /\ ~SpreadStats /\ ~ForwardAlbum
    BY Alone
  <1>2. /\ InHand(m, r)' <=> InHand(m, r)
        /\ \A d : InHand(m, r) => (Owed(r, d)' <=> Owed(r, d))
        /\ Told(m, r)' <=> Told(m, r)
        /\ NewsOnce(m, r) => NewsOnce(m, r)'
        /\ \A d : /\ InTask(m, r, d)' <=> InTask(m, r, d)
                  /\ TaskOnce(m, r, d) => TaskOnce(m, r, d)'
                  /\ InChat(m, r, d)' <=> InChat(m, r, d)
                  /\ ChatOnce(m, r, d) => ChatOnce(m, r, d)'
                  /\ refused' = refused
    <2>1. /\ InHand(m, r)' <=> InHand(m, r)
          /\ \A d : InHand(m, r) => (Owed(r, d)' <=> Owed(r, d))
      BY <1>1, HandStep
    <2>2. (Told(m, r)' <=> Told(m, r)) /\ (NewsOnce(m, r) => NewsOnce(m, r)')
      BY <1>1, NewsStep
    <2>3. ASSUME NEW d
          PROVE  /\ InTask(m, r, d)' <=> InTask(m, r, d)
                 /\ TaskOnce(m, r, d) => TaskOnce(m, r, d)'
                 /\ InChat(m, r, d)' <=> InChat(m, r, d)
                 /\ ChatOnce(m, r, d) => ChatOnce(m, r, d)'
                 /\ refused' = refused
      BY <1>1, TaskStep, ChatStep
    <2> QED BY <2>1, <2>2, <2>3
  <1>3. Key(m, r) \in Keys /\ m0 \in Members /\ (Key(m, r) = k0 => r = r0)
    BY Config, Added DEF Key
  <1>4. \/ /\ ~Collects(m0, r0) /\ albums' = albums
        \/ /\ Collects(m0, r0)
           /\ Range(albums'[k0]) = Range(albums[k0]) \cup {m0}
           /\ \A k \in Keys : k # k0 => albums'[k] = albums[k]
    BY Added
  <1> HIDE DEF m0, r0, k0
  <1>5. InAlbum(m, r)' <=> InAlbum(m, r) \/ (m = m0 /\ r = r0 /\ Collects(m0, r0))
    <2>1. InAlbum(m, r)' <=> m \in Range(albums'[Key(m, r)])
      BY DEF InAlbum, Key
    <2>2. m = m0 /\ r = r0 => Key(m, r) = k0
      BY DEF k0
    <2> QED BY <1>3, <1>4, <2>1, <2>2 DEF InAlbum
  <1>6. CASE m = m0 /\ r = r0
    <2>1. Ahead(m, r) /\ ~Ahead(m, r)'
      BY <1>6, AheadStep DEF m0, r0
    <2>2. ~InAlbum(m, r) /\ ~InHand(m, r) /\ ~Told(m, r) /\ \A d \in Dsts : ~Done(m, r, d)
      BY <2>1 DEF Place, AheadOf
    <2>3. \A d : Done(m, r, d)' <=> Done(m, r, d)
      BY <1>2 DEF Done
    <2>4. AheadOf(m, r)'
      BY <1>2, <2>1, <2>2, <2>3 DEF AheadOf
    <2>5. OnceOf(m, r)'
      BY <1>2 DEF Place, OnceOf
    <2>6. Collects(m, r)' => InAlbum(m, r)'
      BY <1>5, <1>6 DEF Collects
    <2>7. CompleteOf(m, r)'
      BY <2>6 DEF CompleteOf
    <2> QED BY <2>4, <2>5, <2>7 DEF Place
  <1>7. CASE ~(m = m0 /\ r = r0)
    <2>1. Ahead(m, r)' <=> Ahead(m, r)
      BY <1>7, AheadStep DEF m0, r0
    <2> QED BY <1>2, <1>5, <1>7, <2>1, PlaceQuiet
  <1> QED BY <1>6, <1>7

\* A popped album is in the hands of the worker, with its facts submitted.
LEMMA PlacePopped ==
    ASSUME TypeOK, UpdateInv, WorkerInv, AlbumInv, Pop, [Next]_vars,
           NEW m \in Members, NEW r \in RuleIds, Place(m, r)
    PROVE  Place(m, r)'
  <1> DEFINE k0 == worker.key
             batch == albums[k0]
             f == [event |-> "new", rule |-> k0[1], at |-> FactStamp(worker.stamp)]
  <1>1. ~AddMessage /\ ~SpreadDst /\ ~SpreadStats /\ ~ForwardAlbum
    BY Alone
  <1>2. /\ k0 \in Keys /\ k0[1] \in RuleIds /\ Range(albums'[k0]) = {}
        /\ \A k \in Keys : k # k0 => albums'[k] = albums[k]
        /\ worker'.at = "spread" /\ worker'.key = k0 /\ worker'.batch = batch
        /\ worker'.to = To[k0[1]] /\ worker.at = "pop"
    BY Popping
  <1>3. f \in Fact /\ f.event = "new" /\ f.rule = k0[1]
    BY <1>2 DEF Fact, FactStamp, TypeOK
  <1>4. /\ facts[m] \in Seq(Fact)
        /\ \/ facts'[m] = facts[m] /\ m \notin Emitted(batch, k0[1])
           \/ facts'[m] = Append(facts[m], f) /\ m \in Emitted(batch, k0[1])
    BY DEF Pop, TypeOK, Fact
  <1>5. Key(m, r) \in Keys /\ Key(m, r)[1] = r /\ \A k \in Keys : k = <<k[1], k[2]>>
    BY Config DEF Key
  <1>6. \A n \in Range(batch) : k0[2] = AlbumOf[n]
    BY <1>2 DEF AlbumInv
  <1>7. /\ Ahead(m, r)' <=> Ahead(m, r)
        /\ \A d : /\ InTask(m, r, d)' <=> InTask(m, r, d)
                  /\ TaskOnce(m, r, d) => TaskOnce(m, r, d)'
                  /\ InChat(m, r, d)' <=> InChat(m, r, d)
                  /\ ChatOnce(m, r, d) => ChatOnce(m, r, d)'
                  /\ refused' = refused
    <2>1. ASSUME NEW d
          PROVE  /\ InTask(m, r, d)' <=> InTask(m, r, d)
                 /\ TaskOnce(m, r, d) => TaskOnce(m, r, d)'
                 /\ InChat(m, r, d)' <=> InChat(m, r, d)
                 /\ ChatOnce(m, r, d) => ChatOnce(m, r, d)'
                 /\ refused' = refused
      BY <1>1, TaskStep, ChatStep
    <2> QED BY <1>1, <2>1, AheadStep
  <1> HIDE DEF k0, batch, f
  <1>8. ~InHand(m, r)
    BY <1>2 DEF InHand
  <1>9. InHand(m, r)' <=> r = k0[1] /\ m \in Range(batch)
    BY <1>2 DEF InHand
  <1>10. m \in Range(batch) /\ r = k0[1] <=> InAlbum(m, r) /\ Key(m, r) = k0
    BY <1>2, <1>5, <1>6 DEF InAlbum, Key, batch
  <1>11. InAlbum(m, r)' <=> InAlbum(m, r) /\ Key(m, r) # k0
    <2>1. InAlbum(m, r)' <=> m \in Range(albums'[Key(m, r)])
      BY DEF InAlbum, Key
    <2> QED BY <1>2, <1>5, <2>1 DEF InAlbum
  <1>12. /\ Told(m, r)' <=> Told(m, r) \/ (m \in Emitted(batch, k0[1]) /\ r = k0[1])
         /\ NewsOnce(m, r) /\ ~(Told(m, r) /\ m \in Emitted(batch, k0[1]) /\ r = k0[1])
              => NewsOnce(m, r)'
    <2>1. CASE facts'[m] = facts[m] /\ m \notin Emitted(batch, k0[1])
      BY <2>1 DEF Told, NewsOnce
    <2>2. CASE facts'[m] = Append(facts[m], f) /\ m \in Emitted(batch, k0[1])
      <3> DEFINE a == facts'[m]
                 n == Len(facts[m]) + 1
      <3>1. /\ \A i \in DOMAIN facts[m] : i \in DOMAIN a /\ a[i] = facts[m][i]
            /\ \A i \in DOMAIN a : i \in DOMAIN facts[m] \/ i = n
            /\ n \in DOMAIN a /\ a[n] = f
        BY <1>3, <1>4, <2>2, Appended
      <3>2. News(f, r) <=> r = k0[1]
        BY <1>3 DEF News
      <3> HIDE DEF a, n
      <3>3. (\E i \in DOMAIN a : News(a[i], r)) <=> Told(m, r) \/ r = k0[1]
        BY <3>1, <3>2 DEF Told
      <3>4. NewsOnce(m, r) /\ ~(Told(m, r) /\ r = k0[1])
              => \A i, j \in DOMAIN a : News(a[i], r) /\ News(a[j], r) => i = j
        BY <3>1, <3>2 DEF NewsOnce, Told
      <3> QED BY <2>2, <3>3, <3>4 DEF Told, NewsOnce, a, News
    <2> QED BY <1>4, <2>1, <2>2
  <1>13. CASE InAlbum(m, r) /\ Key(m, r) = k0
    <2>1. ~Ahead(m, r) /\ ~Told(m, r) /\ \A d \in Dsts : ~Done(m, r, d)
      BY <1>13 DEF Place, AheadOf
    <2>2. InHand(m, r)' /\ ~InAlbum(m, r)' /\ ~Ahead(m, r)' /\ \A d \in Dsts : ~Done(m, r, d)'
      BY <1>7, <1>9, <1>10, <1>11, <1>13, <2>1 DEF Done
    <2>3. AheadOf(m, r)'
      BY <2>2 DEF AheadOf
    <2>4. OnceOf(m, r)'
      BY <1>7, <1>12, <2>1 DEF Place, OnceOf
    <2>5. \A d : Owed(r, d)'
      <3>1. r = k0[1] /\ To[r] \in Seq(Dsts)
        BY <1>10, <1>13, Config
      <3>2. Walked(r)' = 0
        BY <1>2, <3>1 DEF Walked
      <3> QED BY <3>2 DEF Owed
    <2>6. Told(m, r)' <=> m \in Emitted(<<m>>, r)
      <3>1. m \in Range(batch) /\ r = k0[1]
        BY <1>10, <1>13
      <3>2. m \in Range(<<m>>)
        BY DEF Range
      <3> QED BY <1>12, <2>1, <3>1, <3>2 DEF Emitted
    <2>7. CompleteOf(m, r)'
      BY <2>2, <2>5, <2>6 DEF CompleteOf, Emitted
    <2> QED BY <2>3, <2>4, <2>7 DEF Place
  <1>14. CASE ~(InAlbum(m, r) /\ Key(m, r) = k0)
    <2>1. ~(m \in Emitted(batch, k0[1]) /\ r = k0[1])
      BY <1>10, <1>14 DEF Emitted
    <2>2. /\ InHand(m, r)' <=> InHand(m, r)
          /\ InAlbum(m, r)' <=> InAlbum(m, r)
          /\ Told(m, r)' <=> Told(m, r)
          /\ NewsOnce(m, r) => NewsOnce(m, r)'
      BY <1>8, <1>9, <1>10, <1>11, <1>12, <1>14, <2>1
    <2> QED BY <1>7, <1>8, <2>2, PlaceQuiet
  <1> QED BY <1>13, <1>14

\* The worker comes to the next destination: a task for it unless the tracker has it.
LEMMA PlaceSpread ==
    ASSUME TypeOK, UpdateInv, WorkerInv, SpreadDst, [Next]_vars,
           NEW m \in Members, NEW r \in RuleIds, Place(m, r)
    PROVE  Place(m, r)'
  <1> DEFINE r0 == worker.key[1]
             d0 == Head(worker.to)
             n  == Len(To[r0]) - Len(worker.to)
  <1>1. ~AddMessage /\ ~Pop /\ ~SpreadStats /\ ~ForwardAlbum
    BY Alone
  <1>2. /\ Ahead(m, r)' <=> Ahead(m, r)
        /\ InAlbum(m, r)' <=> InAlbum(m, r)
        /\ Told(m, r)' <=> Told(m, r)
        /\ NewsOnce(m, r) => NewsOnce(m, r)'
        /\ \A d : /\ InChat(m, r, d)' <=> InChat(m, r, d)
                  /\ ChatOnce(m, r, d) => ChatOnce(m, r, d)'
                  /\ refused' = refused
    <2>1. Ahead(m, r)' <=> Ahead(m, r)
      BY <1>1, AheadStep
    <2>2. albums' = albums
      BY <1>1, Stays
    <2>3. (Told(m, r)' <=> Told(m, r)) /\ (NewsOnce(m, r) => NewsOnce(m, r)')
      BY <1>1, NewsStep
    <2>4. ASSUME NEW d
          PROVE  /\ InChat(m, r, d)' <=> InChat(m, r, d)
                 /\ ChatOnce(m, r, d) => ChatOnce(m, r, d)'
                 /\ refused' = refused
      BY <1>1, ChatStep
    <2> QED BY <2>1, <2>2, <2>3, <2>4 DEF InAlbum, Key
  <1>3. /\ worker.at = "spread" /\ worker'.at = "spread" /\ worker'.key = worker.key
        /\ worker'.batch = worker.batch /\ worker'.to = Tail(worker.to)
        /\ worker.to # <<>> /\ worker.to \in Seq(Dsts) /\ worker.batch \in Seq(Members)
        /\ r0 \in RuleIds /\ To[r0] \in Seq(Dsts) /\ d0 \in Dsts
    BY Config, Tailed DEF SpreadDst, WorkerInv, TypeOK
  <1>4. /\ n \in Nat /\ n + 1 \in 1..Len(To[r0]) /\ To[r0][n + 1] = d0
        /\ Len(To[r0]) - Len(Tail(worker.to)) = n + 1
    <2>1. /\ Len(worker.to) <= Len(To[r0]) /\ Len(worker.to) > 0 /\ Len(worker.to) \in Nat
          /\ Len(To[r0]) \in Nat /\ Len(Tail(worker.to)) = Len(worker.to) - 1
          /\ 1 \in DOMAIN worker.to /\ worker.to[1] = d0
      BY <1>3, Tailed DEF WorkerInv
    <2>2. worker.to[1] = To[r0][Walked(r0) + 1]
      BY <1>3, <2>1 DEF WorkerInv
    <2>3. Walked(r0) = n
      BY DEF Walked
    <2> DEFINE a == Len(To[r0])
               b == Len(worker.to)
    <2>4. n = a - b /\ a \in Nat /\ b \in Nat /\ b > 0 /\ b <= a
      BY <2>1
    <2> HIDE DEF r0, d0, a, b, n
    <2>5. n \in Nat /\ n + 1 \in 1..a /\ a - (b - 1) = n + 1
      BY <2>4
    <2> QED BY <2>1, <2>2, <2>3, <2>5 DEF a, b
  <1>5. ASSUME InHand(m, r) PROVE \A d : Owed(r, d)' <=> Owed(r, d) /\ d # d0
    <2>0. r = r0
      BY <1>5 DEF InHand
    <2>1. \A d : Owed(r, d) <=> \A i \in 1..n : To[r0][i] # d
      BY <2>0 DEF Owed, Walked
    <2>2. \A d : Owed(r, d)' <=> \A i \in 1..(n + 1) : To[r0][i] # d
      BY <2>0, <1>3, <1>4 DEF Owed, Walked
    <2> HIDE DEF n, r0, d0
    <2>3. \A i \in 1..(n + 1) : i \in 1..n \/ i = n + 1
      BY <1>4
    <2>4. n + 1 \in 1..(n + 1) /\ \A i \in 1..n : i \in 1..(n + 1)
      BY <1>4
    <2> QED BY <1>4, <2>1, <2>2, <2>3, <2>4
  <1>6. AlreadyMarked(To[r0], worker.to) <=> ~Owed(r0, d0)
    <2> DEFINE s == SubSeq(To[r0], 1, n)
    <2>1. n \in 0..Len(To[r0])
      <3> HIDE DEF n, r0, d0
      <3> QED BY <1>3, <1>4
    <2>2. DOMAIN s = 1..n /\ \A i \in 1..n : s[i] = To[r0][i]
      <3> HIDE DEF n, r0, d0
      <3>1. Len(s) = n /\ \A i \in 1..n : s[i] = To[r0][i]
        BY <1>3, <1>4, <2>1, SubSeqProperties
      <3>2. s \in Seq(Dsts)
        BY <1>3, <1>4, <2>1, SubSeqProperties
      <3> HIDE DEF s
      <3> QED BY <3>1, <3>2
    <2>3. AlreadyMarked(To[r0], worker.to) <=> d0 \in Range(s)
      BY DEF AlreadyMarked
    <2> HIDE DEF s
    <2>4. d0 \in Range(s) <=> \E i \in 1..n : To[r0][i] = d0
      BY <2>2 DEF Range
    <2> QED BY <2>3, <2>4 DEF Owed, Walked
  <1>7. \/ queue' = queue /\ ~Owed(r0, d0)
        \/ queue' = Append(queue, Forwarding) /\ Owed(r0, d0)
    BY <1>6 DEF SpreadDst, Forwarding
  <1>8. /\ Forwarding \in Task
        /\ \A d : Carries(Forwarding, m, r, d) <=> InHand(m, r) /\ r = r0 /\ d = d0
    <2>1. Forwarding \in Task
      BY <1>3 DEF Forwarding, Task
    <2> QED BY <1>3, <2>1 DEF Forwarding, Carries, InHand
  <1>9. InHand(m, r)' <=> InHand(m, r)
    BY <1>3 DEF InHand
  <1>10. InHand(m, r) => r = r0
    BY DEF InHand
  <1> HIDE DEF r0, d0, n
  <1>11. \A d \in Dsts : InHand(m, r) /\ Owed(r, d) => ~InTask(m, r, d) /\ ~InChat(m, r, d)
    BY DEF Place, AheadOf, Done
  <1>12. \A d \in Dsts :
           /\ InTask(m, r, d)' <=> InTask(m, r, d) \/ (InHand(m, r) /\ d = d0 /\ Owed(r, d0))
           /\ TaskOnce(m, r, d) => TaskOnce(m, r, d)'
    <2> TAKE d \in Dsts
    <2>1. CASE queue' = queue /\ ~Owed(r0, d0)
      <3>1. (InTask(m, r, d)' <=> InTask(m, r, d)) /\ (TaskOnce(m, r, d) => TaskOnce(m, r, d)')
        BY <2>1 DEF InTask, TaskOnce, Carries
      <3> QED BY <1>10, <2>1, <3>1
    <2>2. CASE queue' = Append(queue, Forwarding) /\ Owed(r0, d0)
      <3>1. /\ InTask(m, r, d)' <=> InTask(m, r, d) \/ Carries(Forwarding, m, r, d)
            /\ TaskOnce(m, r, d) /\ ~(InTask(m, r, d) /\ Carries(Forwarding, m, r, d))
                 => TaskOnce(m, r, d)'
        BY <1>8, <2>2, TasksGained
      <3>2. ~(InTask(m, r, d) /\ Carries(Forwarding, m, r, d))
        BY <1>8, <1>11, <2>2
      <3> QED BY <1>8, <1>10, <2>2, <3>1, <3>2
    <2> QED BY <1>7, <2>1, <2>2
  <1>13. \A d \in Dsts :
           Done(m, r, d)' <=> Done(m, r, d) \/ (InHand(m, r) /\ d = d0 /\ Owed(r, d0))
    BY <1>2, <1>12 DEF Done
  <1>14. AheadOf(m, r)'
    BY <1>2, <1>5, <1>9, <1>10, <1>13 DEF Place, AheadOf
  <1>15. OnceOf(m, r)'
    <2>1. NewsOnce(m, r)'
      BY <1>2 DEF Place, OnceOf
    <2>2. ASSUME NEW d \in Dsts
          PROVE  /\ InTask(m, r, d)' => ~InChat(m, r, d)'
                 /\ TaskOnce(m, r, d)' /\ ChatOnce(m, r, d)'
      <3>1. InTask(m, r, d)' => ~InChat(m, r, d)'
        BY <1>2, <1>11, <1>12 DEF Place, OnceOf
      <3>2. TaskOnce(m, r, d)' /\ ChatOnce(m, r, d)'
        BY <1>2, <1>12 DEF Place, OnceOf
      <3> QED BY <3>1, <3>2
    <2> QED BY <2>1, <2>2 DEF OnceOf
  <1>16. CompleteOf(m, r)'
    <2> SUFFICES ASSUME ~Ahead(m, r)', Collects(m, r), ~InAlbum(m, r)'
                 PROVE  /\ Told(m, r)' <=> m \in Emitted(<<m>>, r)
                        /\ \A d \in Range(To[r]) :
                             (InHand(m, r)' /\ Owed(r, d)') \/ Done(m, r, d)'
      BY DEF CompleteOf, Emitted, Collects
    <2>1. /\ Told(m, r) <=> m \in Emitted(<<m>>, r)
          /\ \A d \in Range(To[r]) : (InHand(m, r) /\ Owed(r, d)) \/ Done(m, r, d)
      BY <1>2 DEF Place, CompleteOf
    <2>2. Range(To[r]) \subseteq Dsts
      BY Config
    <2>3. ASSUME NEW d \in Range(To[r]) PROVE (InHand(m, r)' /\ Owed(r, d)') \/ Done(m, r, d)'
      <3>1. CASE Done(m, r, d)
        BY <1>13, <2>2, <3>1
      <3>2. CASE InHand(m, r) /\ Owed(r, d) /\ d = d0
        BY <1>13, <2>2, <3>2
      <3>3. CASE InHand(m, r) /\ Owed(r, d) /\ d # d0
        BY <1>5, <1>9, <1>10, <3>3
      <3> QED BY <2>1, <3>1, <3>2, <3>3
    <2> QED BY <1>2, <2>1, <2>3
  <1> QED BY <1>14, <1>15, <1>16 DEF Place

\* The worker has come to every destination and lays the album down.
LEMMA PlaceSpreadEnd ==
    ASSUME TypeOK, UpdateInv, WorkerInv, SpreadStats, [Next]_vars,
           NEW m \in Members, NEW r \in RuleIds, Place(m, r)
    PROVE  Place(m, r)'
  <1>1. ~AddMessage /\ ~Pop /\ ~SpreadDst /\ ~ForwardAlbum
    BY Alone
  <1>2. /\ Ahead(m, r)' <=> Ahead(m, r)
        /\ InAlbum(m, r)' <=> InAlbum(m, r)
        /\ Told(m, r)' <=> Told(m, r)
        /\ NewsOnce(m, r) => NewsOnce(m, r)'
        /\ \A d : /\ InTask(m, r, d)' <=> InTask(m, r, d)
                  /\ TaskOnce(m, r, d) => TaskOnce(m, r, d)'
                  /\ InChat(m, r, d)' <=> InChat(m, r, d)
                  /\ ChatOnce(m, r, d) => ChatOnce(m, r, d)'
                  /\ refused' = refused
    <2>1. Ahead(m, r)' <=> Ahead(m, r)
      BY <1>1, AheadStep
    <2>2. albums' = albums
      BY <1>1, Stays
    <2>3. (Told(m, r)' <=> Told(m, r)) /\ (NewsOnce(m, r) => NewsOnce(m, r)')
      BY <1>1, NewsStep
    <2>4. ASSUME NEW d
          PROVE  /\ InTask(m, r, d)' <=> InTask(m, r, d)
                 /\ TaskOnce(m, r, d) => TaskOnce(m, r, d)'
                 /\ InChat(m, r, d)' <=> InChat(m, r, d)
                 /\ ChatOnce(m, r, d) => ChatOnce(m, r, d)'
                 /\ refused' = refused
      BY <1>1, TaskStep, ChatStep
    <2> QED BY <2>1, <2>2, <2>3, <2>4 DEF InAlbum, Key
  <1>3. ~InHand(m, r)'
    <2>1. worker'.at = "free"
      BY DEF SpreadStats, Free
    <2> QED BY <2>1 DEF InHand
  <1>4. \A d \in Range(To[r]) : ~(InHand(m, r) /\ Owed(r, d))
    <2> SUFFICES ASSUME InHand(m, r), NEW d \in Range(To[r]) PROVE ~Owed(r, d)
      OBVIOUS
    <2>1. worker.to = <<>> /\ To[r] \in Seq(Dsts)
      BY Config DEF SpreadStats
    <2>2. Walked(r) = Len(To[r]) /\ DOMAIN To[r] = 1..Len(To[r])
      BY <2>1 DEF Walked
    <2>3. PICK i \in DOMAIN To[r] : To[r][i] = d
      BY DEF Range
    <2> QED BY <2>2, <2>3 DEF Owed
  <1>5. \A d : Done(m, r, d)' <=> Done(m, r, d)
    BY <1>2 DEF Done
  <1>6. AheadOf(m, r)'
    BY <1>2, <1>3, <1>5 DEF Place, AheadOf
  <1>7. OnceOf(m, r)'
    BY <1>2 DEF Place, OnceOf
  <1>8. CompleteOf(m, r)'
    BY <1>2, <1>4, <1>5 DEF Place, CompleteOf, Emitted, Collects
  <1> QED BY <1>6, <1>7, <1>8 DEF Place

\* Telegram takes a member of the batch or refuses it.
LEMMA PlaceForwarded ==
    ASSUME TypeOK, UpdateInv, WorkerInv, AlbumInv, ForwardAlbum, [Next]_vars,
           NEW m \in Members, NEW r \in RuleIds, Place(m, r)
    PROVE  Place(m, r)'
  <1> DEFINE t == Head(queue)
             B == Range(t.batch)
             To0(d) == r = t.rule /\ d = t.dst
  <1>1. ~AddMessage /\ ~Pop /\ ~SpreadDst /\ ~SpreadStats
    BY Alone
  <1>2. /\ Ahead(m, r)' <=> Ahead(m, r)
        /\ InAlbum(m, r)' <=> InAlbum(m, r)
        /\ InHand(m, r)' <=> InHand(m, r)
        /\ \A d : InHand(m, r) => (Owed(r, d)' <=> Owed(r, d))
        /\ Told(m, r)' <=> Told(m, r)
        /\ NewsOnce(m, r) => NewsOnce(m, r)'
    <2>1. Ahead(m, r)' <=> Ahead(m, r)
      BY <1>1, AheadStep
    <2>2. albums' = albums
      BY <1>1, Stays
    <2>3. (Told(m, r)' <=> Told(m, r)) /\ (NewsOnce(m, r) => NewsOnce(m, r)')
      BY <1>1, NewsStep
    <2>4. /\ InHand(m, r)' <=> InHand(m, r)
          /\ \A d : InHand(m, r) => (Owed(r, d)' <=> Owed(r, d))
      BY <1>1, HandStep
    <2> QED BY <2>1, <2>2, <2>3, <2>4 DEF InAlbum, Key
  <1>3. NextTaskIs("forward") /\ Dequeue
    BY DEF ForwardAlbum
  <1>4. PICK missing \in SUBSET B : Taken(missing) /\ refused' = refused \cup Unsent(missing)
    BY Forwarded
  <1>5. t.kind = "forward" /\ t.batch \in Seq(Members)
    BY <1>3, HeadTask, Kinds
  <1> DEFINE s == Sorted(B \ missing)
  <1>6. Range(s) = B \ missing /\ Distinct(s)
    BY <1>5, Batch
  <1>7. \A d : Carries(t, m, r, d) <=> To0(d) /\ m \in B
    BY <1>5 DEF Carries
  <1>8. \A d : /\ InTask(m, r, d) <=> InTask(m, r, d)' \/ Carries(t, m, r, d)
               /\ TaskOnce(m, r, d) => /\ ~(InTask(m, r, d)' /\ Carries(t, m, r, d))
                                       /\ TaskOnce(m, r, d)'
    BY <1>3, TasksLost
  <1>9. /\ \A i \in DOMAIN sent : i \in DOMAIN sent' /\ sent'[i] = sent[i]
        /\ \A i \in DOMAIN s :
             /\ Len(sent) + i \in DOMAIN sent'
             /\ sent'[Len(sent) + i].msg = s[i] /\ sent'[Len(sent) + i].rule = t.rule
             /\ sent'[Len(sent) + i].dst = t.dst
        /\ \A i \in DOMAIN sent' : i \in DOMAIN sent \/ \E j \in DOMAIN s : i = Len(sent) + j
    BY <1>3, <1>4, Sent
  <1> HIDE DEF t, B, s
  <1>10. \A d, i : i \in DOMAIN s =>
           (Is(sent'[Len(sent) + i], m, r, d) <=> s[i] = m /\ To0(d))
    BY <1>9 DEF Is
  <1> HIDE DEF To0
  <1>11. \A d : InChat(m, r, d)' <=> InChat(m, r, d) \/ (To0(d) /\ m \in B \ missing)
    <2> TAKE d
    <2>1. (\E i \in DOMAIN sent' : Is(sent'[i], m, r, d))
            <=> InChat(m, r, d) \/ \E i \in DOMAIN s : s[i] = m /\ To0(d)
      BY <1>9, <1>10 DEF InChat
    <2>2. (\E i \in DOMAIN s : s[i] = m) <=> m \in B \ missing
      BY <1>6 DEF Range
    <2> QED BY <2>1, <2>2 DEF InChat, Is
  <1>12. \A d : ChatOnce(m, r, d) /\ ~(InChat(m, r, d) /\ To0(d) /\ m \in B \ missing)
                  => ChatOnce(m, r, d)'
    <2> SUFFICES ASSUME NEW d, ChatOnce(m, r, d),
                        ~(InChat(m, r, d) /\ To0(d) /\ m \in B \ missing),
                        NEW i \in DOMAIN sent', NEW j \in DOMAIN sent',
                        Is(sent'[i], m, r, d), Is(sent'[j], m, r, d)
                 PROVE  i = j
      BY DEF ChatOnce, Is
    <2>1. CASE i \in DOMAIN sent /\ j \in DOMAIN sent
      BY <1>9, <2>1 DEF ChatOnce
    <2>2. \A h : h \in DOMAIN sent /\ Is(sent'[h], m, r, d) => InChat(m, r, d)
      BY <1>9 DEF InChat
    <2>3. \A h \in DOMAIN s : Is(sent'[Len(sent) + h], m, r, d) => To0(d) /\ m \in B \ missing
      <3>1. \A h \in DOMAIN s : s[h] \in B \ missing
        BY <1>6 DEF Range
      <3> QED BY <1>10, <3>1
    <2>4. CASE i \notin DOMAIN sent /\ j \notin DOMAIN sent
      <3>1. PICK h \in DOMAIN s : i = Len(sent) + h
        BY <1>9, <2>4
      <3>2. PICK g \in DOMAIN s : j = Len(sent) + g
        BY <1>9, <2>4
      <3>3. s[h] = m /\ s[g] = m
        BY <1>10, <3>1, <3>2
      <3>4. h = g
        BY <1>6, <3>3 DEF Distinct
      <3> QED BY <3>1, <3>2, <3>4
    <2> QED BY <1>9, <2>1, <2>2, <2>3, <2>4
  <1>13. \A d : <<m, r, d>> \in refused' <=> <<m, r, d>> \in refused \/ (To0(d) /\ m \in missing)
    <2>1. \A d : <<m, r, d>> \in Unsent(missing) <=> m \in missing /\ To0(d)
      BY DEF Unsent, To0, t
    <2> QED BY <1>4, <2>1
  <1>14. \A d : Done(m, r, d)' <=> Done(m, r, d)
    BY <1>4, <1>7, <1>8, <1>11, <1>13 DEF Done
  <1>15. AheadOf(m, r)'
    BY <1>2, <1>14 DEF Place, AheadOf
  <1>16. OnceOf(m, r)'
    <2>1. NewsOnce(m, r)'
      BY <1>2 DEF Place, OnceOf
    <2>2. ASSUME NEW d \in Dsts
          PROVE  /\ InTask(m, r, d)' => ~InChat(m, r, d)'
                 /\ TaskOnce(m, r, d)' /\ ChatOnce(m, r, d)'
      <3>1. TaskOnce(m, r, d) /\ ChatOnce(m, r, d) /\ (InTask(m, r, d) => ~InChat(m, r, d))
        BY DEF Place, OnceOf
      <3>2. InTask(m, r, d)' => ~InChat(m, r, d)'
        BY <1>7, <1>8, <1>11, <3>1
      <3>3. TaskOnce(m, r, d)' /\ ChatOnce(m, r, d)'
        BY <1>7, <1>8, <1>12, <3>1
      <3> QED BY <3>2, <3>3
    <2> QED BY <2>1, <2>2 DEF OnceOf
  <1>17. CompleteOf(m, r)'
    BY <1>2, <1>14 DEF Place, CompleteOf, Emitted, Collects
  <1> QED BY <1>15, <1>16, <1>17 DEF Place

LEMMA PlaceKept ==
    ASSUME TypeOK, UpdateInv, WorkerInv, AlbumInv, PlaceInv, [Next]_vars
    PROVE  PlaceInv'
  <1> SUFFICES ASSUME NEW m \in Members, NEW r \in RuleIds PROVE Place(m, r)'
    BY DEF PlaceInv, Place
  <1>0. Place(m, r)
    BY DEF PlaceInv, Place
  <1>1. CASE AddMessage
    BY <1>0, <1>1, PlaceAdded
  <1>2. CASE Pop
    BY <1>0, <1>2, PlacePopped
  <1>3. CASE SpreadDst
    BY <1>0, <1>3, PlaceSpread
  <1>4. CASE SpreadStats
    BY <1>0, <1>4, PlaceSpreadEnd
  <1>5. CASE ForwardAlbum
    BY <1>0, <1>5, PlaceForwarded
  <1>6. CASE ~AddMessage /\ ~Pop /\ ~SpreadDst /\ ~SpreadStats /\ ~ForwardAlbum
    <2>1. Ahead(m, r)' <=> Ahead(m, r)
      BY <1>6, AheadStep
    <2>2. InAlbum(m, r)' <=> InAlbum(m, r)
      BY <1>6, Stays DEF InAlbum, Key
    <2>3. (Told(m, r)' <=> Told(m, r)) /\ (NewsOnce(m, r) => NewsOnce(m, r)')
      BY <1>6, NewsStep
    <2>4. /\ InHand(m, r)' <=> InHand(m, r)
          /\ \A d : InHand(m, r) => (Owed(r, d)' <=> Owed(r, d))
      BY <1>6, HandStep
    <2>5. ASSUME NEW d
          PROVE  /\ InTask(m, r, d)' <=> InTask(m, r, d)
                 /\ TaskOnce(m, r, d) => TaskOnce(m, r, d)'
                 /\ InChat(m, r, d)' <=> InChat(m, r, d)
                 /\ ChatOnce(m, r, d) => ChatOnce(m, r, d)'
                 /\ refused' = refused
      BY <1>6, TaskStep, ChatStep
    <2> QED BY <1>0, <2>1, <2>2, <2>3, <2>4, <2>5, PlaceQuiet
  <1> QED BY <1>1, <1>2, <1>3, <1>4, <1>5, <1>6

(***************************************************************************)
(* The invariant, and what follows from it                                 *)
(***************************************************************************)
LEMMA CollectInit == Init => CollectInv
  <1> SUFFICES ASSUME Init PROVE CollectInv
    OBVIOUS
  <1>1. TypeOK
    BY TypeInit
  <1>2. /\ update = NoUpdate /\ worker = Free /\ queue = <<>> /\ sent = <<>> /\ arrived = {}
        /\ \A k \in Keys : albums[k] = <<>>
        /\ \A m \in Members : facts[m] = <<>> /\ copied[m] = {}
        /\ DOMAIN <<>> = {} /\ Range(<<>>) = {}
    BY DEF Init, Range
  <1>3. UpdateInv
    BY <1>2 DEF UpdateInv, NoUpdate
  <1>4. WorkerInv
    BY <1>2 DEF WorkerInv, Free
  <1>5. worker.at = "free"
    BY <1>2 DEF Free
  <1>6. AlbumInv
    BY <1>2, <1>5 DEF AlbumInv, Distinct
  <1>7. PlaceInv
    <2> SUFFICES ASSUME NEW m \in Members, NEW r \in RuleIds
                 PROVE  AheadOf(m, r) /\ OnceOf(m, r) /\ CompleteOf(m, r)
      BY DEF PlaceInv
    <2>1. Ahead(m, r)
      BY <1>2 DEF Ahead
    <2>2. ~InAlbum(m, r)
      BY <1>2, Config DEF InAlbum
    <2>3. ~InHand(m, r)
      BY <1>5 DEF InHand
    <2>4. ~Told(m, r) /\ NewsOnce(m, r)
      BY <1>2 DEF Told, NewsOnce
    <2>5. \A d : /\ ~InTask(m, r, d) /\ TaskOnce(m, r, d)
                 /\ ~InChat(m, r, d) /\ ChatOnce(m, r, d)
      BY <1>2 DEF InTask, TaskOnce, InChat, ChatOnce
    <2>6. \A d : ~Done(m, r, d)
      BY <2>5 DEF Done, Init
    <2> QED BY <2>1, <2>2, <2>3, <2>4, <2>5, <2>6 DEF AheadOf, OnceOf, CompleteOf
  <1>8. \A k : ~AtWork(k) /\ ~Waiting(k)
    BY <1>2, <1>5 DEF AtWork, Waiting
  <1>9. TaskInv
    BY <1>2, <1>8 DEF TaskInv
  <1>10. StampInv
    <2>1. \A k, s : ~DueAt(k, s)
      BY <1>2, <1>8 DEF DueAt
    <2>2. \A m \in Members : \A s : ~NewAt(m, s) /\ ~GoneAt(m, s)
      BY <1>2, <2>1 DEF NewAt, GoneAt
    <2> QED BY <2>1, <2>2 DEF StampInv
  <1>11. CopiedInv
    BY <1>2 DEF CopiedInv
  <1> QED BY <1>1, <1>3, <1>4, <1>6, <1>7, <1>9, <1>10, <1>11 DEF CollectInv

LEMMA CollectStep == CollectInv /\ [Next]_vars => CollectInv'
  <1> SUFFICES ASSUME CollectInv, [Next]_vars PROVE CollectInv'
    OBVIOUS
  <1>1. /\ TypeOK /\ UpdateInv /\ WorkerInv /\ AlbumInv /\ PlaceInv
        /\ TaskInv /\ StampInv /\ CopiedInv
    BY DEF CollectInv
  <1> QED BY <1>1, TypeStep, UpdateKept, WorkerKept, AlbumKept, PlaceKept, TaskKept, StampKept,
             CopiedKept DEF CollectInv

\* The inductive invariant of the media albums: where a member is, what has happened with it
\* there, which stamps are due and which copies the store knows.
THEOREM AlbumInvariant == Spec => []CollectInv
  <1>1. Init => CollectInv
    BY CollectInit
  <1>2. CollectInv /\ [Next]_vars => CollectInv'
    BY CollectStep
  <1> QED BY <1>1, <1>2, PTL DEF Spec

LEMMA AtMostOne ==
    ASSUME NEW S, \A x, y \in S : x = y
    PROVE  Cardinality(S) = IF S = {} THEN 0 ELSE 1
  <1>1. CASE S = {}
    BY <1>1, FS_EmptySet
  <1>2. CASE S # {}
    <2>1. PICK x \in S : TRUE
      BY <1>2
    <2>2. S = {x}
      BY <2>1
    <2> QED BY <1>2, <2>2, FS_Singleton
  <1> QED BY <1>1, <1>2

LEMMA OneTask ==
    ASSUME CollectInv
    PROVE  OneTaskPerEntry
  <1> SUFFICES ASSUME NEW k \in Keys
               PROVE  Collections(k) = IF albums[k] = <<>> THEN 0 ELSE 1
    BY DEF OneTaskPerEntry
  <1> DEFINE S == {i \in DOMAIN queue : queue[i].kind = "collect" /\ queue[i].key = k}
  <1>1. /\ \A i, j \in DOMAIN queue :
             CollectionOf(queue[i], k) /\ CollectionOf(queue[j], k) => i = j
        /\ AtWork(k) => ~Waiting(k)
        /\ albums[k] # <<>> <=> AtWork(k) \/ Waiting(k)
    BY DEF CollectInv, TaskInv
  <1>2. \A x, y \in S : x = y
    BY <1>1 DEF CollectionOf
  <1>3. S # {} <=> Waiting(k)
    BY DEF Waiting, CollectionOf
  <1>4. Cardinality(S) = IF S = {} THEN 0 ELSE 1
    <2> HIDE DEF S
    <2> QED BY <1>2, AtMostOne
  <1>5. Collections(k) = Cardinality(S) + (IF AtWork(k) THEN 1 ELSE 0)
    BY DEF Collections, AtWork
  <1> HIDE DEF S
  <1> QED BY <1>1, <1>3, <1>4, <1>5

LEMMA CountsOnce ==
    ASSUME CollectInv, NEW m \in Members, NEW r \in RuleIds
    PROVE  /\ NewFacts(m, r) = IF Told(m, r) THEN 1 ELSE 0
           /\ \A d \in Dsts : Arrivals(m, r, d) = IF InChat(m, r, d) THEN 1 ELSE 0
  <1>1. OnceOf(m, r)
    BY DEF CollectInv, PlaceInv
  <1>2. NewFacts(m, r) = IF Told(m, r) THEN 1 ELSE 0
    <2> DEFINE S == {i \in DOMAIN facts[m] : facts[m][i].event = "new" /\ facts[m][i].rule = r}
    <2>1. \A x, y \in S : x = y
      BY <1>1 DEF OnceOf, NewsOnce, News
    <2>2. S # {} <=> Told(m, r)
      BY DEF Told, News
    <2>3. Cardinality(S) = NewFacts(m, r)
      BY DEF NewFacts
    <2> HIDE DEF S
    <2> QED BY <2>1, <2>2, <2>3, AtMostOne
  <1>3. ASSUME NEW d \in Dsts PROVE Arrivals(m, r, d) = IF InChat(m, r, d) THEN 1 ELSE 0
    <2> DEFINE S == {i \in DOMAIN sent : sent[i].msg = m /\ sent[i].rule = r /\ sent[i].dst = d}
    <2>1. \A x, y \in S : x = y
      BY <1>1 DEF OnceOf, ChatOnce, Is
    <2>2. S # {} <=> InChat(m, r, d)
      BY DEF InChat, Is
    <2>3. Cardinality(S) = Arrivals(m, r, d)
      BY DEF Arrivals
    <2> HIDE DEF S
    <2> QED BY <2>1, <2>2, <2>3, AtMostOne
  <1> QED BY <1>2, <1>3

LEMMA OnceFromInv == CollectInv => EachMemberOnce
  <1> SUFFICES ASSUME CollectInv PROVE EachMemberOnce
    OBVIOUS
  <1>1. OneTaskPerEntry
    BY OneTask
  <1>2. ASSUME NEW m \in Members, NEW r \in RuleIds
        PROVE  /\ NewFacts(m, r) <= 1
               /\ \A d \in Dsts : Arrivals(m, r, d) <= 1
               /\ AtRest /\ m \in arrived /\ Collects(m, r) =>
                    /\ (NewFacts(m, r) = 1) <=> (m \in Emitted(<<m>>, r))
                    /\ \A d \in Range(To[r]) : Arrivals(m, r, d) = 1 \/ <<m, r, d>> \in refused
    <2>1. /\ NewFacts(m, r) = IF Told(m, r) THEN 1 ELSE 0
          /\ \A d \in Dsts : Arrivals(m, r, d) = IF InChat(m, r, d) THEN 1 ELSE 0
      BY CountsOnce
    <2>2. ASSUME AtRest, m \in arrived, Collects(m, r)
          PROVE  /\ Told(m, r) <=> m \in Emitted(<<m>>, r)
                 /\ \A d \in Range(To[r]) : InChat(m, r, d) \/ <<m, r, d>> \in refused
      <3>0. Range(<<>>) = {} /\ DOMAIN <<>> = {}
        BY DEF Range
      <3>1. update.rules = <<>> /\ queue = <<>> /\ worker.at = "free"
        BY <2>2 DEF AtRest, NoUpdate, Free
      <3>2. ~Ahead(m, r) /\ ~InHand(m, r) /\ \A d : ~InTask(m, r, d)
        BY <2>2, <3>0, <3>1 DEF Ahead, InHand, InTask
      <3>3. ~InAlbum(m, r)
        <4>1. Key(m, r) \in Keys
          BY Config
        <4>2. ~AtWork(Key(m, r)) /\ ~Waiting(Key(m, r))
          BY <3>0, <3>1 DEF AtWork, Waiting
        <4>3. albums[Key(m, r)] = <<>>
          BY <4>1, <4>2 DEF CollectInv, TaskInv
        <4> QED BY <3>0, <4>3 DEF InAlbum
      <3>4. CompleteOf(m, r)
        BY DEF CollectInv, PlaceInv
      <3> QED BY <2>2, <3>2, <3>3, <3>4 DEF CompleteOf, Done
    <2>3. Range(To[r]) \subseteq Dsts
      BY Config
    <2> QED BY <2>1, <2>2, <2>3
  <1> QED BY <1>1, <1>2 DEF EachMemberOnce

LEMMA StampsFromInv == CollectInv => FactsInOrder
  <1> SUFFICES ASSUME CollectInv, NEW m \in Members, NEW i \in DOMAIN facts[m],
                      NEW j \in DOMAIN facts[m],
                      facts[m][i].event = "new", facts[m][j].event = "deleted"
               PROVE  facts[m][i].at < facts[m][j].at
    BY DEF FactsInOrder
  <1>1. facts[m] \in Seq(Fact)
    BY DEF CollectInv, TypeOK, Fact
  <1>2. facts[m][i].at \in Nat /\ facts[m][j].at \in Nat
    <2>1. facts[m][i] \in Fact /\ facts[m][j] \in Fact
      BY <1>1
    <2> QED BY <2>1 DEF Fact
  <1>3. NewAt(m, facts[m][i].at) /\ GoneAt(m, facts[m][j].at)
    BY DEF NewAt, GoneAt
  <1> QED BY <1>2, <1>3 DEF CollectInv, StampInv

\* Whatever the members, rules and destinations and however members, deletions, collections
\* and tasks interleave: an entry of the album service has one collection, and a member comes
\* once to every destination of a rule that collects it, or Telegram refused it; its new fact
\* likewise (service.go:269, 586, 633).
THEOREM MembersGoOnce == Spec => []EachMemberOnce
  BY AlbumInvariant, OnceFromInv, PTL

\* Deleting one member takes down copies of that member alone, also where Telegram answered
\* the album with holes: forwardAlbum maps no member to a copy of another (service.go:708).
THEOREM OnlyDeletedMembersGo == Spec => []OnlyDeletedGo
  <1>1. CollectInv => OnlyDeletedGo
    BY DEF CollectInv, CopiedInv, OnlyDeletedGo
  <1> QED BY <1>1, AlbumInvariant, PTL

\* The new fact of a member, submitted after the quiet period, is stamped before its
\* deletion (service.go:571).
THEOREM StampsInOrder == Spec => []FactsInOrder
  BY AlbumInvariant, StampsFromInv, PTL
================================================================================
