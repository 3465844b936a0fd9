----------------------------- MODULE AlbumCollector -----------------------------
(***************************************************************************)
(* Media albums: OnNewMessage, processMediaAlbum and forwardAlbum of       *)
(* internal/app/handler/service.go, the album service and the task queue.  *)
(* The members of an album arrive one update at a time; the task the first *)
(* one queues occupies the queue worker until no member has come for the   *)
(* quiet period.  Members are message ids, all of one source chat; copies  *)
(* are confirmed at once (Forwarder has the confirmations and retries).    *)
(***************************************************************************)
EXTENDS Integers, Sequences, FiniteSets, SequencesExt

CONSTANTS
    Members,     \* message ids
    Albums, AlbumOf,
    Rules,       \* in the order of OrderedForwardRules
    Dsts,
    To,          \* ForwardRule.To
    Copying,     \* rules with SendCopy
    Pushing,     \* rules with PushTo
    Textless,    \* members without a caption
    Protected,   \* members with CanBeSaved = FALSE
    Filtered,    \* members whose text the filters do not pass
    Quiet,       \* the quiet period in ticks (3 seconds in the code)
    MaxDeletes,  \* bound: members deleted at the source
    MaxFaults    \* bound: albums Telegram does not take as a whole

ASSUME AlbumAssumption ==
    /\ Members \subseteq Nat /\ IsFiniteSet(Members)
    /\ AlbumOf \in [Members -> Albums]
    /\ Rules \in Seq(Nat) /\ To \in [Range(Rules) -> Seq(Dsts)]
    /\ \A i, j \in DOMAIN Rules : Rules[i] = Rules[j] => i = j   \* the keys of a map
    /\ Copying \cup Pushing \subseteq Range(Rules)
    /\ Textless \cup Protected \cup Filtered \subseteq Members
    /\ Quiet \in Nat \ {0} /\ {MaxDeletes, MaxFaults} \subseteq Nat

RuleIds == Range(Rules)

\* MakeKey: one collection per rule and album.
Keys == RuleIds \X Albums

VARIABLES
    arrived, gone,   \* Telegram: members sent to the source chat, deleted from it
    update,          \* the update loop: [msg, rules] it has still to handle, or NoUpdate
    albums,          \* album.Service: the members collected for each key, <<>> = no entry
    quiet,           \* time since the last member of the key, at most Quiet
    queue,
    worker,          \* the queue worker: [at, key, stamp, left, batch, to]
    sent,            \* Telegram: messages in destination chats
    copied,          \* state: the copies (indices in sent) each member maps to
    facts,           \* push facts submitted for each member
    clock,           \* stamps taken
    counted,         \* state: albums counted per destination
    faults,          \* albums Telegram did not take as a whole
    refused          \* observer: routes on which Telegram did not take a member

sourceVars == <<arrived, gone, update>>
albumVars  == <<albums, quiet>>
outVars    == <<sent, copied, facts, counted>>
faultVars  == <<faults, refused>>
vars == <<sourceVars, albumVars, queue, worker, outVars, clock, faultVars>>

NoUpdate == [msg |-> 0, rules |-> <<>>]
Free == [at |-> "free", key |-> <<0, 0>>, stamp |-> 0, left |-> 0, batch |-> <<>>, to |-> <<>>]

Routes == Members \X RuleIds \X Dsts

Task == [kind: {"collect"}, key: Keys, stamp: Nat]
          \cup [kind: {"forward"}, rule: RuleIds, dst: Dsts, batch: Seq(Members)]
          \cup [kind: {"stats"}, rule: RuleIds]
          \cup [kind: {"delete"}, msg: Members, stamp: Nat]

TypeOK ==
    /\ arrived \subseteq Members /\ gone \subseteq arrived
    /\ update \in [msg: Members \cup {0}, rules: Seq(RuleIds)]
    /\ albums \in [Keys -> Seq(Members)] /\ quiet \in [Keys -> 0..Quiet]
    /\ queue \in Seq(Task)
    /\ worker \in [at: {"free", "check", "sleep", "pop", "spread"}, key: Keys \cup {<<0, 0>>},
                   stamp: Nat, left: 0..Quiet, batch: Seq(Members), to: Seq(Dsts)]
    /\ sent \in Seq([msg: Members, rule: RuleIds, dst: Dsts, kept: BOOLEAN])
    /\ copied \in [Members -> SUBSET (1..Len(sent))]
    /\ facts \in [Members -> Seq([event: {"new", "deleted"}, rule: RuleIds \cup {0}, at: Nat])]
    /\ clock \in Nat /\ counted \in [Dsts -> Nat]
    /\ faults \in 0..MaxFaults /\ refused \subseteq Routes

Init ==
    /\ arrived = {} /\ gone = {} /\ update = NoUpdate
    /\ albums = [k \in Keys |-> <<>>] /\ quiet = [k \in Keys |-> Quiet]
    /\ queue = <<>> /\ worker = Free
    /\ sent = <<>> /\ copied = [m \in Members |-> {}]
    /\ facts = [m \in Members |-> <<>>] /\ clock = 0 /\ counted = [d \in Dsts |-> 0]
    /\ faults = 0 /\ refused = {}

(***************************************************************************)
(* The update loop                                                         *)
(***************************************************************************)

\* A member appears in the source chat and OnNewMessage starts with it.
OnNewMessage(m) ==
    /\ update = NoUpdate /\ m \notin arrived
    /\ arrived' = arrived \cup {m}
    /\ update' = IF Rules = <<>> THEN NoUpdate ELSE [msg |-> m, rules |-> Rules]
    /\ UNCHANGED <<gone, albumVars, queue, worker, outVars, clock, faultVars>>

\* Textless members are collected for the push facts alone, others unless a native rule
\* meets a protected message.
Collects(m, r) == IF m \in Textless THEN r \in Pushing
                  ELSE r \in Copying \/ m \notin Protected

\* AddMessage for the next rule; the first member queues the collection, stamped now.
AlwaysFirst(k) == TRUE                          \* mutant: every member starts a collection
IsFirst(k) == albums[k] = <<>>

AddMessage ==
    LET m == update.msg  r == Head(update.rules)  k == <<r, AlbumOf[m]>> IN
    /\ update # NoUpdate
    /\ update' = IF Len(update.rules) = 1 THEN NoUpdate ELSE [update EXCEPT !.rules = Tail(@)]
    /\ IF ~Collects(m, r) THEN UNCHANGED <<albumVars, queue, clock>>
       ELSE /\ albums' = [albums EXCEPT ![k] = Append(@, m)]
            /\ quiet' = [quiet EXCEPT ![k] = 0]
            /\ IF IsFirst(k)
               THEN /\ clock' = clock + 1
                    /\ queue' = Append(queue, [kind |-> "collect", key |-> k, stamp |-> clock + 1])
               ELSE UNCHANGED <<queue, clock>>
    /\ UNCHANGED <<arrived, gone, worker, outVars, faultVars>>

\* A member is deleted at the source; OnDeletedMessages stamps and queues it.
OnDeletedMessages(m) ==
    /\ update = NoUpdate /\ m \in arrived \ gone /\ Cardinality(gone) < MaxDeletes
    /\ gone' = gone \cup {m}
    /\ clock' = clock + 1
    /\ queue' = Append(queue, [kind |-> "delete", msg |-> m, stamp |-> clock + 1])
    /\ UNCHANGED <<arrived, update, albumVars, worker, outVars, faultVars>>

(***************************************************************************)
(* The collection task                                                     *)
(***************************************************************************)
NextTaskIs(kind) == worker = Free /\ queue # <<>> /\ Head(queue).kind = kind
Dequeue == queue' = Tail(queue)

StartCollect ==
    LET t == Head(queue) IN
    /\ NextTaskIs("collect") /\ Dequeue
    /\ worker' = [Free EXCEPT !.at = "check", !.key = t.key, !.stamp = t.stamp]
    /\ UNCHANGED <<sourceVars, albumVars, outVars, clock, faultVars>>

\* LastReceivedAge; a missing entry has age 0.
Age(k) == IF albums[k] = <<>> THEN 0 ELSE quiet[k]

CheckAge ==
    /\ worker.at = "check"
    /\ worker' = IF Age(worker.key) >= Quiet THEN [worker EXCEPT !.at = "pop"]
                 ELSE [worker EXCEPT !.at = "sleep", !.left = Quiet - Age(worker.key)]
    /\ UNCHANGED <<sourceVars, albumVars, queue, outVars, clock, faultVars>>

WakeUp ==
    /\ worker.at = "sleep" /\ worker.left = 0
    /\ worker' = [worker EXCEPT !.at = "check"]
    /\ UNCHANGED <<sourceVars, albumVars, queue, outVars, clock, faultVars>>

Tick ==
    /\ \/ \E k \in Keys : quiet[k] < Quiet
       \/ worker.at = "sleep" /\ worker.left > 0
    /\ quiet' = [k \in Keys |-> IF quiet[k] < Quiet THEN quiet[k] + 1 ELSE Quiet]
    /\ worker' = [worker EXCEPT !.left = IF @ > 0 THEN @ - 1 ELSE 0]
    /\ UNCHANGED <<sourceVars, albums, queue, outVars, clock, faultVars>>

\* PopMessages and the push facts, all with the stamp of the first member's arrival.
StampOfPop(s) == clock                          \* mutant: stamped after the collection
FactStamp(s) == s
Emitted(batch, r) ==
    {m \in Range(batch) : r \in Pushing /\ (m \in Textless \/ m \notin Filtered)}
Unpopped(k) == albums                           \* mutant: PopMessages keeps the entry
Popped(k) == [albums EXCEPT ![k] = <<>>]

Pop ==
    LET k == worker.key  batch == albums[k] IN
    /\ worker.at = "pop"
    /\ albums' = Popped(k)
    /\ facts' = [m \in Members |->
                   IF m \notin Emitted(batch, k[1]) THEN facts[m]
                   ELSE Append(facts[m], [event |-> "new", rule |-> k[1],
                                          at |-> FactStamp(worker.stamp)])]
    /\ worker' = [worker EXCEPT !.at = "spread", !.batch = batch, !.to = To[k[1]]]
    /\ UNCHANGED <<sourceVars, quiet, queue, sent, copied, counted, clock, faultVars>>

\* One task per destination (the tracker refuses one that comes again), and the
\* statistics task at the end.
NeverMarked(to, left) == FALSE                  \* mutant: no tracker
AlreadyMarked(to, left) == Head(left) \in Range(SubSeq(to, 1, Len(to) - Len(left)))

SpreadDst ==
    LET d == Head(worker.to) IN
    /\ worker.at = "spread" /\ worker.to # <<>>
    /\ queue' = IF AlreadyMarked(To[worker.key[1]], worker.to) THEN queue
                ELSE Append(queue, [kind |-> "forward", rule |-> worker.key[1], dst |-> d,
                                    batch |-> worker.batch])
    /\ worker' = [worker EXCEPT !.to = Tail(@)]
    /\ UNCHANGED <<sourceVars, albumVars, outVars, clock, faultVars>>

SpreadStats ==
    /\ worker.at = "spread" /\ worker.to = <<>>
    /\ queue' = Append(queue, [kind |-> "stats", rule |-> worker.key[1]])
    /\ worker' = Free
    /\ UNCHANGED <<sourceVars, albumVars, outVars, clock, faultVars>>

(***************************************************************************)
(* The tasks it queues, and the deletion                                   *)
(***************************************************************************)

\* forwardAlbum sorts the batch by message id; an id comes once in a batch.
Sorted(ids) ==
    [i \in 1..Cardinality(ids) |->
       CHOOSE m \in ids : Cardinality({n \in ids : n <= m}) = i]

\* Telegram takes a sorted batch but for what is missing, in the same order.
Without(batch, missing) == Sorted(Range(batch) \ missing)
Messages(batch, t) ==
    [i \in DOMAIN batch |-> [msg |-> batch[i], rule |-> t.rule, dst |-> t.dst, kept |-> TRUE]]

\* SendMessageAlbum answers with one message per content, nil where Telegram took none;
\* the mapping walks both lists together and stops at the first nil.
Compacted(batch, missing) ==                    \* mutant: nils removed before the walk
    {<<batch[i], i>> : i \in DOMAIN Without(batch, missing)}
Mapped(batch, missing) ==
    {<<batch[i], i>> : i \in {j \in DOMAIN batch : \A h \in 1..j : batch[h] \notin missing}}

\* Copy mode.  Telegram may take only some of the contents.
CopyAlbum(t, batch) ==
    \E missing \in SUBSET Range(batch) :
      /\ faults' = IF missing = {} THEN faults ELSE faults + 1
      /\ faults' <= MaxFaults
      /\ sent' = sent \o Messages(Without(batch, missing), t)
      /\ copied' = [m \in Members |-> copied[m] \cup
                      {Len(sent) + i : i \in {j \in DOMAIN batch : <<m, j>> \in Mapped(batch, missing)}}]
      /\ refused' = refused \cup (missing \X {t.rule} \X {t.dst})

\* Native mode: Telegram forwards what is still there and not protected.
ForwardNatively(t, batch) ==
    LET missing == Range(batch) \cap (gone \cup Protected) IN
    /\ sent' = sent \o Messages(Without(batch, missing), t)
    /\ refused' = refused \cup (missing \X {t.rule} \X {t.dst})
    /\ UNCHANGED <<copied, faults>>

ForwardAlbum ==
    LET t == Head(queue) IN
    /\ NextTaskIs("forward") /\ Dequeue
    /\ IF t.rule \in Copying THEN CopyAlbum(t, Sorted(Range(t.batch)))
                              ELSE ForwardNatively(t, Sorted(Range(t.batch)))
    /\ UNCHANGED <<sourceVars, albumVars, worker, facts, counted, clock>>

RunStats ==
    LET to == To[Head(queue).rule] IN
    /\ NextTaskIs("stats") /\ Dequeue
    /\ counted' = [d \in Dsts |-> counted[d] + Cardinality({i \in DOMAIN to : to[i] = d})]
    /\ UNCHANGED <<sourceVars, albumVars, worker, sent, copied, facts, clock, faultVars>>

\* deleteMessages: one fact for the message, then every copy it maps to.
RunDelete ==
    LET t == Head(queue) IN
    /\ NextTaskIs("delete") /\ Dequeue
    /\ facts' = IF Pushing = {} THEN facts
                ELSE [facts EXCEPT ![t.msg] =
                        Append(@, [event |-> "deleted", rule |-> 0, at |-> t.stamp])]
    /\ sent' = [i \in DOMAIN sent |->
                  IF i \in copied[t.msg] THEN [sent[i] EXCEPT !.kept = FALSE] ELSE sent[i]]
    /\ copied' = [copied EXCEPT ![t.msg] = {}]
    /\ UNCHANGED <<sourceVars, albumVars, worker, counted, clock, faultVars>>

UpdateLoop == AddMessage \/ \E m \in Members : OnNewMessage(m) \/ OnDeletedMessages(m)
Worker ==
    \/ StartCollect \/ CheckAge \/ WakeUp \/ Pop \/ SpreadDst \/ SpreadStats
    \/ ForwardAlbum \/ RunStats \/ RunDelete
Next == UpdateLoop \/ Worker \/ Tick

Spec == Init /\ [][Next]_vars

\* The update loop, the worker and the clock go on; Telegram owes no messages.
FairSpec == Spec /\ WF_vars(AddMessage) /\ WF_vars(Worker) /\ WF_vars(Tick)

(***************************************************************************)
(* Properties                                                              *)
(***************************************************************************)
AtRest == update = NoUpdate /\ queue = <<>> /\ worker = Free

\* A collection is queued or running for a key exactly as long as album.Service has an
\* entry for it.
Collections(k) ==
    Cardinality({i \in DOMAIN queue : queue[i].kind = "collect" /\ queue[i].key = k})
    + (IF worker.at \in {"check", "sleep", "pop"} /\ worker.key = k THEN 1 ELSE 0)
OneTaskPerEntry == \A k \in Keys : Collections(k) = (IF albums[k] = <<>> THEN 0 ELSE 1)

\* However the members of an album and its collections interleave, there is one collection
\* for an entry (one without an entry would hold the queue worker for ever, since
\* LastReceivedAge of a missing key is 0), and a member reaches each destination of a rule
\* that collects it at most once, and once the queue is empty exactly once unless Telegram
\* refused it; its new fact likewise.
Arrivals(m, r, d) ==
    Cardinality({i \in DOMAIN sent : sent[i].msg = m /\ sent[i].rule = r /\ sent[i].dst = d})
NewFacts(m, r) ==
    Cardinality({i \in DOMAIN facts[m] : facts[m][i].event = "new" /\ facts[m][i].rule = r})
EachMemberOnce ==
    /\ OneTaskPerEntry
    /\ \A m \in Members, r \in RuleIds :
      /\ NewFacts(m, r) <= 1
      /\ \A d \in Dsts : Arrivals(m, r, d) <= 1
      /\ AtRest /\ m \in arrived /\ Collects(m, r) =>
           /\ (NewFacts(m, r) = 1) <=> (m \in Emitted(<<m>>, r))
           /\ \A d \in Range(To[r]) : Arrivals(m, r, d) = 1 \/ <<m, r, d>> \in refused

\* Deleting one member of an album takes down its copies and no other member's, also
\* when Telegram took only part of the album and the answer has holes.
OnlyDeletedGo ==
    /\ TypeOK
    /\ \A i \in DOMAIN sent : ~sent[i].kept => sent[i].msg \in gone

\* A consumer that goes by occurred_at ends on the deletion of a deleted member: the new
\* fact, submitted after the quiet period, has an older stamp (comment, service.go:571).
FactsInOrder ==
    \A m \in Members : \A i, j \in DOMAIN facts[m] :
      facts[m][i].event = "new" /\ facts[m][j].event = "deleted"
        => facts[m][i].at < facts[m][j].at

\* The quiet period of an album ends: what was collected is handed on, and the queue
\* worker, which nothing else can use meanwhile, is free again.
AllCollected ==
    /\ \A k \in Keys : albums[k] # <<>> ~> albums[k] = <<>>
    /\ worker # Free ~> worker = Free

\* What 04_delete_sync.feature:7 promises: deleting the original deletes all copies.
\* The code breaks it: the deletion of a member runs between the collection and the
\* tasks the collection queued, finds no copies, and the member is copied after it.
DeletedEverywhere ==
    AtRest => \A i \in DOMAIN sent :
                sent[i].rule \in Copying /\ sent[i].msg \in gone => ~sent[i].kept

\* What the comment at service.go:573 says: a collection ends three seconds after the
\* last member.  The code breaks it: a member may come between LastReceivedAge and
\* PopMessages, and the one after it is then collected apart.
QuietBeforePop == [][\A k \in Keys : albums[k] # <<>> /\ albums'[k] = <<>> => quiet[k] = Quiet]_vars
================================================================================
