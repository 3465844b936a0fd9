# Verification of budva

budva receives updates of Telegram chats through TDLib, puts each message to the rules of a
file that may change while it runs, copies or forwards it into destination chats, keeps the
copies in step with later edits and deletions, and submits facts about what it saw to
webhooks.  A second process, the facade, serves requests about messages and bots over gRPC
and GraphQL.  This directory holds TLA+ models of that program, TLC instances that check them,
and proofs that TLAPS checks.  Line numbers are those of the repository's `src/`.

```
tlc -workers 2 -config Forwarder_sync.cfg MCForwarder.tla     # any run: <run>.cfg with its MC module
tlapm Forwarder_proofs.tla                                    # any *_proofs module
```

`PROJECT.json` lists the components, the runs with their properties, a mutant of the model
for every checked property, the source lines every definition stands for, the hazards and
the main theorems.

## 1. Inventory

| Component | State | Operations | What makes it hard | What makes it correct |
|---|---|---|---|---|
| Forwarding engine, `app/handler/service.go` | none of its own but the runtime snapshot; tasks in the queue, goroutines, the store | `OnNewMessage`, `OnEditedMessage`, `OnDeletedMessages`, `OnMessageSendSucceeded`, edit and delete retries, next-link goroutine | update loop, one goroutine per edit, one queue worker, next-link goroutines; confirmations and failures at any time; crash between two calls or writes | copies follow the source; one copy per route; deletions take down copies of deleted messages only; replies stay in their thread; one fact per event |
| Media albums, `service/album` and `processMediaAlbum` | members per rule and album, age of the last | `AddMessage`, `LastReceivedAge`, `PopMessages`, the collection task | members, deletions and the pop interleave; the collection occupies the only worker; Telegram takes part of an album | each member once per destination; nothing else is deleted with it; the worker is freed |
| Task queue, `infra/queue` | a list of tasks | `Add`, the worker | tasks queue tasks; one worker | order, no task lost while the process lives |
| State store, `infra/state` | copied-id lists, new/temporary id maps, answers, statistics | set, get, delete of each | each write is a transaction, a failing one is only logged; a crash or a failure between those of one task | what is stored is true of its copy; maps are inverse but for copies whose write was lost |
| Push dispatcher, `service/push/dispatcher.go` | leases, closed flag, bounded buffers | `Submit*`, `Retire`, workers | submissions race retirement | no send on a closed channel; one attempt for an accepted event; `Retire` returns |
| Webhook sink, `service/push/delivery.go`, `webhook.go` | none | render, `Push`, redirect policy | schema chosen in the file, used much later; redirects | what is on the wire is what the file asked for |
| Push manager, `service/push/manager.go` | current generation, closed, mutex | `Replace`, `Close` | a reload holds the mutex while a generation retires | only the published generation serves |
| Engine wiring, `cmd/engine/main.go` | snapshot, watcher | load, publish, reload, shutdown | file changes against load, facts and shutdown | published rules are live, shutdown ends |
| Rule set repository, `infra/ruleset` | the watcher | `Load` (validate, transform, enrich, check), `WatchContext` | positive numbers turned to negative ids in six places; nil bodies | a file is refused or served as it says |
| Filters, `service/filters` | none | `Evaluate` | compiled at use | the first deciding test decides |
| Source opener, `infra/telegram/source_opener.go` | desired, opened, session flag | `ApplySet`, `OnSessionSwap`, reconcile | calls outside the lock, bounded passes | open once; no edge lost; converges |
| Chat readiness, `infra/telegram/warmup.go` | certificate table, warm flag and condition variable | `withReady`, bootstrap, session swap | sleepers on channels that are swapped, deleted, closed | one bootstrap; a sleeper is on the entry of the table it read last, the current one after any wakeup; every call returns |
| Telegram repository, `infra/telegram/repo.go` | pending sends, outlet, auth states | `SendMessageAndWait`, `listenUpdates`, `runAuthLoop` | result before registration, after timeout, full outlet | one message per call; true answers; no leak |
| Authorization, `app/auth`, terminal and HTTP | state, one input channel | `Run`, listeners, submits | several sources of input, late subscription | submits what TDLib asks for; stops |
| Text transformation, `service/transform`, `util/utf16.go` | none | translation, auto-answer, links of the source chat, fragments, sign, source, previous and next link | UTF-16 offsets of entities under replacements; every external call may fail | formatting stays on its words; links lead to the confirmed copies |
| Message inspection, `service/message` | none | formatted text, system message, reply markup, input content | nine kinds of content with and without a text | what is copied, and what only reported |
| Projection v2, `handler/projection_v2.go`, `service/push/messagev2` | none | project a message or a deletion, validate, render | what the projection leaves out the validation may demand | every message has a valid notification with the keys of the schema |
| Facade and gRPC, `transport/grpc`, `app/facade`, `client_adapter.go`, GraphQL status | the handler's place in its Telegram calls; goroutines of clicks; menus clients have read | sixteen requests, of one to three Telegram calls each | no client before the authorization ends and after `Close`; a click goroutine outlives its request; `withReady` repeats calls | a status is true of what Telegram did; what is clicked was offered; clicks end |
| Rate limiter, configuration, stand | — | — | — | not modelled, section 8 |

How they meet.  `main` builds everything, loads the rules and hands them to the source
opener (`ApplySet`), and together with a new push generation to the handler (`Replace`
publishes the snapshot).  TDLib's listener feeds three consumers: the readiness table, the
waiting sends, and through a bounded outlet the handler's update loop.  The handler reads the
snapshot once per update, queues tasks that keep it, and the one queue worker runs them
against Telegram and the store; a copy goes through the transformation, a fact through the
projection and the dispatcher to a webhook.  The watcher's goroutine runs reloads in itself.  Shutdown is
the chain of deferred calls of `run`.  The facade shares the Telegram repository and the
authorization with the engine and has neither rules nor store.

## 2. Modules

| Module | Models | State to code |
|---|---|---|
| `Forwarder` | update loop, edit resolvers, queue worker, next-link goroutines, store, Telegram | `queue`/`task`/`sending` are the queue and where the worker is in `forwardMessage`; `copied`, `newId`, `tmpId`, `answer` the store's buckets, `writes` the writes of the last three that the task has still to make (`WriteNext` makes one or loses it to an error); `torn` observes which copies had such a write lost; `chat` the messages in destination chats; `srcVer`/`srcGone` the source |
| `Mirror` | what readers of the destination chats see of the engine | abstract; `Forwarder` implements it (`MirrorsSource`): `made` is `chat` without replies and links, all else of the process is hidden |
| `AlbumCollector` | albums from the first member to the copies | `albums`/`quiet` are the album service, `worker.at` the position in the collection task |
| `PushGeneration` | one dispatcher generation | `activeLeases`, `retiring`, `buffer`, `closed` as in the code; `retirer` where each caller of `Retire` is |
| `AtMostOnce` | what `push/doc.go` promises of a generation | abstract; `PushGeneration` refines it (`KeepsPromise`) |
| `EngineReload` | `run`, watcher, load, manager, snapshot, facts in flight | `loader` the position in a load, `mutex` the manager's, generations are numbers |
| `SourceOpener` | `ApplySet`, `OnSessionSwap`, the worker | `pc`/`todo`/`current` the position in a reconciliation; `opens` TDLib's own count |
| `ChatWarmup` | the certificate table, `withReady`, `warmChatsOnce` | `certs`/`closed` entries of both tables and their channels, `cur` the table a call read last, `pc` its position |
| `SendWait` | `SendMessageAndWait`, `listenUpdates`, the outlet | `pending` is `pendingSends`, `box` the result channels |
| `AuthFlow` | `auth.Service.Run`, terminal, HTTP posts, TDLib's states | `inputs` is `inputChan`, `shown` is `authStateChan`, `given` the authorizer's channels |
| `Facade` | extends `AuthFlow`: gRPC handlers, facade service, wrappers of the client, menus, the GraphQL status | `rpc` is the handler at work, `clicks` the goroutines of `ClickCallbackButton`, `closed` is set by `Repo.Close` |
| `Filters` | `Evaluate` as operators | an expression is the matches it has in each text |
| `RuleSetLoad` | `Load` as operators | `Outcomes(file)`: ok, error, panic; `Loaded(file)`: the rule set |
| `TextTransform` | `Transform`, `AddNextLink` and their steps as operators | a text is code points, an entity a span in UTF-16 units |
| `MessageContent` | `service/message` as operators | a content is its type, its text, its file |
| `MessageV2` | projection, validation and rendering as operators | a notification is a record; its rendering the set of its keys |
| `WebhookSink` | one attempt per fact, redirects (on `RuleSetLoad` and `MessageV2`) | `attempt[t]` |
| `RuleRouting` | composes the last six with the handlers of new, edited and deleted messages | `rs` the published rule set, `routed` what one message caused |

`Forwarder` and `AlbumCollector` are steps as fine as the code's interleavings: a task is
several actions, one for each call of Telegram or write of the store that others can see; a crash
may come between any two of `Forwarder`'s.
`AlbumCollector` leaves confirmations and retries to `Forwarder`, `EngineReload` leaves the
inside of a retirement to `PushGeneration`, `RuleRouting` leaves tasks and copies to
`Forwarder` and treats a routing as the set of what is sent.  Each `MC<module>` gives one
component's constants small values.

Definitions marked `mutant` are the faulty variants `PROJECT.json` pairs with properties; no
specification uses them.

## 3. Runs

All runs end with the whole reachable state space of their instance.  `CHECK_DEADLOCK` is off
everywhere: the source chat may fall silent, the process may exit, calls end; that work which
should go on does go on is what the liveness properties say.

| Run | Instance and bounds | Properties | States |
|---|---|---|---|
| `Forwarder_sync` | one message; a rule copying to two chats, a native rule naming its destination twice with a check chat; one edit; sends may fail; 4 messages in destinations, 2 retries, 2 polls | `SyncedAtRest`, `OneCopyPerRoute`, `Drains` | 283 k |
| `Forwarder_batch` | two messages, the second a reply; a plain and an Indelible rule; deletions singly and in batches | `DeletedAtRest`, `RepliesStayInThread`, `OneFactPerEvent` | 262 k |
| `Forwarder_versions` | one message; a CopyOnce and an Indelible rule to one chat; one edit, one reload, one crash; edits, deletions, reads and each write of the store may fail; 3 messages in destinations, 1 retry, 1 poll | `LinksFollowVersions`, `NeverDeletesUnasked`, `MirrorsSource`, `CopyRefsSound`, `IdMapsAgree` | 8.83 M |
| `AlbumCollector` | three members (one without caption, one protected, one filtered out), a copying rule naming its destination twice, a native rule, one deletion, one partly refused album, quiet period of 2 ticks | `EachMemberOnce`, `OnlyDeletedGo`, `FactsInOrder`, `AllCollected` | 282 k |
| `PushGeneration` | three submissions over two endpoints, one name twice, one unknown; buffers of 1 and the default; two callers of `Retire` | `NeverPanics`, `KeepsPromise`, `RetireDrains` | 92 k |
| `EngineReload` | four kinds of contents, three changes of the file, one fact in flight | `PublishedIsLive`, `RestIsCurrent`, `ShutdownEnds` | 27 k |
| `SourceOpener` | two channels and a plain group, three loads, three faults, three passes, cancellation | `OpenOnceKeep`, `RestIsSettled`, `Converges` | 70 k |
| `ChatWarmup` | two calls for one chat, one departure of the dialog, one fault, one interval | `NobodySleepsOrphaned`, `EveryCallReturns` | 270 k |
| `SendWait` | two calls, one retry each, both update modes, an outlet of one, one other update | `OneMessagePerCall`, `AnswerIsTrue`, `NothingPendsForNobody`, `CallsReturn` | 821 k |
| `Facade` | one posted code, one rejection, one failed read or logout, late subscription; eight of the sixteen requests (one of each kind of wrapper and of each number of calls), three keyboards, one click goroutine at a time | `SubmitsWhatIsAsked`, `StatusIsTrue`, `ClicksAreOffered`, `CancelStops`, `ClicksEnd` | 669 k |
| `RuleRouting` | some ninety rules files around one base file, two loads in any order, one message for each load: new, edited or deleted, of every content, forward and reply; for twelve of the files texts with five layouts of links and marks and twelve ways the calls answer; three redirects | `RoutedAsTold`, `OnlyFatalFilesKill`, `WireIsTold`, `OnlyOddForwardsFail`, `FormattingStays` | 92 k |
| `RuleRouting_forward_source` | the same; expected violation | `ForwardsAreServed` | — |

Why the bounds are enough to be of use.  Two copies are needed for one to be confirmed and
the other not, which is what retries turn on; two retries give a first, a middle and a last
attempt (the code has three); one edit and one deletion meet each other and a confirmation in
every order; one crash at every step, also between two writes of one task, is as telling as two, since
the store is all that survives and its states are those of the first life.  Failing sends are in
`Forwarder_sync` alone, and one retry and three messages (two first copies and a version) keep
`Forwarder_versions` small, where everything else may fail; the proofs know neither limit.
Three submissions are
one more than a buffer of one holds beside the one in flight.  Two callers meet in every
pair-wise order.  Two loads are a rule set and its successor; the handlers of
`RuleRouting` remember nothing from one message to the next.  The texts there hold a code point
beyond the basic plane before, in and behind what is replaced, and a link of the source chat,
one of another chat and one behind words.  A second click goroutine would differ from the
first only in whose it is, and an abandoned one already outlives its request.  In the proofs of section 5
there are no bounds.

The type invariant of a module is the first conjunct of one of its invariants
(`OneFactPerEvent` for `Forwarder`, `OpenOnceKeep`,
`NobodySleepsOrphaned` by `OneBootstrap`, `PublishedIsLive`, `OnlyDeletedGo`, `NothingPendsForNobody`, `SubmitsWhatIsAsked`,
`StatusIsTrue`, `WireIsTold`), and for `PushGeneration` it is proved instead.

### The finding

`RuleRouting_forward_source`: a forwarded message has a source in Telegram's answer, with a
sender name only if the sender hides.  `v2ForwardFor` keeps the name when there is one within
bounds and leaves it empty otherwise, `marshal` writes it only when it is there
(`messagev2/serializer.go:184`), and the comment beside the bounds check says an out-of-bounds
value is "omitted instead of failing the whole endpoint" (`:403-405`).  But `validateForward`
(`:366`) refuses a source without a name or without one of its ids, so the notification of such
a forward fails as a whole and a v2 target gets nothing.  `OnlyOddForwardsFail`, which passes,
says that no other message has that fate.

## 4. Fairness

Weak fairness only, of what the process itself does: the queue worker, the update loop,
goroutines that were started, a call that has begun, timers.  Go's scheduler and timers justify
it; blocking points are guards of the actions, so a blocked goroutine is not assumed to move.
The one strong fairness is of `Deadline` in `ChatWarmup`: its case of a `select` may be ready
together with others again and again, and Go picks among ready cases at random.  Nothing is
assumed of Telegram, of users, of the operator, or of TDLib: confirmations need not come
(`Drains` holds without them, since retries are bounded), answers may not arrive (`CallsReturn`
rests on the timer) — also not to the one call behind a click: `ClicksEnd` has the handler end
by the ten seconds of its `callCtx`, and the goroutine once an answer is there.  In `Facade`
weak fairness is of the service, the listener, the terminal, the timer, the `select` and the
put into the result channel, all as long as no panic has ended the process.  `Push` in `PushGeneration` and the calls of the opener's worker end
because the code bounds them by timeouts or because the client's calls return.

Scope of the liveness properties: `Converges` and `RestIsSettled` except a reconciliation that
used up all its passes (the worker then sleeps until the next edge), and a session that never
comes: then nothing has to be open.

## 5. Proofs

`PushGeneration_proofs`, for any finite set of calls, any endpoints, retirers and buffer sizes
(assumption `GenerationAssumption`):

* `Safety`: `SafetyInv` is inductive.  It says that `activeLeases` counts the calls in their
  loop (which is why the set of calls has to be finite), that a closed channel means a
  retirement and no such call, and that a worker pushes exactly when it has an event.
  `NeverPanics` alone is not inductive: a step of a submitter keeps it only because no channel
  is closed while there is a lease.
* `TypeCorrect`: with `Bounded`, no channel holds more than its buffer.
* `NoSendOnClosedChannel`: `Spec => []NeverPanics`.
* `DeliversAtMostOnce`: `Spec => KeepsPromise`, the refinement of `AtMostOnce`.  `PromiseInv`
  says where an accepted event is: once in its buffer, in flight, or tried; `Retire` returns
  only with all workers gone, and those leave empty buffers.

`Forwarder_proofs`, for any messages, rules, destinations, bounds and faults (assumptions
`ConfigAssumption`, `OrderAssumption`, `BoundAssumption`).  The invariants stand on each other:
`IdInv`, then on it `CopyInv` and `FactsInv`, then on `CopyInv` `RouteInv`, then on `RouteInv`
`RestInv` and `SyncInv`, whose two theorems need further hypotheses, named with them, and
`MirrorInv`, which needs none.

* `TypeCorrect`: `Spec => []TypeOK`.  Not inductive by itself: a next-link goroutine and the
  forwarding of a version write to a message of a destination, which must exist
  (`LinkersSound`).
* `IdMapsAlwaysAgree`: `Spec => []IdMapsAgree`, from the inductive
  `IdInv == TypeOK /\ IdMapsAgree /\ MapTasksSound /\ WritesSound /\ LinkersSound`.  It is of
  every state between two writes and of crashes and errors there: `IdMapsAgree` says what is
  stored is never wrong, and that one map knows what the other does not, or either names a
  deleted message, only of a copy with a write lost or still to come.  `WritesSound` says where
  in its two or three writes the worker is and what of them the store has, so that the last one
  leaves the maps agreed (`Agrees`) unless one before it was lost.  `MapTasksSound` says that a
  mapping task in the queue is for a delivered message that has no mapping and has no other such
  task; without it a second task could bring back the mapping of a deleted copy.  The steps that
  do not leave the maps as they are: a confirmation (`ConfirmStep`), a write (`WriteStep`), a
  deletion (`UnmapStep`), and a crash between writes (`CrashSettles`).
* From the inductive `CopyInv`: `StoreIsTrue` (`Spec => []CopyRefsSound`),
  `DeletesOnlyWhatWasDeleted` (`Spec => NeverDeletesUnasked`), `RepliesKeepTheirThread`
  (`Spec => []RepliesStayInThread`), `LinksLeadToVersions` (`Spec => []LinksFollowVersions`).
  `CopyInv` says what every holder of a reference may count on.  A list in the store, and the
  list a loop of the worker has read and still walks through, names copies of its message, each
  route once; a list gone stale does no harm, because a stored id is that of a delivered message
  (`IdMapsAgree`).  Deletions in the queue and in work are of messages gone at the source.  What
  is sent and not yet recorded is still there, since only the same worker deletes.  Answers, stored
  or still to be written (`PendingSound`), replies and links lead where the properties say.  `ChatStable` is what no step does to a
  message of a destination; most steps keep `CopyInv` by it alone.
* `EventsAreToldOnce`: `Spec => []OneFactPerEvent`, of which `TypeOK` is a part; from `FactsInv`: the stamps of the facts
  told and of the tasks in the queue that will tell one are all different and none is ahead of
  the clock; a retry carries none.
* `RoutesAreServedOnce`: `Spec => []OneCopyPerRoute`, from `RouteInv`: a route of a message is
  begun once, and then it is in the chat, in the queue or in the hands of the worker; what the
  update loop has ahead of it is not begun; only copies have a temporary id to record.  This is
  what `OrderAssumption` is for: a rule that came twice in the order would copy twice.
* `DeletionsReachEveryCopy`: `Spec => []DeletedAtRest`, where the process neither crashes nor
  reloads its rules (`MaxCrashes = 0`, `MaxReloads = 0`) and neither deletions at Telegram nor writes
  of the store fail (`{"delete", "store"} \cap Faults = {}`); sends, edits and reads may fail.  `RestInv` keeps the account of what
  is still to be done.  A message gone at the source has its deletion in the queue behind every
  copy of it that waits there (`DeleteWaits`), or at work with the message ahead of it or a retry
  to come (`DeleteAtWork`), or nothing of it is left (`Clean`).  A delivered copy is in the list of
  its source or about to be recorded (`ListedInv`), and a deletion clears a list only once every
  copy in it is gone, is of an Indelible rule, or asked for a retry (`WalkedInv`).  That no copy is
  queued behind the deletion rests on the one update loop: it is at no message that is deleted
  (`GoneQuiet`).
* `EditsReachEveryCopy`: `Spec => []SyncedAtRest`, where besides no message is edited twice
  (`MaxVersion <= 2`), Telegram answers reads and edits, and the store takes its writes (`"edit"`,
  `"read"`, `"store" \notin Faults`); sends and deletions may fail.  `SyncInv` follows the edit in the same way: from its goroutine
  (`Resolving`), through the queue behind every copy of the first version (`EditWaits`) and the
  walk (`EditAtWork`: each copy recorded is still ahead, shows the second version, or the retry is
  to come), to its end (`EditDone`).  `AnswerInv` has the answer mapping agree with the version of
  every recorded copy at all times, counting the write that is still to come, not only at rest;
  `IntactInv` has no write lost and none waiting while a copy is being sent.

  No hypothesis can go: on the instances of the two runs TLC refutes the property once any one of
  them is dropped.  A crash loses the queue, a reload drops rules from a task, a failed call or write
  is logged and not retried, and two edits overtake each other (section 6).
* `ChatsMirrorTheSource`: `Spec => MirrorsSource`, with no further hypothesis: the engine implements
  `Mirror`, in which there is no queue, no store, no retry and no process that may die.  What a
  crash, a lost confirmation or a stale task can do to the chats is thereby bounded: something
  that should be there is missing or old, but a reader never sees a second first message of a
  route, a message where no rule sends it, a version the source has not had, a version beside
  nothing, or a copy taken down whose source stands.  `MirrorInv` adds to `RouteInv` what a task
  may still be relied on for when it is run, perhaps long after: a forward is of the first version
  and of a destination of its rule, an edit's version is one of the source's, a deletion has every
  rule unless there was a reload (`TaskTrue`); the same of the update loop (`LoopTrue`) and of the call
  in progress (`CallTrue`), where the copy a version follows was delivered (taken down
  since only if its id could not be removed from the store).  The map forgets all of the state but `chat`'s messages as seen
  (`Made`) and the source; `StepMirrors` takes each step to one of `Mirror` or to a stutter.

`AlbumCollector_proofs`, for any members, rules, repeated destinations, deletions, quiet periods
and albums Telegram takes in part (assumption `AlbumAssumption`):

* `AlbumInvariant`: `CollectInv == TypeOK /\ UpdateInv /\ WorkerInv /\ AlbumInv /\ PlaceInv /\
  TaskInv /\ StampInv /\ CopiedInv` is inductive.
* `MembersGoOnce`: `Spec => []EachMemberOnce`.  `PlaceInv` follows a member of a rule: the update
  loop has still to come to it, or it is in its album, in the hands of the worker, in a task for
  a destination, in the chat, or refused; nothing has happened with it in the first two places,
  and in the hands of the worker nothing for the destinations that are owed.  Each place excludes
  the others, so that a step moves a member and never doubles it.  `TaskInv` says why no album is
  left behind: an entry of the album service is there exactly while one collection, and no
  second, waits or is at work.
* `OnlyDeletedMembersGo`: `Spec => []OnlyDeletedGo`.  `CopiedInv` has the store map a member to
  copies of it.  That a part of an album is mapped right rests on the order of its members: the
  copies of what Telegram took stand in the order of the ids it took (`SortedPrefix`,
  `MappedToCopies`).
* `StampsInOrder`: `Spec => []FactsInOrder`, from `StampInv`: the stamps a collection has still to
  give are not ahead of the clock and before those of a deletion of the member, told or queued.

`RuleSet_proofs` has the rules in service: what the source opener makes of them, and what the
routing does by them.  For any chats, numbers of passes, edges and faults (assumption
`OpenerAssumption`):

* `OpensOnce`: `OpenerSpec => []OpenOnceKeep`, from the inductive `OpenInv == OpenOnceKeep /\
  WorkerInv`.  `WorkerInv` says that before the session comes nothing is open, so that the swap
  cannot fall between a call and its record, and that the worker's list never holds what is
  open already.
* `NoEdgeIsLost`: `OpenerSpec => []RestIsSettled`.  `RestInv` says that without a pending edge the
  worker is on its way to the current target set (`Progress`), and only `Wake` turns an edge
  into none.

For any rules files, messages, answers of Telegram and of the endpoints (assumption
`RoutingAssumption`: the shape of a decoded file and of a message as TDLib gives it, and that the
value that stands for an absent field is none of the fields):

* `RoutingInvariant`: `RoutingInv == PlainTypes /\ RuleSetInv /\ QueueInv /\ AttemptInv /\
  OnlyFatalFilesKill /\ RoutedAsTold` is inductive.  The published rule set is that of a file the
  loader accepted, and a message was handled under it alone (`RuleSetInv`); what waits for a
  target is a fact of that message for a target of the rule set (`QueueInv`); an attempt has in
  hand what its version is due, as far as it has come (`AttemptInv`).
* `MessagesGoWhereTold`: `Spec => []RoutedAsTold`.  The file and the rule set say the same in
  different signs: `RulesAsTold` and `TextAsTold` are that every number the file gives as
  positive is met as the negative id of a chat, so that a rule of the file and a rule of the
  handler choose the same destinations, settings and texts.  `EvaluateDecides` is what
  the filters' loop over exclude, include and submatches comes to: the first test that decides,
  decides.
* `NoOtherFileKills`: `Spec => []OnlyFatalFilesKill`; an accepted file has no entry without a body
  but among its targets (`PanicsOverNull`), and a filter panics only if it is not compiled or its
  group is negative (`FilterPanics`).
* `TargetsGetWhatTold`: `Spec => []WireIsTold`, from `AttemptInv` and `MarshalKeeps`: what is rendered
  has the keys of the schema and no others.
* `OthersAreFitForV2`: `Spec => []OnlyOddForwardsFail`.  `SnapshotValid` and `DeletionValid` put the
  projection against the validation field by field, for every content, reply, sender and forward.

`EngineReload_proofs`, for any contents of the rules file and any number of changes, loads and
facts (assumption `ReloadAssumption`):

* `PublishedGenerationIsLive`: `Spec => []PublishedIsLive`, and `RestIsAlwaysCurrent`:
  `Spec => []RestIsCurrent`, from the inductive `ReloadInv == TypeOK /\ LoadInv /\ MutexInv /\
  GenerationInv /\ RulesInv /\ FreshInv`.  It says who holds the push manager's mutex, that the
  generations retired and drained are all but the last one, and how far the handler's rules,
  the opener's sources and the file agree at each step of a load; before the shutdown, when
  no event waits, nothing of the file went unseen.

`SendWait_proofs`, for any calls, retries and size of the outlet (assumption
`SendWaitAssumption`), from the inductive `SendInv == Typed /\ OwnInv /\ ToldInv /\ PendingInv /\
AnswerInv`:

* `PendingIsWaiting` (`Spec => []NothingPendsForNobody`), `AnswersAreTrue`
  (`Spec => []AnswerIsTrue`), `CallsSendOnce` (`Spec => []OneMessagePerCall`).  Updates on their
  way and results in channels tell the true fate of their message (`ToldInv`); a registered
  channel is empty and belongs to a call that waits (`PendingInv`); the earlier messages of a call
  came to nothing by a flood wait, so that the last one is the only one that may stay (`OwnInv`).

`ChatWarmup_proofs`, for any calls, departures, faults and intervals (assumption
`WarmupAssumption`), from `WarmInv == TypeOK /\ BootInv /\ HeldInv`:

* `OneBootstrapAtATime`: the one call that loads the chats is why `inFlight` is set (`BootInv`).
* `SleepersAreReached`: `Spec => []NobodySleepsOrphaned`; every entry a call holds is closed or
  is the one of the table the call read last (`HeldInv`), through refutations, deadlines and other
  calls' failures; and the session's swap comes before the client, without which no call gets past
  its first try, so that whoever wakes reads the table that stays (`SwapInv`).

`Facade_proofs` (assumptions `AuthAssumption`, `FacadeAssumption`):

* `SubmissionsAreAskedFor`, of the authorization alone: `Spec => []SubmitsWhatIsAsked`, from
  `AuthInv == TypeOK /\ FlowInv /\ PromptInv /\ AskInv`.  What TDLib asks for is in one place
  at a time: told, taken by the service, or given.  While nothing is posted, the terminal's
  question is in one place too and is the one the service waits for; a posted input breaks
  that, which is why the property allows for it.
* `FacadeKeepsAuth`: `FacadeSpec => Spec`; the process with the facade is one of `AuthFlow`, so
  `FacadeSubmitsWhatIsAsked` follows from `SubmissionsAreAskedFor`.
* `StatusTellsTheTruth`: `FacadeSpec => []StatusIsTrue`, from `StatusInv == ShapeInv /\ RpcInv /\
  ClicksInv`: before the answer nothing is changed at Telegram unless a click has its result,
  and at most one goroutine works for the request.
* `OnlyOffersAreClicked`: `FacadeSpec => []ClicksAreOffered`, from `OfferInv`: what clients have read is
  the payload of a button that runs it, in one of the keyboards, and a goroutine at work carries
  one they have read.

Only model-checked: every liveness property, and one safety property.  `FormattingStays` of
`RuleRouting` is about folds over a text, an induction over data.  Liveness and `ENABLED` are
beyond the prover, and so is what a fold or a recursive function computes for every input;
where a least number is enough, an argument by the well-foundedness of the naturals does
(`LeastNumber`, for the filters).

## 6. What the documents say and the code does not keep

Each of these definitions is in its module and TLC refutes it on a small instance; they are not
among the runs, since each is a known consequence of the code's design and none is what the
properties above rest on.

| Definition | Says | How the code breaks it |
|---|---|---|
| `Forwarder!ShowsCurrentVersion` | "the current version is always in the target chat" (`02_edit_update.feature:5`) | two edits resolve in goroutines (`handler/service.go:185-199`) and queue in the other order |
| `Forwarder!NoSyncLoss` | eventual consistency does not lose synchronisation (`05_retry_eventual_consistency.feature:5`) | a confirmation after the third retry finds nobody (`:860-867`) |
| `Forwarder!DeletesAllCopies` | deleting the original deletes all copies (`04_delete_sync.feature:7`) | a version replaces the reference to the older one (`state/copies.go:22-46`) |
| `Forwarder!OneCopyPerVersion` | an edit makes a new copy (`01_versioning.feature:17`) | the retry one copy asked for versions the others again (`:791-808`) |
| `Forwarder!LastWriteWins` | the latest `occurred_at` is the state of the source (`push/doc.go:5`) | the stamp is taken after `GetMessage` (`:305`) |
| `EngineReload!RulesFollowFile` | edits are reloaded without a restart (`README.md:116`) | a change before the watch, or after a rename, is seen by nobody (`main.go:189-202`, `ruleset/repo.go:90`) |
| `ChatWarmup!RefutedIsLeft` | a refuted certificate is deleted so that the next select does not wake on it (`warmup.go:313`) | the call keeps its own reference to the closed entry and goes round again (`:302-322`) |
| `ChatWarmup!WaitsInCurrentTable` | the entry a waiter waits on is in the current table (`warmup.go:281-282`) | a call reads its table at `:249` and tries at `:252`; with the swap and the client's arrival in between it waits on an open entry of the retired table, until its own tick or deadline; from its first wakeup on the comment is right (`:300-302`) |
| `AlbumCollector!QuietBeforePop` | the collection ends three seconds after the last member (`handler/service.go:573`) | a member may come between `LastReceivedAge` and `PopMessages` (`:575-586`) |
| `AlbumCollector!DeletedEverywhere` | as `DeletesAllCopies` | a deletion runs between the collection and the tasks it queued (`:632`) |
| `EngineReload!KeepsServing` | a failed reload leaves the old snapshot in service (`.trellis/tasks/archive/2026-10/10-29-budva-push-stall/design.md:107`) | an entry with a name and no body is a nil pointer that `validate` follows (`ruleset/repo.go:158`) in the watcher's goroutine, without a recover |
| `RuleRouting!EntitiesStayValid` | replacing from the last link to the first keeps the entities valid (`transform/service.go:230-231`) | a mark that begins before a link and covers it keeps its length, one that begins with it gets the link's (`:337`) |
| `Facade!FloodIsTold` | a flood wait is `ResourceExhausted` (`.trellis/tasks/archive/2026-11/11-04-bot-menu-grpc/design.md:155,159`) | `GetInlineMenu` asks `GetChat` first, whose wrapper does not type it |
| `AuthFlow!PromptReaches` | the first authorization is interactive (`README.md:109`) | a listener that subscribes after the first state is told nothing (`auth/service.go:92-104`, `term/transport.go:75`) |

A crash or a failing write in the middle of a task leaves the store as it is then, for good:
between `handler/service.go:333` and `:336` a copy whose new id is known but not its temporary one,
between `:920` and `:923` the reverse, between `:913` and `:926` an answer mapping of a copy that
is no longer there, after `:913` alone the whole mapping of it.  `IdMapsAgree` and `CopyRefsSound`
say that only copies with a lost write are left so, and that what is stored of them is still
theirs.

Also met while modelling, and in the models as the code has it: an expression that does not
compile passes the load and panics at the next message (`filters/service.go:33`), as does a
negative submatch group; only `from` and `to` are checked to be positive; rules that feed each
other are accepted; a webhook that answers 301, 302 or 303 gets a GET without the body, and a
2xx to that counts as delivered; a late result of a send is dropped and the call reports a
timeout for a message that was sent; everything but texts and six kinds of media counts as a
system message; a deleted-link text that is configured is used by nobody; an edit passes its
sources to every destination of a rule, a new message only to the first; the facade starts
its servers before TDLib is authorized, when the client is nil: a gRPC request that comes then
panics, GraphQL recovers, and a click that is late enough to find the client closed ends the
process.

## 7. Abstractions

* Updates reach the handler at once and in order, except edits, which resolve in goroutines as
  in the code; the outlet is in `SendWait`.
* `Forwarder`: a task's writes of the id and answer maps are steps of their own, as are those of
  the lists; each may fail.  The counters of one statistics task go up in one step: nothing reads
  them.  A read of the store that fails is left out.  The next-link goroutine is started with the
  write of the list, before that of the answer, which it does not read.
* `Forwarder` has one source chat, answers of the filters in place of texts, and versions of a
  message in place of its contents.  The rules have one order, that of all the rules; the code
  takes the keys of a map at each load (`infra/ruleset/repo.go`), a new order each time, over the
  rules of that load.  `occurred_at` is a per-message stamp.  The statistics are
  those of one day.  Submitters are taken to be set.  No passing run has a protected message
  under a native rule in `Forwarder` (`AlbumCollector` and `RuleRouting` do).
* `AlbumCollector` confirms copies at once; time is ticks, at most `Quiet` of them remembered.
* `EngineReload` retires a generation in two steps, refuse and drain; leases are in
  `PushGeneration`.
* `ChatWarmup` follows one chat; other chats are met in the bootstrap only.  One session swap,
  as in the program.  The classification of errors is two outcomes, refused or another error.
* `SendWait` has one chat; a flood wait is an outcome, its length is not.
* `AuthFlow` has kinds of input, not inputs; a password that is wrong is a rejection.
* `Facade`: one handler at a time; that the gRPC server lets it end before `Close` is the
  library's.  A row of a menu is the set of its buttons.  Whether a panic in a handler ends the process is left open except for GraphQL,
  whose chain recovers; in a click goroutine it always does.  What a request reads (messages, bot
  profiles) is left out but for menus.
* `RuleRouting`: an expression is its matches in each text; headers are one predicate, URLs
  three kinds; list entries without a body are left out; ways an attempt fails are one outcome.
  What Telegram and the store answer while a message is handled comes with the message.  Strings
  of a notification are names within or out of bounds; a rendering is its keys, without their
  values, and the entities of a text are a set, without their order.
* `TextTransform`: a code point beyond the basic plane is the units `c` and `-c`; nothing cuts
  between them, as nothing in Telegram's entities does.  Markdown is what is written and what
  Telegram makes of it.

## 8. Not modelled

The rate limiter: a wait before each send which delays the one worker and knows no other caller;
`Forwarder` lets any time pass there.  Configuration reads the environment once.  The stand and
the live-test harness are tools around the program.  The generated code of gRPC and GraphQL,
metrics and the terminal's menu have no behaviour of the program's own.  TDLib, Badger and the
endpoints of webhooks are external and modelled by what the code relies on.  `PROJECT.json` has
a line for each component.

## 9. Plan

Done, in this order: `Forwarder`, later with `Mirror`, `PushGeneration` with `AtMostOnce`, `SourceOpener`,
`EngineReload`, `ChatWarmup`, `AlbumCollector`, `SendWait`, `AuthFlow`, `RuleRouting` with its
modules of operators, `Facade`; the proofs of section 5.

Next, the model: `Forwarder` with the albums' tasks in the same queue, so that a member's edit
and its album's copies meet.

Next, the proofs: of `FormattingStays`, the single step that shifts the entities of a text behind
a replacement, its invariant first checked on the run.  Of the other modules only liveness is left.
