-------------------------------- MODULE SendWait --------------------------------
(***************************************************************************)
(* SendMessageAndWait and listenUpdates of internal/infra/telegram/repo.go *)
(* A call sends a message under a temporary id and waits for the permanent *)
(* one, which comes as an update: the one listener hands it over through   *)
(* pendingSends, and passes the relevant updates on to the engine.         *)
(***************************************************************************)
EXTENDS Integers, Sequences, FiniteSets

CONSTANTS
    Callers,
    Modes,       \* with business updates (the engine), without (the facade)
    Retries,     \* sendFloodWaitRetries
    OutletCap,   \* capacity of the outlet (100 in the code)
    MaxNews      \* bound: updates that are not about a sent message

ASSUME SendWaitAssumption ==
    /\ IsFiniteSet(Callers) /\ Modes \subseteq BOOLEAN
    /\ {Retries, MaxNews} \subseteq Nat /\ OutletCap \in Nat \ {0}

VARIABLES
    call,      \* each caller: [at, tries, id], id its temporary id or 0
    answer,    \* what the call returned
    sender,    \* Telegram: the caller of each temporary id
    fate,      \* Telegram: what became of each temporary id
    updates,   \* the client's listener channel
    pending,   \* pendingSends: temporary ids with a registered result channel
    box,       \* the result channel of each temporary id, at most one result
    listener,  \* listenUpdates: the update it wants to put into the outlet, or none
    business,  \* the repository's mode
    outlet,    \* r.updates
    news       \* updates not about a sent message so far

telegramVars == <<sender, fate>>
listenerVars == <<listener, business, outlet>>
vars == <<call, answer, telegramVars, updates, pending, box, listenerVars, news>>

Ids == DOMAIN sender

\* What may become of a message: the update that tells of it carries it.
Fates == {"sent", "flood", "failed"}
Update == [about: Nat, is: Fates \cup {"new chat", "new message"}]
Nothing == [about |-> 0, is |-> "new chat"]

TypeOK ==
    /\ call \in [Callers -> [at: {"idle", "sending", "store", "wait", "backoff", "done"},
                             tries: 0..Retries, id: Nat]]
    /\ answer \in [Callers -> {"none", "sent", "failed", "timeout", "cancelled"}]
    /\ sender \in Seq(Callers) /\ fate \in Seq(Fates \cup {"open"}) /\ Len(fate) = Len(sender)
    /\ updates \in Seq(Update)
    /\ pending \subseteq Ids /\ \A i \in Ids : Len(box[i]) <= 1 /\ box[i] \in Seq(Fates)
    /\ listener \in Update /\ outlet \in Seq(Update) /\ Len(outlet) <= OutletCap
    /\ news \in 0..MaxNews /\ business \in BOOLEAN /\ (~business => outlet = <<>>)

Init ==
    /\ call = [c \in Callers |-> [at |-> "idle", tries |-> 0, id |-> 0]]
    /\ answer = [c \in Callers |-> "none"]
    /\ sender = <<>> /\ fate = <<>> /\ updates = <<>>
    /\ pending = {} /\ box = <<>>
    /\ listener = Nothing /\ outlet = <<>> /\ news = 0 /\ business \in Modes

(***************************************************************************)
(* The calls                                                               *)
(***************************************************************************)
Goto(c, at) == call' = [call EXCEPT ![c].at = at]

Return(c, a) ==
    /\ Goto(c, "done")
    /\ answer' = [answer EXCEPT ![c] = a]

SendMessageAndWait(c) ==
    /\ call[c].at = "idle"
    /\ Goto(c, "sending")
    /\ UNCHANGED <<answer, telegramVars, updates, pending, box, listenerVars, news>>

\* SendMessage answers with a temporary id; the update about it may overtake the caller.
SendMessage(c) ==
    /\ call[c].at = "sending"
    /\ sender' = Append(sender, c) /\ fate' = Append(fate, "open")
    /\ box' = Append(box, <<>>)
    /\ call' = [call EXCEPT ![c].at = "store", ![c].id = Len(sender) + 1]
    /\ UNCHANGED <<answer, updates, pending, listenerVars, news>>

\* After a flood wait there are sendFloodWaitRetries retries, after other errors none.
AnyError(c, why) == call[c].tries < Retries     \* mutant: timeouts are retried as well
MayRetry(c, why) == why = "flood" /\ call[c].tries < Retries

GiveUpOrRetry(c, why, a) ==
    IF MayRetry(c, why) THEN Goto(c, "backoff") /\ UNCHANGED answer ELSE Return(c, a)

SendMessageFails(c) ==
    /\ call[c].at = "sending"
    /\ \E why \in {"flood", "failed"} : GiveUpOrRetry(c, why, "failed")
    /\ UNCHANGED <<telegramVars, updates, pending, box, listenerVars, news>>

SameTry(c) == call[c].tries                      \* mutant: the attempt is not counted
NextTry(c) == call[c].tries + 1

BackoffOver(c) ==
    /\ call[c].at = "backoff"
    /\ \/ call' = [call EXCEPT ![c].at = "sending", ![c].tries = NextTry(c), ![c].id = 0]
          /\ UNCHANGED answer
       \/ Return(c, "cancelled")
    /\ UNCHANGED <<telegramVars, updates, pending, box, listenerVars, news>>

Store(c) ==
    /\ call[c].at = "store"
    /\ pending' = pending \cup {call[c].id}
    /\ Goto(c, "wait")
    /\ UNCHANGED <<answer, telegramVars, updates, box, listenerVars, news>>

\* The deferred Delete at every return of sendMessageAndWaitOnce.
Left(c) == pending                              \* mutant: no deferred Delete
Deleted(c) == pending \ {call[c].id}

Receive(c) ==
    LET b == box[call[c].id] IN
    /\ call[c].at = "wait" /\ b # <<>>
    /\ box' = [box EXCEPT ![call[c].id] = <<>>]
    /\ IF Head(b) = "sent" THEN Return(c, "sent") ELSE GiveUpOrRetry(c, Head(b), "failed")
    /\ pending' = Deleted(c)
    /\ UNCHANGED <<telegramVars, updates, listenerVars, news>>

\* sendMessageTimeout or the caller's context.
TimeOut(c) ==
    /\ call[c].at = "wait"
    /\ \E a \in {"timeout", "cancelled"} : GiveUpOrRetry(c, a, a)
    /\ pending' = Deleted(c)
    /\ UNCHANGED <<telegramVars, updates, box, listenerVars, news>>

(***************************************************************************)
(* Telegram                                                                *)
(***************************************************************************)

\* A message gets its permanent id, or Telegram gives it up.
Decide(i) ==
    /\ fate[i] = "open"
    /\ \E f \in Fates :
         /\ fate' = [fate EXCEPT ![i] = f]
         /\ updates' = Append(updates, [about |-> i, is |-> f])
    /\ UNCHANGED <<call, answer, sender, pending, box, listenerVars, news>>

News ==
    /\ news < MaxNews
    /\ news' = news + 1
    /\ \E n \in {"new chat", "new message"} : updates' = Append(updates, [about |-> 0, is |-> n])
    /\ UNCHANGED <<call, answer, telegramVars, pending, box, listenerVars>>

(***************************************************************************)
(* The listener                                                            *)
(***************************************************************************)

\* isRelevantUpdate: of the outcomes of a send only the successful one.
Relevant(u) == u.is \in {"sent", "new message"}

\* deliverSendResult: LoadAndDelete, then the send into the result channel.
Misdelivered(i) == pending                      \* mutant: any registered channel
Receivers(i) == {j \in pending : j = i}

Listen ==
    LET u == Head(updates) IN
    /\ listener = Nothing /\ updates # <<>>
    /\ updates' = Tail(updates)
    /\ IF u.is \in Fates /\ Receivers(u.about) # {}
       THEN \E i \in Receivers(u.about) :
              /\ pending' = pending \ {i}
              /\ box' = [box EXCEPT ![i] = Append(@, u.is)]
       ELSE UNCHANGED <<pending, box>>
    /\ listener' = IF business /\ Relevant(u) THEN u ELSE Nothing
    /\ UNCHANGED <<call, answer, telegramVars, outlet, business, news>>

Publish ==
    /\ listener # Nothing /\ Len(outlet) < OutletCap
    /\ outlet' = Append(outlet, listener)
    /\ listener' = Nothing
    /\ UNCHANGED <<call, answer, telegramVars, updates, pending, box, business, news>>

\* The engine's update loop.
HandleUpdate ==
    /\ outlet # <<>>
    /\ outlet' = Tail(outlet)
    /\ UNCHANGED <<call, answer, telegramVars, updates, pending, box, listener, business, news>>

Step(c) ==
    \/ SendMessageAndWait(c) \/ SendMessage(c) \/ SendMessageFails(c) \/ BackoffOver(c)
    \/ Store(c) \/ Receive(c) \/ TimeOut(c)
Telegram == News \/ \E i \in Ids : Decide(i)
Next == Telegram \/ Listen \/ Publish \/ HandleUpdate \/ \E c \in Callers : Step(c)

Spec == Init /\ [][Next]_vars

\* A call that has begun goes on, its timer included; the listener and the engine too.
\* Telegram owes nothing.
FairSpec ==
    /\ Spec /\ WF_vars(Listen) /\ WF_vars(Publish) /\ WF_vars(HandleUpdate)
    /\ \A c \in Callers : WF_vars(call[c].at # "idle" /\ Step(c))

(***************************************************************************)
(* Properties                                                              *)
(***************************************************************************)
MessagesOf(c) == {i \in Ids : sender[i] = c}

\* A call brings at most one message into the chat, however many flood waits it met: an
\* attempt is repeated only when the one before it is known to have come to nothing.
OneMessagePerCall ==
    \A c \in Callers :
      Cardinality({i \in MessagesOf(c) : fate[i] \in {"open", "sent"}}) <= 1

\* What a call returns is what became of its own last message, not another caller's or
\* an earlier attempt's: "sent" means it is in the chat, "failed" that none is.
AnswerIsTrue ==
    \A c \in Callers :
      /\ answer[c] = "sent" => fate[call[c].id] = "sent"
      /\ answer[c] = "failed" => \A i \in MessagesOf(c) : fate[i] \in {"flood", "failed"}

\* pendingSends holds nothing but waiting calls, so it does not grow with lost results;
\* a result channel never gets a second result, on which the listener, and with it
\* every other call and the engine, would block (comment, repo.go:513).
NothingPendsForNobody ==
    /\ TypeOK
    /\ \A i \in pending : call[sender[i]].at = "wait" /\ call[sender[i]].id = i /\ box[i] = <<>>

\* Every call returns, and every update Telegram has sent is taken from the listener
\* although the outlet may be full at times.
CallsReturn ==
    /\ \A c \in Callers : call[c].at = "sending" ~> call[c].at = "done"
    /\ updates # <<>> ~> updates = <<>>
================================================================================
