---------------------------- MODULE SendWait_proofs ----------------------------
(***************************************************************************)
(* Proofs about SendMessageAndWait and its listener, for any callers,      *)
(* numbers of retries, modes and outlets.                                  *)
(***************************************************************************)
EXTENDS SendWait, FiniteSetTheorems, TLAPS

CallRecord == [at: {"idle", "sending", "store", "wait", "backoff", "done"},
               tries: 0..Retries, id: Nat]

\* The parts of the type, with one result channel for each message.
CallTyped ==
    /\ call \in [Callers -> CallRecord]
    /\ answer \in [Callers -> {"none", "sent", "failed", "timeout", "cancelled"}]
MessagesTyped ==
    /\ sender \in Seq(Callers) /\ fate \in Seq(Fates \cup {"open"}) /\ Len(fate) = Len(sender)
ChannelsTyped ==
    /\ box \in Seq(Seq(Fates)) /\ Len(box) = Len(sender)
    /\ pending \subseteq Ids /\ \A i \in Ids : Len(box[i]) <= 1
QueuesTyped ==
    /\ updates \in Seq(Update) /\ listener \in Update
    /\ outlet \in Seq(Update) /\ Len(outlet) <= OutletCap
    /\ business \in BOOLEAN /\ (~business => outlet = <<>> /\ listener = Nothing)
NewsTyped == news \in 0..MaxNews

Typed == CallTyped /\ MessagesTyped /\ ChannelsTyped /\ QueuesTyped /\ NewsTyped

\* A call's id is one of its own messages; every earlier one came to nothing by a flood
\* wait, as the last one has when the call waits to repeat it.
OwnInv ==
    \A c \in Callers :
        /\ call[c].id # 0 => call[c].id \in Ids /\ sender[call[c].id] = c
        /\ call[c].at \in {"idle", "sending"} => call[c].id = 0
        /\ call[c].at \in {"store", "wait"} => call[c].id # 0
        /\ call[c].at = "backoff" => /\ call[c].tries < Retries
                                     /\ call[c].id # 0 => fate[call[c].id] = "flood"
        /\ \A i \in Ids : sender[i] = c /\ i # call[c].id => fate[i] = "flood"

\* What is told of a message, in an update or in its channel, is what became of it.
ToldInv ==
    /\ \A k \in 1..Len(updates) : updates[k].is \in Fates =>
           updates[k].about \in Ids /\ fate[updates[k].about] = updates[k].is
    /\ \A i \in Ids : box[i] # <<>> => Head(box[i]) = fate[i]

\* A channel is registered only while its call waits at it, and is empty before that.
PendingInv ==
    /\ \A i \in pending : call[sender[i]].at = "wait" /\ call[sender[i]].id = i /\ box[i] = <<>>
    /\ \A c \in Callers : call[c].at = "store" => box[call[c].id] = <<>>

\* An answer is the end of its call, and true.
AnswerInv ==
    \A c \in Callers :
        /\ answer[c] # "none" => call[c].at = "done"
        /\ answer[c] = "sent" => call[c].id # 0 /\ fate[call[c].id] = "sent"
        /\ answer[c] = "failed" => call[c].id = 0 \/ fate[call[c].id] \in {"flood", "failed"}

SendInv == Typed /\ OwnInv /\ ToldInv /\ PendingInv /\ AnswerInv

LEMMA TypedIsTypeOK == Typed => TypeOK
  <1> SUFFICES ASSUME Typed PROVE TypeOK
    OBVIOUS
  <1>1. \A i \in Ids : box[i] \in Seq(Fates)
    BY DEF Typed, ChannelsTyped, MessagesTyped, Ids
  <1> QED
    BY <1>1 DEF Typed, TypeOK, CallTyped, CallRecord, MessagesTyped, ChannelsTyped, QueuesTyped, NewsTyped

LEMMA InitInv == Init => SendInv
  <1> SUFFICES ASSUME Init PROVE SendInv
    OBVIOUS
  <1> USE SendWaitAssumption
  <1>1. Ids = {} /\ Len(updates) = 0
    BY DEF Init, Ids
  <1>2. CallTyped /\ NewsTyped
    BY DEF Init, CallTyped, CallRecord, NewsTyped
  <1>6. MessagesTyped
    BY DEF Init, MessagesTyped
  <1>3. ChannelsTyped
    BY <1>1 DEF Init, ChannelsTyped
  <1>4. QueuesTyped
    <2>1. business \in BOOLEAN
      BY DEF Init
    <2>2. Nothing \in Update
      BY DEF Nothing, Update
    <2> QED
      BY <2>1, <2>2 DEF Init, QueuesTyped
  <1>5. OwnInv /\ ToldInv /\ PendingInv /\ AnswerInv
    BY <1>1 DEF Init, OwnInv, ToldInv, PendingInv, AnswerInv
  <1> QED
    BY <1>2, <1>3, <1>4, <1>5, <1>6 DEF SendInv, Typed

(***************************************************************************)
(* The calls                                                               *)
(***************************************************************************)

\* A step of one call which changes no message: what its new state must say of its own
\* messages is all there is to show.
Becomes(c, r, a) ==
    /\ call' = [call EXCEPT ![c] = r] /\ answer' = [answer EXCEPT ![c] = a]
    /\ UNCHANGED telegramVars

LEMMA CallBecomes ==
    ASSUME SendInv, NEW c \in Callers, NEW r \in CallRecord,
           NEW a \in {"none", "sent", "failed", "timeout", "cancelled"}, Becomes(c, r, a),
           r.id # call[c].id => r.id = 0 /\ (call[c].id # 0 => fate[call[c].id] = "flood"),
           r.at \in {"idle", "sending"} => r.id = 0,
           r.at \in {"store", "wait"} => r.id # 0,
           r.at = "backoff" => r.tries < Retries /\ (r.id # 0 => fate[r.id] = "flood"),
           a # "none" => r.at = "done",
           a = "sent" => r.id # 0 /\ fate[r.id] = "sent",
           a = "failed" => r.id = 0 \/ fate[r.id] \in {"flood", "failed"}
    PROVE  CallTyped' /\ OwnInv' /\ AnswerInv'
  <1> USE DEF SendInv, Typed, Becomes, telegramVars, Ids
  <1>1. CallTyped'
    BY DEF CallTyped
  <1>2. /\ call'[c] = r /\ answer'[c] = a
        /\ \A d \in Callers : d # c => call'[d] = call[d] /\ answer'[d] = answer[d]
    BY DEF CallTyped
  <1>3. OwnInv'
    BY <1>2 DEF OwnInv
  <1>4. AnswerInv'
    BY <1>2 DEF AnswerInv
  <1> QED
    BY <1>1, <1>3, <1>4

\* When it leaves its channel, or had none, the others' channels stay as they are.
LEMMA ChannelLeft ==
    ASSUME SendInv, NEW c \in Callers, NEW r \in CallRecord, NEW a, Becomes(c, r, a),
           r.at \notin {"store", "wait"},
           pending' = pending \ {call[c].id} \/ (pending' = pending /\ call[c].at # "wait"),
           \A i \in Ids : i # call[c].id => box'[i] = box[i]
    PROVE  PendingInv'
  <1> USE DEF SendInv, Typed, CallTyped, MessagesTyped, ChannelsTyped, PendingInv, OwnInv, Ids
  <1>1. \A d \in Callers : call'[d] = IF d = c THEN r ELSE call[d]
    BY DEF Becomes
  <1>2. \A i \in pending : sender[i] \in Callers /\ i \in Ids
    OBVIOUS
  <1>3. pending' \subseteq pending /\ \A i \in pending' : sender[i] # c /\ i # call[c].id
    BY <1>2
  <1>4. \A i \in pending' : call'[sender'[i]].at = "wait" /\ call'[sender'[i]].id = i /\ box'[i] = <<>>
    BY <1>1, <1>2, <1>3 DEF Becomes, telegramVars
  <1>5. ASSUME NEW d \in Callers, call'[d].at = "store" PROVE box'[call'[d].id] = <<>>
    <2>1. d # c /\ call'[d] = call[d]
      BY <1>1, <1>5
    <2>2. call[d].id \in Ids /\ call[d].id # call[c].id
      BY <1>5, <2>1
    <2> QED BY <1>5, <2>1, <2>2
  <1> QED
    BY <1>4, <1>5

LEMMA SendMessageAndWaitStep ==
    ASSUME SendInv, NEW c \in Callers, SendMessageAndWait(c)
    PROVE  SendInv'
  <1> DEFINE r == [call[c] EXCEPT !.at = "sending"]
  <1>1. r \in CallRecord /\ answer[c] = "none" /\ Becomes(c, r, answer[c])
    BY DEF SendMessageAndWait, Goto, Becomes, SendInv, Typed, CallTyped, CallRecord, AnswerInv
  <1>2. r.id = 0 /\ r.at = "sending" /\ call[c].id = 0 /\ call[c].at = "idle"
    BY DEF SendMessageAndWait, SendInv, Typed, CallTyped, CallRecord, OwnInv
  <1>3. CallTyped' /\ OwnInv' /\ AnswerInv'
    <2> HIDE DEF r
    <2> QED BY <1>1, <1>2, CallBecomes
  <1>4. PendingInv'
    <2> HIDE DEF r
    <2> QED BY <1>1, <1>2, ChannelLeft DEF SendMessageAndWait
  <1> QED
    BY <1>3, <1>4 DEF SendMessageAndWait, SendInv, Typed, MessagesTyped, ChannelsTyped,
           QueuesTyped, NewsTyped, ToldInv, telegramVars, listenerVars, Ids

LEMMA SendMessageFailsStep ==
    ASSUME SendInv, NEW c \in Callers, SendMessageFails(c)
    PROVE  SendInv'
  <1>1. PICK r \in CallRecord, a \in {"none", "failed"} :
           /\ Becomes(c, r, a) /\ r.id = 0
           /\ \/ a = "none" /\ r.at = "backoff" /\ r.tries < Retries
              \/ a = "failed" /\ r.at = "done"
    <2>1. PICK why \in {"flood", "failed"} : GiveUpOrRetry(c, why, "failed")
      BY DEF SendMessageFails
    <2>2. call[c].id = 0 /\ call[c] \in CallRecord /\ answer[c] = "none"
      BY DEF SendMessageFails, SendInv, Typed, CallTyped, CallRecord, OwnInv, AnswerInv
    <2>3. CASE MayRetry(c, why)
      <3> DEFINE r == [call[c] EXCEPT !.at = "backoff"]
      <3>1. r \in CallRecord /\ Becomes(c, r, "none") /\ r.id = 0 /\ r.at = "backoff" /\ r.tries < Retries
        BY <2>1, <2>2, <2>3 DEF GiveUpOrRetry, MayRetry, Goto, SendMessageFails, Becomes, SendInv, Typed, CallTyped, CallRecord
      <3> QED BY <3>1
    <2>4. CASE ~MayRetry(c, why)
      <3> DEFINE r == [call[c] EXCEPT !.at = "done"]
      <3>1. r \in CallRecord /\ Becomes(c, r, "failed") /\ r.id = 0 /\ r.at = "done"
        BY <2>1, <2>2, <2>4 DEF GiveUpOrRetry, Return, Goto, SendMessageFails, Becomes, SendInv, Typed, CallTyped, CallRecord
      <3> QED BY <3>1
    <2> QED BY <2>3, <2>4
  <1>2. call[c].id = 0 /\ call[c].at = "sending"
    BY DEF SendMessageFails, SendInv, OwnInv
  <1>3. CallTyped' /\ OwnInv' /\ AnswerInv'
    BY <1>1, <1>2, CallBecomes
  <1>4. PendingInv'
    BY <1>1, <1>2, ChannelLeft DEF SendMessageFails
  <1> QED
    BY <1>3, <1>4 DEF SendMessageFails, SendInv, Typed, MessagesTyped, ChannelsTyped,
           QueuesTyped, NewsTyped, ToldInv, telegramVars, listenerVars, Ids

LEMMA BackoffOverStep ==
    ASSUME SendInv, NEW c \in Callers, BackoffOver(c)
    PROVE  SendInv'
  <1>1. PICK r \in CallRecord, a \in {"none", "cancelled"} :
           /\ Becomes(c, r, a)
           /\ \/ a = "none" /\ r.at = "sending" /\ r.id = 0
              \/ a = "cancelled" /\ r.at = "done" /\ r.id = call[c].id
    <2>1. call[c] \in CallRecord /\ answer[c] = "none" /\ call[c].at = "backoff"
      BY DEF BackoffOver, SendInv, Typed, CallTyped, AnswerInv
    <2>2. CASE UNCHANGED answer
      <3> DEFINE r == [call[c] EXCEPT !.at = "sending", !.tries = NextTry(c), !.id = 0]
      <3>1. r \in CallRecord /\ Becomes(c, r, "none") /\ r.id = 0 /\ r.at = "sending"
        <4>1. call[c].tries + 1 \in 0..Retries
          <5>1. Retries \in Nat /\ call[c].tries \in 0..Retries
            BY <2>1, SendWaitAssumption DEF CallRecord
          <5>2. call[c].tries < Retries
            BY <2>1 DEF SendInv, OwnInv
          <5> QED BY <5>1, <5>2
        <4> QED
          BY <2>1, <2>2, <4>1 DEF Return, NextTry, BackoffOver, Becomes, SendInv, Typed, CallTyped, CallRecord
      <3> QED BY <3>1
    <2>3. CASE Return(c, "cancelled")
      <3> DEFINE r == [call[c] EXCEPT !.at = "done"]
      <3>1. r \in CallRecord /\ Becomes(c, r, "cancelled") /\ r.id = call[c].id /\ r.at = "done"
        BY <2>1, <2>3 DEF Return, Goto, BackoffOver, Becomes, SendInv, Typed, CallTyped, CallRecord
      <3> QED BY <3>1
    <2> QED BY <2>2, <2>3 DEF BackoffOver
  <1>2. call[c].at = "backoff" /\ (call[c].id # 0 => fate[call[c].id] = "flood")
    <2>1. call[c].at = "backoff"
      BY DEF BackoffOver
    <2> QED BY <2>1 DEF SendInv, OwnInv
  <1>3. CallTyped' /\ OwnInv' /\ AnswerInv'
    BY <1>1, <1>2, CallBecomes
  <1>4. PendingInv'
    BY <1>1, <1>2, ChannelLeft DEF BackoffOver
  <1> QED
    BY <1>3, <1>4 DEF BackoffOver, SendInv, Typed, MessagesTyped, ChannelsTyped,
           QueuesTyped, NewsTyped, ToldInv, telegramVars, listenerVars, Ids

LEMMA TimeOutStep ==
    ASSUME SendInv, NEW c \in Callers, TimeOut(c)
    PROVE  SendInv'
  <1>1. PICK r \in CallRecord, a \in {"timeout", "cancelled"} :
           Becomes(c, r, a) /\ r.at = "done" /\ r.id = call[c].id
    <2>1. PICK a \in {"timeout", "cancelled"} : GiveUpOrRetry(c, a, a)
      BY DEF TimeOut
    <2>2. Return(c, a) /\ call[c] \in CallRecord
      BY <2>1 DEF GiveUpOrRetry, MayRetry, SendInv, Typed, CallTyped
    <2> DEFINE r == [call[c] EXCEPT !.at = "done"]
    <2>3. r \in CallRecord /\ Becomes(c, r, a) /\ r.at = "done" /\ r.id = call[c].id
      BY <2>2 DEF Return, Goto, TimeOut, Becomes, SendInv, Typed, CallTyped, CallRecord
    <2> QED BY <2>3
  <1>2. CallTyped' /\ OwnInv' /\ AnswerInv'
    BY <1>1, CallBecomes
  <1>3. PendingInv'
    BY <1>1, ChannelLeft DEF TimeOut, Deleted
  <1> QED
    BY <1>2, <1>3 DEF TimeOut, Deleted, SendInv, Typed, MessagesTyped, ChannelsTyped,
           QueuesTyped, NewsTyped, ToldInv, telegramVars, listenerVars, Ids

LEMMA ReceiveStep ==
    ASSUME SendInv, NEW c \in Callers, Receive(c)
    PROVE  SendInv'
  <1> DEFINE id == call[c].id
             got == Head(box[id])
  <1>1. /\ call[c] \in CallRecord /\ call[c].at = "wait" /\ answer[c] = "none"
        /\ id \in Ids /\ id # 0 /\ fate[id] = got /\ got \in Fates
    <2>1. call[c] \in CallRecord /\ call[c].at = "wait" /\ answer[c] = "none" /\ box[id] # <<>>
      BY DEF Receive, SendInv, Typed, CallTyped, AnswerInv
    <2>2. id \in Ids /\ id # 0
      BY <2>1 DEF SendInv, OwnInv
    <2>3. fate[id] = got /\ box[id] \in Seq(Fates)
      BY <2>1, <2>2 DEF SendInv, ToldInv, Typed, ChannelsTyped, MessagesTyped, Ids
    <2> QED BY <2>1, <2>2, <2>3
  <1>2. PICK r \in CallRecord, a \in {"none", "sent", "failed"} :
           /\ Becomes(c, r, a) /\ r.id = id
           /\ \/ a = "none" /\ r.at = "backoff" /\ r.tries < Retries /\ got = "flood"
              \/ a = "sent" /\ r.at = "done" /\ got = "sent"
              \/ a = "failed" /\ r.at = "done" /\ got \in {"flood", "failed"}
    <2>1. CASE got # "sent" /\ MayRetry(c, got)
      <3> DEFINE r == [call[c] EXCEPT !.at = "backoff"]
      <3>1. /\ r \in CallRecord /\ Becomes(c, r, "none") /\ r.id = id /\ r.at = "backoff"
            /\ r.tries < Retries /\ got = "flood"
        BY <1>1, <2>1 DEF Receive, GiveUpOrRetry, MayRetry, Goto, Becomes, SendInv, Typed, CallTyped, CallRecord
      <3> QED BY <3>1
    <2>2. CASE got = "sent"
      <3> DEFINE r == [call[c] EXCEPT !.at = "done"]
      <3>1. r \in CallRecord /\ Becomes(c, r, "sent") /\ r.id = id /\ r.at = "done"
        BY <1>1, <2>2 DEF Receive, Return, Goto, Becomes, SendInv, Typed, CallTyped, CallRecord
      <3> QED BY <2>2, <3>1
    <2>3. CASE got # "sent" /\ ~MayRetry(c, got)
      <3> DEFINE r == [call[c] EXCEPT !.at = "done"]
      <3>1. r \in CallRecord /\ Becomes(c, r, "failed") /\ r.id = id /\ r.at = "done"
        BY <1>1, <2>3 DEF Receive, GiveUpOrRetry, Return, Goto, Becomes, SendInv, Typed, CallTyped, CallRecord
      <3>2. got \in {"flood", "failed"}
        BY <1>1, <2>3 DEF Fates
      <3> QED BY <3>1, <3>2
    <2> QED BY <2>1, <2>2, <2>3
  <1>3. CallTyped' /\ OwnInv' /\ AnswerInv'
    BY <1>1, <1>2, CallBecomes
  <1>4. box' = [box EXCEPT ![id] = <<>>] /\ pending' = pending \ {id}
    BY DEF Receive, Deleted
  <1>5. PendingInv'
    <2>1. r.at \notin {"store", "wait"} /\ Becomes(c, r, a)
      BY <1>2
    <2>2. \A i \in Ids : i # call[c].id => box'[i] = box[i]
      BY <1>4 DEF SendInv, Typed, ChannelsTyped, MessagesTyped, Ids
    <2> QED
      BY <1>4, <2>1, <2>2, ChannelLeft
  <1>6. ChannelsTyped' /\ ToldInv'
    <2>1. <<>> \in Seq(Fates)
      OBVIOUS
    <2>2. box' \in Seq(Seq(Fates)) /\ Len(box') = Len(box)
             /\ \A i \in Ids : box'[i] = IF i = id THEN <<>> ELSE box[i]
      BY <1>1, <1>4, <2>1 DEF SendInv, Typed, ChannelsTyped, MessagesTyped, Ids
    <2> QED
      BY <1>4, <2>2 DEF Receive, SendInv, Typed, ChannelsTyped, ToldInv, telegramVars, Ids
  <1> QED
    BY <1>3, <1>5, <1>6 DEF Receive, SendInv, Typed, MessagesTyped,
           QueuesTyped, NewsTyped, telegramVars, listenerVars

LEMMA StoreStep ==
    ASSUME SendInv, NEW c \in Callers, Store(c)
    PROVE  SendInv'
  <1> DEFINE r == [call[c] EXCEPT !.at = "wait"]
  <1>1. r \in CallRecord /\ answer[c] = "none" /\ Becomes(c, r, answer[c])
    BY DEF Store, Goto, Becomes, SendInv, Typed, CallTyped, CallRecord, AnswerInv
  <1>2. r.id = call[c].id /\ r.at = "wait" /\ r.id # 0 /\ r.id \in Ids /\ sender[r.id] = c /\ box[r.id] = <<>>
    BY DEF Store, SendInv, Typed, CallTyped, CallRecord, OwnInv, PendingInv
  <1> HIDE DEF r
  <1>3. CallTyped' /\ OwnInv' /\ AnswerInv'
    BY <1>1, <1>2, CallBecomes
  <1>4. pending' = pending \cup {r.id} /\ UNCHANGED <<sender, box>>
    BY <1>2 DEF Store, telegramVars
  <1>5. \A d \in Callers : call'[d] = IF d = c THEN r ELSE call[d]
    BY <1>1 DEF Becomes, SendInv, Typed, CallTyped
  <1>6. PendingInv'
    <2>1. call[c].at = "store"
      BY DEF Store
    <2>2. \A i \in pending : sender[i] \in Callers \ {c}
      BY <2>1 DEF SendInv, Typed, MessagesTyped, ChannelsTyped, PendingInv, Ids
    <2> QED
      BY <1>2, <1>4, <1>5, <2>2 DEF SendInv, PendingInv
  <1> QED
    BY <1>2, <1>3, <1>4, <1>6 DEF Store, SendInv, Typed, MessagesTyped, ChannelsTyped,
           QueuesTyped, NewsTyped, ToldInv, telegramVars, listenerVars, Ids

(***************************************************************************)
(* Messages, Telegram and the listener                                     *)
(***************************************************************************)
LEMMA SendMessageStep ==
    ASSUME SendInv, NEW c \in Callers, SendMessage(c)
    PROVE  SendInv'
  <1> DEFINE new == Len(sender) + 1
             r == [call[c] EXCEPT !.at = "store", !.id = new]
  <1> USE DEF Ids
  <1>1. /\ call[c] \in CallRecord /\ call[c].at = "sending" /\ call[c].id = 0
        /\ answer[c] = "none" /\ new \in Nat \ {0}
    BY DEF SendMessage, SendInv, Typed, CallTyped, MessagesTyped, OwnInv, AnswerInv
  <1>2. r \in CallRecord /\ r.at = "store" /\ r.id = new /\ call' = [call EXCEPT ![c] = r]
    BY <1>1 DEF SendMessage, SendInv, Typed, CallTyped, CallRecord
  <1> HIDE DEF r
  <1>3. CallTyped' /\ \A d \in Callers : call'[d] = IF d = c THEN r ELSE call[d]
    BY <1>2 DEF SendMessage, SendInv, Typed, CallTyped
  <1>4. /\ MessagesTyped' /\ Ids' = Ids \cup {new} /\ new \notin Ids
        /\ sender'[new] = c /\ fate'[new] = "open"
        /\ \A i \in Ids : sender'[i] = sender[i] /\ fate'[i] = fate[i]
    BY <1>1 DEF SendMessage, SendInv, Typed, MessagesTyped
  <1>5. ChannelsTyped' /\ box'[new] = <<>> /\ \A i \in Ids : box'[i] = box[i]
    <2>1. <<>> \in Seq(Fates)
      OBVIOUS
    <2>2. /\ box' \in Seq(Seq(Fates)) /\ Len(box') = new /\ Len(sender') = new
          /\ box'[new] = <<>> /\ \A i \in Ids : box'[i] = box[i]
      BY <1>1, <2>1 DEF SendMessage, SendInv, Typed, ChannelsTyped, MessagesTyped
    <2> QED
      BY <1>4, <2>2 DEF SendMessage, SendInv, Typed, ChannelsTyped
  <1>6. OwnInv'
    BY <1>1, <1>2, <1>3, <1>4 DEF SendInv, OwnInv
  <1>7. ToldInv'
    BY <1>4, <1>5 DEF SendMessage, SendInv, ToldInv
  <1>8. PendingInv'
    <2>1. \A i \in pending : i \in Ids /\ sender[i] \in Callers \ {c}
      BY <1>1 DEF SendInv, Typed, MessagesTyped, ChannelsTyped, PendingInv
    <2>2. \A d \in Callers : call[d].at = "store" => call[d].id \in Ids
      BY DEF SendInv, OwnInv
    <2>3. pending' = pending
      BY DEF SendMessage
    <2>4. \A k \in pending : call'[sender'[k]].at = "wait" /\ call'[sender'[k]].id = k /\ box'[k] = <<>>
      BY <1>3, <1>4, <1>5, <2>1 DEF SendInv, PendingInv
    <2>5. \A d \in Callers : call'[d].at = "store" => box'[call'[d].id] = <<>>
      BY <1>2, <1>3, <1>5, <2>2 DEF SendInv, PendingInv
    <2> QED
      BY <2>3, <2>4, <2>5 DEF PendingInv
  <1>9. AnswerInv'
    <2>1. \A d \in Callers : call[d].id # 0 => call[d].id \in Ids
      BY DEF SendInv, OwnInv
    <2>2. answer' = answer
      BY DEF SendMessage
    <2> QED
      BY <1>1, <1>2, <1>3, <1>4, <2>1, <2>2 DEF SendInv, AnswerInv
  <1> QED
    BY <1>3, <1>4, <1>5, <1>6, <1>7, <1>8, <1>9 DEF SendMessage, SendInv, Typed, QueuesTyped,
           NewsTyped, listenerVars

LEMMA DecideStep ==
    ASSUME SendInv, NEW i \in Ids, Decide(i)
    PROVE  SendInv'
  <1> USE DEF Ids
  <1>1. PICK f \in Fates : /\ fate' = [fate EXCEPT ![i] = f]
                           /\ updates' = Append(updates, [about |-> i, is |-> f])
    BY DEF Decide
  <1>2. /\ MessagesTyped' /\ fate'[i] = f /\ fate[i] = "open" /\ i \in Nat
        /\ \A j \in Ids : j # i => fate'[j] = fate[j]
        /\ UNCHANGED <<call, answer, sender, pending, box, listener, business, outlet, news>>
    BY <1>1 DEF Decide, SendInv, Typed, MessagesTyped, listenerVars
  <1>3. QueuesTyped'
    <2>1. [about |-> i, is |-> f] \in Update
      BY <1>2 DEF Update
    <2> QED
      BY <1>1, <1>2, <2>1 DEF SendInv, Typed, QueuesTyped
  <1>4. OwnInv'
    BY <1>2 DEF SendInv, OwnInv
  <1>5. ToldInv'
    <2>1. /\ Len(updates') = Len(updates) + 1 /\ updates'[Len(updates')] = [about |-> i, is |-> f]
          /\ \A k \in 1..Len(updates) : updates'[k] = updates[k]
      BY <1>1 DEF SendInv, Typed, QueuesTyped
    <2>2. ASSUME NEW k \in 1..Len(updates'), updates'[k].is \in Fates
          PROVE  updates'[k].about \in Ids /\ fate'[updates'[k].about] = updates'[k].is
      <3>1. CASE k \in 1..Len(updates)
        BY <1>2, <2>1, <2>2, <3>1 DEF SendInv, ToldInv, Fates
      <3>2. CASE k = Len(updates')
        BY <1>2, <2>1, <3>2
      <3> QED BY <2>1, <3>1, <3>2 DEF SendInv, Typed, QueuesTyped
    <2>3. \A j \in Ids : box[j] # <<>> => Head(box[j]) \in Fates
      BY DEF SendInv, Typed, ChannelsTyped, MessagesTyped
    <2>4. \A j \in Ids : box[j] # <<>> => j # i
      BY <1>2, <2>3 DEF SendInv, ToldInv, Fates
    <2> QED
      BY <1>2, <2>2, <2>4 DEF SendInv, ToldInv
  <1>6. AnswerInv'
    BY <1>2 DEF SendInv, AnswerInv, OwnInv
  <1> QED
    BY <1>2, <1>3, <1>4, <1>5, <1>6 DEF SendInv, Typed, CallTyped, ChannelsTyped, NewsTyped, PendingInv

LEMMA NewsStep ==
    ASSUME SendInv, News
    PROVE  SendInv'
  <1> USE DEF Ids
  <1>1. PICK u \in Update : u.is \notin Fates /\ updates' = Append(updates, u)
    BY DEF News, Update, Fates
  <1>0. UNCHANGED <<call, answer, sender, fate, pending, box, listener, business, outlet>>
    BY DEF News, telegramVars, listenerVars
  <1>2. QueuesTyped'
    BY <1>0, <1>1 DEF SendInv, Typed, QueuesTyped
  <1>3. NewsTyped'
    <2>1. MaxNews \in Nat /\ news \in 0..MaxNews /\ news < MaxNews /\ news' = news + 1
      BY SendWaitAssumption DEF News, SendInv, Typed, NewsTyped
    <2> QED BY <2>1 DEF NewsTyped
  <1>4. ToldInv'
    <2>1. /\ Len(updates') = Len(updates) + 1 /\ updates'[Len(updates')] = u
          /\ \A k \in 1..Len(updates) : updates'[k] = updates[k]
      BY <1>1 DEF SendInv, Typed, QueuesTyped
    <2>2. \A k \in 1..Len(updates') : k \in 1..Len(updates) \/ k = Len(updates')
      BY <2>1 DEF SendInv, Typed, QueuesTyped
    <2> QED
      BY <1>0, <1>1, <2>1, <2>2 DEF SendInv, ToldInv
  <1> QED
    BY <1>0, <1>2, <1>3, <1>4 DEF SendInv, Typed, CallTyped, MessagesTyped, ChannelsTyped, OwnInv,
           PendingInv, AnswerInv

LEMMA ListenStep ==
    ASSUME SendInv, Listen
    PROVE  SendInv'
  <1> USE DEF Ids
  <1> DEFINE u == Head(updates)
  <1>1. /\ updates # <<>> /\ u \in Update /\ updates' = Tail(updates)
        /\ UNCHANGED <<call, answer, sender, fate, outlet, business, news>>
    BY DEF Listen, SendInv, Typed, QueuesTyped, telegramVars
  <1>2. (business /\ listener' = u) \/ listener' = Nothing
    BY DEF Listen
  <1>3. \/ UNCHANGED <<pending, box>>
        \/ /\ u.is \in Fates /\ u.about \in pending /\ pending' = pending \ {u.about}
           /\ box' = [box EXCEPT ![u.about] = Append(@, u.is)]
    BY DEF Listen, Receivers
  <1>4. QueuesTyped'
    <2>1. Nothing \in Update
      BY DEF Nothing, Update
    <2> QED
      BY <1>1, <1>2, <2>1 DEF SendInv, Typed, QueuesTyped
  <1>5. u.is \in Fates => u.about \in Ids /\ fate[u.about] = u.is
    BY <1>1 DEF SendInv, Typed, QueuesTyped, ToldInv
  <1>6. \A k \in 1..Len(updates') : k + 1 \in 1..Len(updates) /\ updates'[k] = updates[k + 1]
    BY <1>1 DEF SendInv, Typed, QueuesTyped
  <1>7. \/ UNCHANGED <<pending, box>>
        \/ /\ u.about \in pending /\ pending' = pending \ {u.about} /\ u.about \in Ids
           /\ box' = [box EXCEPT ![u.about] = <<u.is>>] /\ u.is \in Fates /\ fate[u.about] = u.is
    <2>1. u.about \in pending => box[u.about] = <<>>
      BY DEF SendInv, PendingInv
    <2>2. Append(<<>>, u.is) = <<u.is>>
      OBVIOUS
    <2>3. ASSUME u.about \in pending, box' = [box EXCEPT ![u.about] = Append(@, u.is)]
          PROVE  box' = [box EXCEPT ![u.about] = <<u.is>>]
      BY <2>1, <2>2, <2>3
    <2> HIDE DEF u
    <2> QED
      BY <1>3, <1>5, <2>3
  <1> HIDE DEF u
  <1>8. ChannelsTyped' /\ ToldInv'
    <2>1. \A k \in 1..Len(updates') : updates'[k].is \in Fates =>
              updates'[k].about \in Ids' /\ fate'[updates'[k].about] = updates'[k].is
      BY <1>1, <1>6 DEF SendInv, ToldInv
    <2>2. CASE UNCHANGED <<pending, box>>
      BY <1>1, <2>1, <2>2 DEF SendInv, Typed, ChannelsTyped, ToldInv
    <2>3. CASE ~UNCHANGED <<pending, box>>
      <3>0. /\ u.about \in pending /\ pending' = pending \ {u.about} /\ u.about \in Ids
            /\ box' = [box EXCEPT ![u.about] = <<u.is>>] /\ u.is \in Fates /\ fate[u.about] = u.is
        BY <1>7, <2>3
      <3>1. <<u.is>> \in Seq(Fates) /\ Len(<<u.is>>) = 1 /\ Head(<<u.is>>) = u.is
        BY <3>0
      <3>2. /\ box' \in Seq(Seq(Fates)) /\ Len(box') = Len(box)
            /\ \A i \in Ids : box'[i] = IF i = u.about THEN <<u.is>> ELSE box[i]
        BY <3>0, <3>1 DEF SendInv, Typed, ChannelsTyped, MessagesTyped
      <3>3. \A i \in Ids : Len(box'[i]) <= 1 /\ (box'[i] # <<>> => Head(box'[i]) = fate[i])
        BY <3>0, <3>1, <3>2 DEF SendInv, Typed, ChannelsTyped, ToldInv
      <3> QED
        BY <1>1, <3>0, <2>1, <3>2, <3>3 DEF SendInv, Typed, ChannelsTyped, ToldInv
    <2> QED BY <2>2, <2>3
  <1>9. PendingInv'
    <2>1. \A i \in Ids : i \in pending' \/ (i \notin pending) => box'[i] = box[i]
      BY <1>7 DEF SendInv, Typed, ChannelsTyped, MessagesTyped
    <2>2. pending' \subseteq pending /\ pending \subseteq Ids
      BY <1>7 DEF SendInv, Typed, ChannelsTyped
    <2>3. ASSUME NEW d \in Callers, call[d].at = "store"
          PROVE  call[d].id \in Ids /\ call[d].id \notin pending
      BY <2>3 DEF SendInv, OwnInv, PendingInv
    <2> QED
      BY <1>1, <2>1, <2>2, <2>3 DEF SendInv, PendingInv
  <1> QED
    BY <1>1, <1>4, <1>8, <1>9 DEF SendInv, Typed, CallTyped, MessagesTyped, NewsTyped, OwnInv, AnswerInv

\* The outlet and its reader touch no call and no message.
LEMMA OutletStep ==
    ASSUME SendInv, Publish \/ HandleUpdate
    PROVE  SendInv'
  <1>1. UNCHANGED <<call, answer, sender, fate, updates, pending, box, business, news>>
    BY DEF Publish, HandleUpdate, telegramVars
  <1>2. QueuesTyped'
    <2>1. CASE Publish
      <3>1. Nothing \in Update
        BY DEF Nothing, Update
      <3>2. business
        BY <2>1 DEF Publish, SendInv, Typed, QueuesTyped
      <3>3. /\ Len(outlet) < OutletCap /\ outlet' = Append(outlet, listener)
            /\ listener' = Nothing /\ business' = business
        BY <1>1, <2>1 DEF Publish
      <3>4. Len(outlet') = Len(outlet) + 1 /\ outlet' \in Seq(Update) /\ Len(outlet) \in Nat
        BY <3>3 DEF SendInv, Typed, QueuesTyped
      <3> QED
        BY <1>1, <3>1, <3>2, <3>3, <3>4, SendWaitAssumption DEF SendInv, Typed, QueuesTyped
    <2>2. CASE HandleUpdate
      <3>1. outlet # <<>> /\ outlet' = Tail(outlet) /\ listener' = listener
        BY <2>2 DEF HandleUpdate
      <3>2. outlet' \in Seq(Update) /\ Len(outlet') <= Len(outlet) /\ Len(outlet') \in Nat /\ Len(outlet) \in Nat
        BY <3>1 DEF SendInv, Typed, QueuesTyped
      <3>3. Len(outlet') <= OutletCap
        BY <3>2, SendWaitAssumption DEF SendInv, Typed, QueuesTyped
      <3>4. business
        BY <3>1 DEF SendInv, Typed, QueuesTyped
      <3> QED
        BY <1>1, <3>1, <3>2, <3>3, <3>4 DEF SendInv, Typed, QueuesTyped
    <2> QED BY <2>1, <2>2
  <1> QED
    BY <1>1, <1>2 DEF SendInv, Typed, CallTyped, MessagesTyped, ChannelsTyped, NewsTyped, OwnInv,
                      ToldInv, PendingInv, AnswerInv, Ids

LEMMA SendStep == SendInv /\ [Next]_vars => SendInv'
  <1> SUFFICES ASSUME SendInv, [Next]_vars PROVE SendInv'
    OBVIOUS
  <1>1. CASE UNCHANGED vars
    BY <1>1 DEF SendInv, Typed, CallTyped, MessagesTyped, ChannelsTyped, QueuesTyped, NewsTyped,
                OwnInv, ToldInv, PendingInv, AnswerInv, vars, telegramVars, listenerVars, Ids
  <1>2. CASE \E c \in Callers : Step(c)
    BY <1>2, SendMessageAndWaitStep, SendMessageStep, SendMessageFailsStep, BackoffOverStep,
       StoreStep, ReceiveStep, TimeOutStep DEF Step
  <1>3. CASE Telegram
    BY <1>3, NewsStep, DecideStep DEF Telegram
  <1> QED
    BY <1>1, <1>2, <1>3, ListenStep, OutletStep DEF Next

\* The invariant of calls, messages and what is told of them.
THEOREM SendSafety == Spec => []SendInv
  BY InitInv, SendStep, PTL DEF Spec

\* pendingSends holds waiting calls only, and no result channel gets a second result.
THEOREM PendingIsWaiting == Spec => []NothingPendsForNobody
  <1>1. SendInv => NothingPendsForNobody
    BY TypedIsTypeOK DEF SendInv, PendingInv, NothingPendsForNobody
  <1> QED
    BY <1>1, SendSafety, PTL

\* What a call returns is true of its own last message, and "failed" of all of them.
THEOREM AnswersAreTrue == Spec => []AnswerIsTrue
  <1>1. SendInv => AnswerIsTrue
    <2> SUFFICES ASSUME SendInv, NEW c \in Callers
                 PROVE  /\ answer[c] = "sent" => fate[call[c].id] = "sent"
                        /\ answer[c] = "failed" =>
                               \A i \in MessagesOf(c) : fate[i] \in {"flood", "failed"}
      BY DEF AnswerIsTrue
    <2>1. answer[c] = "sent" => fate[call[c].id] = "sent"
      BY DEF SendInv, AnswerInv
    <2>2. ASSUME answer[c] = "failed", NEW i \in MessagesOf(c)
          PROVE  fate[i] \in {"flood", "failed"}
      <3>1. i \in Ids /\ sender[i] = c /\ i # 0
        BY DEF SendInv, Typed, MessagesTyped, MessagesOf, Ids
      <3>2. CASE i = call[c].id
        BY <2>2, <3>1, <3>2 DEF SendInv, AnswerInv
      <3>3. CASE i # call[c].id
        BY <3>1, <3>3 DEF SendInv, OwnInv
      <3> QED
        BY <3>2, <3>3
    <2> QED
      BY <2>1, <2>2
  <1> QED
    BY <1>1, SendSafety, PTL

\* However many flood waits a call met, it brings at most one message into the chat.
THEOREM CallsSendOnce == Spec => []OneMessagePerCall
  <1>1. SendInv => OneMessagePerCall
    <2> SUFFICES ASSUME SendInv, NEW c \in Callers
                 PROVE  Cardinality({i \in MessagesOf(c) : fate[i] \in {"open", "sent"}}) <= 1
      BY DEF OneMessagePerCall
    <2> DEFINE live == {i \in MessagesOf(c) : fate[i] \in {"open", "sent"}}
    <2>1. live \subseteq {call[c].id}
      BY DEF SendInv, OwnInv, MessagesOf
    <2>2. IsFiniteSet({call[c].id}) /\ Cardinality({call[c].id}) = 1
      BY FS_Singleton
    <2> QED
      BY <2>1, <2>2, FS_Subset
  <1> QED
    BY <1>1, SendSafety, PTL
================================================================================
