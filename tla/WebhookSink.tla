------------------------------ MODULE WebhookSink ------------------------------
(***************************************************************************)
(* One delivery attempt of internal/service/push/delivery.go for each fact *)
(* in an endpoint's queue: the payload of the schema the endpoint chose,   *)
(* one POST, and the redirects the HTTP client follows under the sink's    *)
(* policy.  What the endpoint answers is external.  The queues themselves  *)
(* are PushGeneration's; here a fact waits together with its target.       *)
(***************************************************************************)
EXTENDS RuleSetLoad, MessageV2

CONSTANTS
    Targets,
    MaxRedirects    \* 3, of CheckRedirect

VARIABLES
    queue,      \* for each target the facts to deliver, each with its sink's settings
    attempt     \* the current or last attempt of each target

sinkVars == <<queue, attempt>>

\* How an attempt ends: with a 2xx answer, by any other answer or error once something
\* was sent, or before, for want of the representation (class "serialization").
Outcome == {"open", "delivered", "failed", "unavailable"}

\* A fact has its v1 representation if it names its event, and its v2 one if it was
\* projected.
NoFact == [v1 |-> "", v2 |-> Absent]

NoAttempt(t) == [at |-> "idle", fact |-> NoFact, version |-> 0, hop |-> 0,
                 scheme |-> "https", body |-> NoPayload, outcome |-> "open"]

SinkTypeOK ==
    /\ \A t \in Targets : \A i \in DOMAIN queue[t] : queue[t][i].target # Null
    /\ \A t \in Targets :
           LET a == attempt[t] IN
           /\ a.at \in {"idle", "sent", "ended"} /\ a.outcome \in Outcome
           /\ a.scheme \in {"https", "http"} /\ a.hop \in Nat
           /\ a.body.version \in {0, 1, 2}

SinkInit ==
    /\ queue = [t \in Targets |-> <<>>]
    /\ attempt = [t \in Targets |-> NoAttempt(t)]

V1(fact) ==
    IF fact.v1 = "" THEN NoPayload ELSE [version |-> 1, event |-> fact.v1, keys |-> {}]
V2(fact) == IF fact.v2 = Absent THEN NoPayload ELSE MarshalNotification(fact.v2)

\* mutant: the schema that lacks its representation falls back to the other.
FallsBack(fact, schema) ==
    IF schema = 2 /\ V2(fact) # NoPayload THEN V2(fact) ELSE V1(fact)

\* RenderPayload: the payload of the schema, and no other when the fact lacks it.
RenderPayload(fact, schema) == IF schema = 1 THEN V1(fact) ELSE V2(fact)

Entry(fact, target) == [fact |-> fact, target |-> target]

\* SubmitV2 and SubmitV2Only: a target named twice gets the fact once.
Submitted(q, names, fact, targets) ==
    [t \in Targets |-> IF t \in names THEN Append(q[t], Entry(fact, targets[t])) ELSE q[t]]

Busy(t) == attempt[t].at = "sent"

Ended(a, outcome) == [a EXCEPT !.at = "ended", !.outcome = outcome,
                               !.hop = 0, !.scheme = "https", !.body = NoPayload]

End(t, outcome) ==
    /\ attempt' = [attempt EXCEPT ![t] = Ended(@, outcome)]
    /\ UNCHANGED queue

Took(t, entry, body) ==
    [NoAttempt(t) EXCEPT !.fact = entry.fact, !.body = body,
                         !.version = entry.target.schemaVersion]

\* The worker takes the next fact; an unavailable representation ends the attempt
\* before anything is sent.
Push(t) ==
    /\ ~Busy(t) /\ queue[t] # <<>>
    /\ LET entry == Head(queue[t])
           body  == RenderPayload(entry.fact, EffectiveSchemaVersion(entry.target))
       IN  attempt' = [attempt EXCEPT ![t] =
               IF body = NoPayload THEN Ended(Took(t, entry, body), "unavailable")
               ELSE [Took(t, entry, body) EXCEPT !.at = "sent"]]
    /\ queue' = [queue EXCEPT ![t] = Tail(@)]

\* The endpoint's last word: a 2xx answer, or another (a 3xx without a location is one);
\* the deadline passes or the connection fails.
Delivered(t) == Busy(t) /\ End(t, "delivered")
Failed(t) == Busy(t) /\ End(t, "failed")

\* CheckRedirect: via holds the requests sent so far, the first one included.
RefusesRedirect(t, scheme) == attempt[t].hop + 1 > MaxRedirects \/ scheme # "https"

Followed(a, scheme, body) == [a EXCEPT !.hop = @ + 1, !.scheme = scheme, !.body = body]

\* 307 and 308 keep the body; after 301, 302 and 303 the client goes on with a GET.
Redirect(t) ==
    /\ Busy(t)
    /\ \E scheme \in {"https", "http"}, body \in {attempt[t].body, NoPayload} :
           IF RefusesRedirect(t, scheme) THEN End(t, "failed")
           ELSE /\ attempt' = [attempt EXCEPT ![t] = Followed(@, scheme, body)]
                /\ UNCHANGED queue

SinkNext == \E t \in Targets : Push(t) \/ Delivered(t) \/ Failed(t) \/ Redirect(t)
================================================================================
