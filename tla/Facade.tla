--------------------------------- MODULE Facade ---------------------------------
(***************************************************************************)
(* The process of cmd/facade: its gRPC handlers (internal/transport/grpc), *)
(* the GraphQL status query, the facade service (internal/app/facade) and  *)
(* the wrappers of internal/infra/telegram/client_adapter.go, beside the   *)
(* authorization of AuthFlow.  The servers start at once: nothing waits    *)
(* for ClientDone, so a call may find no client.  One handler runs at a    *)
(* time here; the goroutines of ClickCallbackButton outlive theirs.        *)
(***************************************************************************)
EXTENDS AuthFlow

LOCAL INSTANCE SequencesExt

CONSTANTS
    Requests,    \* what is asked for
    Keyboards,   \* reply markups the messages of a bot may have
    Goroutines   \* bound: goroutines of ClickCallbackButton at a time

\* The Telegram method a request begins with, by what its fields say.
FirstCalls ==
    [GetMessages |-> {"GetMessages"}, GetChatHistory |-> {"GetChatHistory"},
     SendMessage |-> {"SendMessage"}, SendMessageAlbum |-> {"SendMessageAlbum"},
     ForwardMessage |-> {"ForwardMessages"}, GetMessage |-> {"GetMessage"},
     UpdateMessage |-> {"EditMessageText"}, DeleteMessages |-> {"DeleteMessages"},
     GetMessageLink |-> {"GetMessageLink"}, GetMessageLinkInfo |-> {"GetMessageLinkInfo"},
     ResolveBot |-> {"SearchPublicChat"}, GetBotInfo |-> {"GetUserFullInfo"},
     GetInlineMenu |-> {"GetChat", "GetMessage"},
     ClickCallbackButton |-> {"GetCallbackQueryAnswer"},
     SendBotCommand |-> {"SendMessage", "SendBotStartMessage"},
     GetStatus |-> {"GetOption"}]

Rpcs == DOMAIN FirstCalls

ASSUME FacadeAssumption ==
    /\ Requests \subseteq Rpcs /\ IsFiniteSet(Goroutines)
    /\ \A k \in Keyboards :
         /\ k.kind \in {"inline", "reply", "none"}
         /\ \A i \in DOMAIN k.rows : \A b \in ToSet(k.rows[i]) :
                b = [type |-> b.type, data |-> b.data]

\* Requests a handler refuses for an empty field.
Validated == {"SendMessage", "SendMessageAlbum", "UpdateMessage", "ResolveBot",
              "ClickCallbackButton", "SendBotCommand"}

\* The wrappers that enter withReady, and those that type a flood wait.
Waiting == {"SendMessage", "SendMessageAlbum", "ForwardMessages", "GetMessage", "GetMessages",
            "GetMessageLink", "GetMessageLinkInfo", "GetChatHistory", "GetChat",
            "SendBotStartMessage"}
Typing == {"SendMessage", "GetMessage", "GetCallbackQueryAnswer", "GetChatHistory",
           "SearchPublicChat", "GetUser", "GetUserFullInfo", "SendBotStartMessage"}

\* Methods that change something in Telegram.
Changing == {"SendMessage", "SendMessageAlbum", "ForwardMessages", "EditMessageText",
             "DeleteMessages", "SendBotStartMessage", "GetCallbackQueryAnswer"}

\* The requests about bots and their menus.
MenuRequests == {"ResolveBot", "GetBotInfo", "GetInlineMenu", "ClickCallbackButton",
                 "SendBotCommand"}

VARIABLES
    rpc,       \* the handler at work, or Quiet
    clicks,    \* the goroutines of ClickCallbackButton
    offered,   \* callback data the client has read in a menu
    closed,    \* Repo.Close has run
    panicked   \* a panic that nobody recovers ended the process

facadeVars == <<rpc, clicks, offered, closed, panicked>>
allVars    == <<vars, facadeVars>>

\* at: "call" before a Telegram call, "wait" in withReady's window, "click" in the select
\* of ClickCallbackButton; ctx: why its callCtx is done; result: its resultCh.  Observed:
\* how often Telegram changed something for it, and how often OK would mean it had; a
\* request of the bot menu that met a flood wait.
Quiet == [at |-> "idle", req |-> "none", call |-> "none", ctx |-> "live", result |-> "none",
          status |-> "none", changes |-> 0, due |-> 0, flood |-> FALSE]

Free == [at |-> "free", data |-> "none", mine |-> FALSE, result |-> "none"]

Refusals == {"flood", "chat not found", "username not found", "4xx", "502", "other"}

FacadeInit ==
    /\ Init
    /\ rpc = Quiet /\ clicks = [g \in Goroutines |-> Free]
    /\ offered = {} /\ closed = FALSE /\ panicked = FALSE

(***************************************************************************)
(* Errors: client_adapter.go, errors.go and mapFacadeError                 *)
(***************************************************************************)

\* The refusals a method can meet.
RefusalsOf(call) ==
    {"flood", "4xx", "other"}
      \cup (IF call \in Waiting THEN {"chat not found"} ELSE {})
      \cup (IF call = "SearchPublicChat" THEN {"username not found"} ELSE {})
      \cup (IF call = "GetCallbackQueryAnswer" THEN {"502"} ELSE {})

\* The error a wrapper makes of a refusal.
Typed(call, refusal) ==
    CASE refusal = "flood" /\ call \in Typing -> "FloodWaitError"
      [] refusal = "username not found" -> "BotNotFoundError"
      [] refusal = "4xx" /\ call = "GetCallbackQueryAnswer" -> "CallbackAnswerError 4xx"
      [] refusal = "502" /\ call = "GetCallbackQueryAnswer" -> "CallbackAnswerError 502"
      [] OTHER -> "untyped"

mapFacadeError(err) ==
    CASE err = "FloodWaitError" -> "ResourceExhausted"
      [] err \in {"MessageNotFoundError", "BotNotFoundError"} -> "NotFound"
      [] err \in {"TargetNotBotError", "CallbackAnswerError 4xx"} -> "FailedPrecondition"
      [] err = "CallbackAnswerError 502" -> "DeadlineExceeded"
      [] err = "ChatNotReadyError" -> "Unavailable"
      [] OTHER -> "Internal"

Answered(r, status) ==
    [Quiet EXCEPT !.at = "answered", !.status = status, !.changes = r.changes,
                  !.due = IF r.call \in Changing THEN 1 ELSE 0, !.flood = r.flood]

(***************************************************************************)
(* Menus: inlineMenuToProto                                                *)
(***************************************************************************)
NoButton == [type |-> "nil", data |-> "none"]

\* One button of an inline keyboard, by its type; the data only of a callback.
UrlClickable(b) ==                              \* mutant: an URL lands in callback_data
    [action |-> IF b.type \in {"callback", "url"} THEN "callback_data" ELSE b.type, value |-> b.data]
InlineButton(b) ==
    [action |-> CASE b.type = "callback" -> "callback_data"
                  [] b.type \in {"url", "webApp"} -> b.type
                  [] OTHER -> "other_type",
     value |-> b.data]

\* A button of a reply keyboard sends its text; only a web app has an URL besides.
ReplyButton(b) == [action |-> "text", value |-> IF b.type = "webApp" THEN b.data ELSE "none"]

\* A row is the set of its buttons: their order is layout.
inlineMenuToProto(keyboard) ==
    [i \in DOMAIN keyboard.rows |->
        {IF keyboard.kind = "inline" THEN InlineButton(b) ELSE ReplyButton(b) :
            b \in ToSet(keyboard.rows[i]) \ {NoButton}}]

\* What a client may click on.
Clickable(menu) ==
    {b.value : b \in {c \in UNION {menu[i] : i \in DOMAIN menu} : c.action = "callback_data"}}

(***************************************************************************)
(* The handlers                                                            *)
(***************************************************************************)
HasClient == clientDone /\ ~closed

\* A request arrives.  The context of the request is looked at by nobody but
\* ClickCallbackButton.
Receive(q) ==
    /\ rpc = Quiet /\ ~closed
    /\ \/ q \in Validated
          /\ rpc' = Answered([Quiet EXCEPT !.req = q], "InvalidArgument")
       \/ q # "ClickCallbackButton"
          /\ \E call \in FirstCalls[q] :
               rpc' = [Quiet EXCEPT !.at = "call", !.req = q, !.call = call]
    /\ UNCHANGED <<clicks, offered, closed, panicked>>

\* ClickCallbackButton starts its goroutine and selects.
ClickCallbackButton(g, data) ==
    /\ rpc = Quiet /\ ~closed /\ "ClickCallbackButton" \in Requests
    /\ clicks[g] = Free /\ data \in offered
    /\ rpc' = [Quiet EXCEPT !.at = "click", !.req = "ClickCallbackButton",
                            !.call = "GetCallbackQueryAnswer"]
    /\ clicks' = [clicks EXCEPT ![g] = [Free EXCEPT !.at = "start", !.data = data, !.mine = TRUE]]
    /\ UNCHANGED <<offered, closed, panicked>>

\* What may follow when a method has answered: the next method, OK, or the service's error.
Follows(q, call) ==
    CASE call = "GetChat" -> {"GetMessage", "GetChatHistory"}
      [] call = "GetChatHistory" /\ q = "GetInlineMenu" -> {"OK", "MessageNotFoundError"}
      [] call = "SearchPublicChat" -> {"GetUser", "TargetNotBotError"}
      [] call \in {"GetUser", "GetUserFullInfo"} -> {"OK", "TargetNotBotError"}
      [] call = "GetOption" -> {"GetMe"}
      [] OTHER -> {"OK"}

\* GetOption is a function of the package and needs no client.
Reaches(call) == HasClient \/ call = "GetOption"

Changed(r) == IF r.call \in Changing THEN r.changes + 1 ELSE r.changes

Succeed ==
    /\ rpc.at = "call" /\ Reaches(rpc.call)
    /\ \E next \in Follows(rpc.req, rpc.call) :
         LET r == [rpc EXCEPT !.changes = Changed(rpc)] IN
         /\ rpc' = CASE next = "OK" -> Answered(r, "OK")
                     [] next \in {"TargetNotBotError", "MessageNotFoundError"} ->
                          Answered(r, mapFacadeError(next))
                     [] OTHER -> [r EXCEPT !.call = next]
         /\ IF next = "OK" /\ rpc.req = "GetInlineMenu"
            THEN \E k \in Keyboards : offered' = offered \cup Clickable(inlineMenuToProto(k))
            ELSE UNCHANGED offered
    /\ UNCHANGED <<clicks, closed, panicked>>

\* withReady repeats a call only when its chat was not found.
WaitsAlways(call, refusal) == call \in Waiting  \* mutant: it repeats after any error
Waits(call, refusal) == call \in Waiting /\ refusal = "chat not found"

\* The call is refused; when the reason is another, Telegram may yet have done it.
Refuse ==
    /\ rpc.at = "call" /\ Reaches(rpc.call)
    /\ \E refusal \in RefusalsOf(rpc.call) :
         LET r == [rpc EXCEPT !.flood = refusal = "flood" /\ rpc.req \in MenuRequests] IN
         \E changes \in IF refusal = "other" THEN {rpc.changes, Changed(rpc)} ELSE {rpc.changes} :
            rpc' = IF Waits(rpc.call, refusal)
                   THEN [r EXCEPT !.at = "wait", !.changes = changes]
                   ELSE Answered([r EXCEPT !.changes = changes],
                                 mapFacadeError(Typed(rpc.call, refusal)))
    /\ UNCHANGED <<clicks, offered, closed, panicked>>

\* withReady: an edge or a tick repeats the call, the deadline gives up.
Ready ==
    /\ rpc.at = "wait"
    /\ rpc' \in {[rpc EXCEPT !.at = "call"],
                 Answered(rpc, mapFacadeError("ChatNotReadyError"))}
    /\ UNCHANGED <<clicks, offered, closed, panicked>>

\* A handler without a client dereferences nil.  The HTTP chain recovers; a gRPC server
\* may or may not.
NilClient ==
    /\ rpc.at = "call" /\ ~Reaches(rpc.call)
    /\ \/ rpc' = Answered(rpc, "Internal") /\ UNCHANGED panicked
       \/ rpc.req # "GetStatus" /\ panicked' = TRUE /\ UNCHANGED rpc
    /\ UNCHANGED <<clicks, offered, closed>>

(***************************************************************************)
(* ClickCallbackButton: the goroutine and the select                       *)
(***************************************************************************)

\* The goroutine begins: without a client it ends the process, whatever recovers handlers.
ClickCalls(g) ==
    /\ clicks[g].at = "start"
    /\ IF HasClient THEN clicks' = [clicks EXCEPT ![g].at = "call"] /\ UNCHANGED panicked
       ELSE panicked' = TRUE /\ UNCHANGED clicks
    /\ UNCHANGED <<rpc, offered, closed>>

\* Its call returns, whenever Telegram likes; 502: the bot saw the click and
\* kept silent.
ClickReturns(g) ==
    /\ clicks[g].at = "call"
    /\ \E result \in {"OK"} \cup RefusalsOf("GetCallbackQueryAnswer") :
         /\ clicks' = [clicks EXCEPT ![g].at = "put",
                         ![g].result = IF ~clicks[g].mine THEN "none"
                                       ELSE IF result = "OK" THEN "OK"
                                       ELSE Typed("GetCallbackQueryAnswer", result)]
         /\ rpc' = IF ~clicks[g].mine THEN rpc
                   ELSE [rpc EXCEPT !.changes = IF result \in {"OK", "502"} THEN @ + 1 ELSE @,
                                    !.flood = result = "flood"]
    /\ UNCHANGED <<offered, closed, panicked>>

\* resultCh has room for the one result: the goroutine ends whether or not it is read.
OnlyReceived(c) == c.mine                       \* mutant: resultCh has no room
Room(c) == TRUE

ClickPut(g) ==
    /\ clicks[g].at = "put" /\ Room(clicks[g])
    /\ clicks' = [clicks EXCEPT ![g] = Free]
    /\ rpc' = IF clicks[g].mine THEN [rpc EXCEPT !.result = clicks[g].result] ELSE rpc
    /\ UNCHANGED <<offered, closed, panicked>>

\* callCtx ends by its ten seconds or with the request.
CallDone ==
    /\ rpc.at = "click" /\ rpc.ctx = "live"
    /\ rpc' \in {[rpc EXCEPT !.ctx = reason] : reason \in {"DeadlineExceeded", "Canceled"}}
    /\ UNCHANGED <<clicks, offered, closed, panicked>>

\* The handler leaves its goroutine alone, and what it may bring.
Abandoned == [g \in Goroutines |-> [clicks[g] EXCEPT !.mine = FALSE, !.result = "none"]]

\* The select: a result is returned only while callCtx lives.

Select ==
    /\ rpc.at = "click"
    /\ \/ rpc.result # "none"
          /\ rpc' = Answered(rpc, IF rpc.ctx # "live" THEN rpc.ctx
                                  ELSE IF rpc.result = "OK" THEN "OK"
                                  ELSE mapFacadeError(rpc.result))
       \/ rpc.ctx # "live" /\ rpc' = Answered(rpc, rpc.ctx)
    /\ clicks' = Abandoned
    /\ UNCHANGED <<offered, closed, panicked>>

\* The client reads the answer.
Deliver ==
    /\ rpc.at = "answered" /\ rpc' = Quiet
    /\ UNCHANGED <<clicks, offered, closed, panicked>>

\* The servers' shutdown has let the handler end; the deferred Close drops the client.
Close ==
    /\ stopping /\ ~closed /\ rpc = Quiet
    /\ closed' = TRUE
    /\ UNCHANGED <<rpc, clicks, offered, panicked>>

(***************************************************************************)
(* The specification                                                       *)
(***************************************************************************)
Clicking == \E g \in Goroutines : ClickPut(g)
Handler ==
    \/ \E q \in Requests : Receive(q)
    \/ \E g \in Goroutines : \/ \E data \in offered : ClickCallbackButton(g, data)
                             \/ ClickCalls(g) \/ ClickReturns(g)
    \/ Succeed \/ Refuse \/ Ready \/ NilClient \/ CallDone \/ Select \/ Deliver

FacadeNext == ~panicked /\ (\/ Next /\ UNCHANGED facadeVars
                            \/ (Handler \/ Clicking \/ Close) /\ UNCHANGED vars)

FacadeSpec == FacadeInit /\ [][FacadeNext]_allVars

\* The goroutines of the process go on until it dies; the timer of callCtx fires.
Goes(A) == ~panicked /\ A /\ UNCHANGED facadeVars
Serves(A) == ~panicked /\ A /\ UNCHANGED vars
FairFacade ==
    /\ FacadeSpec
    /\ WF_allVars(Goes(Service)) /\ WF_allVars(Goes(RunStop)) /\ WF_allVars(Goes(Listener))
    /\ WF_allVars(Goes(Subscribe \/ ProcessAuth \/ PutInput))
    /\ WF_allVars(Serves(CallDone)) /\ WF_allVars(Serves(Select)) /\ WF_allVars(Serves(Clicking))

(***************************************************************************)
(* Properties                                                              *)
(***************************************************************************)
FacadeTypeOK ==
    /\ rpc.at \in {"idle", "call", "wait", "click", "answered"}
    /\ rpc.req \in Requests \cup {"none"} /\ rpc.ctx \in {"live", "DeadlineExceeded", "Canceled"}
    /\ {rpc.changes, rpc.due} \subseteq 0..2 /\ {closed, panicked} \subseteq BOOLEAN
    /\ \A g \in Goroutines : clicks[g].at \in {"free", "start", "call", "put"} /\ clicks[g].mine \in BOOLEAN
    /\ Cardinality({g \in Goroutines : clicks[g].mine}) <= 1

\* The status of an answer is true of what Telegram did: OK stands for exactly one change
\* by a request that makes one, a status a client answers by asking again or differently
\* for none, and no request, however often withReady repeats its call, makes two.
StatusIsTrue ==
    /\ FacadeTypeOK
    /\ rpc.changes <= 1
    /\ rpc.at = "answered" =>
         /\ rpc.status = "OK" => rpc.changes = rpc.due
         /\ rpc.status \in {"InvalidArgument", "NotFound", "FailedPrecondition",
                            "ResourceExhausted", "Unavailable"} => rpc.changes = 0

Offers(data) ==
    \E k \in Keyboards : k.kind = "inline" /\
      \E i \in DOMAIN k.rows : [type |-> "callback", data |-> data] \in ToSet(k.rows[i])

\* What a client clicks is what a bot offered: the data GetInlineMenu shows for a button
\* is the data of a callback button, never an URL or another type's payload.
ClicksAreOffered == \A g \in Goroutines : clicks[g].at # "free" => Offers(clicks[g].data)

\* A click is answered though the bot keeps silent, and its goroutine ends once Telegram
\* has answered although nobody may be there to take the result.
ClicksEnd ==
    /\ rpc.at = "click" ~> rpc.at # "click" \/ panicked
    /\ \A g \in Goroutines : clicks[g].at = "put" ~> clicks[g].at # "put" \/ panicked

\* A cancelled process is not kept from stopping by the service waiting for input, nor
\* by one whose input TDLib never comes back from.
CancelStops == stopping ~> run.at = "done" \/ panicked

\* "TDLib errors with `retry after N` -> ResourceExhausted" for the calls of the five new
\* requests (.trellis/tasks/archive/2026-11/11-04-bot-menu-grpc/design.md:155,159).  The
\* code breaks it: GetInlineMenu asks GetChat first, whose wrapper does not type the error.
FloodIsTold ==
    rpc.at = "answered" /\ rpc.flood
      => rpc.status \in {"ResourceExhausted", "DeadlineExceeded", "Canceled"}
================================================================================
