-------------------------------- MODULE MCFacade --------------------------------
(***************************************************************************)
(* A small instance of Facade for TLC.                                     *)
(***************************************************************************)
EXTENDS Facade

CONSTANTS p1, g1, x, u

\* A code is posted.
CodePosted == [p \in Posts |-> "code"]

Button(type, data) == [type |-> type, data |-> data]

\* An inline keyboard of two rows with a nil button, a reply keyboard, none at all.
ThreeKeyboards ==
    {[kind |-> "inline", rows |-> <<<<Button("callback", x), NoButton, Button("url", u)>>,
                                    <<Button("webApp", u), Button("buy", "none")>>>>],
     [kind |-> "reply", rows |-> <<<<Button("text", "none"), Button("webApp", u)>>>>],
     [kind |-> "none", rows |-> <<>>]}

\* One request of each kind of wrapper and of each number of calls.
EachKind == {"SendMessageAlbum", "UpdateMessage", "GetBotInfo", "GetInlineMenu",
             "ResolveBot", "ClickCallbackButton", "SendBotCommand", "GetStatus"}
================================================================================
