------------------------------ MODULE MCForwarder ------------------------------
(***************************************************************************)
(* Small instances of Forwarder for TLC.                                   *)
(***************************************************************************)
EXTENDS Forwarder

CONSTANTS m1, m2, r1, r2, d1, d2

Copies(to) == [to |-> to, sendCopy |-> TRUE, copyOnce |-> FALSE,
               indelible |-> FALSE, check |-> NoChat, other |-> NoChat]

\* A rule that copies into two destinations, and one that forwards natively, names its
\* destination twice and has a check chat.
CopyAndNative ==
    [r \in Rules |-> IF r = r1 THEN Copies(<<d1, d2>>)
                     ELSE [Copies(<<d1, d1>>) EXCEPT !.sendCopy = FALSE, !.check = d2]]

\* A plain rule and an Indelible one.
PlainAndIndelible ==
    [r \in Rules |-> IF r = r1 THEN Copies(<<d1>>)
                     ELSE [Copies(<<d2>>) EXCEPT !.indelible = TRUE]]

\* A rule that versions its copies, and an Indelible one.
VersionedAndIndelible ==
    [r \in Rules |-> IF r = r1 THEN [Copies(<<d1>>) EXCEPT !.copyOnce = TRUE]
                     ELSE [Copies(<<d1>>) EXCEPT !.indelible = TRUE]]

RuleList2 == <<r1, r2>>

NoReplies  == [m \in Messages |-> NoMsg]
ReplyChain == [m \in Messages |-> IF m = m2 THEN m1 ELSE NoMsg]
================================================================================
