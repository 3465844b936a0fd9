--------------------------------- MODULE Mirror ---------------------------------
(***************************************************************************)
(* What budva does to the destination chats, as their readers see it: no   *)
(* queue, no store and no process that may die, only the messages of the   *)
(* source and the messages made of them.  Forwarder implements it.         *)
(***************************************************************************)
EXTENDS Integers, Sequences

CONSTANTS Messages, Rules, Dsts, RuleCfg, Protected

VARIABLES
    srcVer,    \* current version of each source message, 0 = not sent
    srcGone,   \* source messages deleted for good
    made,      \* the messages made for destination chats, in order
    reloaded   \* the rules file was read again

vars == <<srcVer, srcGone, made, reloaded>>

Init == /\ srcVer = [m \in Messages |-> 0]
        /\ srcGone = {}
        /\ made = <<>>
        /\ reloaded = FALSE

(***************************************************************************)
(* The source chat and the operator                                        *)
(***************************************************************************)
There(m) == srcVer[m] # 0 /\ m \notin srcGone

Publish(m) == /\ srcVer[m] = 0 /\ srcVer' = [srcVer EXCEPT ![m] = 1]
              /\ UNCHANGED <<srcGone, made, reloaded>>

Edit(m) == /\ There(m) /\ srcVer' = [srcVer EXCEPT ![m] = @ + 1]
           /\ UNCHANGED <<srcGone, made, reloaded>>

Delete(ms) == /\ \A m \in ms : There(m)
              /\ srcGone' = srcGone \cup ms
              /\ UNCHANGED <<srcVer, made, reloaded>>

Reload == /\ reloaded' = TRUE
          /\ UNCHANGED <<srcVer, srcGone, made>>

(***************************************************************************)
(* The destination chats                                                   *)
(***************************************************************************)
OfRoute(c, m, r, d) == c.msg = m /\ c.rule = r /\ c.dst = d
Placed(m, r, d) == \E t \in DOMAIN made : OfRoute(made[t], m, r, d)

Make(status, m, r, d, v) ==
    /\ made' = Append(made, [status |-> status, msg |-> m, rule |-> r, dst |-> d, ver |-> v])
    /\ UNCHANGED <<srcVer, srcGone, reloaded>>

Into(r, d) == \E i \in DOMAIN RuleCfg[r].to : RuleCfg[r].to[i] = d

\* The first message of a route is a copy of the first version, even if the source has
\* been edited or deleted since.
Copy(m, r, d) ==
    /\ srcVer[m] # 0 /\ ~Placed(m, r, d)
    /\ RuleCfg[r].sendCopy /\ Into(r, d)
    /\ Make("pending", m, r, d, 1)

\* Or it is a native forward of what the source shows, by a rule that does not copy or
\* into a check or other chat; a rule that does not copy leaves protected messages alone.
Forward(m, r, d) ==
    /\ There(m) /\ ~Placed(m, r, d)
    /\ d \in {RuleCfg[r].check, RuleCfg[r].other} \/ (~RuleCfg[r].sendCopy /\ Into(r, d))
    /\ RuleCfg[r].sendCopy \/ m \notin Protected
    /\ Make("native", m, r, d, srcVer[m])

\* A CopyOnce rule answers an edit with a new copy beside one that was delivered; it may be
\* deleted by now, if its permanent id could not be taken out of the store.
Version(m, r, d, v) ==
    /\ v \in 2..srcVer[m] /\ RuleCfg[r].copyOnce
    /\ \E t \in DOMAIN made :
         OfRoute(made[t], m, r, d) /\ made[t].status \in {"sent", "deleted"}
    /\ Make("pending", m, r, d, v)

SetStatus(t, from, to) ==
    /\ made[t].status = from /\ made' = [made EXCEPT ![t].status = to]
    /\ UNCHANGED <<srcVer, srcGone, reloaded>>

Deliver(t) == SetStatus(t, "pending", "sent") \/ SetStatus(t, "native", "forwarded")
Lose(t) == SetStatus(t, "pending", "failed") \/ SetStatus(t, "native", "failed")

\* Any other rule answers it by writing a version the source has had over the copy.
Update(t, v) ==
    /\ made[t].status = "sent" /\ v \in 2..srcVer[made[t].msg]
    /\ ~RuleCfg[made[t].rule].copyOnce
    /\ made' = [made EXCEPT ![t].ver = v]
    /\ UNCHANGED <<srcVer, srcGone, reloaded>>

\* A delivered copy goes when its source went; that of an Indelible rule stays, unless the
\* rules file that called it so is no longer the one in use.
Remove(t) ==
    /\ made[t].msg \in srcGone
    /\ RuleCfg[made[t].rule].indelible => reloaded
    /\ SetStatus(t, "sent", "deleted")

Next ==
    \/ \E m \in Messages : Publish(m) \/ Edit(m)
    \/ \E ms \in SUBSET Messages : Delete(ms)
    \/ Reload
    \/ \E m \in Messages, r \in Rules, d \in Dsts :
         \/ Copy(m, r, d) \/ Forward(m, r, d)
         \/ \E v \in 2..srcVer[m] : Version(m, r, d, v)
    \/ \E t \in DOMAIN made :
         \/ Deliver(t) \/ Lose(t) \/ Remove(t)
         \/ \E v \in 2..srcVer[made[t].msg] : Update(t, v)

Spec == Init /\ [][Next]_vars
================================================================================
