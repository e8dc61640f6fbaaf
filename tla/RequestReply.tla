---------------------------- MODULE RequestReply ----------------------------
(***************************************************************************)
(* What the SMB transport (libcli/raw/clitransport.c) promises to its      *)
(* callers: a call is refused at once or ends in exactly one way, with its *)
(* own answer or with a failure, unless its caller gives it up before.     *)
(***************************************************************************)
CONSTANT Call

VARIABLE outcome    \* of each call

Init == outcome = [c \in Call |-> "unused"]

Step(c, from, to) == outcome[c] = from /\ outcome' = [outcome EXCEPT ![c] = to]

Begin(c) == Step(c, "unused", "waiting")
Refuse(c) == Step(c, "unused", "refused")
Answer(c) == Step(c, "waiting", "answered")
Fail(c) == Step(c, "waiting", "failed")
GiveUp(c) == Step(c, "waiting", "given up")

End(c) == Answer(c) \/ Fail(c) \/ GiveUp(c)

Next == \E c \in Call : Begin(c) \/ Refuse(c) \/ End(c)

Spec == Init /\ [][Next]_outcome

\* No call waits forever.
FairSpec == Spec /\ \A c \in Call : WF_outcome(End(c))
=============================================================================
