--------------------------- MODULE MessageStream ---------------------------
(***************************************************************************)
(* What the packet layer (lib/stream/packet.c) promises to the code that   *)
(* sits on it: a TCP stream looks like a queue of messages.  They arrive   *)
(* whole, once, in the order of sending, one at a time, and an orderly end *)
(* of the stream is reported only after the last complete message.         *)
(***************************************************************************)
EXTENDS Naturals, SequencesExt

CONSTANT Message

VARIABLES sent,      \* the messages the peer has sent completely
          delivered, \* the messages handed to the callback
          handling,  \* the callback is running
          up,        \* the end of the stream has not been reported
          broken     \* the connection broke, or its owner gave it up

vars == <<sent, delivered, handling, up, broken>>

Init == /\ sent = <<>> /\ delivered = <<>> /\ handling = FALSE
        /\ up = TRUE /\ broken = FALSE

\* A write of the peer may complete several messages.
Send ==
    /\ sent' \in Seq(Message)
    /\ IsStrictPrefix(sent, sent')
    /\ UNCHANGED <<delivered, handling, up, broken>>

Deliver ==
    /\ ~handling
    /\ Len(delivered) < Len(sent)
    /\ delivered' = Append(delivered, sent[Len(delivered) + 1])
    /\ handling' = TRUE
    /\ UNCHANGED <<sent, up, broken>>

Handled == handling /\ handling' = FALSE /\ UNCHANGED <<sent, delivered, up, broken>>

Break ==
    /\ ~broken
    /\ broken' = TRUE
    /\ up' \in {up, FALSE}
    /\ UNCHANGED <<sent, delivered, handling>>

\* After an orderly end nothing is missing.
EndOfStream ==
    /\ up
    /\ broken \/ delivered = sent
    /\ up' = FALSE
    /\ UNCHANGED <<sent, delivered, handling, broken>>

Next == Send \/ Deliver \/ Handled \/ EndOfStream \/ Break

Spec == Init /\ [][Next]_vars

\* As long as the connection is not broken every message arrives.
Fairness == WF_vars(~broken /\ Deliver) /\ WF_vars(Handled)

FairSpec == Spec /\ Fairness
=============================================================================
