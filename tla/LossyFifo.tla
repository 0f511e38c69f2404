------------------------------ MODULE LossyFifo ------------------------------
(***************************************************************************)
(* What webhook delivery promises its receivers: a first-in first-out       *)
(* channel that carries a message at most once and may give up on any.     *)
(***************************************************************************)
EXTENDS Sequences

CONSTANT Messages

VARIABLES
    sent,  \* messages that ever entered the channel
    pipe,  \* those on their way, oldest first
    out    \* those that came out, in order

Init == sent = {} /\ pipe = <<>> /\ out = <<>>

Send(m) ==
    /\ m \notin sent
    /\ sent' = sent \cup {m}
    /\ pipe' = Append(pipe, m)
    /\ UNCHANGED out

Emerge ==
    /\ pipe # <<>>
    /\ out' = Append(out, Head(pipe))
    /\ pipe' = Tail(pipe)
    /\ UNCHANGED sent

GiveUp ==
    /\ pipe # <<>>
    /\ pipe' = Tail(pipe)
    /\ UNCHANGED <<sent, out>>

Reset == pipe' = <<>> /\ UNCHANGED <<sent, out>>

Next == (\E m \in Messages : Send(m)) \/ Emerge \/ GiveUp \/ Reset

Spec == Init /\ [][Next]_<<sent, pipe, out>>
=============================================================================
