---------------------------- MODULE LossyChannel ----------------------------
(***************************************************************************)
(* What the scheduler transport promises, whatever moves the bytes: a      *)
(* bounded first-in first-out channel.  An event that finds the channel    *)
(* full is lost and counted; every other one comes out exactly once, after *)
(* the events that went in before it.  Events are numbered as they fire.   *)
(***************************************************************************)
EXTENDS Naturals, Sequences

CONSTANT Capacity

VARIABLES
    sent,       \* the number of events that fired
    transit,    \* the events inside the channel, oldest first
    delivered,  \* the number of events that came out
    last,       \* the event that came out last, 0 before any did
    losses      \* the number of events counted as lost

chanVars == <<sent, transit, delivered, last, losses>>

Init == sent = 0 /\ transit = <<>> /\ delivered = 0 /\ last = 0 /\ losses = 0

Send ==
    /\ Len(transit) < Capacity
    /\ sent' = sent + 1
    /\ transit' = Append(transit, sent + 1)
    /\ UNCHANGED <<delivered, last, losses>>

Lose ==
    /\ Len(transit) = Capacity
    /\ sent' = sent + 1
    /\ losses' = losses + 1
    /\ UNCHANGED <<transit, delivered, last>>

Deliver ==
    /\ transit # <<>>
    /\ transit' = Tail(transit)
    /\ delivered' = delivered + 1
    /\ last' = Head(transit)
    /\ UNCHANGED <<sent, losses>>

Next == Send \/ Lose \/ Deliver

Spec == Init /\ [][Next]_chanVars
=============================================================================
