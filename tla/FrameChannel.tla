---------------------------- MODULE FrameChannel ----------------------------
(***************************************************************************)
(* What a transport promises for one direction of one connection, with    *)
(* the frames numbered in the order they were handed to send(): frames     *)
(* come out of receive() whole, at most once and in order; on a lossless   *)
(* transport none is skipped; and once is_closed() has reported the end,   *)
(* nothing more comes out.                                                 *)
(***************************************************************************)
EXTENDS Naturals, Sequences

CONSTANT Lossy  \* may frames be skipped (a terminal line) or not (a socket)

VARIABLES
    accepted,   \* number of frames handed to send()
    delivered,  \* numbers of the frames receive() returned, in order
    over        \* the end of the connection has been reported

channelVars == <<accepted, delivered, over>>

LastDelivered == IF delivered = << >> THEN 0 ELSE delivered[Len(delivered)]

Init ==
    /\ accepted = 0
    /\ delivered = << >>
    /\ over = FALSE

Accept ==
    /\ accepted' = accepted + 1
    /\ UNCHANGED <<delivered, over>>

Deliver ==
    /\ ~over
    /\ \E i \in LastDelivered + 1 .. accepted :
          /\ ~Lossy => i = LastDelivered + 1
          /\ delivered' = Append(delivered, i)
    /\ UNCHANGED <<accepted, over>>

End ==
    /\ over' = TRUE
    /\ UNCHANGED <<accepted, delivered>>

Next == Accept \/ Deliver \/ End

Spec == Init /\ [][Next]_channelVars
=============================================================================
