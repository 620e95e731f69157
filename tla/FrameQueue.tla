------------------------------- MODULE FrameQueue ------------------------------
(***************************************************************************)
(* What a stream of frames promises to its two ends: frames arrive whole,  *)
(* each once and in the order in which they were sent, until the stream is *)
(* spoilt.  Frames are numbered as they are sent; 0 is what was never sent *)
(* as a frame.                                                             *)
(***************************************************************************)
EXTENDS Naturals, Sequences

VARIABLES
  sent,       \* how many frames there are
  delivered,  \* the frames that have arrived
  spoilt      \* nothing is promised any more

vars == <<sent, delivered, spoilt>>

Init == sent = 0 /\ delivered = <<>> /\ spoilt = FALSE

Send == sent' = sent + 1 /\ UNCHANGED <<delivered, spoilt>>

Deliver ==
  /\ Len(delivered) < sent
  /\ delivered' = Append(delivered, Len(delivered) + 1)
  /\ UNCHANGED <<sent, spoilt>>

Spoil == spoilt' = TRUE

\* A stream stays spoilt.
Anything == spoilt /\ spoilt'

Next == Send \/ Deliver \/ Spoil \/ Anything

Spec == Init /\ [][Next]_vars
================================================================================
