--------------------------- MODULE MCRelayLockstep ---------------------------
(***************************************************************************)
(* One daemon with two threads and a clock that only moves forward.        *)
(***************************************************************************)
EXTENDS RelayLockstep, MCQueueFrames

LockstepFrames ==
  {F(1, CreateOf(q1, 1)), F(2, SendOf(q1, m1, p1, 1)), F(1, FetchOf(q1)),
   F(2, AckOf(q1, m1))}

OneConnection == [t \in Threads |-> c1]
=============================================================================
