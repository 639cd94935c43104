-------------------------- MODULE MCRelayRefinement --------------------------
(***************************************************************************)
(* Instances of RelayRefinement for TLC.                                   *)
(***************************************************************************)
EXTENDS RelayRefinement, MCQueueFrames

\* q1 has one place or two and may be deleted and created again; q2 shares its
\* row identifiers.  Frames that share an identifier exclude each other; among
\* them are SENDs with an oversized or another payload and with a TTL of zero and
\* CREATEs with other limits, so every kind of refusal occurs but that of a wrong
\* principal.
QueueFrames ==
  {F(1, CreateOf(q1, 1)), F(4, CreateOf(q1, 2)), F(4, CreateOf(q2, 1)),
   F(2, SendOf(q1, m1, p1, 1)), F(3, SendOf(q1, m1, p2, 1)),
   F(3, SendOf(q1, m2, p1, 2)), F(3, SendOf(q1, m2, p1, 0)),
   F(1, FetchOf(q1)), F(2, AckOf(q1, m1)),
   F(1, DeleteOf(q1)), F(2, SendOf(q2, m1, p1, 1))}

MCConnectionOf == [t \in Threads |-> c1]
=============================================================================
