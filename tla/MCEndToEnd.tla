------------------------------ MODULE MCEndToEnd ------------------------------
(***************************************************************************)
(* Instances of EndToEnd for TLC: a queue, a sender with two messages and  *)
(* a recipient that polls.                                                 *)
(***************************************************************************)
EXTENDS EndToEnd, MCQueueFrames

CONSTANT MaxId      \* bound on the recipient's request identifiers
RecipientFrames ==
  {F(i, FetchOf(q1)) : i \in 1 .. MaxId} \cup
  {F(i, AckOf(q1, m)) : i \in 1 .. MaxId, m \in MessageIds}

\* Two messages of different lifetimes; the first to expire is also sent under
\* a second request identifier, so that it can be accepted again.
OrderedFrames ==
  {F(1, SendOf(q1, m1, p1, 1)), F(2, SendOf(q1, m2, p1, 2)),
   F(3, SendOf(q1, m1, p1, 1))}
    \cup RecipientFrames

\* A message, and one that the recipient cannot open.
BlockedFrames ==
  {F(1, SendOf(q1, m1, p1, 2)), F(2, SendOf(q1, m2, p2, 1))}
    \cup RecipientFrames

MCConfig == [ConfigOf(2) EXCEPT !.max_message_bytes = 2]
EndToEndConfigs == {MCConfig}
OneConnection == [t \in Threads |-> c1]
=============================================================================
