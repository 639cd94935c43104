---------------------------- MODULE MCDurableRelay ----------------------------
(***************************************************************************)
(* Instances of DurableRelay for TLC.                                      *)
(***************************************************************************)
EXTENDS DurableRelay, MCQueueFrames

\* Two connections race with colliding request identifiers: 1 names a FETCH and a
\* DELETE_QUEUE of the recipient, and an ACK may be refused on one connection
\* while the other delivers what it is about or deletes its queue.
RaceFrames ==
  {F(1, CreateOf(q1, 1)), F(2, SendOf(q1, m1, p1, 2)),
   F(1, FetchOf(q1)), F(1, DeleteOf(q1)), F(2, AckOf(q1, m1))}

SeparateConnections == (t1 :> c1) @@ (t2 :> c2)

\* Connections are alike: swapping the two of them, with the thread that belongs
\* to each, changes nothing.
SwapConnections ==
  {p \in Permutations({t1, t2, c1, c2}) :
     \/ p = [x \in {t1, t2, c1, c2} |-> x]
     \/ p = (t1 :> t2) @@ (t2 :> t1) @@ (c1 :> c2) @@ (c2 :> c1)}
=============================================================================
