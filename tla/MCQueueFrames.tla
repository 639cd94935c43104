----------------------------- MODULE MCQueueFrames -----------------------------
(***************************************************************************)
(* Frames, configurations and payload sizes for the model-checked          *)
(* instances of the queue modules.                                         *)
(***************************************************************************)
EXTENDS QueueProtocol, TLC

CONSTANTS q1, q2, alice, bob, m1, m2, p1, p2, t1, t2, c1, c2

\* p2 is one byte more than a queue admits.
MCPayloadLen == (p1 :> 1) @@ (p2 :> 2)

ConfigOf(depth) ==
  [sender |-> alice, recipient |-> bob, max_messages |-> depth,
   max_message_bytes |-> 1]
MCConfigs == {ConfigOf(1), ConfigOf(2)}

F(id, request) == [request_id |-> id, request |-> request]
CreateOf(q, depth) ==
  [command |-> "CREATE_QUEUE", queue |-> q, config |-> ConfigOf(depth)]
SendBy(p, q, m, payload, ttl) ==
  [command |-> "SEND", queue |-> q, sender |-> p, message |-> m,
   payload |-> payload, ttl |-> ttl]
SendOf(q, m, payload, ttl) == SendBy(alice, q, m, payload, ttl)
FetchOf(q) == [command |-> "FETCH", queue |-> q, recipient |-> bob]
AckBy(p, q, m) ==
  [command |-> "ACK", queue |-> q, recipient |-> p, message |-> m]
AckOf(q, m) == AckBy(bob, q, m)
DeleteOf(q) == [command |-> "DELETE_QUEUE", queue |-> q, recipient |-> bob]
=============================================================================
