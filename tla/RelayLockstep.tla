---------------------------- MODULE RelayLockstep ----------------------------
(***************************************************************************)
(* The comparison the test                                                 *)
(* long_generated_sequence_matches_in_memory_reference_model makes, for    *)
(* every interleaving: an in-memory reference relay runs each command the  *)
(* SQLite relay runs, at the same relay time and in the same order.        *)
(***************************************************************************)
EXTENDS DurableRelay

VARIABLES referenceQueues, referenceReply

lockstepVars == <<vars, referenceQueues, referenceReply>>

Reference == INSTANCE Relay
  WITH queues <- referenceQueues, reply <- referenceReply,
       Requests <- {f.request : f \in Frames}

LockstepInit == Init /\ Reference!Init

LockstepNext ==
  \/ \E t \in Threads :
       Effect(t) /\ Reference!Execute(frame[t].request, now[t])
  \/ /\ \E t \in Threads : Passage(t)
     /\ UNCHANGED <<referenceQueues, referenceReply>>
  \/ /\ Environment
     /\ UNCHANGED <<referenceQueues, referenceReply>>

LockstepSpec == LockstepInit /\ [][LockstepNext]_lockstepVars

\* The SQLite relay and the in-memory reference give the same result for every
\* command: what docs/detailed_design/50 asks of the two implementations.
SameResults ==
  [][\A t \in Threads :
       pc[t] = "execute" /\ pc'[t] \in {"respond", "rejected"} =>
         referenceReply'.result = response'[t]]_lockstepVars
=============================================================================
