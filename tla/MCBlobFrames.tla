---------------------------- MODULE MCBlobFrames ----------------------------
(***************************************************************************)
(* Frames and values for the model-checked instances of the blob modules:  *)
(* two uploads, u1 and u2, of the same ciphertext, each with capabilities  *)
(* of its own.                                                             *)
(***************************************************************************)
EXTENDS BlobRelay, TLC

CONSTANTS u1, u2, b1, x1, x2, k1, k2, k3, k4, n1, n2, n3, n4, t1, t2, manifest1

OneChunk == manifest1 :> <<x1>>
TwoChunks == manifest1 :> <<x1, x2>>
MCIdentify == manifest1 :> b1

CapsOf(a, b, c, d) ==
  ("upload" :> a) @@ ("download" :> b) @@ ("renew" :> c) @@ ("delete" :> d)
Caps1 == CapsOf(k1, k2, k3, k4)
Caps2 == CapsOf(n1, n2, n3, n4)

F(id, request) == [request_id |-> id, request |-> request]
BeginOf(u, caps, ttl) ==
  [command |-> "BEGIN_UPLOAD", upload |-> u, caps |-> caps,
   manifest |-> manifest1, ttl |-> ttl]
PutOf(u, cap, i, c) ==
  [command |-> "PUT_CHUNK", upload |-> u, cap |-> cap, index |-> i,
   ciphertext |-> c]
CommitOf(u, cap) == [command |-> "COMMIT", upload |-> u, cap |-> cap, blob |-> b1]
Get(cap) == [command |-> "GET_MANIFEST", blob |-> b1, cap |-> cap]
GetChunk(cap, i) ==
  [command |-> "GET_CHUNK", blob |-> b1, cap |-> cap, index |-> i]
Renew(cap, ttl) == [command |-> "RENEW", blob |-> b1, cap |-> cap, ttl |-> ttl]
Delete(cap) == [command |-> "DELETE", blob |-> b1, cap |-> cap]
=============================================================================
