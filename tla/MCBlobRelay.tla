----------------------------- MODULE MCBlobRelay -----------------------------
(***************************************************************************)
(* Instances of BlobRelay for TLC.                                         *)
(***************************************************************************)
EXTENDS MCBlobFrames

\* Both uploads, in any order, with a repeated BEGIN under another identifier;
\* reading, renewal and deletion of the first grant.
GrantFrames ==
  {F(1, BeginOf(u1, Caps1, 1)), F(2, PutOf(u1, k1, 1, x1)),
   F(3, CommitOf(u1, k1)), F(3, BeginOf(u1, Caps1, 1)),
   F(1, BeginOf(u2, Caps2, 1)), F(2, PutOf(u2, n1, 1, x1)),
   F(3, CommitOf(u2, n1)),
   F(1, Get(k2)), F(1, Renew(k3, 1)), F(1, Delete(k4))}

\* One grant, read and renewed.
RenewFrames ==
  {F(1, BeginOf(u1, Caps1, 1)), F(2, PutOf(u1, k1, 1, x1)),
   F(3, CommitOf(u1, k1)), F(1, Get(k2)), F(1, Renew(k3, 2))}
=============================================================================
