---------------------------- MODULE MCBlobDownload ----------------------------
(***************************************************************************)
(* An instance of BlobDownload for TLC.                                    *)
(***************************************************************************)
EXTENDS BlobDownload, MCBlobFrames

TransferFrames == MyFrames \cup DownloadFrames
=============================================================================
