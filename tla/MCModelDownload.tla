---------------------------- MODULE MCModelDownload ----------------------------
(* Instances of ModelDownload for TLC.                                       *)
EXTENDS ModelDownload
================================================================================
