---------------------------- MODULE MCUploadJobs ----------------------------
(***************************************************************************)
(* UploadJobs for TLC.                                                     *)
(***************************************************************************)
EXTENDS UploadJobs
=============================================================================
