---------------------------- MODULE MCUploader ----------------------------
(* The files of the uploader's run.                                        *)
EXTENDS Uploader
CONSTANTS f1, f2
=============================================================================
