---------------------------- MODULE MCSftpIngest ----------------------------
(***************************************************************************)
(* Instances of SftpIngest for TLC.                                        *)
(***************************************************************************)
EXTENDS SftpIngest

CONSTANTS a, b, txt
=============================================================================
