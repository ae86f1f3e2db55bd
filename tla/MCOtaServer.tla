----------------------------- MODULE MCOtaServer ----------------------------
(***************************************************************************)
(* The instance of OtaServer that TLC checks: any server, with or without  *)
(* an MD5.                                                                 *)
(***************************************************************************)
EXTENDS OtaServer

AllServers == [ranged: BOOLEAN, md5: BOOLEAN]
=============================================================================
