---------------------------- MODULE MCMasterCodes ----------------------------
(***************************************************************************)
(* Three calls on the material codes of two prefixes and on the client     *)
(* types. The rows of two sheets name the prefixes in opposite orders;     *)
(* there are two default client types.                                     *)
(***************************************************************************)
EXTENDS MasterCodes

CONSTANTS RAW, CON, CLIENT_TYPE

ThreeSequences == {RAW, CON, CLIENT_TYPE}
BothOrders == {<<RAW, CON>>, <<CON, RAW>>}

=============================================================================
