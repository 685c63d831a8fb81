---------------------------- MODULE MCGnmiSerial ----------------------------
(***************************************************************************)
(* The instance of MCGnmiService on which Sets are transactions meets the  *)
(* conditions under which they are.                                        *)
(***************************************************************************)
EXTENDS MCGnmiService

ASSUME IsSerial == Serial
=============================================================================
