---------------------------- MODULE MCGnmiStreams ----------------------------
(***************************************************************************)
(* GnmiStreams on the instances of MCGnmiService, with one subscription.   *)
(***************************************************************************)
EXTENDS MCGnmiService, GnmiStreams
SamplesAll == [s \in Stream |-> Leaf]
=============================================================================
