------------------------------ MODULE DataTree ------------------------------
(***************************************************************************)
(* The data tree that sysrepo stores, external: the leaves that can hold a *)
(* value, and who wrote what into them.  A value is abstracted to the      *)
(* operation that produced it, which is all that isolation, freshness and  *)
(* atomicity can tell apart.                                               *)
(***************************************************************************)
EXTENDS Naturals, Sequences

CONSTANTS
    Leaf,       \* the nodes of the data tree that can hold a value
    SetRpc,     \* the Set calls the server receives, each served once
    Peer,       \* other sysrepo clients; each commits at most one change
    Boot        \* the writer of the initial contents

ASSUME Writers ==
    /\ Boot \notin SetRpc \cup Peer
    /\ SetRpc \cap Peer = {}

Writer == SetRpc \cup Peer \cup {Boot}

(***************************************************************************)
(* What a leaf holds: its writer, the index of the operation within that   *)
(* writer's request, and whether a value is there (FALSE after a delete).  *)
(***************************************************************************)
Cell == [by : Writer, op : Nat, present : BOOLEAN]

Initially == [l \in Leaf |-> [by |-> Boot, op |-> 0, present |-> TRUE]]

\* f with g beneath it: f where f is defined, g elsewhere.
Over(f, g) ==
    [l \in DOMAIN f \cup DOMAIN g |-> IF l \in DOMAIN f THEN f[l] ELSE g[l]]

\* A change another sysrepo client p may commit: set, or delete, L.
PeerChange(p, L, present) ==
    [l \in L |-> [by |-> p, op |-> 0, present |-> present]]
=============================================================================
