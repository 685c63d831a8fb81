------------------------------- MODULE Sysrepo -------------------------------
(***************************************************************************)
(* The sysrepo session of GNMIService (src/src/gnmi/gnmi.h:64), external:  *)
(* modelled from how Set, Get and Subscribe use it.  GNMIService opens ONE *)
(* session in its constructor and every RPC, on whatever gRPC thread it    *)
(* runs, works through that session.                                       *)
(*                                                                         *)
(* Every call on the session is atomic (a request/reply with the daemon),  *)
(* but calls of different threads interleave.  The session                 *)
(*   - collects the edits of set_item and delete_item until commit;        *)
(*   - applies all of them at once in commit, and keeps them when commit   *)
(*     fails (only discard_changes, which is never called, drops them);    *)
(*   - reads from its own copy of the datastore, which refresh and commit  *)
(*     reload, with its own uncommitted edits on top.                      *)
(***************************************************************************)
EXTENDS DataTree

\* The calls that may fail for reasons of the daemon's own.
CONSTANT Faults

ASSUME FaultKinds == Faults \subseteq {"item", "commit", "refresh", "read"}

VARIABLES
    log,        \* the committed versions of the running datastore, in order
    edits,      \* the session's uncommitted edits: leaf -> cell, partial
    cached      \* the version the session's copy was loaded from

sysrepoVars == <<log, edits, cached>>

NoEdits == [l \in {} |-> Boot]

Running == log[Len(log)]

\* What get_subtrees returns through the session.
View == Over(edits, log[cached])

SysrepoInit ==
    /\ log = <<Initially>>
    /\ edits = NoEdits
    /\ cached = 1

\* set_item or delete_item: the leaves in L get the cell c in the session.
Stage(L, c) ==
    /\ edits' = Over([l \in L |-> c], edits)
    /\ UNCHANGED <<log, cached>>

\* commit succeeds: the edits are replayed over the CURRENT running
\* datastore, and the session starts afresh from the result.
Commit ==
    /\ log' = Append(log, Over(edits, Running))
    /\ cached' = Len(log) + 1
    /\ edits' = NoEdits

\* refresh: reload the session's copy; the edits stay on top of it.
Refresh ==
    /\ cached' = Len(log)
    /\ UNCHANGED <<log, edits>>

\* Another sysrepo client commits a change through a session of its own.
PeerCommit(p) ==
    /\ \A n \in DOMAIN log, l \in Leaf : log[n][l].by # p
    /\ \E L \in (SUBSET Leaf) \ {{}}, present \in BOOLEAN :
          log' = Append(log, Over(PeerChange(p, L, present), Running))
    /\ UNCHANGED <<edits, cached>>

SysrepoTypeOK ==
    /\ log \in Seq([Leaf -> Cell])
    /\ Len(log) > 0
    /\ \E L \in SUBSET Leaf : edits \in [L -> Cell]
    /\ cached \in 1 .. Len(log)
=============================================================================
