----------------------------- MODULE GnmiService -----------------------------
(***************************************************************************)
(* The gNMI server: Sets, Gets and other sysrepo clients at the same time. *)
(* gRPC's synchronous server runs every RPC on a thread of its own; all of *)
(* them use GNMIService's only session (src/src/gnmi/gnmi.h:64, handed to  *)
(* Set and Get in set.cpp and get.cpp by src/src/gnmi/gnmi.cpp), and       *)
(* nothing serialises them.                                                *)
(***************************************************************************)
EXTENDS GnmiSet, GnmiGet, FiniteSets

\* How many RPCs the clients have under way at once: 1 for a client that
\* waits for every response, the number of RPCs for no limit at all.
CONSTANT MaxInFlight

ASSUME InFlightBound == MaxInFlight \in Nat \ {0}

vars == <<sysrepoVars, setVars, getVars>>

InFlight ==
    {r \in SetRpc : setState[r] = "ops"} \cup
    {g \in GetRpc : getState[g] \in {"refresh", "read"}}

ClientMaySend == Cardinality(InFlight) < MaxInFlight

SetsOK == {r \in SetRpc : setState[r] = "OK"}

Init == SysrepoInit /\ SetInit /\ GetInit

SetArrives(r) == ClientMaySend /\ SetBegin(r) /\ UNCHANGED getVars

GetArrives(g) == ClientMaySend /\ GetBegin(g, SetsOK) /\ UNCHANGED setVars

SetRuns(r) == SetStep(r) /\ UNCHANGED getVars

GetRuns(g) == GetStep(g) /\ UNCHANGED setVars

PeerRuns(p) == PeerCommit(p) /\ UNCHANGED <<setVars, getVars>>

Next ==
    \/ \E r \in SetRpc : SetArrives(r) \/ SetRuns(r)
    \/ \E g \in GetRpc : GetArrives(g) \/ GetRuns(g)
    \/ \E p \in Peer : PeerRuns(p)

Spec == Init /\ [][Next]_vars

\* A handler's thread keeps running until it returns.  Clients and peers may
\* stay silent for ever.
Fairness ==
    /\ \A r \in SetRpc : WF_vars(SetRuns(r))
    /\ \A g \in GetRpc : WF_vars(GetRuns(g))

FairSpec == Spec /\ Fairness

-----------------------------------------------------------------------------
TypeOK == SysrepoTypeOK /\ SetTypeOK /\ GetTypeOK

(***************************************************************************)
(* A Set that returned OK has nothing left uncommitted on the session:     *)
(* what a client was told is done cannot still be waiting for, or be       *)
(* dragged along by, the commit of another client's Set.  Edits are left   *)
(* behind by failed Sets only (set.cpp:134-137, 151-160, 184-187).         *)
(***************************************************************************)
OkLeavesNoEdits == \A l \in DOMAIN edits : edits[l].by \notin SetsOK

(***************************************************************************)
(* However the Sets interleave on the session they share, one that         *)
(* returned OK has had on the running datastore exactly the effect that    *)
(* the protocol gives its request (last operation wins, replaces after     *)
(* deletes, updates after replaces), on every leaf that no other Set       *)
(* request names; from then on only other sysrepo clients change the leaf. *)
(* Another Set's commit may have applied part of it earlier (set.cpp:183). *)
(***************************************************************************)
UncontendedSetTakesEffect ==
    \A r \in SetsOK : \A l \in Touched(setReq[r]) :
        (\A s \in SetRpc \ {r} : l \notin Touched(setReq[s])) =>
            /\ \E n \in DOMAIN log : log[n][l] = Effect(r, setReq[r])[l]
            /\ Running[l] = Effect(r, setReq[r])[l] \/ Running[l].by \in Peer

(***************************************************************************)
(* No stale, torn or backward answers.  Each notification of a Get shows   *)
(* ONE committed version, none is older than the arrival of the Get, and   *)
(* later notifications show the same version or later ones; any other RPC  *)
(* may reload the session's copy between the refresh and the read of this  *)
(* one (get.cpp:43, 51).  On top of it only uncommitted edits are shown,   *)
(* and only of Sets that had not returned OK when the Get arrived.         *)
(***************************************************************************)
ShowsVersion(g, i, n) ==
    \A u \in got[g][i] :
        IF u.staged THEN u.cell.by \in SetRpc \ settled[g]
                    ELSE u.cell = log[n][u.leaf]

\* One version per notification, none before the Get's arrival or after
\* `last', in the order of the notifications.
ReadsForward(g, last) ==
    \E at \in [DOMAIN got[g] -> since[g] .. last] :
        /\ \A i, j \in DOMAIN got[g] : i < j => at[i] <= at[j]
        /\ \A i \in DOMAIN got[g] : ShowsVersion(g, i, at[i])

GetReadsForward == \A g \in GetRpc : ReadsForward(g, Len(log))

(***************************************************************************)
(* Every RPC that arrived is answered, whatever the other RPCs, the peers  *)
(* and the daemon's failures do (set.cpp:108-190, get.cpp:163-196).        *)
(***************************************************************************)
Answered == {"OK", "ERROR"}

RpcsAnswered ==
    /\ \A r \in SetRpc : setState[r] = "ops" ~> setState[r] \in Answered
    /\ \A g \in GetRpc : getState[g] = "refresh" ~> getState[g] \in Answered

-----------------------------------------------------------------------------
(***************************************************************************)
(* The protocol's claims that the code does not keep.                      *)
(***************************************************************************)

\* gnmi.proto:334-335, "The set of changes that are specified within a
\* single SetRequest are considered to be a transaction": a Set that failed
\* changes nothing in the running datastore, then or later.
SetIsTransaction ==
    \A r \in SetRpc : setState[r] = "ERROR" =>
        \A n \in DOMAIN log, l \in Leaf : log[n][l].by # r

\* gnmi.proto:380-382, every UpdateResult of a successful Set communicates
\* the result of an operation and the "Path associated with the update": an
\* OK is given for operations that were carried out.
OkMeansApplied ==
    \A r \in SetsOK : \A i \in DOMAIN results[r] : results[r][i].path

\* gnmi.proto:50-52, "the target snapshots a subset of the data tree as
\* specified by the paths": all notifications of a Get show one version.
GetIsSnapshot ==
    \A g \in GetRpc : getState[g] = "OK" =>
        \E n \in DOMAIN log : \A i \in DOMAIN got[g] :
            \A u \in got[g][i] : u.cell = log[n][u.leaf]
=============================================================================
