------------------------------- MODULE GnmiGet -------------------------------
(***************************************************************************)
(* The Get RPC: Get::run and the functions below it (src/src/gnmi/get.cpp) *)
(* down to Encode::json_read.  For every path of the request it refreshes  *)
(* the session all RPCs share, and then, in a second call, reads the       *)
(* subtrees.  Other RPCs run between any two of these calls.               *)
(***************************************************************************)
EXTENDS Sysrepo

CONSTANTS
    GetRpc,         \* the Get calls the server receives, each served once
    GetRequest      \* the contents a GetRequest may have

(***************************************************************************)
(* `rejected': verifyGetRequest refuses it (its encoding, data type,       *)
(* use_models or extensions).  A path stands for the leaves below it.      *)
(***************************************************************************)
ASSUME GetRequests ==
    GetRequest \subseteq
        [rejected : BOOLEAN, paths : Seq((SUBSET Leaf) \ {{}})]

VARIABLES
    getReq,     \* the request of each Get
    getState,   \* "idle"; "refresh" or "read", the call it makes next; or
                \* the status it returned
    got,        \* its notifications so far, one per path
    since,      \* (history) how many versions were committed at its start
    settled     \* (history) the Sets that had returned OK at its start

getVars == <<getReq, getState, got, since, settled>>

Path(g) == getReq[g].paths[Len(got[g]) + 1]

GetReturn(g, status) ==
    /\ getState' = [getState EXCEPT ![g] = status]
    /\ UNCHANGED <<getReq, got, since, settled>>

GetInit ==
    /\ getReq \in [GetRpc -> GetRequest]
    /\ getState = [g \in GetRpc |-> "idle"]
    /\ got = [g \in GetRpc |-> <<>>]
    /\ since = [g \in GetRpc |-> 1]
    /\ settled = [g \in GetRpc |-> {}]

\* The call arrives while the Sets in `done' have returned OK.
GetBegin(g, done) ==
    /\ getState[g] = "idle"
    /\ getState' = [getState EXCEPT ![g] =
            IF getReq[g].rejected THEN "ERROR"
            ELSE IF getReq[g].paths = <<>> THEN "OK" ELSE "refresh"]
    /\ since' = [since EXCEPT ![g] = Len(log)]
    /\ settled' = [settled EXCEPT ![g] = done]
    /\ UNCHANGED <<getReq, got, sysrepoVars>>

\* Mutant of GetRefresh: the session's copy is used as it is.
GetRefreshSkipped(g) ==
    /\ getState[g] = "refresh"
    /\ GetReturn(g, "read")
    /\ UNCHANGED sysrepoVars

GetRefresh(g) ==
    /\ getState[g] = "refresh"
    /\ Refresh
    /\ GetReturn(g, "read")

\* refresh throws; nothing catches it, and the call ends in an error.
GetRefreshThrows(g) ==
    /\ getState[g] = "refresh" /\ "refresh" \in Faults
    /\ GetReturn(g, "ERROR")
    /\ UNCHANGED sysrepoVars

(***************************************************************************)
(* The notification of the next path: what the session shows of every leaf *)
(* below it (not `present': the leaf is not there), and (history, not part *)
(* of the message) whether that is an uncommitted edit.                    *)
(***************************************************************************)
Shown(L) ==
    {[leaf |-> l, cell |-> View[l], staged |-> l \in DOMAIN edits] : l \in L}

LeavesOf(notification) == {u.leaf : u \in notification}

GetRead(g) ==
    /\ getState[g] = "read"
    /\ \E l \in Path(g) : View[l].present
    /\ got' = [got EXCEPT ![g] = Append(@, Shown(Path(g)))]
    /\ getState' = [getState EXCEPT ![g] =
            IF Len(got[g]) + 1 = Len(getReq[g].paths) THEN "OK" ELSE "refresh"]
    /\ UNCHANGED <<getReq, since, settled, sysrepoVars>>

\* Mutant of GetReadFails: the path is tried again until something is there.
GetReadRetried(g) ==
    /\ getState[g] = "read"
    /\ (\A l \in Path(g) : ~View[l].present) \/ "read" \in Faults
    /\ GetReturn(g, "refresh")
    /\ UNCHANGED sysrepoVars

\* Nothing is there, or the read throws: the Get fails as a whole.
GetReadFails(g) ==
    /\ getState[g] = "read"
    /\ (\A l \in Path(g) : ~View[l].present) \/ "read" \in Faults
    /\ GetReturn(g, "ERROR")
    /\ UNCHANGED sysrepoVars

GetStep(g) ==
    \/ GetRefresh(g)
    \/ GetRefreshThrows(g)
    \/ GetRead(g)
    \/ GetReadFails(g)

Notification == SUBSET [leaf : Leaf, cell : Cell, staged : BOOLEAN]

\* One notification per path, in the order of the paths, and never more.
NotificationsMatchPaths ==
    \A g \in GetRpc :
        /\ Len(got[g]) <= Len(getReq[g].paths)
        /\ \A i \in DOMAIN got[g] : LeavesOf(got[g][i]) = getReq[g].paths[i]
        /\ getState[g] \in {"refresh", "read"} =>
               Len(got[g]) < Len(getReq[g].paths)
        /\ getState[g] = "idle" => got[g] = <<>>

GetTypeOK ==
    /\ getReq \in [GetRpc -> GetRequest]
    /\ getState \in [GetRpc -> {"idle", "refresh", "read", "OK", "ERROR"}]
    /\ got \in [GetRpc -> Seq(Notification)]
    /\ NotificationsMatchPaths
    /\ since \in [GetRpc -> Nat \ {0}]
    /\ settled \in [GetRpc -> SUBSET SetRpc]
=============================================================================
