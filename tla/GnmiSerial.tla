----------------------------- MODULE GnmiSerial -----------------------------
(***************************************************************************)
(* GnmiService as an implementation of SetTransaction.  A Set is abstractly*)
(* pending until it returns, and the store is the running datastore.       *)
(***************************************************************************)
EXTENDS GnmiService

Outcome ==
    [r \in SetRpc |->
        IF setState[r] \in Answered THEN setState[r] ELSE "pending"]

Transaction ==
    INSTANCE SetTransaction
        WITH store <- Running, request <- setReq, outcome <- Outcome

\* q is refused at a value that cannot be stored, before it has made a call.
RefusedEarly(q) ==
    \E i \in DOMAIN InOrder(q) :
        /\ InOrder(q)[i].form = "unsupported"
        /\ \A k \in 1 .. i : InOrder(q)[k].calls = <<>>

\* One RPC at a time, no call of a Set fails, and every request is refused
\* before it has staged anything or can be carried out.
Serial ==
    /\ MaxInFlight = 1
    /\ Faults \cap {"item", "commit"} = {}
    /\ \A q \in SetRequest :
           q.extension \/ RefusedEarly(q) \/ Transaction!Acceptable(q)

(***************************************************************************)
(* Sets are transactions as long as RPCs do not overlap and every request  *)
(* is either refused before it has staged anything or carried out; peers   *)
(* may commit in the middle of a Set (set.cpp:108-190).                    *)
(***************************************************************************)
SetsAreTransactions == Transaction!Spec
=============================================================================
