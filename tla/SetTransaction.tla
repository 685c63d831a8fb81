--------------------------- MODULE SetTransaction ---------------------------
(***************************************************************************)
(* What the protocol promises of Set (src/proto/gnmi.proto:329-335): a     *)
(* request takes effect in one step, as a whole, or not at all, and one    *)
(* that the server can carry out is carried out.                           *)
(***************************************************************************)
EXTENDS SetRequests

VARIABLES store, request, outcome

Acceptable(q) ==
    /\ ~q.extension /\ q.valid
    /\ \A i \in DOMAIN InOrder(q) : InOrder(q)[i].form = "item"

Init ==
    /\ store = Initially
    /\ request \in [SetRpc -> Request]
    /\ outcome = [r \in SetRpc |-> "pending"]

Resolve(r, status) ==
    /\ outcome[r] = "pending"
    /\ outcome' = [outcome EXCEPT ![r] = status]
    /\ UNCHANGED request

Apply(r) ==
    /\ Acceptable(request[r])
    /\ Resolve(r, "OK")
    /\ store' = Over(Effect(r, request[r]), store)

Refuse(r) ==
    /\ ~Acceptable(request[r])
    /\ Resolve(r, "ERROR")
    /\ UNCHANGED store

PeerWrite(p) ==
    /\ \E L \in (SUBSET Leaf) \ {{}}, present \in BOOLEAN :
          store' = Over(PeerChange(p, L, present), store)
    /\ UNCHANGED <<request, outcome>>

Next ==
    \/ \E r \in SetRpc : Apply(r) \/ Refuse(r)
    \/ \E p \in Peer : PeerWrite(p)

Spec == Init /\ [][Next]_<<store, request, outcome>>
=============================================================================
