----------------------------- MODULE SetRequests -----------------------------
(***************************************************************************)
(* The contents of a SetRequest, and what the gNMI protocol file says it   *)
(* means (src/proto/gnmi.proto:329-345): deletes, then replaces, then      *)
(* updates, "a single SetRequest [is] considered to be a transaction".     *)
(*                                                                         *)
(* An operation is reduced to the session calls it makes.  Each call       *)
(* touches a set of leaves: a subtree for delete_item, one leaf (or list   *)
(* entry) for set_item.  A scalar value makes one call, a JSON value one   *)
(* per leaf of the document (module JsonStore).  `below': the leaves below *)
(* the path of the operation, which a JSON value does not depend on.       *)
(***************************************************************************)
EXTENDS DataTree

(***************************************************************************)
(* "item"         every call is made and the operation completes;          *)
(* "unsupported"  the value, or the part of it after `calls', cannot be    *)
(*                stored and throws: an encoding or a YANG type the server *)
(*                does not support, JSON that does not parse;              *)
(* "missing"      an Update without path or without value.                 *)
(***************************************************************************)
Form == {"item", "unsupported", "missing"}

Operation == [form : Form, below : SUBSET Leaf, calls : Seq(SUBSET Leaf)]

(***************************************************************************)
(* `extension': the request carries gNMI extensions.  `valid': what it     *)
(* writes satisfies the YANG constraints that sysrepo checks in commit.    *)
(***************************************************************************)
Request == [extension : BOOLEAN, valid : BOOLEAN,
            delete : Seq(Operation), replace : Seq(Operation),
            update : Seq(Operation)]

InOrder(q) == q.delete \o q.replace \o q.update

Touches(o, l) == \E j \in DOMAIN o.calls : l \in o.calls[j]

\* The operations of q that touch l, and the leaves q touches at all.
Touching(q, l) == {i \in DOMAIN InOrder(q) : Touches(InOrder(q)[i], l)}

Touched(q) == {l \in Leaf : Touching(q, l) # {}}

\* What the request r with contents q leaves behind: on each leaf, the last
\* operation wins.
Effect(r, q) ==
    [l \in Touched(q) |->
        LET last == CHOOSE i \in Touching(q, l) :
                        \A k \in Touching(q, l) : k <= i
        IN  [by |-> r, op |-> last, present |-> last > Len(q.delete)]]
=============================================================================
