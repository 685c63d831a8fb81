--------------------------- MODULE MCGnmiService ---------------------------
(***************************************************************************)
(* GnmiService on small instances: two leaves, so that Sets can overlap,   *)
(* contain each other or be disjoint, and requests that take every path    *)
(* through Set::run and Get::run.                                          *)
(***************************************************************************)
EXTENDS GnmiSerial

CONSTANTS x, y     \* the leaves

Item(L) == [form |-> "item", below |-> L, calls |-> <<L>>]
Missing == [form |-> "missing", below |-> {}, calls |-> <<>>]
BadScalar == [form |-> "unsupported", below |-> {x}, calls |-> <<>>]

\* A JSON document at the root that sets the leaves in this order, and one
\* that holds a value of an unsupported type after them.
Json(ls) ==
    [form |-> "item", below |-> Leaf, calls |-> [i \in DOMAIN ls |-> {ls[i]}]]
BadJson(ls) == [Json(ls) EXCEPT !.form = "unsupported"]

Req(valid, del, rep, upd) ==
    [extension |-> FALSE, valid |-> valid,
     delete |-> del, replace |-> rep, update |-> upd]

DeleteAll == Req(TRUE, <<Item({x, y})>>, <<>>, <<>>)
UpdateX == Req(TRUE, <<>>, <<>>, <<Item({x})>>)
UpdateY == Req(TRUE, <<>>, <<>>, <<Item({y})>>)
Rewrite == Req(TRUE, <<Item({x, y})>>, <<Json(<<x, y>>)>>, <<Item({y})>>)
Invalid == Req(FALSE, <<>>, <<>>, <<Item({x})>>)
PartlyStored == Req(TRUE, <<>>, <<>>, <<BadJson(<<x>>)>>)
Refused == Req(TRUE, <<>>, <<BadScalar>>, <<Item({y})>>)
Pathless == Req(TRUE, <<>>, <<Missing>>, <<Item({y})>>)
Extended == [UpdateX EXCEPT !.extension = TRUE]

\* Requests the code carries out as the protocol says when they are alone.
GoodRequests == {DeleteAll, UpdateX, UpdateY, Rewrite, Refused, Extended}

MixedRequests == {DeleteAll, UpdateY, Rewrite, PartlyStored, Pathless}

FailingRequests == {UpdateX, UpdateY, Invalid, PartlyStored, Extended}

OnePath == {[rejected |-> FALSE, paths |-> <<{x, y}>>]}

TwoPaths == {[rejected |-> FALSE, paths |-> <<{x}, {x, y}>>]}

GetShapes ==
    TwoPaths \cup {[rejected |-> TRUE, paths |-> <<{x}>>],
                   [rejected |-> FALSE, paths |-> <<>>]}
=============================================================================
