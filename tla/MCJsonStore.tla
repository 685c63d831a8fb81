---------------------------- MODULE MCJsonStore ----------------------------
(***************************************************************************)
(* JsonStore on every well-formed document of up to three nodes, and on    *)
(* longer ones with chains of references and nested lists.                 *)
(***************************************************************************)
EXTENDS JsonStore

N(kind, parent) == [kind |-> kind, parent |-> parent, target |-> 1]

Ref(parent, target) == [kind |-> "leafref", parent |-> parent, target |-> target]

EntryRef(parent, target) == [Ref(parent, target) EXCEPT !.kind = "entryref"]

Nodes(n) == {d \in [kind : Kind, parent : 0 .. n, target : 1 .. n] :
                d.kind \notin Reference => d.target = 1}

Small == {d \in UNION {[1 .. n -> Nodes(n)] : n \in 1 .. 3} :
             WellFormed(d) /\ Acyclic(d)}

\* A list entry in a list entry, and a reference into the inner one's leaf,
\* which another reference refers to.
Nested ==
    <<N("list", 0), N("key", 1), N("list", 1), N("key", 3), N("leaf", 3),
      Ref(1, 5), Ref(0, 6)>>

Ahead == <<Ref(0, 4), N("list", 0), N("key", 2), N("leaf", 2), Ref(2, 3)>>

\* References that refer ahead to references that refer ahead, one of them an
\* entry of a leaf-list, and two of them to the same entry.
AheadInTurn ==
    <<Ref(0, 2), Ref(0, 4), N("list", 0), EntryRef(3, 6), Ref(3, 6),
      N("leaflist", 3), N("leaflist", 3)>>

Documents3 == Small \cup {Nested, Ahead, AheadInTurn, <<>>}
=============================================================================
