----------------------------- MODULE MCJsonRead -----------------------------
(***************************************************************************)
(* JsonRead on four data trees (nested lists, all that is special, a list  *)
(* entry with nothing in it, keys whose text changes or is not escaped) and*)
(* every split of a path into prefix and path.                             *)
(***************************************************************************)
EXTENDS JsonRead

N(kind, name, parent) ==
    [kind |-> kind, name |-> name, module |-> "m", parent |-> parent,
     value |-> "", key |-> FALSE]
V(kind, name, parent, value) == [N(kind, name, parent) EXCEPT !.value = value]
K(name, parent, value) == [V("string", name, parent, value) EXCEPT !.key = TRUE]

Lists ==
    <<N("container", "top", 0),
        N("list", "item", 1), K("id", 2, "a"), V("int64", "n", 2, "1"),
            N("list", "sub", 2), K("id", 5, "a"), V("number", "n", 5, "2"),
            N("list", "sub", 2), K("id", 8, "b"),
        N("list", "item", 1), K("id", 10, "b"), V("number", "n", 10, "2"),
            N("container", "box", 10), V("string", "n", 13, "a"),
        N("container", "box", 1), V("string", "id", 15, "c")>>

Oddities ==
    <<N("container", "top", 0),
        N("list", "item", 1), K("id", 2, "a"), K("n", 2, "1"),
            V("boolean", "b", 2, "true"),
        N("list", "item", 1), K("id", 6, "a"), K("n", 6, "2"),
            N("empty", "e", 6), V("leaflist", "f", 6, "1"),
            V("leaflist", "f", 6, "2"),
        N("list", "sub", 1), N("container", "box", 12), V("string", "n", 13, "a"),
        N("container", "box", 1), N("anydata", "any", 15)>>

Bare == <<N("list", "item", 0), N("container", "box", 0)>>

Printed ==
    <<N("container", "top", 0),
        N("list", "item", 1), [V("decimal64", "id", 2, "1.5") EXCEPT !.key = TRUE],
            V("instanceid", "to", 2, "a"),
        N("list", "sub", 1), K("id", 5, "qu\"ote"), V("number", "n", 5, "2"),
        N("container", "box", 1), V("instanceid", "to", 8, "a"),
            N("anydata", "any", 8), V("instanceid", "to", 8, "b")>>

DataTrees == {Lists, Oddities, Bare, Printed}

KeyedTrees == {Lists, Oddities}

DoubleText(text) == IF text = "1.5" THEN "1.500000" ELSE text

QuotedValues == {"qu\"ote"}

E(name) == [name |-> name, key |-> <<>>]
EK(name, value) == [name |-> name, key |-> [id |-> value]]

Steps ==
    {<<>>, <<E("top")>>, <<E("top"), E("item")>>, <<E("top"), EK("item", "a")>>,
     <<E("top"), EK("item", "c")>>, <<E("top"), E("*")>>,
     <<E("top"), EK("item", "1.5")>>, <<E("top"), EK("sub", "qu\"ote")>>,
     <<E("top"), E("sub")>>, <<E("top"), E("box")>>, <<E("*")>>,
     <<E("top"), EK("item", "a"), E("sub")>>,
     <<E("top"), EK("item", "a"), EK("sub", "b")>>,
     <<E("top"), E("item"), E("sub")>>, <<E("top"), E("item"), E("n")>>,
     <<E("top"), EK("item", "a"), E("f")>>, <<E("item")>>}

P(origin, elem) == [origin |-> origin, elem |-> elem]

Requests ==
    UNION {{[rpc |-> who, prefix |-> P("m", SubSeq(steps, 1, i)),
             path |-> P(o, SubSeq(steps, i + 1, Len(steps)))] :
               who \in {"Get", "Subscribe"}, o \in {"", "m"},
               i \in 0 .. Len(steps)} : steps \in Steps}

\* What may be answered with several entries, of which each has keys.
EntryRequests ==
    {r \in Requests : \E i \in DOMAIN r.path.elem :
        i = Len(r.path.elem) /\ r.path.elem[i] \in {E("item"), E("*")}}
=============================================================================
