------------------------------ MODULE JsonRead ------------------------------
(***************************************************************************)
(* Answering one path of a Get or of a subscription: gnmi_to_xpath         *)
(* (src/src/utils/utils.h), Encode::json_read and json_tree                *)
(* (src/src/gnmi/encode/json_ietf.cpp), BuildGetUpdate and BuildSubsUpdate *)
(* (src/src/gnmi/get.cpp, subscribe.cpp).                                  *)
(*                                                                         *)
(* When the session's copy is loaded, and what of it is uncommitted, is    *)
(* the matter of GnmiGet; here its contents, `data', are fixed.            *)
(***************************************************************************)
EXTENDS Naturals, Sequences, FiniteSets

CONSTANTS
    Data,           \* the contents the session's copy may have
    Request,        \* the paths that may be asked for, each with its prefix
    Reprinted(_),   \* the text of a decimal64 after to_string(double)
    Quoted          \* the values with a double quote in them

(***************************************************************************)
(* The nodes of a data tree in document order; `parent' is the index of    *)
(* the node above (0: none).  Keys are the first children of a list entry; *)
(* a list without keys has entries without any.                            *)
(***************************************************************************)
Scalar ==
    {"number", "int64", "string", "decimal64", "instanceid", "boolean", "leaflist"}

Kind == Scalar \cup {"empty", "list", "container", "anydata"}

Inner == {"list", "container"}

IsSequence(s) == s \in Seq({s[i] : i \in DOMAIN s})

WellFormed(d) ==
    /\ IsSequence(d)
    /\ \A i \in DOMAIN d :
           /\ d[i].kind \in Kind /\ d[i].parent \in 0 .. i - 1
           /\ d[i].parent # 0 => d[d[i].parent].kind \in Inner

(***************************************************************************)
(* A gNMI path: its origin, and elements of a name and keys.  `rpc' is who *)
(* asks: "Get" or "Subscribe".                                             *)
(***************************************************************************)
IsPath(p) ==
    /\ DOMAIN p = {"origin", "elem"} /\ IsSequence(p.elem)
    /\ \A i \in DOMAIN p.elem : DOMAIN p.elem[i] = {"name", "key"}

ASSUME Inputs ==
    /\ \A d \in Data : WellFormed(d)
    /\ \A r \in Request :
           r.rpc \in {"Get", "Subscribe"} /\ IsPath(r.prefix) /\ IsPath(r.path)

VARIABLES
    data,       \* the data tree
    request,    \* the path asked for
    trees,      \* the nodes get_subtrees has returned
    json_vec,   \* json_read's results: the JSON of a tree, and a key
    key,        \* the key of `tmp', which json_read uses for every tree
    updates,    \* the Updates of the notification
    outcome     \* "select", "read", "update", then the status

vars == <<data, request, trees, json_vec, key, updates, outcome>>

NoKey == <<"", "">>

NoData == {<<"none">>}

-----------------------------------------------------------------------------
(***************************************************************************)
(* gnmi_to_xpath: one step for every element; the first one is qualified   *)
(* with the origin, so a path without elements loses its origin.  Nothing  *)
(* is escaped: what the text of a value between its two quotes is read as, *)
(* BadXPath says.                                                          *)
(***************************************************************************)
ToXPath(p) ==
    [i \in DOMAIN p.elem |->
        [module |-> IF i = 1 THEN p.origin ELSE "",
         name |-> p.elem[i].name, key |-> p.elem[i].key]]

\* Mutant of FullPath: an element of the prefix is left out.
FullPathShort(r) == ToXPath([r.prefix EXCEPT !.elem = <<>>]) \o ToXPath(r.path)

\* A Get reads below the prefix of its request; a subscription hands only
\* its own path to json_read (subscribe.cpp:154).
FullPath(r) ==
    IF r.rpc = "Get" THEN ToXPath(r.prefix) \o ToXPath(r.path)
                     ELSE ToXPath(r.path)

-----------------------------------------------------------------------------
(***************************************************************************)
(* get_subtrees, external: the nodes that an XPath selects.  The first     *)
(* step has to name a module, and a quote within a value ends the string   *)
(* early; values that go on from there to another XPath are left out.      *)
(***************************************************************************)
\* A set of nodes in document order: each one after those before it.
InOrder(S) ==
    [i \in 1 .. Cardinality(S) |->
        CHOOSE n \in S : Cardinality({m \in S : m < n}) = i - 1]

Below(d, n) == {c \in DOMAIN d : d[c].parent = n}

Children(d, n) == InOrder(Below(d, n))

Matches(d, n, step) ==
    /\ step.name \in {d[n].name, "*"}
    /\ step.module \in {d[n].module, ""}
    /\ \A k \in DOMAIN step.key :
           \E c \in Below(d, n) : d[c].name = k /\ d[c].value = step.key[k]

\* The nodes reached with the first i steps, 0 being above the top ones.
Reached(d, xpath, i) ==
    LET reached[k \in 0 .. Len(xpath)] ==
            IF k = 0 THEN {0}
            ELSE {n \in DOMAIN d : d[n].parent \in reached[k - 1] /\
                                   Matches(d, n, xpath[k])}
    IN  reached[i]

Selected(d, xpath) == InOrder(Reached(d, xpath, Len(xpath)) \ {0})

Broken(step) == \E k \in DOMAIN step.key : step.key[k] \in Quoted

BadXPath(xpath) ==
    \/ IF xpath = <<>> THEN TRUE ELSE xpath[1].module = ""
    \/ \E i \in DOMAIN xpath : Broken(xpath[i])

-----------------------------------------------------------------------------
(***************************************************************************)
(* json_tree.  A JSON value is the set of its scalars, each with its place:*)
(* steps <<name, 0>> into an object, <<name, k>> into the k-th element of  *)
(* an array.  A value nothing was put into is null.                        *)
(***************************************************************************)
Null == {<<<<>>, <<"null", "">>>>}

At(step, val) == {<<<<step>> \o e[1], e[2]>> : e \in val}

Without(val, name) == {e \in val \ Null : e[1][1][1] # name}

\* val[name] = sub
Assign(val, name, sub) == Without(val, name) \cup At(<<name, 0>>, sub)

Length(val, name) ==
    Cardinality({e[1][1] : e \in (val \ Null) \ Without(val, name)})

\* Mutant of AppendTo: an entry takes the place of the ones before it.
AppendOver(val, name, sub) == Without(val, name) \cup At(<<name, 1>>, sub)

\* val[name].append(sub)
AppendTo(val, name, sub) ==
    (val \ Null) \cup At(<<name, Length(val, name) + 1>>, sub)

\* A decimal64 comes as a double and is printed with six decimals.
Text(node) ==
    IF node.kind = "decimal64" THEN Reprinted(node.value) ELSE node.value

\* Mutant of JsonType: 64-bit integers are written as numbers.
JsonTypeWide(kind) == IF kind \in {"number", "int64"} THEN "number" ELSE "string"

\* Integers of up to 32 bits are numbers; everything else is a string.
JsonType(kind) == IF kind = "number" THEN "number" ELSE "string"

Put(val, node, sub) ==
    CASE node.kind \in Scalar ->
             Assign(val, node.name, {<<<<>>, <<JsonType(node.kind), Text(node)>>>>})
      [] node.kind = "empty" ->
             AppendTo(val, node.name, {<<<<>>, <<"string", "null">>>>})
      [] node.kind = "list" -> AppendTo(val, node.name, sub)
      [] node.kind = "container" -> Assign(val, node.name, sub)

\* The values of the children are put into that of their parent in turn.
Filled(d, n, json) ==
    LET c == Children(d, n)
        val[i \in 0 .. Len(c)] ==
            IF i = 0 THEN Null ELSE Put(val[i - 1], d[c[i]], json[c[i]])
    IN  val[Len(c)]

JsonTree(d, tree) ==
    LET json[n \in DOMAIN d] == Filled(d, n, [c \in Below(d, n) |-> json[c]])
    IN  json[tree]

\* The nodes from the top of a tree down to a node; none if it is not in it.
Way(d, tree, node) ==
    LET way[n \in DOMAIN d] ==
            IF n = tree THEN <<n>>
            ELSE IF d[n].parent = 0 THEN <<>>
            ELSE IF way[d[n].parent] = <<>> THEN <<>>
            ELSE Append(way[d[n].parent], n)
    IN  way[node]

Within(d, tree) == {n \in DOMAIN d : Way(d, tree, n) # <<>>}

\* json_tree throws invalid_argument.
Unsupported(d, tree) ==
    \E n \in Within(d, tree) \ {tree} : d[n].kind = "anydata"

\* It takes an instance-identifier with get_identityref, which sysrepo may
\* refuse, before it comes to what is unsupported.
Refusable(d, tree) ==
    \E n \in Within(d, tree) \ {tree} :
        /\ d[n].kind = "instanceid"
        /\ \A m \in Within(d, tree) \ {tree} : d[m].kind = "anydata" => n < m

-----------------------------------------------------------------------------
(***************************************************************************)
(* json_read.                                                              *)
(***************************************************************************)
Init ==
    /\ data \in Data /\ request \in Request
    /\ trees = <<>> /\ json_vec = <<>> /\ key = NoKey /\ updates = <<>>
    /\ outcome = "select"

Return(status) ==
    /\ outcome' = status
    /\ UNCHANGED <<data, request, trees, json_vec, key>>

Update(path, value) == [path |-> path, value |-> value]

\* BuildSubsUpdate adds an Update before it reads, BuildGetUpdate does not.
Opened ==
    IF request.rpc = "Subscribe" THEN <<Update(request.path, NoData)>> ELSE <<>>

Select ==
    /\ outcome = "select"
    /\ updates' = Opened
    /\ LET xpath == FullPath(request) IN
        IF BadXPath(xpath) THEN Return("INVALID_ARGUMENT")
        ELSE IF Selected(data, xpath) = <<>> THEN Return("NOT_FOUND")
        ELSE /\ trees' = Selected(data, xpath) /\ outcome' = "read"
             /\ UNCHANGED <<data, request, json_vec, key>>

Tree == trees[Len(json_vec) + 1]

Reading == outcome = "read" /\ Len(json_vec) < Len(trees)

IsEntry == data[Tree].kind = "list"

\* The key of a list entry is taken to be its first child.
KeyNode(n) == Children(data, n)[1]

\* What val[first child] is, unless it is an object or an array.
KeyJson(n) ==
    {e \in JsonTree(data, n) : e[1] = <<<<data[KeyNode(n)].name, 0>>>>}

\* The name and asString() of the key.
KeyOf(n) == <<data[KeyNode(n)].name, (CHOOSE e \in KeyJson(n) : TRUE)[2][2]>>

ReadTree ==
    /\ Reading /\ ~Unsupported(data, Tree)
    /\ IsEntry => Below(data, Tree) # {} /\ KeyJson(Tree) # {}
    /\ key' = IF IsEntry THEN KeyOf(Tree) ELSE key     \* as it was left
    /\ json_vec' =
            Append(json_vec, [data |-> JsonTree(data, Tree), key |-> key'])
    /\ UNCHANGED <<data, request, trees, updates, outcome>>

\* Mutant of ReadThrows: the trees read so far are answered.
ReadThrowsPartial ==
    /\ Reading /\ Unsupported(data, Tree)
    /\ Return("update")
    /\ UNCHANGED updates

\* The exceptions of sysrepo and for anydata are caught and answered; that of
\* asString is not, and grpc answers UNKNOWN.
ReadThrows ==
    /\ Reading
    /\ \/ Refusable(data, Tree) /\ Return("INVALID_ARGUMENT")
       \/ Unsupported(data, Tree) /\ Return("NOT_FOUND")
       \/ /\ ~Unsupported(data, Tree) /\ IsEntry /\ Below(data, Tree) # {}
          /\ KeyJson(Tree) = {} /\ Return("UNKNOWN")
    /\ UNCHANGED updates

\* An entry of a list without keys that is empty has no first child.
ReadCrashes ==
    /\ Reading /\ IsEntry /\ ~Unsupported(data, Tree)
    /\ Below(data, Tree) = {} /\ Return("CRASH")
    /\ UNCHANGED updates

ReadDone ==
    /\ outcome = "read" /\ Len(json_vec) = Len(trees)
    /\ Return("update") /\ UNCHANGED updates

-----------------------------------------------------------------------------
(***************************************************************************)
(* BuildGetUpdate and BuildSubsUpdate: an Update for every result.         *)
(***************************************************************************)
Next1 == json_vec[Len(updates) - Len(Opened) + 1]

Adding == outcome = "update" /\ Len(updates) < Len(json_vec) + Len(Opened)

\* keys[k[1]] = k[2]
WithKey(keys, k) ==
    [name \in DOMAIN keys \cup {k[1]} |-> IF name = k[1] THEN k[2] ELSE keys[name]]

\* Mutant of Keyed: the key is put into the first element.
KeyedFirst(p, k) ==
    IF k = NoKey THEN p ELSE [p EXCEPT !.elem[1].key = WithKey(@, k)]

\* The path with the key put into its last element.
Keyed(p, k) ==
    IF k[1] = "" THEN p
    ELSE [p EXCEPT !.elem[Len(p.elem)].key = WithKey(@, k)]

AddUpdate ==
    /\ Adding
    /\ Next1.key[1] # "" => request.path.elem # <<>>
    /\ updates' =
            Append(updates, Update(Keyed(request.path, Next1.key), Next1.data))
    /\ UNCHANGED <<data, request, trees, json_vec, key, outcome>>

\* mutable_elem(-1) of a path without elements: anything may happen.
AddUndefined ==
    /\ Adding
    /\ Next1.key[1] # "" /\ request.path.elem = <<>>
    /\ Return("CRASH") /\ UNCHANGED updates

AddDone ==
    /\ outcome = "update" /\ Len(updates) = Len(json_vec) + Len(Opened)
    /\ Return("OK") /\ UNCHANGED updates

Next ==
    \/ Select
    \/ ReadTree \/ ReadThrows \/ ReadCrashes \/ ReadDone
    \/ AddUpdate \/ AddUndefined \/ AddDone

Spec == Init /\ [][Next]_vars

-----------------------------------------------------------------------------
Status ==
    {"OK", "INVALID_ARGUMENT", "NOT_FOUND", "UNKNOWN", "CRASH"}

TypeOK ==
    /\ data \in Data /\ request \in Request
    /\ outcome \in {"select", "read", "update"} \cup Status
    /\ \A i \in DOMAIN trees : trees[i] \in DOMAIN data
    /\ Len(json_vec) <= Len(trees)
    /\ outcome \in {"update", "OK"} => Len(json_vec) = Len(trees)
    /\ Len(updates) <= Len(json_vec) + Len(Opened)
    /\ \A i \in DOMAIN updates : IsPath(updates[i].path)

(***************************************************************************)
(* What RFC 7951 makes of a tree, for the kinds of nodes of which json_tree*)
(* follows it: every leaf at the place its ancestors give it, its array    *)
(* index that of the list entry among the entries before it.               *)
(***************************************************************************)
Position(d, n) ==
    Cardinality({c \in Below(d, d[n].parent) : d[c].name = d[n].name /\ c <= n})

Step(d, n) ==
    <<d[n].name, IF d[n].kind = "list" THEN Position(d, n) ELSE 0>>

Place(d, tree, leaf) ==
    LET way == Way(d, tree, leaf)
    IN  [i \in 1 .. Len(way) - 1 |-> Step(d, way[i + 1])]

Rfc7951 == [number |-> "number", int64 |-> "string", string |-> "string"]

Followed(d, tree) ==
    /\ d[tree].kind \in Inner
    /\ \A n \in Within(d, tree) :
        /\ \/ d[n].kind \in DOMAIN Rfc7951
           \/ d[n].kind \in Inner /\ Below(d, n) # {}
        /\ \A c, e \in Below(d, n) : d[c].name = d[e].name =>
               c = e \/ (d[c].kind = "list" /\ d[e].kind = "list" /\
                         d[c].module = d[e].module)

(***************************************************************************)
(* A path that is answered OK is answered with every node it selects, each *)
(* once and in the order of the data, and with all of its leaves at their  *)
(* places (json_ietf.cpp:54-141, 162-183, get.cpp:61-76, subscribe.cpp:71- *)
(* 86).  Left out are the Update that a subscription's begins with, which  *)
(* has no value; trees that json_tree does not encode as RFC 7951 has it or*)
(* that sysrepo may refuse, which are those with a boolean, decimal64,     *)
(* instance-identifier or empty leaf, a leaf-list, an empty container or   *)
(* siblings of one name from two modules; and a leaf asked for by itself.  *)
(***************************************************************************)
Answers == SubSeq(updates, Len(Opened) + 1, Len(updates))

AnswersHoldTheTrees ==
    outcome = "OK" =>
        LET selected == Selected(data, FullPath(request)) IN
        /\ Len(Answers) = Len(selected)
        /\ \A i \in DOMAIN selected :
            Followed(data, selected[i]) =>
                Answers[i].value =
                    {<<Place(data, selected[i], n),
                       <<Rfc7951[data[n].kind], data[n].value>>>> :
                        n \in {m \in Within(data, selected[i]) :
                                data[m].kind \notin Inner}}

(***************************************************************************)
(* An Update's path reads back: a Get of the path of an Update, below the  *)
(* prefix of its notification, selects exactly the tree that the Update    *)
(* holds.  The request has no wildcards; a subscription has no prefix; the *)
(* tree is the only one, or all are entries of one list with one key; and  *)
(* the text that becomes a key is neither that of a decimal64, which is    *)
(* printed anew, nor has it quotes, which are not escaped                  *)
(* (json_ietf.cpp:94, 170-174, get.cpp:65-70, 109-124, utils.h:37-61).     *)
(***************************************************************************)
ReadsBack(i) ==
    LET xpath == ToXPath(request.prefix) \o ToXPath(Answers[i].path)
    IN  ~BadXPath(xpath) /\ Selected(data, xpath) = <<trees[i]>>

OneKey(n) == Cardinality({c \in Below(data, n) : data[c].key}) = 1

SameList ==
    \A i \in DOMAIN trees :
        OneKey(trees[i]) /\ data[trees[i]].parent = data[trees[1]].parent

NoWildcard == \A i \in DOMAIN FullPath(request) : FullPath(request)[i].name # "*"

\* The leaves of an entry that have the name its key is given.
KeyLeaves(n) == {c \in Below(data, n) : data[c].name = data[KeyNode(n)].name}

PlainKey(n) ==
    data[n].kind = "list" =>
        \A c \in KeyLeaves(n) :
            data[c].kind # "decimal64" /\ data[c].value \notin Quoted

UpdatesReadBack ==
    /\ outcome = "OK" /\ NoWildcard
    /\ request.rpc = "Subscribe" => request.prefix.elem = <<>>
    /\ Len(trees) = 1 \/ SameList
    /\ \A i \in DOMAIN trees : PlainKey(trees[i])
    => \A i \in DOMAIN Answers : ReadsBack(i)

(***************************************************************************)
(* gnmi.proto:94, "The path (key) for the update": the path of each Update *)
(* of a Get leads to what the Update holds, wildcards and entries with     *)
(* several keys included.  It does not (json_ietf.cpp:152, 170-174).       *)
(***************************************************************************)
UpdatePathsTell ==
    outcome = "OK" /\ request.rpc = "Get" =>
        \A i \in DOMAIN Answers : ReadsBack(i)
=============================================================================
