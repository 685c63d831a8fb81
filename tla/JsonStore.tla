------------------------------ MODULE JsonStore ------------------------------
(***************************************************************************)
(* Storing a JSON document: Encode::json_update, storeTree and storeLeaf   *)
(* (src/src/gnmi/encode/json_ietf.cpp, encode.cpp).  libyang has parsed    *)
(* the document into a tree; its nodes are visited in depth-first order,   *)
(* and each list entry and each leaf becomes a set_item on the session.    *)
(* The calls made here are those of one Operation in SetRequests; module   *)
(* GnmiSet interleaves them with other RPCs.                               *)
(***************************************************************************)
EXTENDS Naturals, Sequences, FiniteSets

CONSTANT Document

(***************************************************************************)
(* What storeTree and storeLeaf tell apart: containers, list entries,      *)
(* leaves (keys of list entries, references, types that cannot be stored,  *)
(* and all others), and the entries of leaf-lists, which may be references *)
(* too.  `parent' is the index of the node above (0: none), `target' that  *)
(* of the leaf or leaf-list entry a reference refers to, which libyang has *)
(* resolved; it may come before or after, and refer on, but libyang takes  *)
(* no schema in which references go round in a circle.                     *)
(***************************************************************************)
LeafKind == {"leaf", "key", "leafref", "unsupported"}

EntryKind == {"leaflist", "entryref"}

Kind == LeafKind \cup EntryKind \cup {"container", "list"}

Reference == {"leafref", "entryref"}

Valued == {"leaf", "leaflist"}

WellFormed(d) ==
    \A i \in DOMAIN d :
        /\ d[i].kind \in Kind
        /\ d[i].parent \in 0 .. i - 1
        /\ d[i].parent # 0 => d[d[i].parent].kind \in {"container", "list"}
        /\ d[i].kind = "key" =>
               d[i].parent # 0 /\ d[d[i].parent].kind = "list"
        /\ d[i].kind \in Reference =>
               /\ d[i].target \in DOMAIN d
               /\ d[d[i].target].kind \in LeafKind \cup EntryKind

Acyclic(d) ==
    \A S \in SUBSET DOMAIN d :
        (\A i \in S : d[i].kind \in Reference /\ d[i].target \in S) => S = {}

ASSUME Documents ==
    \A d \in Document :
        /\ d \in Seq([kind : Kind, parent : Nat, target : Nat])
        /\ WellFormed(d) /\ Acyclic(d)

VARIABLES
    doc,        \* the document
    pos,        \* the node storeTree is at
    frames,     \* the calls of storeLeaf under way, outermost first
    items,      \* the set_item calls made: <<node, is its value given>>
    outcome     \* "run", then how json_update ended

vars == <<doc, pos, frames, items, outcome>>

Running == outcome = "run"

InTree == Running /\ frames = <<>>

InLeaf == Running /\ frames # <<>>

Top == frames[Len(frames)]

Node == doc[Top.node]

Init ==
    /\ doc \in Document
    /\ pos = 1 /\ frames = <<>> /\ items = <<>> /\ outcome = "run"

\* libyang rejects the text: runtime_error, before anything is stored.
ParseFails ==
    /\ InTree /\ pos = 1 /\ items = <<>>
    /\ outcome' = "ERROR"
    /\ UNCHANGED <<doc, pos, frames, items>>

-----------------------------------------------------------------------------
(***************************************************************************)
(* storeTree.                                                              *)
(***************************************************************************)
VisitLeaf ==
    /\ InTree /\ pos \in DOMAIN doc /\ doc[pos].kind \in LeafKind
    /\ frames' = <<[node |-> pos, followed |-> FALSE]>>
    /\ UNCHANGED <<doc, pos, items, outcome>>

\* Mutant of VisitList: the entry is left to be created by its leaves.
VisitListSkipped ==
    /\ InTree /\ pos \in DOMAIN doc /\ doc[pos].kind = "list"
    /\ pos' = pos + 1
    /\ UNCHANGED <<doc, frames, items, outcome>>

\* Mutant of VisitList: the node after it, taken for its key, is passed over.
VisitListPast ==
    /\ InTree /\ pos \in DOMAIN doc /\ doc[pos].kind = "list"
    /\ items' = Append(items, <<pos, FALSE>>)
    /\ pos' = pos + 2
    /\ UNCHANGED <<doc, frames, outcome>>

\* The list entry is created, with the keys that its path holds.
VisitList ==
    /\ InTree /\ pos \in DOMAIN doc /\ doc[pos].kind = "list"
    /\ items' = Append(items, <<pos, FALSE>>)
    /\ pos' = pos + 1
    /\ UNCHANGED <<doc, frames, outcome>>

\* Containers need nothing; leaf-lists are logged as unsupported and skipped.
VisitOther ==
    /\ InTree /\ pos \in DOMAIN doc
    /\ doc[pos].kind \in {"container"} \cup EntryKind
    /\ pos' = pos + 1
    /\ UNCHANGED <<doc, frames, items, outcome>>

StoreDone ==
    /\ InTree /\ pos \notin DOMAIN doc
    /\ outcome' = "OK"
    /\ UNCHANGED <<doc, pos, frames, items>>

-----------------------------------------------------------------------------
(***************************************************************************)
(* storeLeaf, of the leaf in the top frame, or of the leaf-list entry that *)
(* a reference has led to.                                                 *)
(***************************************************************************)

\* The top call of storeLeaf returns to the one below, or to storeTree.
Pop ==
    /\ frames' = SubSeq(frames, 1, Len(frames) - 1)
    /\ pos' = IF Len(frames) = 1 THEN pos + 1 ELSE pos

\* Mutant of LeafIsKey: a key is set like any other leaf.
LeafIsKeySet ==
    /\ InLeaf /\ Node.kind = "key"
    /\ items' = Append(items, <<Top.node, TRUE>>)
    /\ Pop
    /\ UNCHANGED <<doc, outcome>>

\* Mutant of LeafIsKey: storeTree stays at the key it has passed over.
LeafIsKeyAgain ==
    /\ InLeaf /\ Node.kind = "key"
    /\ frames' = SubSeq(frames, 1, Len(frames) - 1)
    /\ UNCHANGED <<doc, pos, items, outcome>>

\* A key was set with its list entry.
LeafIsKey ==
    /\ InLeaf /\ Node.kind = "key"
    /\ Pop
    /\ UNCHANGED <<doc, items, outcome>>

LeafSet ==
    /\ InLeaf /\ Node.kind \in Valued
    /\ items' = Append(items, <<Top.node, TRUE>>)
    /\ Pop
    /\ UNCHANGED <<doc, outcome>>

\* Mutant of FollowLeafref: the reference is set first.
FollowLeafrefLate ==
    /\ InLeaf /\ Node.kind \in Reference /\ ~Top.followed
    /\ items' = Append(items, <<Top.node, FALSE>>)
    /\ frames' = Append([frames EXCEPT ![Len(frames)].followed = TRUE],
                        [node |-> Node.target, followed |-> FALSE])
    /\ UNCHANGED <<doc, pos, outcome>>

\* A reference: first what it refers to is stored...
FollowLeafref ==
    /\ InLeaf /\ Node.kind \in Reference /\ ~Top.followed
    /\ frames' = Append([frames EXCEPT ![Len(frames)].followed = TRUE],
                        [node |-> Node.target, followed |-> FALSE])
    /\ UNCHANGED <<doc, pos, items, outcome>>

\* ... then the reference itself, with sval still a null pointer.
LeafrefSet ==
    /\ InLeaf /\ Node.kind \in Reference /\ Top.followed
    /\ items' = Append(items, <<Top.node, FALSE>>)
    /\ Pop
    /\ UNCHANGED <<doc, outcome>>

\* bits, unions, instance-identifiers: std::invalid_argument.
LeafUnsupported ==
    /\ InLeaf /\ Node.kind = "unsupported"
    /\ outcome' = "ERROR"
    /\ UNCHANGED <<doc, pos, frames, items>>

\* Any set_item may throw, and so may the cast of a leaf-list entry's schema to
\* that of a leaf, or its type; nothing that was set before is taken back.
SetItemThrows ==
    /\ \/ InTree /\ pos \in DOMAIN doc /\ doc[pos].kind = "list"
       \/ InLeaf /\ (Node.kind \in Valued \/ (Node.kind \in Reference /\ Top.followed))
    /\ outcome' = "ERROR"
    /\ UNCHANGED <<doc, pos, frames, items>>

Next ==
    \/ ParseFails
    \/ VisitLeaf \/ VisitList \/ VisitOther \/ StoreDone
    \/ LeafIsKey \/ LeafSet \/ FollowLeafref \/ LeafrefSet \/ LeafUnsupported
    \/ SetItemThrows

Spec == Init /\ [][Next]_vars

FairSpec == Spec /\ WF_vars(Next)

-----------------------------------------------------------------------------
TypeOK ==
    /\ doc \in Document
    /\ pos \in 1 .. Len(doc) + 1
    /\ \A k \in DOMAIN frames : frames[k].node \in DOMAIN doc
    /\ \A k \in DOMAIN items :
           items[k][1] \in DOMAIN doc /\ items[k][2] \in BOOLEAN
    /\ outcome \in {"run", "OK", "ERROR"}

IsSet(i) == \E k \in DOMAIN items : items[k][1] = i

\* The nodes that the call of storeLeaf for i comes to: those in every set that
\* has i and, with a reference, what it refers to.
Chain(i) ==
    {k \in DOMAIN doc :
        \A S \in SUBSET DOMAIN doc :
            /\ i \in S
            /\ \A j \in S : doc[j].kind \in Reference => doc[j].target \in S
            => k \in S}

(***************************************************************************)
(* A document that is stored without an error has had every list entry     *)
(* created and every reference set, and each plain leaf and leaf-list      *)
(* entry set with its value as often as a visited leaf is it or leads to   *)
(* it.  A reference's set_item comes right after that of what it refers    *)
(* to, hence after that of the leaf at the end of its chain, but is given  *)
(* no value; a key is never set by itself; and a leaf-list entry to which  *)
(* nothing leads is not set at all (encode.cpp:47-201).                    *)
(***************************************************************************)
Times(i) == Cardinality({k \in DOMAIN items : items[k] = <<i, TRUE>>})

Reaching(i) == {j \in DOMAIN doc : doc[j].kind \in LeafKind /\ i \in Chain(j)}

\* The k-th call, for a reference, follows that for what it refers to.
AfterTarget(k) ==
    LET i == items[k][1] IN
    (doc[i].kind \in Reference /\ doc[doc[i].target].kind # "key") =>
        k > 1 /\ items[k - 1][1] = doc[i].target

OkMeansStored ==
    outcome = "OK" =>
        /\ \A i \in DOMAIN doc :
            /\ doc[i].kind \in {"list", "leafref"} => IsSet(i)
            /\ doc[i].kind \in {"key", "container"} => ~IsSet(i)
            /\ doc[i].kind \in Valued => Times(i) = Cardinality(Reaching(i))
        /\ \A k \in DOMAIN items : AfterTarget(k)

\* The nodes above i: those in every set that has the parent of i and, with a
\* node, its parent.
Above(i) ==
    {l \in DOMAIN doc :
        \A S \in SUBSET DOMAIN doc :
            (\A k \in S \cup {i} : doc[k].parent # 0 => doc[k].parent \in S)
                => l \in S}

(***************************************************************************)
(* "A list instance must be created before populating leaves"              *)
(* (encode.cpp:184): it is, whenever no reference points ahead.            *)
(***************************************************************************)
ListFirst(k) ==
    \A l \in Above(items[k][1]) : doc[l].kind = "list" =>
        \E j \in 1 .. k - 1 : items[j][1] = l

PointsAhead(i) == doc[i].kind \in Reference /\ doc[i].target > i

ListsFirst ==
    (\A i \in DOMAIN doc : ~PointsAhead(i)) => \A k \in DOMAIN items : ListFirst(k)

(***************************************************************************)
(* Storing a document ends, through however many references it goes        *)
(* (encode.cpp:117-124, 160-201).                                          *)
(***************************************************************************)
StoringEnds == <>(outcome # "run")
=============================================================================
