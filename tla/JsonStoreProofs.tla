--------------------------- MODULE JsonStoreProofs ---------------------------
(***************************************************************************)
(* Proofs about JsonStore for every well-formed document, of any size,     *)
(* nesting and references.                                                 *)
(***************************************************************************)
EXTENDS JsonStore, FiniteSetTheorems, TLAPS

Visited == [node : DOMAIN doc, followed : BOOLEAN]

Item == {<<n, b>> : n \in DOMAIN doc, b \in BOOLEAN}

Typed ==
    /\ doc \in Document
    /\ pos \in 1 .. Len(doc) + 1
    /\ frames \in Seq(Visited)
    /\ items \in Seq(Item)
    /\ outcome \in {"run", "OK", "ERROR"}

(***************************************************************************)
(* The calls of storeLeaf: the first is for the leaf storeTree is at, each *)
(* other one for what the one before it refers to.  Only the last may not  *)
(* have gone on to what it refers to.                                      *)
(***************************************************************************)
Storable == LeafKind \cup EntryKind

Calls ==
    /\ frames # <<>> => /\ pos \in DOMAIN doc /\ frames[1].node = pos
                       /\ doc[pos].kind \in LeafKind
    /\ \A k \in DOMAIN frames :
        LET n == frames[k].node IN
        /\ doc[n].kind \in Storable
        /\ frames[k].followed => doc[n].kind \in Reference
        /\ k < Len(frames) => frames[k].followed
                              /\ frames[k + 1].node = doc[n].target

-----------------------------------------------------------------------------
\* The assumption on documents, of the one at hand.
LEMMA Document1 ==
    ASSUME doc \in Document
    PROVE  /\ doc \in Seq([kind : Kind, parent : Nat, target : Nat])
           /\ Len(doc) \in Nat /\ DOMAIN doc = 1 .. Len(doc)
           /\ \A i \in DOMAIN doc :
                /\ i \in Nat /\ doc[i].kind \in Kind
                /\ doc[i].parent \in 0 .. i - 1
                /\ doc[i].kind \in Reference =>
                       /\ doc[i].target \in DOMAIN doc
                       /\ doc[doc[i].target].kind \in Storable
  <1> DEFINE R == [kind : Kind, parent : Nat, target : Nat]
  <1>1. doc \in Seq(R) /\ WellFormed(doc)
    BY Documents
  <1> HIDE DEF R
  <1>2. Len(doc) \in Nat /\ DOMAIN doc = 1 .. Len(doc)
    BY <1>1
  <1> QED
    BY <1>1, <1>2 DEF WellFormed, Storable, R

LEMMA InitTyped == Init => Typed /\ Calls
  <1> SUFFICES ASSUME Init PROVE Typed /\ Calls
    OBVIOUS
  <1>1. Len(doc) \in Nat
    BY Document1 DEF Init
  <1> QED
    BY <1>1 DEF Init, Typed, Calls

\* The top call, and what is left of the calls when it returns.
LEMMA TopCall ==
    ASSUME Typed, Calls, frames # <<>>
    PROVE  /\ Len(frames) \in Nat \ {0} /\ DOMAIN frames = 1 .. Len(frames)
           /\ Top \in Visited /\ Top.node \in DOMAIN doc
           /\ doc[Top.node].kind \in Storable
           /\ Top.followed => doc[Top.node].kind \in Reference
           /\ Len(frames) = 1 => Top.node = pos
  <1>1. frames \in Seq(Visited)
    BY DEF Typed
  <1>2. Len(frames) \in Nat \ {0} /\ DOMAIN frames = 1 .. Len(frames)
    BY <1>1
  <1>3. Top \in Visited
    BY <1>1, <1>2 DEF Top
  <1> QED
    BY <1>2, <1>3 DEF Calls, Visited, Top

LEMMA Front ==
    ASSUME NEW S, NEW s \in Seq(S), NEW n \in Nat, Len(s) = n + 1
    PROVE  /\ SubSeq(s, 1, n) \in Seq(S) /\ Len(SubSeq(s, 1, n)) = n
           /\ \A k \in 1 .. n : SubSeq(s, 1, n)[k] = s[k]
  OBVIOUS

LEMMA PopLeaves ==
    ASSUME Typed, Calls, frames # <<>>, Pop
    PROVE  /\ frames' \in Seq(Visited) /\ Len(frames') = Len(frames) - 1
           /\ \A k \in 1 .. Len(frames) - 1 : frames'[k] = frames[k]
           /\ pos' \in 1 .. Len(doc) + 1
           /\ frames' # <<>> => pos' = pos /\ Len(frames) > 1
           /\ frames' = <<>> => pos' = pos + 1 /\ Len(frames) = 1
  <1>1. Len(frames) \in Nat \ {0} /\ frames \in Seq(Visited)
    BY TopCall DEF Typed
  <1>2. frames' = SubSeq(frames, 1, Len(frames) - 1)
    BY DEF Pop
  <1>3. /\ frames' \in Seq(Visited) /\ Len(frames') = Len(frames) - 1
        /\ \A k \in 1 .. Len(frames) - 1 : frames'[k] = frames[k]
    <2>1. PICK n \in Nat : Len(frames) = n + 1
      <3>1. Len(frames) - 1 \in Nat /\ Len(frames) = (Len(frames) - 1) + 1
        BY <1>1
      <3> QED
        BY <3>1
    <2>2. Len(frames) - 1 = n
      BY <2>1
    <2> QED
      BY <1>1, <1>2, <2>1, <2>2, Front
  <1>4. frames' = <<>> <=> Len(frames) = 1
    BY <1>1, <1>3
  <1>5. pos \in 1 .. Len(doc) /\ Len(doc) \in Nat
    BY Document1 DEF Typed, Calls
  <1> QED
    BY <1>1, <1>3, <1>4, <1>5 DEF Pop

\* After a return the calls that are left are as they were.
LEMMA PopCalls ==
    ASSUME Typed, Calls, frames # <<>>, Pop, doc' = doc
    PROVE  Calls'
  <1>1. /\ frames' \in Seq(Visited) /\ Len(frames') = Len(frames) - 1
        /\ \A k \in 1 .. Len(frames) - 1 : frames'[k] = frames[k]
        /\ frames' # <<>> => pos' = pos /\ Len(frames) > 1
    BY PopLeaves
  <1>2. Len(frames) \in Nat \ {0} /\ DOMAIN frames = 1 .. Len(frames)
    BY TopCall
  <1>3. DOMAIN frames' = 1 .. Len(frames) - 1
    BY <1>1
  <1>4. frames' # <<>> => /\ pos' \in DOMAIN doc' /\ frames'[1].node = pos'
                          /\ doc'[pos'].kind \in LeafKind
    BY <1>1, <1>2 DEF Calls
  <1> QED
    BY <1>1, <1>2, <1>3, <1>4 DEF Calls

\* A set_item call is made.
LEMMA ItemTyped ==
    ASSUME Typed, NEW n \in DOMAIN doc, NEW b, b \in BOOLEAN,
           items' = Append(items, <<n, b>>)
    PROVE  /\ items' \in Seq(Item)
           /\ Len(items) \in Nat /\ Len(items') = Len(items) + 1
           /\ items'[Len(items) + 1] = <<n, b>>
           /\ \A k \in 1 .. Len(items) : items'[k] = items[k]
  <1>1. <<n, b>> \in Item
    BY DEF Item
  <1>2. items \in Seq(Item)
    BY DEF Typed
  <1> QED
    BY <1>1, <1>2

-----------------------------------------------------------------------------
(***************************************************************************)
(* What every step leaves as it should be.                                 *)
(***************************************************************************)

\* The document stays, and with it the sets of calls and items.
LEMMA SameDocument ==
    ASSUME [Next]_vars
    PROVE  doc' = doc /\ Visited' = Visited /\ Item' = Item
  <1>1. doc' = doc
    BY DEF Next, vars, ParseFails, VisitLeaf, VisitList, VisitOther, StoreDone,
           LeafIsKey, LeafSet, FollowLeafref, LeafrefSet, LeafUnsupported,
           SetItemThrows
  <1> QED
    BY <1>1 DEF Visited, Item

\* storeTree calls storeLeaf.
LEMMA VisitLeafTyped == Typed /\ Calls /\ VisitLeaf => Typed' /\ Calls'
  <1> SUFFICES ASSUME Typed, Calls, VisitLeaf PROVE Typed' /\ Calls'
    OBVIOUS
  <1> DEFINE f == [node |-> pos, followed |-> FALSE]
  <1>1. doc' = doc /\ pos' = pos /\ items' = items /\ outcome' = outcome
    BY DEF VisitLeaf
  <1>2. frames' = <<f>> /\ f \in Visited /\ f.node = pos /\ f.followed = FALSE
        /\ doc[f.node].kind \in LeafKind /\ doc[f.node].kind \in Storable
    BY DEF VisitLeaf, Visited, Storable
  <1> HIDE DEF f
  <1>3. frames' \in Seq(Visited) /\ Len(frames') = 1 /\ frames'[1] = f
        /\ DOMAIN frames' = {1}
    BY <1>2
  <1>4. Typed'
    BY <1>1, <1>3 DEF Typed, Visited, Item
  <1>5. Calls'
    BY <1>1, <1>2, <1>3 DEF Calls, VisitLeaf
  <1> QED
    BY <1>4, <1>5

\* storeLeaf calls itself, for the leaf that its leaf refers to.
LEMMA FollowCalls ==
    ASSUME Typed, Calls, FollowLeafref
    PROVE  /\ frames' \in Seq(Visited) /\ Len(frames') = Len(frames) + 1
           /\ \A k \in 1 .. Len(frames) : frames'[k].node = frames[k].node
           /\ \A k \in 1 .. Len(frames) - 1 : frames'[k] = frames[k]
           /\ frames'[Len(frames)].followed
           /\ frames'[Len(frames) + 1] =
                  [node |-> Node.target, followed |-> FALSE]
           /\ Node.target \in DOMAIN doc /\ doc[Node.target].kind \in Storable
           /\ Len(frames) \in Nat \ {0}
  <1>1. /\ Len(frames) \in Nat \ {0} /\ Top \in Visited
        /\ Top.node \in DOMAIN doc
    BY TopCall DEF FollowLeafref, InLeaf
  <1>2. Node.target \in DOMAIN doc /\ doc[Node.target].kind \in Storable
    BY <1>1, Document1 DEF Node, FollowLeafref, Typed
  <1> DEFINE g == [frames EXCEPT ![Len(frames)].followed = TRUE]
             f == [node |-> Node.target, followed |-> FALSE]
             u == [Top EXCEPT !.followed = TRUE]
  <1>3. frames' = Append(g, f)
    BY DEF FollowLeafref
  <1>4. f \in Visited
    BY <1>2 DEF Visited
  <1>5. u \in Visited /\ u.node = Top.node /\ u.followed = TRUE
    BY <1>1 DEF Visited
  <1>6. frames \in Seq(Visited)
    BY DEF Typed
  <1>7. g = [frames EXCEPT ![Len(frames)] = u]
    BY DEF Top
  <1> HIDE DEF f, u, g
  <1>8. /\ g \in Seq(Visited) /\ Len(g) = Len(frames)
        /\ \A k \in 1 .. Len(frames) - 1 : g[k] = frames[k]
        /\ g[Len(frames)] = u
    BY <1>1, <1>5, <1>6, <1>7
  <1>9. /\ frames' \in Seq(Visited) /\ Len(frames') = Len(frames) + 1
        /\ \A k \in 1 .. Len(frames) : frames'[k] = g[k]
        /\ frames'[Len(frames) + 1] = f
    BY <1>1, <1>3, <1>4, <1>8
  <1>10. \A k \in 1 .. Len(frames) - 1 : frames'[k] = frames[k]
    BY <1>1, <1>8, <1>9
  <1>11. frames'[Len(frames)] = u
    BY <1>1, <1>8, <1>9
  <1>12. \A k \in 1 .. Len(frames) : frames'[k].node = frames[k].node
    <2> TAKE k \in 1 .. Len(frames)
    <2>1. k = Len(frames) \/ k \in 1 .. Len(frames) - 1
      BY <1>1
    <2> QED
      BY <2>1, <1>5, <1>10, <1>11 DEF Top
  <1> QED
    BY <1>1, <1>2, <1>5, <1>9, <1>10, <1>11, <1>12 DEF f

LEMMA FollowTyped == Typed /\ Calls /\ FollowLeafref => Typed' /\ Calls'
  <1> SUFFICES ASSUME Typed, Calls, FollowLeafref PROVE Typed' /\ Calls'
    OBVIOUS
  <1>1. doc' = doc /\ pos' = pos /\ items' = items /\ outcome' = outcome
    BY DEF FollowLeafref
  <1>2. frames # <<>> /\ doc[Top.node].kind \in Reference
    BY DEF FollowLeafref, InLeaf, Node
  <1> DEFINE n == Len(frames)
             m == Node.target
  <1>3. /\ frames' \in Seq(Visited) /\ Len(frames') = n + 1
        /\ \A k \in 1 .. n : frames'[k].node = frames[k].node
        /\ \A k \in 1 .. n - 1 : frames'[k] = frames[k]
        /\ frames'[n].followed
        /\ frames'[n + 1].node = m /\ frames'[n + 1].followed = FALSE
        /\ doc[m].kind \in Storable
        /\ n \in Nat \ {0}
    BY FollowCalls
  <1>4. Typed'
    BY <1>1, <1>3 DEF Typed, Visited, Item
  <1>5. m = doc[frames[n].node].target /\ doc[frames[n].node].kind \in Reference
    BY <1>2 DEF Node, Top
  <1> HIDE DEF m, n
  <1>6. DOMAIN frames' = 1 .. n + 1 /\ DOMAIN frames = 1 .. n
    BY <1>3, TopCall, <1>2 DEF n
  <1>7. frames' # <<>> => /\ pos' \in DOMAIN doc' /\ frames'[1].node = pos'
                          /\ doc'[pos'].kind \in LeafKind
    BY <1>1, <1>2, <1>3, <1>6 DEF Calls
  <1>8. ASSUME NEW k \in DOMAIN frames'
        PROVE  /\ doc[frames'[k].node].kind \in Storable
               /\ frames'[k].followed => doc[frames'[k].node].kind \in Reference
               /\ k < n + 1 => frames'[k].followed
                     /\ frames'[k + 1].node = doc[frames'[k].node].target
    <2>1. CASE k \in 1 .. n - 1
      BY <2>1, <1>3, <1>6 DEF Calls, n
    <2>2. CASE k = n
      BY <2>2, <1>3, <1>5, <1>6 DEF Calls
    <2>3. CASE k = n + 1
      BY <2>3, <1>3
    <2> QED
      BY <2>1, <2>2, <2>3, <1>3, <1>6
  <1>9. Calls'
    BY <1>1, <1>3, <1>7, <1>8 DEF Calls
  <1> QED
    BY <1>4, <1>9

\* A set_item call and a return leave the types as they are.
LEMMA ItemAdded ==
    ASSUME Typed, NEW n \in DOMAIN doc, NEW b, b \in BOOLEAN, doc' = doc,
           items' = Append(items, <<n, b>>)
    PROVE  items' \in Seq(Item)'
  BY ItemTyped DEF Item

LEMMA LeafTyped ==
    ASSUME Typed, Calls, LeafIsKey \/ LeafSet \/ LeafrefSet
    PROVE  Typed' /\ Calls'
  <1>1. doc' = doc /\ outcome' = outcome /\ Pop /\ frames # <<>>
    BY DEF LeafIsKey, LeafSet, LeafrefSet, InLeaf
  <1>2. Visited' = Visited /\ Item' = Item
    BY <1>1 DEF Visited, Item
  <1>3. Calls'
    BY <1>1, PopCalls
  <1>4. frames' \in Seq(Visited) /\ pos' \in 1 .. Len(doc) + 1
    BY <1>1, PopLeaves
  <1>5. items' \in Seq(Item)
    <2>1. Top.node \in DOMAIN doc
      BY <1>1, TopCall
    <2>2. CASE LeafIsKey
      BY <2>2 DEF LeafIsKey, Typed
    <2>3. CASE LeafSet
      BY <2>1, <2>3, ItemTyped DEF LeafSet
    <2>4. CASE LeafrefSet
      BY <2>1, <2>4, ItemTyped DEF LeafrefSet
    <2> QED
      BY <2>2, <2>3, <2>4
  <1>6. Typed'
    BY <1>1, <1>2, <1>4, <1>5 DEF Typed
  <1> QED
    BY <1>3, <1>6

LEMMA TreeTyped ==
    ASSUME Typed, Calls, VisitList \/ VisitOther
    PROVE  Typed' /\ Calls'
  <1>1. /\ doc' = doc /\ outcome' = outcome /\ frames' = frames
        /\ frames = <<>> /\ pos' = pos + 1 /\ pos \in DOMAIN doc
    BY DEF VisitList, VisitOther, InTree
  <1>2. Visited' = Visited /\ Item' = Item
    BY <1>1 DEF Visited, Item
  <1>3. items' \in Seq(Item)
    <2>1. CASE VisitList
      BY <2>1, <1>1, ItemTyped DEF VisitList
    <2>2. CASE VisitOther
      BY <2>2 DEF VisitOther, Typed
    <2> QED
      BY <2>1, <2>2
  <1>4. pos' \in 1 .. Len(doc) + 1
    BY <1>1, Document1 DEF Typed
  <1>5. Typed'
    BY <1>1, <1>2, <1>3, <1>4 DEF Typed
  <1> QED
    BY <1>1, <1>5 DEF Calls

LEMMA TypedStep == Typed /\ Calls /\ [Next]_vars => Typed' /\ Calls'
  <1> SUFFICES ASSUME Typed, Calls, [Next]_vars PROVE Typed' /\ Calls'
    OBVIOUS
  <1>1. CASE VisitLeaf
    BY <1>1, VisitLeafTyped
  <1>2. CASE VisitList \/ VisitOther
    BY <1>2, TreeTyped
  <1>3. CASE LeafIsKey \/ LeafSet \/ LeafrefSet
    BY <1>3, LeafTyped
  <1>4. CASE FollowLeafref
    BY <1>4, FollowTyped
  <1>5. CASE ParseFails \/ StoreDone \/ LeafUnsupported \/ SetItemThrows
             \/ UNCHANGED vars
    <2>1. /\ doc' = doc /\ pos' = pos /\ frames' = frames /\ items' = items
          /\ outcome' \in {outcome, "OK", "ERROR"}
      BY <1>5 DEF ParseFails, StoreDone, LeafUnsupported, SetItemThrows, vars
    <2>2. Typed'
      BY <2>1 DEF Typed, Visited, Item
    <2>3. Calls'
      BY <2>1 DEF Calls
    <2> QED
      BY <2>2, <2>3
  <1> QED
    BY <1>1, <1>2, <1>3, <1>4, <1>5 DEF Next

LEMMA AlwaysTyped == Spec => [](Typed /\ Calls)
  <1>1. Init => Typed /\ Calls
    BY InitTyped
  <1>2. (Typed /\ Calls) /\ [Next]_vars => (Typed /\ Calls)'
    BY TypedStep
  <1> QED
    BY <1>1, <1>2, PTL DEF Spec

LEMMA TypedMeans == Typed => TypeOK
  <1> SUFFICES ASSUME Typed PROVE TypeOK
    OBVIOUS
  <1>1. \A k \in DOMAIN frames : frames[k] \in Visited
    BY DEF Typed
  <1>2. \A k \in DOMAIN items : items[k] \in Item
    BY DEF Typed
  <1>3. \A k \in DOMAIN items :
            items[k][1] \in DOMAIN doc /\ items[k][2] \in BOOLEAN
    BY <1>2 DEF Item
  <1> QED
    BY <1>1, <1>3 DEF Typed, TypeOK, Visited

(***************************************************************************)
(* The variables have their types, and every call and every set_item is    *)
(* for a node of the document, whatever the document.                      *)
(***************************************************************************)
THEOREM StoreTypeCorrect == Spec => []TypeOK
  BY AlwaysTyped, TypedMeans, PTL

-----------------------------------------------------------------------------
(***************************************************************************)
(* Chains of references, and the nodes above a node.                       *)
(***************************************************************************)

\* A node that is no reference is all of its chain.
LEMMA ChainEnd ==
    ASSUME NEW j \in DOMAIN doc, doc[j].kind \notin Reference
    PROVE  Chain(j) = {j}
  <1>1. j \in Chain(j)
    BY DEF Chain
  <1>2. ASSUME NEW k \in Chain(j) PROVE k = j
    <2>1. {j} \in SUBSET DOMAIN doc
      OBVIOUS
    <2> QED
      BY <2>1 DEF Chain
  <1> QED
    BY <1>1, <1>2

\* The chain of a reference has the leaves of the chain it goes on with.
LEMMA ChainStep ==
    ASSUME doc \in Document, NEW j \in DOMAIN doc, doc[j].kind \in Reference,
           NEW i \in DOMAIN doc, doc[i].kind \in Valued
    PROVE  i \in Chain(j) <=> i \in Chain(doc[j].target)
  <1> DEFINE t == doc[j].target
             Closed(S) == \A k \in S : doc[k].kind \in Reference => doc[k].target \in S
  <1>1. t \in DOMAIN doc
    BY Document1
  <1>2. ASSUME i \in Chain(j), NEW S \in SUBSET DOMAIN doc, t \in S, Closed(S)
        PROVE  i \in S
    <2>1. S \cup {j} \in SUBSET DOMAIN doc /\ j \in S \cup {j}
          /\ Closed(S \cup {j})
      BY <1>2
    <2>2. i \in S \cup {j}
      BY <1>2, <2>1 DEF Chain
    <2>3. i # j
      BY DEF Valued, Reference
    <2> QED
      BY <2>2, <2>3
  <1>3. ASSUME i \in Chain(t), NEW S \in SUBSET DOMAIN doc, j \in S, Closed(S)
        PROVE  i \in S
    <2>1. t \in S
      BY <1>3
    <2> QED
      BY <1>3, <2>1 DEF Chain
  <1> QED
    BY <1>2, <1>3 DEF Chain

\* What is above a node comes before it.
LEMMA AboveBefore ==
    ASSUME doc \in Document, NEW i \in DOMAIN doc, NEW l \in Above(i)
    PROVE  l \in DOMAIN doc /\ l < i
  <1> DEFINE S == {k \in DOMAIN doc : k < i}
  <1>1. Len(doc) \in Nat /\ DOMAIN doc = 1 .. Len(doc)
        /\ \A k \in DOMAIN doc : doc[k].parent \in 0 .. k - 1
    BY Document1
  <1>2. ASSUME NEW k \in S \cup {i}, doc[k].parent # 0
        PROVE  doc[k].parent \in S
    BY <1>1, <1>2
  <1>3. S \in SUBSET DOMAIN doc
    OBVIOUS
  <1>4. l \in S
    <2> HIDE DEF S
    <2> QED
      BY <1>2, <1>3 DEF Above
  <1> QED
    BY <1>4

-----------------------------------------------------------------------------
(***************************************************************************)
(* The inductive invariant.  storeTree has passed over a node only when    *)
(* what the node needs is set, ...                                         *)
(***************************************************************************)
Settable == {"list"} \cup Valued \cup Reference

Placed ==
    /\ \A i \in DOMAIN doc :
           i < pos /\ doc[i].kind \in {"list", "leafref"} => IsSet(i)
    /\ \A k \in DOMAIN items :
           doc[items[k][1]].kind \in Settable

\* ... it has passed over every one when it ends, ...
Ended == outcome = "OK" => pos = Len(doc) + 1

\* ... the calls under way all end at the same plain leaf, if at any, ...
OneChain ==
    \A k \in DOMAIN frames : \A i \in DOMAIN doc :
        doc[i].kind \in Valued => (i \in Chain(frames[k].node) <=> i \in Chain(pos))

(***************************************************************************)
(* ... and that leaf has been set for pos once the call that ends there    *)
(* has returned to one before it.                                          *)
(***************************************************************************)
Returned == frames # <<>> /\ Top.followed

Reached(i) ==
    {j \in DOMAIN doc : /\ doc[j].kind \in LeafKind /\ i \in Chain(j)
                        /\ j < pos \/ (j = pos /\ Returned)}

Sets(i) == {k \in DOMAIN items : items[k] = <<i, TRUE>>}

SetAsOften ==
    \A i \in DOMAIN doc :
        doc[i].kind \in Valued => Cardinality(Sets(i)) = Cardinality(Reached(i))

(***************************************************************************)
(* What a reference refers to has been set just before the reference is,   *)
(* be that the last call made or one before it.                            *)
(***************************************************************************)
TargetOf(i) == doc[i].target

TargetSet ==
    doc[TargetOf(Top.node)].kind # "key" =>
        items # <<>> /\ items[Len(items)][1] = TargetOf(Top.node)

InTurn ==
    /\ \A k \in DOMAIN items : AfterTarget(k)
    /\ Returned => TargetSet

\* Where no reference points ahead, neither do the calls.
NoneAhead ==
    (\A i \in DOMAIN doc : ~PointsAhead(i)) =>
        /\ \A k \in DOMAIN frames : frames[k].node <= pos
        /\ \A k \in DOMAIN items : ListFirst(k)

-----------------------------------------------------------------------------
(***************************************************************************)
(* What a set_item call and a return do to the parts of the invariant.     *)
(***************************************************************************)

\* A node that is set stays set, and one more is.
LEMMA StaysSet ==
    ASSUME Typed, NEW n \in DOMAIN doc, NEW b, b \in BOOLEAN,
           items' = Append(items, <<n, b>>)
    PROVE  \A i : IsSet(i)' <=> IsSet(i) \/ i = n
  <1>1. /\ items' \in Seq(Item) /\ items \in Seq(Item)
        /\ Len(items) \in Nat /\ Len(items') = Len(items) + 1
        /\ items'[Len(items) + 1] = <<n, b>>
        /\ \A k \in 1 .. Len(items) : items'[k] = items[k]
    BY ItemTyped DEF Typed
  <1>2. DOMAIN items = 1 .. Len(items) /\ DOMAIN items' = 1 .. Len(items) + 1
    BY <1>1
  <1>3. DOMAIN items' = DOMAIN items \cup {Len(items) + 1}
    BY <1>1, <1>2
  <1> DEFINE N == Len(items) + 1
  <1>4. items'[N][1] = n
    BY <1>1
  <1> QED
    BY <1>1, <1>2, <1>3, <1>4 DEF IsSet

\* The calls that set a leaf with its value, after one more call.
LEMMA SetsAfter ==
    ASSUME Typed, NEW n \in DOMAIN doc, NEW b, b \in BOOLEAN,
           items' = Append(items, <<n, b>>), NEW i
    PROVE  /\ Cardinality(Sets(i)) \in Nat
           /\ Cardinality(Sets(i)') =
                  IF i = n /\ b = TRUE THEN Cardinality(Sets(i)) + 1
                                       ELSE Cardinality(Sets(i))
  <1>1. /\ items' \in Seq(Item) /\ items \in Seq(Item)
        /\ Len(items) \in Nat /\ Len(items') = Len(items) + 1
        /\ items'[Len(items) + 1] = <<n, b>>
        /\ \A k \in 1 .. Len(items) : items'[k] = items[k]
    BY ItemTyped DEF Typed
  <1> DEFINE N == Len(items) + 1
  <1>2. DOMAIN items = 1 .. Len(items) /\ DOMAIN items' = 1 .. N
    BY <1>1
  <1>3. DOMAIN items' = DOMAIN items \cup {N} /\ N \notin DOMAIN items
    BY <1>1, <1>2
  <1>4. IsFiniteSet(Sets(i)) /\ Cardinality(Sets(i)) \in Nat
    <2>1. IsFiniteSet(1 .. Len(items))
      BY <1>1, FS_Interval
    <2>2. Sets(i) \subseteq 1 .. Len(items)
      BY <1>2 DEF Sets
    <2>3. IsFiniteSet(Sets(i))
      BY <2>1, <2>2, FS_Subset
    <2> QED
      BY <2>3, FS_CardinalityType
  <1>5. N \notin Sets(i)
    BY <1>3 DEF Sets
  <1>6. items'[N] = <<i, TRUE>> <=> i = n /\ b = TRUE
    <2>1. items'[N] = <<n, b>>
      BY <1>1
    <2>2. <<n, b>> = <<i, TRUE>> <=> i = n /\ b = TRUE
      BY Zenon
    <2> QED
      BY <2>1, <2>2, Zenon
  <1>7. \A k \in DOMAIN items : items'[k] = items[k]
    BY <1>1, <1>2
  <1>8. Sets(i)' = IF i = n /\ b = TRUE THEN Sets(i) \cup {N} ELSE Sets(i)
    BY <1>3, <1>6, <1>7 DEF Sets
  <1>9. Cardinality(Sets(i) \cup {N}) = Cardinality(Sets(i)) + 1
    BY <1>4, <1>5, FS_AddElement
  <1> QED
    BY <1>4, <1>8, <1>9

LEMMA ReachedFinite ==
    ASSUME Typed, NEW i
    PROVE  IsFiniteSet(Reached(i)) /\ Cardinality(Reached(i)) \in Nat
  <1>1. DOMAIN doc = 1 .. Len(doc) /\ Len(doc) \in Nat
    BY Document1 DEF Typed
  <1>2. IsFiniteSet(DOMAIN doc)
    BY <1>1, FS_Interval
  <1>3. Reached(i) \subseteq DOMAIN doc
    BY DEF Reached
  <1>4. IsFiniteSet(Reached(i))
    BY <1>2, <1>3, FS_Subset
  <1> QED
    BY <1>4, FS_CardinalityType

\* The chains are those of the document.
LEMMA SameChains == doc' = doc => \A j : Chain(j)' = Chain(j) /\ Above(j)' = Above(j)
  BY DEF Chain, Above

(***************************************************************************)
(* A call that returns has set the leaf at the end of its chain for pos:   *)
(* the first one to return is the first to have done so.                   *)
(***************************************************************************)
LEMMA PopReached ==
    ASSUME Typed, Calls, OneChain, frames # <<>>, Pop, doc' = doc,
           NEW i \in DOMAIN doc, doc[i].kind \in Valued
    PROVE  /\ Returned => Reached(i)' = Reached(i)
           /\ ~Returned =>
                /\ pos \notin Reached(i)
                /\ Reached(i)' = IF i \in Chain(Top.node)
                                   THEN Reached(i) \cup {pos} ELSE Reached(i)
  <1>1. /\ Len(frames) \in Nat \ {0} /\ DOMAIN frames = 1 .. Len(frames)
        /\ doc[Top.node].kind \in Storable
    BY TopCall
  <1>2. /\ Len(frames') = Len(frames) - 1 /\ frames' \in Seq(Visited)
        /\ \A k \in 1 .. Len(frames) - 1 : frames'[k] = frames[k]
        /\ frames' # <<>> => pos' = pos /\ Len(frames) > 1
        /\ frames' = <<>> => pos' = pos + 1 /\ Len(frames) = 1
    BY PopLeaves
  <1>3. DOMAIN doc \subseteq Nat /\ pos \in Nat
    BY Document1 DEF Typed
  <1>4. pos \in DOMAIN doc /\ doc[pos].kind \in LeafKind
    BY <1>1 DEF Calls
  <1>5. i \in Chain(pos) <=> i \in Chain(Top.node)
    BY <1>1 DEF OneChain, Top
  <1>6. \A j : Chain(j)' = Chain(j)
    BY SameChains
  <1> DEFINE All == {j \in DOMAIN doc : /\ doc[j].kind \in LeafKind
                                        /\ i \in Chain(j) /\ j <= pos}
  <1>7. Reached(i)' = All
    <2>1. CASE frames' = <<>>
      <3>1. ~Returned'
        BY <2>1 DEF Returned
      <3>2. pos' = pos + 1
        BY <1>2, <2>1
      <3>3. \A j \in DOMAIN doc : j < pos + 1 <=> j <= pos
        BY <1>3
      <3> QED
        BY <3>1, <3>2, <3>3, <1>6 DEF Reached
    <2>2. CASE frames' # <<>>
      <3>1. pos' = pos /\ Len(frames) > 1
        BY <1>2, <2>2
      <3>2. Top' = frames[Len(frames) - 1]
        BY <1>1, <1>2, <3>1 DEF Top
      <3>3. frames[Len(frames) - 1].followed
        BY <1>1, <3>1 DEF Calls
      <3>4. Returned'
        BY <2>2, <3>2, <3>3 DEF Returned
      <3>5. \A j \in DOMAIN doc : j < pos \/ j = pos <=> j <= pos
        BY <1>3
      <3> QED
        BY <3>1, <3>4, <3>5, <1>6 DEF Reached
    <2> QED
      BY <2>1, <2>2
  <1>8. Returned => Reached(i) = All
    BY <1>3 DEF Reached
  <1>9. ~Returned => pos \notin Reached(i)
                  /\ All = IF i \in Chain(pos) THEN Reached(i) \cup {pos}
                                               ELSE Reached(i)
    BY <1>3, <1>4 DEF Reached
  <1> QED
    BY <1>5, <1>7, <1>8, <1>9

-----------------------------------------------------------------------------
(***************************************************************************)
(* Every step keeps each part of the invariant.                            *)
(***************************************************************************)

LEMMA PlacedStep == Typed /\ Calls /\ Placed /\ [Next]_vars => Placed'
  <1> SUFFICES ASSUME Typed, Calls, Placed, [Next]_vars PROVE Placed'
    OBVIOUS
  <1>1. doc' = doc
    BY SameDocument
  <1>2. DOMAIN doc \subseteq Nat /\ pos \in Nat
    BY Document1 DEF Typed
  <1>3. ASSUME NEW n \in DOMAIN doc, NEW b \in BOOLEAN,
               items' = Append(items, <<n, b>>),
               doc[n].kind \in Settable,
               \/ pos' = pos
               \/ /\ pos' = pos + 1
                  /\ doc[pos].kind \in {"list", "leafref"} => n = pos
        PROVE  Placed'
    <2>1. \A i : IsSet(i)' <=> IsSet(i) \/ i = n
      BY <1>3, StaysSet
    <2>2. /\ Len(items) \in Nat /\ Len(items') = Len(items) + 1
          /\ items' \in Seq(Item)
          /\ items'[Len(items) + 1] = <<n, b>>
          /\ \A k \in 1 .. Len(items) : items'[k] = items[k]
      BY <1>3, ItemTyped
    <2>3. DOMAIN items = 1 .. Len(items) /\ DOMAIN items' = 1 .. Len(items) + 1
      BY <2>2 DEF Typed
    <2>4. \A k \in DOMAIN items' :
              doc[items'[k][1]].kind \in Settable
      <3> TAKE k \in DOMAIN items'
      <3>1. CASE k \in DOMAIN items
        BY <3>1, <2>2, <2>3 DEF Placed
      <3>2. CASE k = Len(items) + 1
        BY <3>2, <2>2, <1>3
      <3> QED
        BY <3>1, <3>2, <2>2, <2>3
    <2>5. \A i \in DOMAIN doc :
              i < pos' /\ doc[i].kind \in {"list", "leafref"} => IsSet(i)'
      BY <1>2, <1>3, <2>1 DEF Placed
    <2> QED
      BY <1>1, <2>4, <2>5 DEF Placed
  <1>4. ASSUME items' = items,
               \/ pos' = pos
               \/ /\ pos' = pos + 1
                  /\ doc[pos].kind \notin {"list", "leafref"}
        PROVE  Placed'
    <2>1. \A i : IsSet(i)' <=> IsSet(i)
      BY <1>4 DEF IsSet
    <2> QED
      BY <1>1, <1>2, <1>4, <2>1 DEF Placed
  <1>5. ASSUME frames # <<>>, Pop
        PROVE  /\ pos' = pos \/ (pos' = pos + 1 /\ Top.node = pos)
               /\ Top.node \in DOMAIN doc
    BY <1>5, PopLeaves, TopCall
  <1>6. CASE VisitList
    BY <1>3, <1>6 DEF VisitList, Settable
  <1>7. CASE VisitOther
    BY <1>4, <1>7 DEF VisitOther, EntryKind
  <1>8. CASE LeafIsKey
    BY <1>4, <1>5, <1>8 DEF LeafIsKey, InLeaf, Node
  <1>9. CASE LeafSet
    <2>1. doc[Top.node].kind \in Settable /\ doc[Top.node].kind \notin {"list", "leafref"}
      BY <1>9 DEF LeafSet, Node, Settable, Valued
    <2> QED
      BY <1>3, <1>5, <1>9, <2>1 DEF LeafSet, InLeaf, Node
  <1>10. CASE LeafrefSet
    <2>1. doc[Top.node].kind \in Settable
      BY <1>10 DEF LeafrefSet, Node, Settable
    <2> QED
      BY <1>3, <1>5, <1>10, <2>1 DEF LeafrefSet, InLeaf, Node
  <1>11. CASE VisitLeaf \/ FollowLeafref \/ ParseFails \/ StoreDone
              \/ LeafUnsupported \/ SetItemThrows \/ UNCHANGED vars
    BY <1>4, <1>11 DEF VisitLeaf, FollowLeafref, ParseFails, StoreDone,
                       LeafUnsupported, SetItemThrows, vars
  <1> QED
    BY <1>6, <1>7, <1>8, <1>9, <1>10, <1>11 DEF Next

LEMMA EndedStep == Typed /\ Ended /\ [Next]_vars => Ended'
  <1> SUFFICES ASSUME Typed, Ended, [Next]_vars, outcome' = "OK"
               PROVE  pos' = Len(doc') + 1
    BY DEF Ended
  <1>1. CASE StoreDone
    <2>1. pos \in 1 .. Len(doc) + 1 /\ pos \notin 1 .. Len(doc) /\ Len(doc) \in Nat
      BY <1>1, Document1 DEF StoreDone, Typed
    <2> QED
      BY <1>1, <2>1 DEF StoreDone
  <1>2. CASE UNCHANGED vars
    BY <1>2 DEF vars, Ended
  <1>3. CASE Next /\ ~StoreDone
    BY <1>3 DEF Next, ParseFails, VisitLeaf, VisitList, VisitOther, LeafIsKey,
                LeafSet, FollowLeafref, LeafrefSet, LeafUnsupported,
                SetItemThrows, InTree, InLeaf, Running
  <1> QED
    BY <1>1, <1>2, <1>3

LEMMA OneChainStep ==
    Typed /\ Calls /\ OneChain /\ [Next]_vars => OneChain'
  <1> SUFFICES ASSUME Typed, Calls, OneChain, [Next]_vars PROVE OneChain'
    OBVIOUS
  <1>1. doc' = doc /\ \A j : Chain(j)' = Chain(j)
    BY SameDocument, SameChains
  <1>2. CASE VisitLeaf
    <2>1. frames' = <<[node |-> pos, followed |-> FALSE]>> /\ pos' = pos
      BY <1>2 DEF VisitLeaf
    <2>2. \A k \in DOMAIN frames' : frames'[k].node = pos
      BY <2>1
    <2> QED
      BY <1>1, <2>1, <2>2 DEF OneChain
  <1>3. CASE VisitList \/ VisitOther
    <2>1. frames' = <<>>
      BY <1>3 DEF VisitList, VisitOther, InTree
    <2>2. DOMAIN frames' = {}
      BY <2>1
    <2> QED
      BY <2>2 DEF OneChain
  <1>4. CASE LeafIsKey \/ LeafSet \/ LeafrefSet
    <2>1. frames # <<>> /\ Pop
      BY <1>4 DEF LeafIsKey, LeafSet, LeafrefSet, InLeaf
    <2>2. /\ frames' \in Seq(Visited) /\ Len(frames') = Len(frames) - 1
          /\ \A k \in 1 .. Len(frames) - 1 : frames'[k] = frames[k]
          /\ frames' # <<>> => pos' = pos
          /\ Len(frames) \in Nat \ {0} /\ DOMAIN frames = 1 .. Len(frames)
      BY <2>1, PopLeaves, TopCall
    <2>3. DOMAIN frames' = 1 .. Len(frames) - 1
      BY <2>2
    <2>4. \A k \in DOMAIN frames' :
              k \in DOMAIN frames /\ frames'[k] = frames[k] /\ pos' = pos
      BY <2>2, <2>3
    <2> QED
      BY <1>1, <2>4 DEF OneChain
  <1>5. CASE FollowLeafref
    <2> DEFINE n == Len(frames)
               m == doc[frames[n].node].target
    <2>1. /\ frames' \in Seq(Visited) /\ Len(frames') = n + 1
          /\ \A k \in 1 .. n : frames'[k].node = frames[k].node
          /\ frames'[n + 1].node = m
          /\ n \in Nat \ {0}
      BY <1>5, FollowCalls DEF Node, Top
    <2>2. /\ DOMAIN frames = 1 .. n /\ frames[n].node \in DOMAIN doc
          /\ doc[frames[n].node].kind \in Reference
      BY <1>5, TopCall DEF FollowLeafref, InLeaf, Node, Top
    <2>3. pos' = pos
      BY <1>5 DEF FollowLeafref
    <2> HIDE DEF n, m
    <2>4. ASSUME NEW k \in DOMAIN frames', NEW i \in DOMAIN doc,
                 doc[i].kind \in Valued
          PROVE  i \in Chain(frames'[k].node) <=> i \in Chain(pos)
      <3>1. CASE k \in 1 .. n
        BY <3>1, <2>1, <2>2, <2>4 DEF OneChain
      <3>2. CASE k = n + 1
        <4>1. n \in DOMAIN frames
          BY <2>1, <2>2
        <4>2. i \in Chain(frames[n].node) <=> i \in Chain(pos)
          BY <4>1, <2>4 DEF OneChain
        <4>3. i \in Chain(frames[n].node) <=> i \in Chain(m)
          BY <2>2, <2>4, ChainStep DEF m, Typed
        <4> QED
          BY <3>2, <4>2, <4>3, <2>1
      <3> QED
        BY <3>1, <3>2, <2>1
    <2> QED
      BY <1>1, <2>3, <2>4 DEF OneChain
  <1>6. CASE ParseFails \/ StoreDone \/ LeafUnsupported \/ SetItemThrows
             \/ UNCHANGED vars
    <2>1. frames' = frames /\ pos' = pos
      BY <1>6 DEF ParseFails, StoreDone, LeafUnsupported, SetItemThrows, vars
    <2> QED
      BY <1>1, <2>1 DEF OneChain
  <1> QED
    BY <1>2, <1>3, <1>4, <1>5, <1>6 DEF Next

LEMMA SetAsOftenStep ==
    Typed /\ Calls /\ OneChain /\ SetAsOften /\ [Next]_vars => SetAsOften'
  <1> SUFFICES ASSUME Typed, Calls, OneChain, SetAsOften, [Next]_vars,
                      NEW i \in DOMAIN doc, doc[i].kind \in Valued
               PROVE  Cardinality(Sets(i)') = Cardinality(Reached(i)')
    BY SameDocument DEF SetAsOften
  <1>1. doc' = doc /\ \A j : Chain(j)' = Chain(j)
    BY SameDocument, SameChains
  <1>2. Cardinality(Sets(i)) = Cardinality(Reached(i))
    BY DEF SetAsOften
  <1>3. items' = items => Sets(i)' = Sets(i)
    BY DEF Sets
  <1>4. IsFiniteSet(Reached(i)) /\ Cardinality(Reached(i)) \in Nat
    BY ReachedFinite
  <1>5. CASE VisitLeaf \/ FollowLeafref
    <2>1. ~Returned
      BY <1>5 DEF VisitLeaf, FollowLeafref, InTree, Returned
    <2>2. ~Returned'
      <3>1. CASE VisitLeaf
        <4>1. frames' = <<[node |-> pos, followed |-> FALSE]>>
          BY <3>1 DEF VisitLeaf
        <4>2. Top' = [node |-> pos, followed |-> FALSE]
          BY <4>1 DEF Top
        <4> QED
          BY <4>2 DEF Returned
      <3>2. CASE FollowLeafref
        <4>1. /\ Len(frames') = Len(frames) + 1
              /\ frames'[Len(frames) + 1].followed = FALSE
          BY <3>2, FollowCalls
        <4> QED
          BY <4>1 DEF Returned, Top
      <3> QED
        BY <1>5, <3>1, <3>2
    <2>3. pos' = pos /\ items' = items
      BY <1>5 DEF VisitLeaf, FollowLeafref
    <2>4. Reached(i)' = Reached(i)
      BY <1>1, <2>1, <2>2, <2>3 DEF Reached
    <2> QED
      BY <1>2, <1>3, <2>3, <2>4
  <1>6. CASE VisitList \/ VisitOther
    <2>1. /\ frames = <<>> /\ frames' = <<>> /\ pos' = pos + 1
          /\ doc[pos].kind \notin LeafKind /\ pos \in DOMAIN doc
      BY <1>6 DEF VisitList, VisitOther, InTree, LeafKind, EntryKind
    <2>2. DOMAIN doc \subseteq Nat /\ pos \in Nat
      BY Document1 DEF Typed
    <2>3. \A j \in DOMAIN doc : j < pos + 1 <=> j < pos \/ j = pos
      BY <2>2
    <2>4. Reached(i)' = Reached(i)
      BY <1>1, <2>1, <2>3 DEF Reached, Returned
    <2>5. Cardinality(Sets(i)') = Cardinality(Sets(i))
      <3>1. CASE VisitList
        <4>1. items' = Append(items, <<pos, FALSE>>)
          BY <3>1 DEF VisitList
        <4> QED
          BY <2>1, <4>1, SetsAfter
      <3>2. CASE VisitOther
        BY <3>2, <1>3 DEF VisitOther
      <3> QED
        BY <1>6, <3>1, <3>2
    <2> QED
      BY <1>2, <2>4, <2>5
  <1>7. CASE LeafIsKey
    <2>1. frames # <<>> /\ Pop /\ items' = items
      BY <1>7 DEF LeafIsKey, InLeaf
    <2>2. Top.node \in DOMAIN doc /\ doc[Top.node].kind = "key"
      BY <1>7, <2>1, TopCall DEF LeafIsKey, Node
    <2>3. i \notin Chain(Top.node)
      BY <2>2, ChainEnd DEF Reference, Valued
    <2>4. Reached(i)' = Reached(i)
      BY <1>1, <2>1, <2>3, PopReached
    <2> QED
      BY <1>2, <1>3, <2>1, <2>4
  <1>8. CASE LeafSet
    <2>1. frames # <<>> /\ Pop /\ items' = Append(items, <<Top.node, TRUE>>)
      BY <1>8 DEF LeafSet, InLeaf
    <2>2. Top.node \in DOMAIN doc /\ doc[Top.node].kind \in Valued
      BY <1>8, <2>1, TopCall DEF LeafSet, Node
    <2>3. i \in Chain(Top.node) <=> i = Top.node
      BY <2>2, ChainEnd DEF Reference, Valued
    <2>4. ~Returned
      BY <2>1, <2>2, TopCall DEF Returned, Reference, Valued
    <2>5. /\ pos \notin Reached(i)
          /\ Reached(i)' = IF i = Top.node THEN Reached(i) \cup {pos}
                                           ELSE Reached(i)
      BY <1>1, <2>1, <2>3, <2>4, PopReached
    <2>6. Cardinality(Sets(i)') = IF i = Top.node THEN Cardinality(Sets(i)) + 1
                                                  ELSE Cardinality(Sets(i))
      BY <2>1, <2>2, SetsAfter
    <2>7. Cardinality(Reached(i) \cup {pos}) = Cardinality(Reached(i)) + 1
      BY <1>4, <2>5, FS_AddElement
    <2> QED
      BY <1>2, <2>5, <2>6, <2>7
  <1>9. CASE LeafrefSet
    <2>1. /\ frames # <<>> /\ Pop /\ items' = Append(items, <<Top.node, FALSE>>)
          /\ Returned
      BY <1>9 DEF LeafrefSet, InLeaf, Returned
    <2>2. Top.node \in DOMAIN doc
      BY <2>1, TopCall
    <2>3. Reached(i)' = Reached(i)
      BY <1>1, <2>1, PopReached
    <2>4. Cardinality(Sets(i)') = Cardinality(Sets(i))
      BY <2>1, <2>2, SetsAfter
    <2> QED
      BY <1>2, <2>3, <2>4
  <1>10. CASE ParseFails \/ StoreDone \/ LeafUnsupported \/ SetItemThrows
              \/ UNCHANGED vars
    <2>1. frames' = frames /\ pos' = pos /\ items' = items
      BY <1>10 DEF ParseFails, StoreDone, LeafUnsupported, SetItemThrows, vars
    <2>2. Reached(i)' = Reached(i)
      BY <1>1, <2>1 DEF Reached, Returned, Top
    <2> QED
      BY <1>2, <1>3, <2>1, <2>2
  <1> QED
    BY <1>5, <1>6, <1>7, <1>8, <1>9, <1>10 DEF Next

\* A set_item call keeps the order of those before it, and is in order itself if
\* what its node refers to has just been set.
LEMMA ItemInTurn ==
    ASSUME Typed, NEW n \in DOMAIN doc, NEW b, b \in BOOLEAN, doc' = doc,
           \A k \in DOMAIN items : AfterTarget(k),
           items' = Append(items, <<n, b>>),
           (doc[n].kind \in Reference /\ doc[TargetOf(n)].kind # "key") =>
               items # <<>> /\ items[Len(items)][1] = TargetOf(n)
    PROVE  /\ \A k \in DOMAIN items' : AfterTarget(k)'
           /\ items' # <<>> /\ items'[Len(items')][1] = n
  <1>1. /\ Len(items) \in Nat /\ Len(items') = Len(items) + 1
        /\ items' \in Seq(Item) /\ items \in Seq(Item)
        /\ items'[Len(items) + 1] = <<n, b>>
        /\ \A k \in 1 .. Len(items) : items'[k] = items[k]
    BY ItemTyped DEF Typed
  <1>2. DOMAIN items = 1 .. Len(items) /\ DOMAIN items' = 1 .. Len(items) + 1
    BY <1>1
  <1>3. ASSUME NEW k \in 1 .. Len(items) PROVE AfterTarget(k)'
    <2>1. AfterTarget(k) /\ items'[k] = items[k]
      BY <1>1, <1>2
    <2>2. k > 1 => items'[k - 1] = items[k - 1]
      BY <1>1
    <2> QED
      BY <2>1, <2>2 DEF AfterTarget
  <1>4. ASSUME NEW k \in Nat, k = Len(items) + 1 PROVE AfterTarget(k)'
    <2>1. items'[k][1] = n /\ k - 1 = Len(items)
      BY <1>1, <1>4
    <2>2. items # <<>> => k > 1 /\ items'[k - 1] = items[Len(items)]
      BY <1>1, <1>4
    <2> QED
      BY <2>1, <2>2 DEF AfterTarget, TargetOf
  <1>5. \A k \in DOMAIN items' : k \in 1 .. Len(items) \/ k = Len(items) + 1
    BY <1>1, <1>2
  <1> QED
    BY <1>1, <1>3, <1>4, <1>5

\* The call that is left after a return refers to the node whose call returned.
LEMMA PopTarget ==
    ASSUME Typed, Calls, frames # <<>>, Pop, doc' = doc, Returned'
    PROVE  TargetOf(Top'.node) = Top.node
  <1>1. Len(frames) \in Nat \ {0} /\ DOMAIN frames = 1 .. Len(frames)
    BY TopCall
  <1>2. /\ Len(frames') = Len(frames) - 1 /\ frames' \in Seq(Visited)
        /\ \A k \in 1 .. Len(frames) - 1 : frames'[k] = frames[k]
        /\ frames' # <<>> => Len(frames) > 1
    BY PopLeaves
  <1>3. frames' # <<>>
    BY DEF Returned
  <1>4. Top' = frames[Len(frames) - 1]
    BY <1>1, <1>2, <1>3 DEF Top
  <1>5. frames[Len(frames)].node = doc[frames[Len(frames) - 1].node].target
    <2> DEFINE m == Len(frames) - 1
    <2>1. m \in DOMAIN frames /\ m < Len(frames) /\ m + 1 = Len(frames)
      BY <1>1, <1>2, <1>3
    <2> HIDE DEF m
    <2>2. frames[m + 1].node = doc[frames[m].node].target
      BY <2>1 DEF Calls
    <2> QED
      BY <2>1, <2>2 DEF m
  <1> QED
    BY <1>4, <1>5 DEF TargetOf, Top

LEMMA InTurnStep == Typed /\ Calls /\ InTurn /\ [Next]_vars => InTurn'
  <1> SUFFICES ASSUME Typed, Calls, InTurn, [Next]_vars PROVE InTurn'
    OBVIOUS
  <1>1. doc' = doc /\ \A k \in DOMAIN items : AfterTarget(k)
    BY SameDocument DEF InTurn
  <1>2. items' = items => \A k \in DOMAIN items' : AfterTarget(k)'
    BY <1>1 DEF AfterTarget
  <1>3. CASE VisitLeaf \/ FollowLeafref
    <2>1. items' = items
      BY <1>3 DEF VisitLeaf, FollowLeafref
    <2>2. ~Returned'
      <3>1. CASE VisitLeaf
        <4>1. frames' = <<[node |-> pos, followed |-> FALSE]>>
          BY <3>1 DEF VisitLeaf
        <4>2. Top' = [node |-> pos, followed |-> FALSE]
          BY <4>1 DEF Top
        <4> QED
          BY <4>2 DEF Returned
      <3>2. CASE FollowLeafref
        <4>1. /\ Len(frames') = Len(frames) + 1
              /\ frames'[Len(frames) + 1].followed = FALSE
          BY <3>2, FollowCalls
        <4> QED
          BY <4>1 DEF Returned, Top
      <3> QED
        BY <1>3, <3>1, <3>2
    <2> QED
      BY <1>2, <2>1, <2>2 DEF InTurn
  <1>4. CASE VisitList \/ VisitOther
    <2>1. /\ ~Returned' /\ pos \in DOMAIN doc
          /\ VisitList => doc[pos].kind \notin Reference
      BY <1>4 DEF VisitList, VisitOther, InTree, Returned, Reference
    <2>2. CASE VisitList
      BY <1>1, <2>1, <2>2, ItemInTurn DEF VisitList, InTurn
    <2>3. CASE VisitOther
      BY <1>2, <2>1, <2>3 DEF VisitOther, InTurn
    <2> QED
      BY <1>4, <2>2, <2>3
  <1>5. CASE LeafIsKey \/ LeafSet \/ LeafrefSet
    <2>1. frames # <<>> /\ Pop
      BY <1>5 DEF LeafIsKey, LeafSet, LeafrefSet, InLeaf
    <2>2. Top.node \in DOMAIN doc /\ (Returned' => TargetOf(Top'.node) = Top.node)
      BY <1>1, <2>1, PopTarget, TopCall
    <2>3. TargetOf(Top'.node) = Top.node => TargetOf(Top.node)' = Top.node
      BY <1>1 DEF TargetOf
    <2>4. CASE LeafIsKey
      <3>1. items' = items /\ doc[Top.node].kind = "key"
        BY <2>4 DEF LeafIsKey, Node
      <3> QED
        BY <1>1, <1>2, <2>2, <2>3, <3>1 DEF InTurn, TargetSet
    <2>5. ASSUME NEW b \in BOOLEAN, items' = Append(items, <<Top.node, b>>),
                 (doc[Top.node].kind \in Reference
                      /\ doc[TargetOf(Top.node)].kind # "key") =>
                     items # <<>> /\ items[Len(items)][1] = TargetOf(Top.node)
          PROVE  InTurn'
      <3>1. /\ \A k \in DOMAIN items' : AfterTarget(k)'
            /\ items' # <<>> /\ items'[Len(items')][1] = Top.node
        BY <1>1, <2>2, <2>5, ItemInTurn
      <3> QED
        BY <2>2, <2>3, <3>1 DEF InTurn, TargetSet
    <2>6. CASE LeafSet
      <3>1. /\ items' = Append(items, <<Top.node, TRUE>>)
            /\ doc[Top.node].kind \notin Reference
        BY <2>6 DEF LeafSet, Node, Valued, Reference
      <3> QED
        BY <2>5, <3>1
    <2>7. CASE LeafrefSet
      <3>1. items' = Append(items, <<Top.node, FALSE>>) /\ Returned
        BY <2>7, <2>1 DEF LeafrefSet, Returned
      <3>2. TargetSet
        BY <3>1 DEF InTurn
      <3> QED
        BY <2>5, <3>1, <3>2 DEF TargetSet
    <2> QED
      BY <1>5, <2>4, <2>6, <2>7
  <1>6. CASE ParseFails \/ StoreDone \/ LeafUnsupported \/ SetItemThrows
             \/ UNCHANGED vars
    <2>1. frames' = frames /\ items' = items
      BY <1>6 DEF ParseFails, StoreDone, LeafUnsupported, SetItemThrows, vars
    <2>2. (Returned' => Returned) /\ (TargetSet => TargetSet')
      BY <1>1, <2>1 DEF Returned, TargetSet, TargetOf, Top
    <2> QED
      BY <1>2, <2>1, <2>2 DEF InTurn
  <1> QED
    BY <1>3, <1>4, <1>5, <1>6 DEF Next

\* A node that is no further than pos is set after the lists above it.
LEMMA ItemListFirst ==
    ASSUME Typed, Placed, NEW n \in DOMAIN doc, NEW b, b \in BOOLEAN, n <= pos,
           \A k \in DOMAIN items : ListFirst(k),
           doc' = doc, items' = Append(items, <<n, b>>)
    PROVE  \A k \in DOMAIN items' : ListFirst(k)'
  <1>1. /\ Len(items) \in Nat /\ Len(items') = Len(items) + 1
        /\ items' \in Seq(Item) /\ items \in Seq(Item)
        /\ items'[Len(items) + 1] = <<n, b>>
        /\ \A k \in 1 .. Len(items) : items'[k] = items[k]
    BY ItemTyped DEF Typed
  <1>2. DOMAIN items = 1 .. Len(items) /\ DOMAIN items' = 1 .. Len(items) + 1
    BY <1>1
  <1>3. \A j : Above(j)' = Above(j)
    BY SameChains
  <1>4. ASSUME NEW k \in 1 .. Len(items) PROVE ListFirst(k)'
    <2>1. ListFirst(k)
      BY <1>2, <1>4
    <2>2. items'[k] = items[k] /\ \A j \in 1 .. k - 1 : items'[j] = items[j]
      BY <1>1, <1>4
    <2> QED
      BY <1>3, <2>1, <2>2 DEF ListFirst
  <1>5. ASSUME NEW k \in Nat, k = Len(items) + 1 PROVE ListFirst(k)'
    <2>1. ASSUME NEW l \in Above(n), doc[l].kind = "list"
          PROVE  \E j \in 1 .. Len(items) : items'[j][1] = l
      <3>1. l \in DOMAIN doc /\ l < n
        BY AboveBefore DEF Typed
      <3>2. l \in Nat /\ n \in Nat /\ pos \in Nat
        BY <3>1, Document1 DEF Typed
      <3>3. IsSet(l)
        BY <2>1, <3>1, <3>2 DEF Placed
      <3> QED
        BY <3>3, <1>1, <1>2 DEF IsSet
    <2>2. items'[k][1] = n /\ k - 1 = Len(items)
      BY <1>1, <1>5
    <2>3. \A l \in Above(n)' : doc'[l].kind = "list" =>
              \E j \in 1 .. k - 1 : items'[j][1] = l
      BY <1>3, <2>1, <2>2
    <2> QED
      BY <2>2, <2>3 DEF ListFirst
  <1>6. \A k \in DOMAIN items' : k \in 1 .. Len(items) \/ k = Len(items) + 1
    BY <1>1, <1>2
  <1> QED
    BY <1>4, <1>5, <1>6

LEMMA NoneAheadStep ==
    Typed /\ Calls /\ Placed /\ NoneAhead /\ [Next]_vars => NoneAhead'
  <1>1. SUFFICES ASSUME Typed, Calls, Placed, NoneAhead, [Next]_vars,
                        \A i \in DOMAIN doc : ~PointsAhead(i)
                 PROVE  /\ \A k \in DOMAIN frames' : frames'[k].node <= pos'
                        /\ \A k \in DOMAIN items' : ListFirst(k)'
    BY SameDocument DEF NoneAhead, PointsAhead
  <1>2. doc' = doc
    BY <1>1, SameDocument
  <1>3. /\ \A k \in DOMAIN frames : frames[k].node <= pos
        /\ \A k \in DOMAIN items : ListFirst(k)
    BY <1>1 DEF NoneAhead
  <1>4. /\ pos \in Nat /\ Len(doc) \in Nat /\ DOMAIN doc = 1 .. Len(doc)
        /\ \A k \in DOMAIN frames : frames[k].node \in DOMAIN doc
    BY <1>1, Document1, TypedMeans DEF Typed, TypeOK
  <1>5. items' = items => \A k \in DOMAIN items' : ListFirst(k)'
    BY <1>2, <1>3, SameChains DEF ListFirst
  <1>6. frames # <<>> => Top.node \in DOMAIN doc /\ Top.node <= pos
    BY <1>1, <1>3, TopCall DEF Top
  <1>7. CASE VisitLeaf
    <2>1. frames' = <<[node |-> pos, followed |-> FALSE]>> /\ pos' = pos
          /\ items' = items
      BY <1>7 DEF VisitLeaf
    <2>2. \A k \in DOMAIN frames' : frames'[k].node = pos
      BY <2>1
    <2> QED
      BY <1>4, <1>5, <2>1, <2>2
  <1>8. CASE VisitList \/ VisitOther
    <2>1. frames' = <<>> /\ pos \in DOMAIN doc
      BY <1>8 DEF VisitList, VisitOther, InTree
    <2>2. DOMAIN frames' = {}
      BY <2>1
    <2>3. \A k \in DOMAIN items' : ListFirst(k)'
      <3>1. CASE VisitList
        <4>1. items' = Append(items, <<pos, FALSE>>)
          BY <3>1 DEF VisitList
        <4>2. pos <= pos
          BY <1>4
        <4> QED
          BY <1>1, <1>2, <1>3, <2>1, <4>1, <4>2, ItemListFirst
      <3>2. CASE VisitOther
        BY <3>2, <1>5 DEF VisitOther
      <3> QED
        BY <1>8, <3>1, <3>2
    <2> QED
      BY <2>2, <2>3
  <1>9. CASE LeafIsKey \/ LeafSet \/ LeafrefSet
    <2>1. frames # <<>> /\ Pop
      BY <1>9 DEF LeafIsKey, LeafSet, LeafrefSet, InLeaf
    <2>2. /\ frames' \in Seq(Visited) /\ Len(frames') = Len(frames) - 1
          /\ \A k \in 1 .. Len(frames) - 1 : frames'[k] = frames[k]
          /\ frames' # <<>> => pos' = pos
          /\ Len(frames) \in Nat \ {0} /\ DOMAIN frames = 1 .. Len(frames)
      BY <1>1, <2>1, PopLeaves, TopCall
    <2>3. DOMAIN frames' = 1 .. Len(frames) - 1
      BY <2>2
    <2>4. \A k \in DOMAIN frames' :
              k \in DOMAIN frames /\ frames'[k] = frames[k] /\ pos' = pos
      BY <2>2, <2>3
    <2>5. \A k \in DOMAIN frames' : frames'[k].node <= pos'
      BY <1>3, <2>4
    <2>6. \A k \in DOMAIN items' : ListFirst(k)'
      <3>1. CASE LeafIsKey
        BY <3>1, <1>5 DEF LeafIsKey
      <3>2. CASE LeafSet
        <4>1. items' = Append(items, <<Top.node, TRUE>>)
          BY <3>2 DEF LeafSet
        <4> QED
          BY <1>1, <1>2, <1>3, <1>6, <2>1, <4>1, ItemListFirst
      <3>3. CASE LeafrefSet
        <4>1. items' = Append(items, <<Top.node, FALSE>>)
          BY <3>3 DEF LeafrefSet
        <4> QED
          BY <1>1, <1>2, <1>3, <1>6, <2>1, <4>1, ItemListFirst
      <3> QED
        BY <1>9, <3>1, <3>2, <3>3
    <2> QED
      BY <2>5, <2>6
  <1>10. CASE FollowLeafref
    <2> DEFINE n == Len(frames)
               m == doc[Top.node].target
    <2>1. /\ frames' \in Seq(Visited) /\ Len(frames') = n + 1
          /\ \A k \in 1 .. n : frames'[k].node = frames[k].node
          /\ frames'[n + 1].node = m
          /\ n \in Nat \ {0}
      BY <1>1, <1>10, FollowCalls DEF Node
    <2>2. frames # <<>> /\ doc[Top.node].kind \in Reference /\ pos' = pos
          /\ items' = items
      BY <1>10 DEF FollowLeafref, InLeaf, Node
    <2>3. DOMAIN frames = 1 .. n
      BY <1>1, <2>2, TopCall
    <2>4. m <= Top.node /\ m \in DOMAIN doc
      <3>1. m \in DOMAIN doc
        BY <1>1, <1>6, <2>2, Document1 DEF Typed
      <3>2. ~(m > Top.node)
        BY <1>1, <1>6, <2>2 DEF PointsAhead
      <3> QED
        BY <3>1, <3>2, <1>4, <1>6, <2>2
    <2>5. m <= pos
      BY <1>4, <1>6, <2>2, <2>4
    <2> HIDE DEF n, m
    <2>6. \A k \in DOMAIN frames' : frames'[k].node <= pos
      <3> TAKE k \in DOMAIN frames'
      <3>1. k \in 1 .. n \/ k = n + 1
        BY <2>1
      <3> QED
        BY <3>1, <2>1, <2>3, <2>5, <1>3
    <2> QED
      BY <1>5, <2>2, <2>6
  <1>11. CASE ParseFails \/ StoreDone \/ LeafUnsupported \/ SetItemThrows
              \/ UNCHANGED vars
    <2>1. frames' = frames /\ pos' = pos /\ items' = items
      BY <1>11 DEF ParseFails, StoreDone, LeafUnsupported, SetItemThrows, vars
    <2> QED
      BY <1>3, <1>5, <2>1
  <1> QED
    BY <1>1, <1>7, <1>8, <1>9, <1>10, <1>11 DEF Next

-----------------------------------------------------------------------------
(***************************************************************************)
(* The theorems.                                                           *)
(***************************************************************************)
StoreInv ==
    /\ Typed /\ Calls
    /\ Placed /\ Ended
    /\ OneChain /\ SetAsOften
    /\ InTurn /\ NoneAhead

LEMMA InitStore == Init => StoreInv
  <1> SUFFICES ASSUME Init PROVE StoreInv
    OBVIOUS
  <1>1. Typed /\ Calls
    BY InitTyped
  <1>2. /\ pos = 1 /\ frames = <<>> /\ items = <<>> /\ outcome = "run"
        /\ DOMAIN items = {} /\ DOMAIN frames = {}
    BY DEF Init
  <1>3. DOMAIN doc = 1 .. Len(doc) /\ Len(doc) \in Nat
    BY Document1 DEF Init
  <1>4. Placed
    BY <1>2, <1>3 DEF Placed
  <1>5. \A i : Sets(i) = {} /\ Reached(i) = {}
    BY <1>2, <1>3 DEF Sets, Reached, Returned
  <1> QED
    BY <1>1, <1>2, <1>4, <1>5 DEF StoreInv, Ended, OneChain, SetAsOften, InTurn,
                                 Returned, NoneAhead

LEMMA AlwaysStore == Spec => []StoreInv
  <1>1. StoreInv /\ [Next]_vars => StoreInv'
    <2> SUFFICES ASSUME StoreInv, [Next]_vars PROVE StoreInv'
      OBVIOUS
    <2>1. /\ Typed /\ Calls /\ Placed /\ Ended /\ OneChain /\ SetAsOften
          /\ InTurn /\ NoneAhead
      BY DEF StoreInv
    <2>2. Typed' /\ Calls'
      BY <2>1, TypedStep
    <2>3. Placed' /\ Ended'
      BY <2>1, PlacedStep, EndedStep
    <2>4. OneChain' /\ SetAsOften'
      BY <2>1, OneChainStep, SetAsOftenStep
    <2>5. InTurn' /\ NoneAhead'
      BY <2>1, InTurnStep, NoneAheadStep
    <2> QED
      BY <2>2, <2>3, <2>4, <2>5 DEF StoreInv
  <1> QED
    BY InitStore, <1>1, PTL DEF Spec

LEMMA StoredMeans == StoreInv => OkMeansStored
  <1> SUFFICES ASSUME StoreInv, outcome = "OK"
               PROVE  /\ \A i \in DOMAIN doc :
                          /\ doc[i].kind \in {"list", "leafref"} => IsSet(i)
                          /\ doc[i].kind \in {"key", "container"} => ~IsSet(i)
                          /\ doc[i].kind \in Valued =>
                                 Times(i) = Cardinality(Reaching(i))
                      /\ \A k \in DOMAIN items : AfterTarget(k)
    BY DEF OkMeansStored
  <1>1. pos = Len(doc) + 1 /\ Len(doc) \in Nat /\ DOMAIN doc = 1 .. Len(doc)
    BY Document1 DEF StoreInv, Ended, Typed
  <1>2. \A j \in DOMAIN doc : j < pos
    BY <1>1
  <1>3. ASSUME NEW i \in DOMAIN doc
        PROVE  /\ doc[i].kind \in {"list", "leafref"} => IsSet(i)
               /\ doc[i].kind \in {"key", "container"} => ~IsSet(i)
               /\ doc[i].kind \in Valued => Times(i) = Cardinality(Reaching(i))
    <2>1. doc[i].kind \in {"list", "leafref"} => IsSet(i)
      BY <1>2 DEF StoreInv, Placed
    <2>2. doc[i].kind \in {"key", "container"} => ~IsSet(i)
      BY DEF StoreInv, Placed, IsSet, Settable, Valued, Reference
    <2>3. Reached(i) = Reaching(i)
      BY <1>2 DEF Reached, Reaching
    <2> QED
      BY <2>1, <2>2, <2>3 DEF StoreInv, SetAsOften, Sets, Times
  <1> QED
    BY <1>3 DEF StoreInv, InTurn

(***************************************************************************)
(* A document stored without an error has every list entry and reference   *)
(* set, each reference right after what it refers to, no key by itself,    *)
(* and each plain leaf and leaf-list entry with its value exactly as often *)
(* as a visited leaf is it or leads to it, however references are chained  *)
(* (OkMeansStored).                                                        *)
(***************************************************************************)
THEOREM StoredWhole == Spec => []OkMeansStored
  BY AlwaysStore, StoredMeans, PTL

(***************************************************************************)
(* Where no reference points ahead, every list entry is created before     *)
(* anything in it is set (ListsFirst).                                     *)
(***************************************************************************)
THEOREM ListsComeFirst == Spec => []ListsFirst
  <1>1. StoreInv => ListsFirst
    BY DEF StoreInv, NoneAhead, ListsFirst
  <1> QED
    BY AlwaysStore, <1>1, PTL
=============================================================================
