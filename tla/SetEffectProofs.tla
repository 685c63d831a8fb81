--------------------------- MODULE SetEffectProofs ---------------------------
(***************************************************************************)
(* The proof that a Set that returned OK has had its effect, for any       *)
(* number of Sets, Gets and peers on the session and any requests; and     *)
(* that Sets are transactions when RPCs do not overlap.                    *)
(***************************************************************************)
EXTENDS GnmiServiceProofs, GnmiSerial, ExtremaProofs, FiniteSetTheorems

\* The call j of the operation i of r has been made.
Made(r, i, j) == i < opIdx[r] \/ (i = opIdx[r] /\ j < callIdx[r])

\* The operations of r that have touched l so far.
Staged(r, l) ==
    {i \in DOMAIN Todo(r) :
        \E j \in DOMAIN Todo(r)[i].calls :
            l \in Todo(r)[i].calls[j] /\ Made(r, i, j)}

LastStaged(r, l, i) == i \in Staged(r, l) /\ \A k \in Staged(r, l) : k <= i

\* What an operation of r writes.
Written(r, i) ==
    [by |-> r, op |-> i, present |-> Todo(r)[i].kind # "DELETE"]

\* No other request names l.
Own(r, l) == \A s \in SetRpc \ {r} : l \notin Touched(setReq[s])

\* The session still holds c for l; or c was committed, and only other sysrepo
\* clients have changed l since.
Holds(l, c) ==
    IF l \in DOMAIN edits THEN edits[l] = c
    ELSE /\ \E n \in DOMAIN log : log[n][l] = c
         /\ Running[l] = c \/ Running[l].by \in Peer

(***************************************************************************)
(* UncontendedSetTakesEffect speaks of Sets that are done.  What leads     *)
(* there is that at any time, of a leaf that is named by one request only, *)
(* the last of its operations so far is in place: among the edits, or      *)
(* committed, possibly by another Set.                                     *)
(***************************************************************************)
InPlace ==
    \A r \in SetRpc, l \in Leaf :
        Own(r, l) => \A i : LastStaged(r, l, i) => Holds(l, Written(r, i))

OkIsDone == \A r \in SetsOK : opIdx[r] \notin DOMAIN Todo(r)

-----------------------------------------------------------------------------
\* An operation of a loop has the calls it has in the request.
LEMMA TaggedIs ==
    ASSUME NEW kind, NEW ops \in Seq(Operation)
    PROVE  /\ DOMAIN Tagged(kind, ops) = 1 .. Len(ops)
           /\ Tagged(kind, ops) \in
                  Seq([kind : {kind}, form : Form, calls : Seq(SUBSET Leaf)])
           /\ Len(Tagged(kind, ops)) = Len(ops) /\ Len(ops) \in Nat
  <1> DEFINE O == [kind : {kind}, form : Form, calls : Seq(SUBSET Leaf)]
             T == [i \in 1 .. Len(ops) |->
                      [kind |-> kind, form |-> ops[i].form,
                       calls |-> ops[i].calls]]
  <1>1. Len(ops) \in Nat /\ \A i \in 1 .. Len(ops) : ops[i] \in Operation
    OBVIOUS
  <1>2. Tagged(kind, ops) = T
    BY DEF Tagged
  <1>3. \A i \in 1 .. Len(ops) : T[i] \in O
    BY <1>1 DEF Operation
  <1>4. T \in [1 .. Len(ops) -> O]
    BY <1>3
  <1> HIDE DEF O, T
  <1>5. T \in Seq(O) /\ Len(T) = Len(ops) /\ DOMAIN T = 1 .. Len(ops)
    BY <1>1, <1>4
  <1> QED
    BY <1>1, <1>2, <1>5 DEF O

LEMMA TaggedAt ==
    ASSUME NEW kind, NEW ops \in Seq(Operation), NEW i \in 1 .. Len(ops)
    PROVE  /\ Tagged(kind, ops)[i].kind = kind
           /\ Tagged(kind, ops)[i].form = ops[i].form
           /\ Tagged(kind, ops)[i].calls = ops[i].calls
  <1>1. i \in DOMAIN ops
    OBVIOUS
  <1> QED
    BY <1>1 DEF Tagged

\* Three sequences, one after the other.
LEMMA ThreeParts ==
    ASSUME NEW E, NEW s \in Seq(E), NEW t \in Seq(E), NEW v \in Seq(E)
    PROVE  /\ s \o t \o v \in Seq(E)
           /\ Len(s \o t \o v) = Len(s) + Len(t) + Len(v)
           /\ DOMAIN (s \o t \o v) = 1 .. Len(s) + Len(t) + Len(v)
           /\ \A i \in 1 .. Len(s) + Len(t) + Len(v) :
                (s \o t \o v)[i] =
                    IF i <= Len(s) THEN s[i]
                    ELSE IF i <= Len(s) + Len(t) THEN t[i - Len(s)]
                    ELSE v[i - Len(s) - Len(t)]
  OBVIOUS

\* The loops of Set::run visit the operations of the request in the order of
\* the protocol, each with the calls it has there; the deletes come first.
LEMMA TodoInOrder ==
    ASSUME NEW q \in Request
    PROVE  /\ Len(InOrder(q)) \in Nat /\ Len(q.delete) \in Nat
           /\ InOrder(q) \in Seq(Operation)
           /\ DOMAIN InOrder(q) = 1 .. Len(InOrder(q))
           /\ DOMAIN Operations(q) = DOMAIN InOrder(q)
           /\ \A i \in DOMAIN InOrder(q) :
                  /\ Operations(q)[i].form = InOrder(q)[i].form
                  /\ Operations(q)[i].calls = InOrder(q)[i].calls
                  /\ Operations(q)[i].kind # "DELETE" <=> i > Len(q.delete)
  <1>1. PICK d, p, u : d = q.delete /\ p = q.replace /\ u = q.update
    OBVIOUS
  <1>2. d \in Seq(Operation) /\ p \in Seq(Operation) /\ u \in Seq(Operation)
    BY <1>1 DEF Request
  <1>3. PICK D, P, U : /\ D = Tagged("DELETE", d)
                       /\ P = Tagged("REPLACE", p)
                       /\ U = Tagged("UPDATE", u)
    OBVIOUS
  <1>4. PICK O : O = [kind : {"DELETE", "REPLACE", "UPDATE"}, form : Form,
                      calls : Seq(SUBSET Leaf)]
    OBVIOUS
  <1>5. D \in Seq(O) /\ P \in Seq(O) /\ U \in Seq(O)
    <2>1. ASSUME NEW k \in {"DELETE", "REPLACE", "UPDATE"},
                 NEW ops \in Seq(Operation)
          PROVE  Tagged(k, ops) \in Seq(O)
      <3> DEFINE K == [kind : {k}, form : Form, calls : Seq(SUBSET Leaf)]
      <3>1. Tagged(k, ops) \in Seq(K)
        BY TaggedIs
      <3>2. K \subseteq O
        BY <1>4
      <3> HIDE DEF K
      <3> QED
        BY <3>1, <3>2
    <2> QED
      BY <1>2, <1>3, <2>1
  <1>6. /\ Len(D) = Len(d) /\ Len(P) = Len(p) /\ Len(U) = Len(u)
        /\ Len(d) \in Nat /\ Len(p) \in Nat /\ Len(u) \in Nat
    BY <1>2, <1>3, TaggedIs
  <1>7. /\ \A i \in 1 .. Len(d) : /\ D[i].kind = "DELETE" /\ D[i].form = d[i].form
                                  /\ D[i].calls = d[i].calls
        /\ \A i \in 1 .. Len(p) : /\ P[i].kind = "REPLACE" /\ P[i].form = p[i].form
                                  /\ P[i].calls = p[i].calls
        /\ \A i \in 1 .. Len(u) : /\ U[i].kind = "UPDATE" /\ U[i].form = u[i].form
                                  /\ U[i].calls = u[i].calls
    BY <1>2, <1>3, TaggedAt
  <1>8. Operations(q) = D \o P \o U /\ InOrder(q) = d \o p \o u
    BY <1>1, <1>3 DEF Operations, InOrder
  <1>9. PICK n \in Nat : n = Len(d) + Len(p) + Len(u)
    BY <1>6
  <1>10. /\ DOMAIN Operations(q) = 1 .. n
         /\ \A i \in 1 .. n :
                Operations(q)[i] =
                    IF i <= Len(d) THEN D[i]
                    ELSE IF i <= Len(d) + Len(p) THEN P[i - Len(d)]
                    ELSE U[i - Len(d) - Len(p)]
    <2>1. /\ DOMAIN (D \o P \o U) = 1 .. Len(D) + Len(P) + Len(U)
          /\ \A i \in 1 .. Len(D) + Len(P) + Len(U) :
                 (D \o P \o U)[i] =
                     IF i <= Len(D) THEN D[i]
                     ELSE IF i <= Len(D) + Len(P) THEN P[i - Len(D)]
                     ELSE U[i - Len(D) - Len(P)]
      BY <1>5, ThreeParts
    <2> QED
      BY <1>6, <1>8, <1>9, <2>1
  <1>11. /\ InOrder(q) \in Seq(Operation)
         /\ DOMAIN InOrder(q) = 1 .. n /\ Len(InOrder(q)) = n
         /\ \A i \in 1 .. n :
                InOrder(q)[i] =
                    IF i <= Len(d) THEN d[i]
                    ELSE IF i <= Len(d) + Len(p) THEN p[i - Len(d)]
                    ELSE u[i - Len(d) - Len(p)]
    BY <1>2, <1>8, <1>9, ThreeParts
  <1>12. \A i \in 1 .. n :
            /\ Operations(q)[i].form = InOrder(q)[i].form
            /\ Operations(q)[i].calls = InOrder(q)[i].calls
            /\ Operations(q)[i].kind # "DELETE" <=> i > Len(d)
    <2> SUFFICES ASSUME NEW i \in 1 .. n
                 PROVE  /\ Operations(q)[i].form = InOrder(q)[i].form
                        /\ Operations(q)[i].calls = InOrder(q)[i].calls
                        /\ Operations(q)[i].kind # "DELETE" <=> i > Len(d)
      OBVIOUS
    <2>1. CASE i <= Len(d)
      BY <1>6, <1>7, <1>10, <1>11, <2>1
    <2>2. CASE Len(d) < i /\ i <= Len(d) + Len(p)
      <3>1. i - Len(d) \in 1 .. Len(p)
        BY <1>6, <2>2
      <3>2. ~(i <= Len(d)) /\ i > Len(d)
        BY <1>6, <2>2
      <3>3. /\ Operations(q)[i] = P[i - Len(d)]
            /\ InOrder(q)[i] = p[i - Len(d)]
        BY <1>10, <1>11, <2>2, <3>2
      <3>4. /\ P[i - Len(d)].kind = "REPLACE"
            /\ P[i - Len(d)].form = p[i - Len(d)].form
            /\ P[i - Len(d)].calls = p[i - Len(d)].calls
        BY <1>7, <3>1
      <3> QED
        BY <3>2, <3>3, <3>4
    <2>3. CASE Len(d) + Len(p) < i
      <3>1. i - Len(d) - Len(p) \in 1 .. Len(u)
        BY <1>6, <1>9, <2>3
      <3>2. ~(i <= Len(d)) /\ i > Len(d) /\ ~(i <= Len(d) + Len(p))
        BY <1>6, <2>3
      <3>3. /\ Operations(q)[i] = U[i - Len(d) - Len(p)]
            /\ InOrder(q)[i] = u[i - Len(d) - Len(p)]
        BY <1>10, <1>11, <3>2
      <3>4. /\ U[i - Len(d) - Len(p)].kind = "UPDATE"
            /\ U[i - Len(d) - Len(p)].form = u[i - Len(d) - Len(p)].form
            /\ U[i - Len(d) - Len(p)].calls = u[i - Len(d) - Len(p)].calls
        BY <1>7, <3>1
      <3> QED
        BY <3>2, <3>3, <3>4
    <2> QED
      BY <1>6, <2>1, <2>2, <2>3
  <1> QED
    BY <1>1, <1>6, <1>9, <1>10, <1>11, <1>12

\* The same of the request of a Set.
LEMMA TodoFacts ==
    ASSUME TypeOK, NEW r \in SetRpc
    PROVE  /\ Len(InOrder(setReq[r])) \in Nat /\ Len(setReq[r].delete) \in Nat
           /\ DOMAIN InOrder(setReq[r]) = 1 .. Len(InOrder(setReq[r]))
           /\ DOMAIN Todo(r) = DOMAIN InOrder(setReq[r])
           /\ opIdx[r] \in Nat \ {0} /\ callIdx[r] \in Nat \ {0}
           /\ \A i \in DOMAIN Todo(r) :
                  /\ Todo(r)[i].form = InOrder(setReq[r])[i].form
                  /\ Todo(r)[i].calls = InOrder(setReq[r])[i].calls
                  /\ Todo(r)[i].calls \in Seq(SUBSET Leaf)
                  /\ Todo(r)[i].kind # "DELETE" <=> i > Len(setReq[r].delete)
  <1>1. setReq[r] \in Request /\ opIdx[r] \in Nat \ {0} /\ callIdx[r] \in Nat \ {0}
    BY RequestsTyped DEF TypeOK, SetTypeOK
  <1>2. PICK q \in Request : q = setReq[r]
    BY <1>1
  <1>3. /\ Len(InOrder(q)) \in Nat /\ Len(q.delete) \in Nat
        /\ InOrder(q) \in Seq(Operation)
        /\ DOMAIN InOrder(q) = 1 .. Len(InOrder(q))
        /\ DOMAIN Operations(q) = DOMAIN InOrder(q)
        /\ \A i \in DOMAIN InOrder(q) :
               /\ Operations(q)[i].form = InOrder(q)[i].form
               /\ Operations(q)[i].calls = InOrder(q)[i].calls
               /\ Operations(q)[i].kind # "DELETE" <=> i > Len(q.delete)
    BY TodoInOrder
  <1>4. \A i \in DOMAIN InOrder(q) : InOrder(q)[i].calls \in Seq(SUBSET Leaf)
    <2>1. ASSUME NEW i \in DOMAIN InOrder(q)
          PROVE  InOrder(q)[i] \in Operation
      BY <1>3
    <2> QED
      BY <2>1 DEF Operation
  <1>5. Todo(r) = Operations(q)
    BY <1>2 DEF Todo
  <1> QED
    BY <1>1, <1>2, <1>3, <1>4, <1>5

\* What a Set has staged is what its request touches.
LEMMA CallTouches ==
    ASSUME TypeOK, NEW r \in SetRpc, NEW i \in DOMAIN Todo(r),
           NEW j \in DOMAIN Todo(r)[i].calls, NEW l \in Todo(r)[i].calls[j]
    PROVE  /\ l \in Leaf /\ i \in Touching(setReq[r], l)
           /\ l \in Touched(setReq[r])
  <1>1. /\ i \in DOMAIN InOrder(setReq[r])
        /\ Todo(r)[i].calls = InOrder(setReq[r])[i].calls
        /\ Todo(r)[i].calls \in Seq(SUBSET Leaf)
    BY TodoFacts
  <1>2. Todo(r)[i].calls[j] \in SUBSET Leaf
    BY <1>1
  <1>3. Touches(InOrder(setReq[r])[i], l)
    BY <1>1 DEF Touches
  <1> QED
    BY <1>1, <1>2, <1>3 DEF Touching, Touched

LEMMA StagedNat ==
    ASSUME TypeOK, NEW r \in SetRpc, NEW l
    PROVE  Staged(r, l) \subseteq DOMAIN Todo(r) /\ Staged(r, l) \subseteq Nat
  BY TodoFacts DEF Staged

-----------------------------------------------------------------------------
(***************************************************************************)
(* What the steps do to a leaf that holds what it should.                  *)
(***************************************************************************)

\* A step that keeps the committed versions and the edit of the leaf.
LEMMA HoldsKept ==
    ASSUME NEW l, NEW c, Holds(l, c), log' = log,
           l \in DOMAIN edits <=> l \in DOMAIN edits',
           l \in DOMAIN edits => edits'[l] = edits[l]
    PROVE  Holds(l, c)'
  BY DEF Holds, Running

\* A commit, of whichever Set, turns the edit of the leaf into its contents.
LEMMA HoldsCommitted ==
    ASSUME TypeOK, NEW l \in Leaf, NEW c, Holds(l, c), Commit
    PROVE  Holds(l, c)'
  <1>1. SysrepoTypeOK
    BY DEF TypeOK
  <1>2. /\ Len(log') = Len(log) + 1 /\ Len(log) \in Nat
        /\ DOMAIN log = 1 .. Len(log) /\ DOMAIN log' = 1 .. Len(log')
        /\ \A n \in 1 .. Len(log) : log'[n] = log[n]
    BY <1>1, CommitTyped DEF SysrepoTypeOK
  <1>3. l \notin DOMAIN edits'
    BY DEF Commit, NoEdits
  <1>4. log'[Len(log) + 1] = Over(edits, Running)
    BY <1>1 DEF Commit, SysrepoTypeOK
  <1>5. Running' = Over(edits, Running)
    BY <1>2, <1>4 DEF Running
  <1>6. l \in DOMAIN Running
    BY <1>1 DEF SysrepoTypeOK, Running
  <1>7. CASE l \in DOMAIN edits
    <2>1. Running'[l] = c
      BY <1>5, <1>7 DEF Over, Holds
    <2>2. Len(log) + 1 \in DOMAIN log' /\ log'[Len(log) + 1][l] = c
      BY <1>2, <1>4, <1>5, <2>1
    <2> QED
      BY <1>3, <2>1, <2>2 DEF Holds
  <1>8. CASE l \notin DOMAIN edits
    <2>1. PICK n \in DOMAIN log : log[n][l] = c
      BY <1>8 DEF Holds
    <2>2. n \in DOMAIN log' /\ log'[n][l] = c
      BY <1>2, <2>1
    <2>3. Running'[l] = Running[l]
      BY <1>5, <1>6, <1>8 DEF Over
    <2>4. Running[l] = c \/ Running[l].by \in Peer
      BY <1>8 DEF Holds
    <2> QED
      BY <1>3, <2>2, <2>3, <2>4 DEF Holds
  <1> QED
    BY <1>7, <1>8

\* Another sysrepo client may change the contents, never the edit.
LEMMA HoldsOverPeer ==
    ASSUME TypeOK, NEW l \in Leaf, NEW c, Holds(l, c),
           NEW p \in Peer, PeerCommit(p)
    PROVE  Holds(l, c)'
  <1>1. SysrepoTypeOK
    BY DEF TypeOK
  <1>2. /\ Len(log') = Len(log) + 1 /\ Len(log) \in Nat
        /\ DOMAIN log = 1 .. Len(log) /\ DOMAIN log' = 1 .. Len(log')
        /\ \A n \in 1 .. Len(log) : log'[n] = log[n]
    BY <1>1, PeerCommitTyped DEF SysrepoTypeOK
  <1>3. edits' = edits
    BY DEF PeerCommit
  <1>4. PICK L \in SUBSET Leaf, b \in BOOLEAN :
            log' = Append(log, Over(PeerChange(p, L, b), Running))
    BY DEF PeerCommit
  <1>5. Running' = Over(PeerChange(p, L, b), Running)
    BY <1>1, <1>2, <1>4 DEF Running, SysrepoTypeOK
  <1>6. l \in DOMAIN Running
    BY <1>1 DEF SysrepoTypeOK, Running
  <1>7. Running'[l] = Running[l] \/ Running'[l].by = p
    BY <1>5, <1>6 DEF Over, PeerChange
  <1>8. CASE l \in DOMAIN edits
    BY <1>3, <1>8 DEF Holds
  <1>9. CASE l \notin DOMAIN edits
    <2>1. PICK n \in DOMAIN log : log[n][l] = c
      BY <1>9 DEF Holds
    <2>2. n \in DOMAIN log' /\ log'[n][l] = c
      BY <1>2, <2>1
    <2>3. Running'[l] = c \/ Running'[l].by \in Peer
      BY <1>7, <1>9 DEF Holds
    <2> QED
      BY <1>3, <1>9, <2>2, <2>3 DEF Holds
  <1> QED
    BY <1>8, <1>9

-----------------------------------------------------------------------------
\* A step of others leaves what r has staged, and would write, alone.
LEMMA StagedKept ==
    ASSUME NEW r \in SetRpc, NEW l, setReq' = setReq,
           opIdx'[r] = opIdx[r], callIdx'[r] = callIdx[r]
    PROVE  /\ Staged(r, l)' = Staged(r, l)
           /\ \A i : Written(r, i)' = Written(r, i)
  BY DEF Staged, Made, Written, Todo

\* The end of an operation stages nothing.
LEMMA StagedDone ==
    ASSUME TypeOK, NEW r \in SetRpc, NEW l, OperationDone(r)
    PROVE  /\ Staged(r, l)' = Staged(r, l)
           /\ \A i : Written(r, i)' = Written(r, i)
  <1>1. /\ setReq' = setReq
        /\ opIdx'[r] = opIdx[r] + 1 /\ callIdx'[r] = 1
        /\ opIdx[r] \in DOMAIN Todo(r)
        /\ callIdx[r] \notin DOMAIN Todo(r)[opIdx[r]].calls
    BY DEF OperationDone, AfterCalls, AtOperation, Op, TypeOK, SetTypeOK
  <1>2. Todo(r)' = Todo(r)
    BY <1>1 DEF Todo
  <1>3. ASSUME NEW i \in DOMAIN Todo(r), NEW j \in DOMAIN Todo(r)[i].calls
        PROVE  Made(r, i, j)' <=> Made(r, i, j)
    <2>1. /\ i \in Nat /\ opIdx[r] \in Nat /\ callIdx[r] \in Nat \ {0}
          /\ Todo(r)[i].calls \in Seq(SUBSET Leaf)
      BY TodoFacts
    <2>2. j \in Nat \ {0} /\ DOMAIN Todo(r)[i].calls = 1 .. Len(Todo(r)[i].calls)
          /\ Len(Todo(r)[i].calls) \in Nat
      BY <2>1
    <2>3. i = opIdx[r] => j < callIdx[r]
      BY <1>1, <2>1, <2>2
    <2> QED
      BY <1>1, <2>1, <2>2, <2>3 DEF Made
  <1>4. Staged(r, l)' = Staged(r, l)
    BY <1>2, <1>3 DEF Staged
  <1>5. \A i : Written(r, i)' = Written(r, i)
    BY <1>2 DEF Written
  <1> QED
    BY <1>4, <1>5

\* Its next call: either the session holds for the leaf what the operation
\* writes, which is the last to touch it, or the leaf is not touched.
LEMMA CallStages ==
    ASSUME TypeOK, NEW r \in SetRpc, SessionCall(r), NEW l \in Leaf
    PROVE  /\ log' = log
           /\ \A i : Written(r, i)' = Written(r, i)
           /\ \/ /\ l \in DOMAIN edits' /\ Staged(r, l)' # {}
                 /\ \A i : LastStaged(r, l, i)' => edits'[l] = Written(r, i)
              \/ /\ Staged(r, l)' = Staged(r, l)
                 /\ l \in DOMAIN edits <=> l \in DOMAIN edits'
                 /\ l \in DOMAIN edits => edits'[l] = edits[l]
  <1>1. PICK L, c, k, j :
            /\ k = opIdx[r] /\ j = callIdx[r]
            /\ L = Todo(r)[k].calls[j] /\ c = Written(r, k)
    OBVIOUS
  <1>2. /\ setReq' = setReq /\ opIdx' = opIdx
        /\ callIdx'[r] = j + 1
        /\ k \in DOMAIN Todo(r) /\ j \in DOMAIN Todo(r)[k].calls
        /\ edits' = Over([m \in L |-> c], edits) /\ log' = log
    BY <1>1 DEF SessionCall, Stage, AtCall, AtOperation, Op, Written,
          TypeOK, SetTypeOK
  <1>3. Todo(r)' = Todo(r) /\ \A m : Written(r, m)' = Written(r, m)
    BY <1>2 DEF Todo, Written
  <1>4. k \in Nat /\ j \in Nat
    BY <1>1, TodoFacts
  <1>5. ASSUME NEW m \in DOMAIN Todo(r), NEW n \in DOMAIN Todo(r)[m].calls
        PROVE  Made(r, m, n)' <=> Made(r, m, n) \/ (m = k /\ n = j)
    <2>1. m \in Nat /\ Todo(r)[m].calls \in Seq(SUBSET Leaf)
      BY TodoFacts
    <2>2. n \in Nat
      BY <2>1
    <2> QED
      BY <1>1, <1>2, <1>4, <2>1, <2>2 DEF Made
  <1>6. CASE l \in L
    <2>1. k \in Staged(r, l)'
      BY <1>1, <1>2, <1>3, <1>5, <1>6 DEF Staged
    <2>2. ASSUME NEW i, LastStaged(r, l, i)'
          PROVE  i = k
      <3>1. i \in Staged(r, l)' /\ k <= i
        BY <2>1, <2>2 DEF LastStaged
      <3>2. PICK n \in DOMAIN Todo(r)[i].calls : Made(r, i, n)'
        BY <1>3, <3>1 DEF Staged
      <3>3. i \in DOMAIN Todo(r)
        BY <1>3, <3>1 DEF Staged
      <3>4. i \in Nat
        BY <3>3, TodoFacts
      <3>5. i <= k
        BY <1>1, <1>2, <1>4, <3>2, <3>4 DEF Made
      <3> QED
        BY <1>4, <3>1, <3>4, <3>5
    <2>3. l \in DOMAIN edits' /\ edits'[l] = c
      BY <1>2, <1>6 DEF Over
    <2>4. \A i : LastStaged(r, l, i)' => edits'[l] = Written(r, i)
      BY <1>1, <2>2, <2>3
    <2> QED
      BY <1>2, <1>3, <2>1, <2>3, <2>4
  <1>7. CASE l \notin L
    <2>1. Staged(r, l)' = Staged(r, l)
      BY <1>1, <1>3, <1>5, <1>7 DEF Staged
    <2>2. /\ l \in DOMAIN edits <=> l \in DOMAIN edits'
          /\ l \in DOMAIN edits => edits'[l] = edits[l]
      BY <1>2, <1>7 DEF Over
    <2> QED
      BY <1>2, <1>3, <2>1, <2>2
  <1> QED
    BY <1>6, <1>7

\* In both cases the leaf holds what it should.
LEMMA CallInPlace ==
    ASSUME TypeOK, NEW r \in SetRpc, SessionCall(r), NEW l \in Leaf, NEW i,
           \A k : LastStaged(r, l, k) => Holds(l, Written(r, k)),
           LastStaged(r, l, i)'
    PROVE  Holds(l, Written(r, i))'
  <1>1. PICK w : w = Written(r, i) /\ w = Written(r, i)'
    BY CallStages
  <1>2. CASE l \in DOMAIN edits' /\ edits'[l] = w
    BY <1>1, <1>2 DEF Holds
  <1>3. CASE /\ Staged(r, l)' = Staged(r, l)
             /\ l \in DOMAIN edits <=> l \in DOMAIN edits'
             /\ l \in DOMAIN edits => edits'[l] = edits[l]
    <2>1. LastStaged(r, l, i)
      BY <1>3 DEF LastStaged
    <2>2. Holds(l, w)
      BY <1>1, <2>1
    <2>3. log' = log
      BY CallStages
    <2>4. Holds(l, w)'
      BY <1>3, <2>2, <2>3, HoldsKept
    <2> QED
      BY <1>1, <2>4
  <1>4. \/ l \in DOMAIN edits' /\ edits'[l] = w
        \/ /\ Staged(r, l)' = Staged(r, l)
           /\ l \in DOMAIN edits <=> l \in DOMAIN edits'
           /\ l \in DOMAIN edits => edits'[l] = edits[l]
    BY <1>1, CallStages
  <1> QED
    BY <1>2, <1>3, <1>4

\* A call of another Set does not touch a leaf that r alone names.
LEMMA CallElsewhere ==
    ASSUME TypeOK, NEW r \in SetRpc, NEW s \in SetRpc \ {r}, SessionCall(s),
           NEW l \in Leaf, Own(r, l), NEW c, Holds(l, c)
    PROVE  Holds(l, c)'
  <1>1. PICK L, d : /\ L = Todo(s)[opIdx[s]].calls[callIdx[s]]
                    /\ edits' = Over([m \in L |-> d], edits)
    BY DEF SessionCall, Stage, Op
  <1>2. /\ opIdx[s] \in DOMAIN Todo(s)
        /\ callIdx[s] \in DOMAIN Todo(s)[opIdx[s]].calls
        /\ log' = log
    BY DEF SessionCall, Stage, AtCall, AtOperation, Op
  <1>3. l \notin L
    BY <1>1, <1>2, CallTouches DEF Own
  <1>4. /\ l \in DOMAIN edits <=> l \in DOMAIN edits'
        /\ l \in DOMAIN edits => edits'[l] = edits[l]
    BY <1>1, <1>3 DEF Over
  <1> QED
    BY <1>2, <1>4, HoldsKept

-----------------------------------------------------------------------------
\* A step that keeps what r has staged on l, and keeps l's contents if right.
LEMMA InPlaceKept ==
    ASSUME NEW r \in SetRpc, NEW l,
           Staged(r, l)' = Staged(r, l),
           \A i : Written(r, i)' = Written(r, i),
           \A c : Holds(l, c) => Holds(l, c)',
           \A i : LastStaged(r, l, i) => Holds(l, Written(r, i)),
           NEW i, LastStaged(r, l, i)'
    PROVE  Holds(l, Written(r, i))'
  <1>1. LastStaged(r, l, i)
    BY DEF LastStaged
  <1>2. PICK w : w = Written(r, i) /\ w = Written(r, i)'
    OBVIOUS
  <1>3. Holds(l, w)'
    BY <1>1, <1>2
  <1> QED
    BY <1>2, <1>3

\* A step of a Set.
LEMMA InPlaceSet ==
    ASSUME TypeOK, NEW r \in SetRpc, NEW l \in Leaf, Own(r, l),
           \A i : LastStaged(r, l, i) => Holds(l, Written(r, i)),
           NEW s \in SetRpc, SetStep(s), NEW i, LastStaged(r, l, i)'
    PROVE  Holds(l, Written(r, i))'
  <1>1. CASE SessionCall(s) /\ s = r
    BY <1>1, CallInPlace
  <1>2. CASE SessionCall(s) /\ s # r
    <2>1. setReq' = setReq /\ opIdx'[r] = opIdx[r] /\ callIdx'[r] = callIdx[r]
      BY <1>2 DEF SessionCall, TypeOK, SetTypeOK
    <2>2. \A c : Holds(l, c) => Holds(l, c)'
      BY <1>2, CallElsewhere
    <2> QED
      BY <2>1, <2>2, StagedKept, InPlaceKept
  <1>3. CASE OperationDone(s)
    <2>1. \A c : Holds(l, c) => Holds(l, c)'
      BY <1>3, HoldsKept DEF OperationDone, sysrepoVars
    <2>2. /\ Staged(r, l)' = Staged(r, l)
          /\ \A k : Written(r, k)' = Written(r, k)
      <3>1. CASE s = r
        BY <1>3, <3>1, StagedDone
      <3>2. CASE s # r
        <4>1. setReq' = setReq /\ opIdx'[r] = opIdx[r] /\ callIdx'[r] = callIdx[r]
          BY <1>3, <3>2 DEF OperationDone, TypeOK, SetTypeOK
        <4> QED
          BY <4>1, StagedKept
      <3> QED
        BY <3>1, <3>2
    <2> QED
      BY <2>1, <2>2, InPlaceKept
  <1>4. CASE CallThrows(s) \/ OperationRejected(s) \/ CommitThrows(s)
    <2>1. UNCHANGED <<sysrepoVars, setReq, opIdx, callIdx>>
      BY <1>4 DEF CallThrows, OperationRejected, CommitThrows, Return
    <2>2. \A c : Holds(l, c) => Holds(l, c)'
      BY <2>1, HoldsKept DEF sysrepoVars
    <2> QED
      BY <2>1, <2>2, StagedKept, InPlaceKept
  <1>5. CASE SetCommit(s)
    <2>1. Commit /\ UNCHANGED <<setReq, opIdx, callIdx>>
      BY <1>5 DEF SetCommit, Return
    <2>2. \A c : Holds(l, c) => Holds(l, c)'
      BY <2>1, HoldsCommitted
    <2> QED
      BY <2>1, <2>2, StagedKept, InPlaceKept
  <1> QED
    BY <1>1, <1>2, <1>3, <1>4, <1>5 DEF SetStep

LEMMA InPlaceNext == TypeOK /\ InPlace /\ [Next]_vars => InPlace'
  <1> SUFFICES ASSUME TypeOK, InPlace, [Next]_vars,
                      NEW r \in SetRpc, NEW l \in Leaf, Own(r, l)',
                      NEW i, LastStaged(r, l, i)'
               PROVE  Holds(l, Written(r, i))'
    BY DEF InPlace
  <1>1. setReq' = setReq
    BY DEF Next, SetArrives, SetBegin, SetRuns, SetStep, SessionCall, CallThrows,
          OperationDone, OperationRejected, SetCommit, CommitThrows, Return,
          GetArrives, GetRuns, PeerRuns, setVars, vars
  <1>2. Own(r, l)
    BY <1>1 DEF Own
  <1>3. \A k : LastStaged(r, l, k) => Holds(l, Written(r, k))
    BY <1>2 DEF InPlace
  <1>4. ASSUME NEW s \in SetRpc, SetArrives(s)
        PROVE  Holds(l, Written(r, i))'
    <2>1. UNCHANGED <<sysrepoVars, opIdx, callIdx>>
      BY <1>4 DEF SetArrives, SetBegin, Return
    <2>2. \A c : Holds(l, c) => Holds(l, c)'
      BY <2>1, HoldsKept DEF sysrepoVars
    <2> QED
      BY <1>1, <1>3, <2>1, <2>2, StagedKept, InPlaceKept
  <1>5. ASSUME NEW s \in SetRpc, SetRuns(s)
        PROVE  Holds(l, Written(r, i))'
    BY <1>2, <1>3, <1>5, InPlaceSet DEF SetRuns
  <1>6. CASE UNCHANGED setVars /\ UNCHANGED <<log, edits>>
    <2>1. \A c : Holds(l, c) => Holds(l, c)'
      BY <1>6, HoldsKept
    <2> QED
      BY <1>3, <1>6, <2>1, StagedKept, InPlaceKept DEF setVars
  <1>7. ASSUME NEW g \in GetRpc, GetArrives(g) \/ GetRuns(g)
        PROVE  Holds(l, Written(r, i))'
    BY <1>6, <1>7 DEF GetArrives, GetBegin, GetRuns, GetStep, GetRefresh,
          Refresh, GetRefreshThrows, GetRead, GetReadFails, sysrepoVars
  <1>8. ASSUME NEW p \in Peer, PeerRuns(p)
        PROVE  Holds(l, Written(r, i))'
    <2>1. PeerCommit(p) /\ UNCHANGED setVars
      BY <1>8 DEF PeerRuns
    <2>2. \A c : Holds(l, c) => Holds(l, c)'
      BY <2>1, HoldsOverPeer
    <2> QED
      BY <1>3, <2>1, <2>2, StagedKept, InPlaceKept DEF setVars
  <1>9. CASE UNCHANGED vars
    BY <1>6, <1>9 DEF vars, sysrepoVars
  <1> QED
    BY <1>4, <1>5, <1>7, <1>8, <1>9 DEF Next

LEMMA InPlaceInit == Init => InPlace
  <1> SUFFICES ASSUME Init, NEW r \in SetRpc, NEW l \in Leaf, NEW i,
                      LastStaged(r, l, i)
               PROVE  FALSE
    BY DEF InPlace
  <1>1. TypeOK /\ opIdx[r] = 1 /\ callIdx[r] = 1
    BY InitTyped DEF Init, SetInit
  <1>2. PICK j \in DOMAIN Todo(r)[i].calls : Made(r, i, j)
    BY DEF LastStaged, Staged
  <1>3. i \in DOMAIN Todo(r)
    BY DEF LastStaged, Staged
  <1>4. i \in Nat \ {0} /\ Todo(r)[i].calls \in Seq(SUBSET Leaf)
    BY <1>1, <1>3, TodoFacts
  <1>5. j \in Nat \ {0}
    BY <1>2, <1>4
  <1> QED
    BY <1>1, <1>2, <1>4, <1>5 DEF Made

\* A Set commits, and returns OK, after its last operation only.
LEMMA OkIsDoneNext == TypeOK /\ OkIsDone /\ [Next]_vars => OkIsDone'
  <1> SUFFICES ASSUME TypeOK, OkIsDone, [Next]_vars,
                      NEW r \in SetRpc, setState'[r] = "OK"
               PROVE  opIdx'[r] \notin DOMAIN Todo(r)'
    BY DEF OkIsDone, SetsOK
  <1> USE DEF Todo
  <1>0. /\ setState \in [SetRpc -> {"idle", "ops", "OK", "ERROR"}]
        /\ setState[r] = "OK" => opIdx[r] \notin DOMAIN Todo(r)
    BY DEF TypeOK, SetTypeOK, OkIsDone, SetsOK
  <1>1. CASE UNCHANGED setVars
    BY <1>0, <1>1 DEF setVars
  <1>2. ASSUME NEW s \in SetRpc, SetArrives(s)
        PROVE  opIdx'[r] \notin DOMAIN Todo(r)'
    BY <1>0, <1>2 DEF SetArrives, SetBegin, Return
  <1>3. ASSUME NEW s \in SetRpc, SetRuns(s)
        PROVE  opIdx'[r] \notin DOMAIN Todo(r)'
    <2>1. CASE SetCommit(s)
      BY <1>0, <2>1 DEF SetCommit, Return, AtCommit
    <2>2. CASE SessionCall(s)
      BY <1>0, <2>2 DEF SessionCall
    <2>3. CASE OperationDone(s)
      <3>1. s # r
        BY <1>0, <2>3 DEF OperationDone, AfterCalls, AtOperation
      <3> QED
        BY <1>0, <2>3, <3>1 DEF OperationDone, TypeOK, SetTypeOK
    <2>4. CASE CallThrows(s) \/ OperationRejected(s) \/ CommitThrows(s)
      BY <1>0, <2>4 DEF CallThrows, OperationRejected, CommitThrows, Return
    <2> QED
      BY <1>3, <2>1, <2>2, <2>3, <2>4 DEF SetRuns, SetStep
  <1> QED
    BY <1>1, <1>2, <1>3 DEF Next, GetArrives, GetRuns, PeerRuns, vars

\* The effect of a request on a leaf is what its last operation there writes.
LEMMA EffectIsWritten ==
    ASSUME TypeOK, NEW r \in SetRpc, NEW l \in Touched(setReq[r]),
           opIdx[r] \notin DOMAIN Todo(r)
    PROVE  \E i : LastStaged(r, l, i) /\ Written(r, i) = Effect(r, setReq[r])[l]
  <1>1. PICK q, n : q = setReq[r] /\ n = Len(InOrder(q))
    OBVIOUS
  <1>2. /\ n \in Nat /\ DOMAIN InOrder(q) = 1 .. n /\ DOMAIN Todo(r) = 1 .. n
        /\ opIdx[r] \in Nat \ {0}
        /\ \A i \in 1 .. n :
               /\ Todo(r)[i].calls = InOrder(q)[i].calls
               /\ Todo(r)[i].kind # "DELETE" <=> i > Len(q.delete)
    BY <1>1, TodoFacts
  <1>3. \A i \in 1 .. n : i < opIdx[r]
    BY <1>2
  <1>4. Staged(r, l) = Touching(q, l)
    BY <1>1, <1>2, <1>3 DEF Staged, Made, Touching, Touches
  <1>5. Touching(q, l) # {} /\ Touching(q, l) \in SUBSET (0 .. n)
    BY <1>1, <1>2 DEF Touched, Touching
  <1>6. \E i \in Touching(q, l) : \A k \in Touching(q, l) : k <= i
    BY <1>2, <1>5, GreatestExists
  <1>7. PICK last : last = CHOOSE i \in Touching(q, l) :
                                \A k \in Touching(q, l) : k <= i
    OBVIOUS
  <1>8. last \in Touching(q, l) /\ \A k \in Touching(q, l) : k <= last
    BY <1>6, <1>7
  <1>9. LastStaged(r, l, last)
    BY <1>4, <1>8 DEF LastStaged
  <1>10. Effect(r, q)[l] = [by |-> r, op |-> last, present |-> last > Len(q.delete)]
    BY <1>1, <1>7 DEF Effect
  <1>11. last \in 1 .. n
    BY <1>2, <1>8 DEF Touching
  <1>12. (Todo(r)[last].kind # "DELETE") = (last > Len(q.delete))
    BY <1>2, <1>11
  <1> QED
    BY <1>1, <1>9, <1>10, <1>12 DEF Written

LEMMA InPlaceSuffices ==
    TypeOK /\ InPlace /\ OkIsDone /\ OkLeavesNoEdits => UncontendedSetTakesEffect
  <1> SUFFICES ASSUME TypeOK, InPlace, OkIsDone, OkLeavesNoEdits,
                      NEW r \in SetsOK, NEW l \in Touched(setReq[r]), Own(r, l)
               PROVE  LET c == Effect(r, setReq[r])[l]
                      IN  /\ \E n \in DOMAIN log : log[n][l] = c
                          /\ Running[l] = c \/ Running[l].by \in Peer
    BY DEF UncontendedSetTakesEffect, Own
  <1>1. r \in SetRpc /\ l \in Leaf /\ opIdx[r] \notin DOMAIN Todo(r)
    BY DEF SetsOK, Touched, OkIsDone
  <1>2. PICK i : LastStaged(r, l, i) /\ Written(r, i) = Effect(r, setReq[r])[l]
    BY <1>1, EffectIsWritten
  <1>3. Holds(l, Written(r, i))
    BY <1>1, <1>2 DEF InPlace
  <1>4. l \notin DOMAIN edits
    BY <1>3 DEF Holds, Written, OkLeavesNoEdits
  <1> QED
    BY <1>2, <1>3, <1>4 DEF Holds

\* However the Sets interleave on the session they share, one that returned OK
\* has had its effect on every leaf that no other request names.
THEOREM SetsTakeEffect == Spec => []UncontendedSetTakesEffect
  <1>1. Init => InPlace /\ OkIsDone
    BY InPlaceInit DEF Init, SetInit, OkIsDone, SetsOK
  <1>2. TypeOK /\ InPlace /\ [Next]_vars => InPlace'
    BY InPlaceNext
  <1>3. TypeOK /\ OkIsDone /\ [Next]_vars => OkIsDone'
    BY OkIsDoneNext
  <1>4. TypeOK /\ InPlace /\ OkIsDone /\ OkLeavesNoEdits
            => UncontendedSetTakesEffect
    BY InPlaceSuffices
  <1> QED
    BY <1>1, <1>2, <1>3, <1>4, TypeCorrect, OkSetsLeaveNoEdits, PTL DEF Spec

-----------------------------------------------------------------------------
(***************************************************************************)
(* GnmiSerial: the refinement of SetTransaction, for any leaves, Sets, Gets*)
(* and peers, and any requests that are refused early or carried out.  The *)
(* invariant says that one RPC is under way at a time and that the session *)
(* holds what its Set has staged so far, and nothing else.                 *)
(***************************************************************************)
OneAtATime == \A a, b \in InFlight : a = b

NotStarted ==
    \A r \in SetRpc : setState[r] = "idle" => opIdx[r] = 1 /\ callIdx[r] = 1

\* A Set that is under way has met nothing to refuse it for.
NothingRefused ==
    \A r \in SetRpc : setState[r] = "ops" =>
        /\ ~setReq[r].extension
        /\ \A i \in DOMAIN Todo(r) :
               i < opIdx[r] => Todo(r)[i].form # "unsupported"

\* What it has staged is all there is on the session...
EditsAreStaged ==
    \A r \in SetRpc, l \in Leaf : setState[r] = "ops" =>
        /\ l \in DOMAIN edits <=> Staged(r, l) # {}
        /\ \A i : LastStaged(r, l, i) => edits[l] = Written(r, i)

\* ... and when no Set is under way, there is nothing.
NothingLeft == (\A r \in SetRpc : setState[r] # "ops") => DOMAIN edits = {}

SerialInv ==
    OneAtATime /\ NotStarted /\ NothingRefused /\ EditsAreStaged /\ NothingLeft

-----------------------------------------------------------------------------
\* A client that waits for every response sends when nothing is under way.
LEMMA NothingInFlight ==
    ASSUME Serial, OneAtATime, ClientMaySend
    PROVE  InFlight = {}
  <1> SUFFICES ASSUME NEW a \in InFlight PROVE FALSE
    OBVIOUS
  <1>1. InFlight = {a}
    BY DEF OneAtATime
  <1>2. Cardinality(InFlight) = 1
    BY <1>1, FS_Singleton
  <1>3. Cardinality(InFlight) < 1
    BY DEF ClientMaySend, Serial
  <1> QED
    BY <1>2, <1>3

\* A step after which no more RPCs are under way than before.
LEMMA FewerInFlight ==
    ASSUME OneAtATime,
           \A r \in SetRpc : setState'[r] = "ops" => setState[r] = "ops",
           \A g \in GetRpc : getState'[g] \in {"refresh", "read"}
                                => getState[g] \in {"refresh", "read"}
    PROVE  OneAtATime'
  <1>1. InFlight' \subseteq InFlight
    BY DEF InFlight
  <1> QED
    BY <1>1 DEF OneAtATime

LEMMA OneNext ==
    ASSUME Serial, TypeOK, OneAtATime, [Next]_vars
    PROVE  OneAtATime'
  <1>0. /\ setState \in [SetRpc -> {"idle", "ops", "OK", "ERROR"}]
        /\ getState \in [GetRpc -> {"idle", "refresh", "read", "OK", "ERROR"}]
    BY DEF TypeOK, SetTypeOK, GetTypeOK
  <1>1. ASSUME NEW r \in SetRpc, SetArrives(r)
        PROVE  OneAtATime'
    <2>1. InFlight = {}
      BY <1>1, NothingInFlight DEF SetArrives
    <2>2. InFlight' \subseteq {r}
      BY <1>0, <1>1, <2>1 DEF SetArrives, SetBegin, Return, getVars, InFlight
    <2> QED
      BY <2>2 DEF OneAtATime
  <1>2. ASSUME NEW g \in GetRpc, GetArrives(g)
        PROVE  OneAtATime'
    <2>1. InFlight = {}
      BY <1>2, NothingInFlight DEF GetArrives
    <2>2. InFlight' \subseteq {g}
      BY <1>0, <1>2, <2>1 DEF GetArrives, GetBegin, setVars, InFlight
    <2> QED
      BY <2>2 DEF OneAtATime
  <1>3. ASSUME NEW r \in SetRpc, SetRuns(r)
        PROVE  OneAtATime'
    <2>1. getState' = getState
      BY <1>3 DEF SetRuns, getVars
    <2>2. \A s \in SetRpc : setState'[s] = "ops" => setState[s] = "ops"
      BY <1>0, <1>3 DEF SetRuns, SetStep, SessionCall, CallThrows,
            OperationDone, OperationRejected, SetCommit, CommitThrows, Return
    <2> QED
      BY <2>1, <2>2, FewerInFlight
  <1>4. ASSUME NEW g \in GetRpc, GetRuns(g)
        PROVE  OneAtATime'
    <2>1. setState' = setState
      BY <1>4 DEF GetRuns, setVars
    <2>2. \A h \in GetRpc : getState'[h] \in {"refresh", "read"}
                                => getState[h] \in {"refresh", "read"}
      BY <1>0, <1>4 DEF GetRuns, GetStep, GetRefresh, GetRefreshThrows, GetRead,
            GetReadFails, GetReturn
    <2> QED
      BY <2>1, <2>2, FewerInFlight
  <1>5. CASE UNCHANGED <<setVars, getVars>>
    BY <1>5, FewerInFlight DEF setVars, getVars
  <1> QED
    BY <1>1, <1>2, <1>3, <1>4, <1>5 DEF Next, PeerRuns, vars

-----------------------------------------------------------------------------
\* At its first call a Set has staged nothing.
LEMMA NothingMade ==
    ASSUME TypeOK, NEW r \in SetRpc, NEW l, opIdx[r] = 1, callIdx[r] = 1
    PROVE  Staged(r, l) = {}
  <1> SUFFICES ASSUME NEW i \in DOMAIN Todo(r),
                      NEW j \in DOMAIN Todo(r)[i].calls, Made(r, i, j)
               PROVE  FALSE
    BY DEF Staged
  <1>1. i \in Nat \ {0} /\ Todo(r)[i].calls \in Seq(SUBSET Leaf)
    BY TodoFacts
  <1>2. j \in Nat \ {0}
    BY <1>1
  <1> QED
    BY <1>1, <1>2 DEF Made

\* A Set that meets a value it cannot store has staged nothing yet.
LEMMA RejectedEarly ==
    ASSUME Serial, TypeOK, NothingRefused, EditsAreStaged,
           NEW r \in SetRpc, OperationRejected(r)
    PROVE  ~Transaction!Acceptable(setReq[r]) /\ DOMAIN edits = {}
  <1>1. PICK q, k : q = setReq[r] /\ k = opIdx[r]
    OBVIOUS
  <1>2. /\ setState[r] = "ops"
        /\ k \in DOMAIN Todo(r) /\ Todo(r)[k].form = "unsupported"
    BY <1>1 DEF OperationRejected, AfterCalls, AtOperation, Op
  <1>3. /\ DOMAIN InOrder(q) = 1 .. Len(InOrder(q)) /\ Len(InOrder(q)) \in Nat
        /\ DOMAIN Todo(r) = DOMAIN InOrder(q) /\ k \in Nat
        /\ \A i \in DOMAIN Todo(r) :
               /\ Todo(r)[i].form = InOrder(q)[i].form
               /\ Todo(r)[i].calls = InOrder(q)[i].calls
    BY <1>1, TodoFacts
  <1>4. ~Transaction!Acceptable(q)
    BY <1>2, <1>3 DEF Transaction!Acceptable, Transaction!InOrder, InOrder
  <1>5. q \in SetRequest /\ ~q.extension
    BY <1>1, <1>2 DEF TypeOK, SetTypeOK, NothingRefused
  <1>6. PICK i \in DOMAIN InOrder(q) :
            /\ InOrder(q)[i].form = "unsupported"
            /\ \A m \in 1 .. i : InOrder(q)[m].calls = <<>>
    BY <1>4, <1>5 DEF Serial, RefusedEarly
  <1>7. k <= i
    <2>1. ~(i < k)
      BY <1>1, <1>2, <1>3, <1>6 DEF NothingRefused
    <2> QED
      BY <1>3, <1>6, <2>1
  <1>8. ASSUME NEW l \in Leaf
        PROVE  Staged(r, l) = {}
    <2> SUFFICES ASSUME NEW m \in DOMAIN Todo(r),
                        NEW j \in DOMAIN Todo(r)[m].calls, Made(r, m, j)
                 PROVE  FALSE
      BY DEF Staged
    <2>1. m \in 1 .. i
      BY <1>1, <1>3, <1>6, <1>7 DEF Made
    <2>2. DOMAIN Todo(r)[m].calls = {}
      BY <1>3, <1>6, <2>1
    <2> QED
      BY <2>2
  <1>9. DOMAIN edits \subseteq Leaf
    BY DEF TypeOK, SysrepoTypeOK
  <1> QED
    BY <1>1, <1>2, <1>4, <1>8, <1>9 DEF EditsAreStaged

\* At its commit it has staged its whole effect, which sysrepo accepts.
LEMMA CommitsEffect ==
    ASSUME Serial, TypeOK, NothingRefused, EditsAreStaged,
           NEW r \in SetRpc, AtCommit(r)
    PROVE  /\ Transaction!Acceptable(setReq[r])
           /\ edits = Effect(r, setReq[r])
           /\ EditsValid
  <1>1. PICK q : q = setReq[r]
    OBVIOUS
  <1>2. /\ DOMAIN InOrder(q) = 1 .. Len(InOrder(q)) /\ Len(InOrder(q)) \in Nat
        /\ DOMAIN Todo(r) = DOMAIN InOrder(q) /\ opIdx[r] \in Nat \ {0}
        /\ \A i \in DOMAIN Todo(r) : Todo(r)[i].form = InOrder(q)[i].form
    BY <1>1, TodoFacts
  <1>3. setState[r] = "ops" /\ opIdx[r] \notin DOMAIN Todo(r)
    BY DEF AtCommit
  <1>4. \A i \in DOMAIN InOrder(q) : InOrder(q)[i].form # "unsupported"
    <2>1. \A i \in DOMAIN InOrder(q) : i < opIdx[r]
      BY <1>2, <1>3
    <2> QED
      BY <1>2, <1>3, <2>1 DEF NothingRefused
  <1>5. Transaction!Acceptable(q)
    <2>1. q \in SetRequest /\ ~q.extension
      BY <1>1, <1>3 DEF TypeOK, SetTypeOK, NothingRefused
    <2> QED
      BY <1>4, <2>1 DEF Serial, RefusedEarly
  <1>6. q.valid
    BY <1>5 DEF Transaction!Acceptable
  <1>7. ASSUME NEW l \in Touched(q)
        PROVE  l \in DOMAIN edits /\ edits[l] = Effect(r, q)[l]
    <2>1. l \in Leaf
      BY DEF Touched
    <2>2. PICK i : LastStaged(r, l, i) /\ Written(r, i) = Effect(r, q)[l]
      BY <1>1, <1>3, EffectIsWritten
    <2>3. Staged(r, l) # {}
      BY <2>2 DEF LastStaged
    <2> QED
      BY <1>3, <2>1, <2>2, <2>3 DEF EditsAreStaged
  <1>8. ASSUME NEW l \in DOMAIN edits
        PROVE  l \in Touched(q)
    <2>1. l \in Leaf
      BY DEF TypeOK, SysrepoTypeOK
    <2>2. PICK i \in Staged(r, l) : TRUE
      BY <1>3, <2>1 DEF EditsAreStaged
    <2>3. i \in DOMAIN Todo(r)
      BY <2>2 DEF Staged
    <2>4. PICK j \in DOMAIN Todo(r)[i].calls : l \in Todo(r)[i].calls[j]
      BY <2>2 DEF Staged
    <2> QED
      BY <1>1, <2>3, <2>4, CallTouches
  <1>9. PICK L \in SUBSET Leaf : edits \in [L -> Cell]
    BY DEF TypeOK, SysrepoTypeOK
  <1>10. edits = Effect(r, q)
    <2>1. Effect(r, q) = [l \in Touched(q) |-> Effect(r, q)[l]]
      BY DEF Effect
    <2>2. edits = [l \in L |-> edits[l]] /\ L = DOMAIN edits
      BY <1>9
    <2>3. L = Touched(q)
      BY <1>7, <1>8, <2>2
    <2> QED
      BY <1>7, <2>1, <2>2, <2>3
  <1>11. \A l \in DOMAIN edits : edits[l].by = r
    <2>1. \A l \in Touched(q) : Effect(r, q)[l].by = r
      BY DEF Effect
    <2> QED
      BY <1>8, <1>10, <2>1
  <1> QED
    BY <1>1, <1>5, <1>6, <1>10, <1>11 DEF EditsValid
-----------------------------------------------------------------------------
LEMMA OnlySet ==
    ASSUME OneAtATime, NEW r \in SetRpc, NEW s \in SetRpc,
           setState[r] = "ops", setState[s] = "ops"
    PROVE  r = s
  BY DEF OneAtATime, InFlight

LEMMA ArrivesSerial ==
    ASSUME Serial, TypeOK, SerialInv, NEW r \in SetRpc, SetArrives(r)
    PROVE  NotStarted' /\ NothingRefused' /\ EditsAreStaged' /\ NothingLeft'
  <1>1. /\ UNCHANGED <<log, edits, setReq, opIdx, callIdx>>
        /\ setState[r] = "idle"
        /\ setState' = [setState EXCEPT ![r] =
                            IF setReq[r].extension THEN "ERROR" ELSE "ops"]
    BY DEF SetArrives, SetBegin, Return, sysrepoVars
  <1>2. setState \in [SetRpc -> {"idle", "ops", "OK", "ERROR"}]
    BY DEF TypeOK, SetTypeOK
  <1>3. \A s \in SetRpc : setState[s] # "ops"
    <2>1. InFlight = {}
      BY NothingInFlight DEF SetArrives, SerialInv
    <2> QED
      BY <2>1 DEF InFlight
  <1>4. DOMAIN edits = {}
    BY <1>3 DEF SerialInv, NothingLeft
  <1>5. NotStarted' /\ NothingLeft'
    BY <1>1, <1>2, <1>4 DEF SerialInv, NotStarted, NothingLeft
  <1>6. opIdx[r] = 1 /\ callIdx[r] = 1
    BY <1>1 DEF SerialInv, NotStarted
  <1>7. ASSUME NEW s \in SetRpc, setState'[s] = "ops"
        PROVE  s = r /\ ~setReq[r].extension
    BY <1>1, <1>2, <1>3, <1>7
  <1>8. Todo(r)' = Todo(r)
    BY <1>1 DEF Todo
  <1>9. NothingRefused'
    <2>1. \A i \in DOMAIN Todo(r) : ~(i < 1)
      BY TodoFacts
    <2> QED
      BY <1>1, <1>6, <1>7, <1>8, <2>1 DEF NothingRefused
  <1>10. EditsAreStaged'
    <2>1. \A l : Staged(r, l)' = {}
      BY <1>1, <1>6, NothingMade, StagedKept
    <2>2. \A l, i : ~LastStaged(r, l, i)'
      BY <2>1 DEF LastStaged
    <2> QED
      BY <1>1, <1>4, <1>7, <2>1, <2>2 DEF EditsAreStaged
  <1> QED
    BY <1>5, <1>9, <1>10

LEMMA CallSerial ==
    ASSUME Serial, TypeOK, SerialInv, NEW r \in SetRpc, SessionCall(r)
    PROVE  NotStarted' /\ NothingRefused' /\ EditsAreStaged' /\ NothingLeft'
  <1>1. /\ UNCHANGED <<setReq, setState, opIdx>>
        /\ setState[r] = "ops"
        /\ \A s \in SetRpc \ {r} : callIdx'[s] = callIdx[s]
    BY DEF SessionCall, AtCall, AtOperation, TypeOK, SetTypeOK
  <1>2. NotStarted' /\ NothingLeft'
    BY <1>1 DEF SerialInv, NotStarted, NothingLeft
  <1>3. NothingRefused'
    BY <1>1 DEF SerialInv, NothingRefused, Todo
  <1>4. EditsAreStaged'
    <2> SUFFICES ASSUME NEW l \in Leaf
                 PROVE  /\ l \in DOMAIN edits' <=> Staged(r, l)' # {}
                        /\ \A i : LastStaged(r, l, i)'
                                        => edits'[l] = Written(r, i)'
      BY <1>1, OnlySet DEF SerialInv, EditsAreStaged
    <2>1. /\ l \in DOMAIN edits <=> Staged(r, l) # {}
          /\ \A i : LastStaged(r, l, i) => edits[l] = Written(r, i)
      BY <1>1 DEF SerialInv, EditsAreStaged
    <2>2. \A i : Written(r, i)' = Written(r, i)
      BY CallStages
    <2>3. CASE /\ l \in DOMAIN edits' /\ Staged(r, l)' # {}
               /\ \A i : LastStaged(r, l, i)' => edits'[l] = Written(r, i)
      BY <2>2, <2>3
    <2>4. CASE /\ Staged(r, l)' = Staged(r, l)
               /\ l \in DOMAIN edits <=> l \in DOMAIN edits'
               /\ l \in DOMAIN edits => edits'[l] = edits[l]
      <3>1. \A i : LastStaged(r, l, i)' => LastStaged(r, l, i) /\ Staged(r, l) # {}
        BY <2>4 DEF LastStaged
      <3> QED
        BY <2>1, <2>2, <2>4, <3>1
    <2> QED
      BY <2>3, <2>4, CallStages
  <1> QED
    BY <1>2, <1>3, <1>4

LEMMA DoneSerial ==
    ASSUME Serial, TypeOK, SerialInv, NEW r \in SetRpc, OperationDone(r)
    PROVE  NotStarted' /\ NothingRefused' /\ EditsAreStaged' /\ NothingLeft'
  <1>1. /\ UNCHANGED <<log, edits, setReq, setState>>
        /\ setState[r] = "ops"
        /\ opIdx[r] \in DOMAIN Todo(r) /\ opIdx'[r] = opIdx[r] + 1
        /\ Todo(r)[opIdx[r]].form # "unsupported"
        /\ \A s \in SetRpc \ {r} : opIdx'[s] = opIdx[s] /\ callIdx'[s] = callIdx[s]
    BY DEF OperationDone, AfterCalls, AtOperation, Op, sysrepoVars, TypeOK,
          SetTypeOK
  <1>2. NotStarted' /\ NothingLeft'
    BY <1>1 DEF SerialInv, NotStarted, NothingLeft
  <1>3. Todo(r)' = Todo(r)
    BY <1>1 DEF Todo
  <1>4. NothingRefused'
    <2>1. \A i \in DOMAIN Todo(r) : i < opIdx[r] + 1 => i < opIdx[r] \/ i = opIdx[r]
      BY TodoFacts
    <2>2. \A i \in DOMAIN Todo(r) :
              i < opIdx'[r] => Todo(r)[i].form # "unsupported"
      BY <1>1, <2>1 DEF SerialInv, NothingRefused
    <2>3. \A s \in SetRpc : setState'[s] = "ops" => s = r
      BY <1>1, OnlySet DEF SerialInv
    <2> QED
      BY <1>1, <1>3, <2>2, <2>3 DEF SerialInv, NothingRefused
  <1>5. EditsAreStaged'
    <2> SUFFICES ASSUME NEW l \in Leaf
                 PROVE  /\ l \in DOMAIN edits' <=> Staged(r, l)' # {}
                        /\ \A i : LastStaged(r, l, i)'
                                        => edits'[l] = Written(r, i)'
      BY <1>1, OnlySet DEF SerialInv, EditsAreStaged
    <2>1. /\ l \in DOMAIN edits <=> Staged(r, l) # {}
          /\ \A i : LastStaged(r, l, i) => edits[l] = Written(r, i)
      BY <1>1 DEF SerialInv, EditsAreStaged
    <2>2. /\ Staged(r, l)' = Staged(r, l)
          /\ \A i : Written(r, i)' = Written(r, i)
      BY StagedDone
    <2> QED
      BY <1>1, <2>1, <2>2 DEF LastStaged
  <1> QED
    BY <1>2, <1>4, <1>5

\* The Set returns, and leaves nothing on the session.
LEMMA ReturnsSerial ==
    ASSUME Serial, TypeOK, SerialInv, NEW r \in SetRpc, setState[r] = "ops",
           NEW status \in {"OK", "ERROR"}, Return(r, status), DOMAIN edits' = {}
    PROVE  NotStarted' /\ NothingRefused' /\ EditsAreStaged' /\ NothingLeft'
  <1>1. /\ UNCHANGED <<setReq, opIdx, callIdx>>
        /\ setState' = [setState EXCEPT ![r] = status]
        /\ setState \in [SetRpc -> {"idle", "ops", "OK", "ERROR"}]
    BY DEF Return, TypeOK, SetTypeOK
  <1>2. \A s \in SetRpc : setState'[s] # "ops"
    BY <1>1, OnlySet DEF SerialInv
  <1>3. NotStarted'
    BY <1>1 DEF SerialInv, NotStarted
  <1> QED
    BY <1>2, <1>3 DEF NothingRefused, EditsAreStaged, NothingLeft

\* How a Set returns: refused early, or with its effect committed.
LEMMA SetReturns ==
    ASSUME Serial, TypeOK, SerialInv, NEW r \in SetRpc,
           CallThrows(r) \/ OperationRejected(r) \/ SetCommit(r) \/ CommitThrows(r)
    PROVE  /\ setState[r] = "ops"
           /\ \/ /\ ~Transaction!Acceptable(setReq[r])
                 /\ DOMAIN edits = {} /\ UNCHANGED sysrepoVars
                 /\ Return(r, "ERROR")
              \/ /\ Transaction!Acceptable(setReq[r])
                 /\ edits = Effect(r, setReq[r]) /\ Commit
                 /\ Return(r, "OK")
  <1>1. setState[r] = "ops"
    BY DEF CallThrows, OperationRejected, SetCommit, CommitThrows, AtCall,
          AfterCalls, AtOperation, AtCommit
  <1>2. ~CallThrows(r)
    BY DEF CallThrows, Serial
  <1>3. CASE OperationRejected(r)
    BY <1>1, <1>3, RejectedEarly DEF OperationRejected, SerialInv
  <1>4. CASE SetCommit(r)
    BY <1>1, <1>4, CommitsEffect DEF SetCommit, SerialInv
  <1>5. ~CommitThrows(r)
    BY CommitsEffect DEF CommitThrows, Serial, SerialInv
  <1> QED
    BY <1>2, <1>3, <1>4, <1>5

LEMMA SetStepSerial ==
    ASSUME Serial, TypeOK, SerialInv, NEW r \in SetRpc, SetStep(r)
    PROVE  NotStarted' /\ NothingRefused' /\ EditsAreStaged' /\ NothingLeft'
  <1>1. CASE SessionCall(r)
    BY <1>1, CallSerial
  <1>2. CASE OperationDone(r)
    BY <1>2, DoneSerial
  <1>3. CASE CallThrows(r) \/ OperationRejected(r) \/ SetCommit(r) \/ CommitThrows(r)
    <2>1. DOMAIN edits' = {}
      BY <1>3, SetReturns DEF Commit, NoEdits, sysrepoVars
    <2> QED
      BY <1>3, <2>1, SetReturns, ReturnsSerial
  <1> QED
    BY <1>1, <1>2, <1>3 DEF SetStep

LEMMA OthersSerial ==
    ASSUME SerialInv, UNCHANGED <<setVars, edits>>
    PROVE  NotStarted' /\ NothingRefused' /\ EditsAreStaged' /\ NothingLeft'
  <1> USE DEF SerialInv, setVars
  <1>1. NotStarted' /\ NothingLeft'
    BY DEF NotStarted, NothingLeft
  <1>2. NothingRefused'
    BY DEF NothingRefused, Todo
  <1>3. \A r \in SetRpc : \A l :
            /\ Staged(r, l)' = Staged(r, l)
            /\ \A i : Written(r, i)' = Written(r, i)
    BY StagedKept
  <1>4. EditsAreStaged'
    BY <1>3 DEF EditsAreStaged, LastStaged
  <1> QED
    BY <1>1, <1>2, <1>4

LEMMA SerialNext ==
    ASSUME Serial, TypeOK, SerialInv, [Next]_vars
    PROVE  SerialInv'
  <1>1. OneAtATime'
    BY OneNext DEF SerialInv
  <1>2. CASE \E r \in SetRpc : SetArrives(r)
    BY <1>1, <1>2, ArrivesSerial DEF SerialInv
  <1>3. CASE \E r \in SetRpc : SetRuns(r)
    BY <1>1, <1>3, SetStepSerial DEF SetRuns, SerialInv
  <1>4. CASE UNCHANGED <<setVars, edits>>
    BY <1>1, <1>4, OthersSerial DEF SerialInv
  <1>5. CASE \E g \in GetRpc : GetArrives(g) \/ GetRuns(g)
    BY <1>4, <1>5 DEF GetArrives, GetBegin, GetRuns, GetStep, GetRefresh,
          Refresh, GetRefreshThrows, GetRead, GetReadFails, sysrepoVars
  <1>6. CASE \E p \in Peer : PeerRuns(p)
    BY <1>4, <1>6 DEF PeerRuns, PeerCommit
  <1>7. CASE UNCHANGED vars
    BY <1>4, <1>7 DEF vars, sysrepoVars
  <1> QED
    BY <1>2, <1>3, <1>5, <1>6, <1>7 DEF Next

LEMMA SerialInit == Init => SerialInv
  BY DEF Init, SysrepoInit, SetInit, GetInit, NoEdits, SerialInv, OneAtATime,
         InFlight, NotStarted, NothingRefused, EditsAreStaged, NothingLeft

-----------------------------------------------------------------------------
(***************************************************************************)
(* Every step is one of SetTransaction or leaves store, requests and       *)
(* outcomes as they are.                                                   *)
(***************************************************************************)
LEMMA StillPending ==
    ASSUME \A s \in SetRpc :
               setState'[s] \in Answered \/ setState[s] \in Answered
                   => setState'[s] = setState[s]
    PROVE  Outcome' = Outcome
  BY DEF Outcome

LEMMA Resolved ==
    ASSUME TypeOK, NEW r \in SetRpc, setState[r] \in {"idle", "ops"},
           NEW status \in {"OK", "ERROR"}, Return(r, status)
    PROVE  Transaction!Resolve(r, status)
  <1>1. /\ setReq' = setReq
        /\ setState' = [setState EXCEPT ![r] = status]
        /\ setState \in [SetRpc -> {"idle", "ops", "OK", "ERROR"}]
    BY DEF Return, TypeOK, SetTypeOK
  <1>2. Outcome[r] = "pending"
    BY DEF Outcome, Answered
  <1>3. Outcome' = [Outcome EXCEPT ![r] = status]
    BY <1>1 DEF Outcome, Answered
  <1> QED
    BY <1>1, <1>2, <1>3 DEF Transaction!Resolve

\* SetTransaction means the same effect.
LEMMA SameEffect == \A r, q : Transaction!Effect(r, q) = Effect(r, q)
  <1>1. \A q : Transaction!InOrder(q) = InOrder(q)
    BY DEF Transaction!InOrder, InOrder
  <1>2. \A o, l : Transaction!Touches(o, l) <=> Touches(o, l)
    BY DEF Transaction!Touches, Touches
  <1>3. \A q, l : Transaction!Touching(q, l) = Touching(q, l)
    BY <1>1, <1>2 DEF Transaction!Touching, Touching
  <1>4. \A q : Transaction!Touched(q) = Touched(q)
    BY <1>3 DEF Transaction!Touched, Touched
  <1> QED
    BY <1>3, <1>4 DEF Transaction!Effect, Effect

LEMMA CommitRuns ==
    ASSUME SysrepoTypeOK, Commit
    PROVE  Running' = Over(edits, Running)
  <1>1. log' = Append(log, Over(edits, Running)) /\ log \in Seq([Leaf -> Cell])
    BY DEF Commit, SysrepoTypeOK
  <1>2. Len(log') = Len(log) + 1 /\ log'[Len(log) + 1] = Over(edits, Running)
    BY <1>1
  <1> QED
    BY <1>2 DEF Running

LEMMA SetStepSimulates ==
    ASSUME Serial, TypeOK, SerialInv, NEW r \in SetRpc, SetStep(r)
    PROVE  \/ Transaction!Apply(r) \/ Transaction!Refuse(r)
           \/ UNCHANGED <<Running, setReq, Outcome>>
  <1>1. CASE SessionCall(r) \/ OperationDone(r)
    <2>1. UNCHANGED <<log, setReq, setState>>
      BY <1>1 DEF SessionCall, Stage, OperationDone, sysrepoVars
    <2> QED
      BY <2>1, StillPending DEF Running
  <1>2. CASE CallThrows(r) \/ OperationRejected(r) \/ SetCommit(r) \/ CommitThrows(r)
    <2>1. setState[r] = "ops"
      BY <1>2, SetReturns
    <2>2. CASE /\ ~Transaction!Acceptable(setReq[r])
               /\ UNCHANGED sysrepoVars /\ Return(r, "ERROR")
      <3>1. Transaction!Resolve(r, "ERROR")
        BY <2>1, <2>2, Resolved
      <3> QED
        BY <2>2, <3>1 DEF Transaction!Refuse, sysrepoVars, Running
    <2>3. CASE /\ Transaction!Acceptable(setReq[r])
               /\ edits = Effect(r, setReq[r]) /\ Commit /\ Return(r, "OK")
      <3>1. Transaction!Resolve(r, "OK")
        BY <2>1, <2>3, Resolved
      <3>2. Running' = Over(Effect(r, setReq[r]), Running)
        BY <2>3, CommitRuns DEF TypeOK
      <3>3. Running' = Transaction!Over(Transaction!Effect(r, setReq[r]), Running)
        BY <3>2, SameEffect DEF Transaction!Over, Over
      <3> QED
        BY <2>3, <3>1, <3>3 DEF Transaction!Apply
    <2> QED
      BY <1>2, <2>2, <2>3, SetReturns
  <1> QED
    BY <1>1, <1>2 DEF SetStep

LEMMA StepSimulates ==
    ASSUME Serial, TypeOK, SerialInv, [Next]_vars
    PROVE  [Transaction!Next]_<<Running, setReq, Outcome>>
  <1>1. CASE \E r \in SetRpc : SetArrives(r)
    <2>1. PICK r \in SetRpc : SetArrives(r)
      BY <1>1
    <2>2. UNCHANGED <<sysrepoVars, setReq>> /\ setState[r] = "idle"
      BY <2>1 DEF SetArrives, SetBegin, Return
    <2>3. CASE setReq[r].extension
      <3>1. Transaction!Resolve(r, "ERROR")
        BY <2>1, <2>2, <2>3, Resolved DEF SetArrives, SetBegin
      <3>2. ~Transaction!Acceptable(setReq[r])
        BY <2>3 DEF Transaction!Acceptable
      <3>3. Transaction!Refuse(r)
        BY <2>2, <3>1, <3>2 DEF Transaction!Refuse, sysrepoVars, Running
      <3> QED
        BY <3>3 DEF Transaction!Next
    <2>4. CASE ~setReq[r].extension
      <3>1. setState' = [setState EXCEPT ![r] = "ops"]
        BY <2>1, <2>4 DEF SetArrives, SetBegin, Return
      <3>2. Outcome' = Outcome
        BY <2>2, <3>1, StillPending DEF Answered, TypeOK, SetTypeOK
      <3> QED
        BY <2>2, <3>2 DEF sysrepoVars, Running
    <2> QED
      BY <2>3, <2>4
  <1>2. CASE \E r \in SetRpc : SetRuns(r)
    BY <1>2, SetStepSimulates DEF SetRuns, Transaction!Next
  <1>3. CASE UNCHANGED <<setVars, log>>
    BY <1>3, StillPending DEF setVars, Running
  <1>4. CASE \E g \in GetRpc : GetArrives(g) \/ GetRuns(g)
    BY <1>3, <1>4 DEF GetArrives, GetBegin, GetRuns, GetStep, GetRefresh,
          Refresh, GetRefreshThrows, GetRead, GetReadFails, sysrepoVars
  <1>5. CASE \E p \in Peer : PeerRuns(p)
    <2>1. PICK p \in Peer : PeerRuns(p)
      BY <1>5
    <2>2. UNCHANGED <<setReq, setState>> /\ PeerCommit(p)
      BY <2>1 DEF PeerRuns, setVars
    <2>3. Outcome' = Outcome
      BY <2>2, StillPending
    <2>4. PICK L \in (SUBSET Leaf) \ {{}}, present \in BOOLEAN :
              log' = Append(log, Over(PeerChange(p, L, present), Running))
      BY <2>2 DEF PeerCommit
    <2>5. Running' = Over(PeerChange(p, L, present), Running)
      BY <2>4 DEF Running, TypeOK, SysrepoTypeOK
    <2>6. Running' = Transaction!Over(Transaction!PeerChange(p, L, present), Running)
      BY <2>5 DEF Transaction!Over, Over, Transaction!PeerChange, PeerChange
    <2> QED
      BY <2>2, <2>3, <2>6 DEF Transaction!PeerWrite, Transaction!Next
  <1>6. CASE UNCHANGED vars
    BY <1>3, <1>6 DEF vars, sysrepoVars
  <1> QED
    BY <1>1, <1>2, <1>4, <1>5, <1>6 DEF Next

LEMMA InitSimulates == Init => Transaction!Init
  <1> SUFFICES ASSUME Init PROVE Transaction!Init
    OBVIOUS
  <1>1. Running = Transaction!Initially
    BY DEF Init, SysrepoInit, Running, Transaction!Initially, Initially
  <1>2. setReq \in [SetRpc -> Transaction!Request]
    BY RequestsTyped DEF Init, SetInit, Transaction!Request, Request,
          Transaction!Operation, Operation, Transaction!Form, Form
  <1>3. Outcome = [r \in SetRpc |-> "pending"]
    BY DEF Init, SetInit, Outcome, Answered
  <1> QED
    BY <1>1, <1>2, <1>3 DEF Transaction!Init

\* A client that waits for every response sees what the protocol promises:
\* each Set is carried out in one step, as a whole, or refused without a
\* trace (set.cpp:108-190).
THEOREM SerialSetsAreTransactions ==
    ASSUME Serial
    PROVE  Spec => SetsAreTransactions
  <1>1. Init => SerialInv /\ Transaction!Init
    BY SerialInit, InitSimulates
  <1>2. TypeOK /\ SerialInv /\ [Next]_vars => SerialInv'
    BY SerialNext
  <1>3. TypeOK /\ SerialInv /\ [Next]_vars
            => [Transaction!Next]_<<Running, setReq, Outcome>>
    BY StepSimulates
  <1> QED
    BY <1>1, <1>2, <1>3, TypeCorrect, PTL
    DEF Spec, SetsAreTransactions, Transaction!Spec
=============================================================================
